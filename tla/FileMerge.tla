------------------------------- MODULE FileMerge -------------------------------
(***************************************************************************)
(* git's three-way merge of one file, as libgit2 performs it for GitMerge  *)
(* (cppweb/cppw_git.cpp): b is the file in the merge base, o ours, t       *)
(* theirs.  A file is a function from regions (the hunks that diff3 treats *)
(* separately) to values, or Absent.  Renames are not followed.            *)
(***************************************************************************)

CONSTANTS
  Region,          \* regions of a file
  Absent,          \* the file does not exist
  Marker           \* region holding conflict markers

(* Both sides changed the region, and differently; with no base everything *)
(* the sides do not agree on clashes.                                      *)
RegionClash(b, o, t, r) == o[r] # t[r] /\ (b = Absent \/ (b[r] # o[r] /\ b[r] # t[r]))

(* Modified on one side and deleted on the other is a conflict as well.    *)
FileClash(b, o, t) ==
  /\ b # o /\ b # t /\ o # t
  /\ o # Absent /\ t # Absent => \E r \in Region : RegionClash(b, o, t, r)

(* The merged file, with conflict markers in the regions that clash; of a  *)
(* modified and a deleted side the modified one is kept.                   *)
MergedFile(b, o, t) ==
  IF o = t \/ b = t THEN o
  ELSE IF b = o \/ o = Absent THEN t
  ELSE IF t = Absent THEN o
  ELSE [r \in Region |-> IF RegionClash(b, o, t, r) THEN Marker
                         ELSE IF b = Absent \/ b[r] = t[r] THEN o[r] ELSE t[r]]

=============================================================================
