----------------------------- MODULE KitchenGitMC -----------------------------
(* Small instances of KitchenGit. *)
EXTENDS KitchenGit, TLC

CONSTANTS f1, f2,          \* paths
          r1, r2,          \* regions
          g1, g2,          \* generated region contents
          i1, i2, i3       \* input files

Whole(v) == [r \in Region |-> v]

(* All inputs generate all files; i2 changes one region of f1. *)
SameFiles ==
  [i \in {i1, i2} |-> [p \in Path |->
     [r \in Region |-> IF i = i2 /\ p = f1 /\ r = r1 THEN g2 ELSE g1]]]

(* i2 changes f1; i3 no longer generates it. *)
FileDropped ==
  [i \in {i1, i2, i3} |-> [p \in Path |->
     IF i = i3 /\ p = f1 THEN Absent ELSE Whole(IF i = i1 THEN g1 ELSE g2)]]

=============================================================================
