------------------------------ MODULE VendorMerge ------------------------------
(***************************************************************************)
(* What the generator promises a user who keeps the application in git:    *)
(* each run merges the newly generated code into his version of the        *)
(* application, three ways, with the code generated for the last merge as  *)
(* the base.  So every line he changed stays, every line he left alone     *)
(* follows the generator, and a line both changed is left to him.          *)
(***************************************************************************)
EXTENDS FileMerge

CONSTANTS
  Path, Value, UserValue,
  Input, Output,     \* Output[i]: the tree generated for input i
  UserBranch, Trunk,
  NoMerge            \* no merge in progress

VARIABLES
  tree,      \* tree[x]: the user's version of the application on branch x
  base,      \* base[x]: the generated code last merged into it
  current,   \* the branch the user is on
  pending    \* the generated code being merged while conflicts are open

vars == <<tree, base, current, pending>>

Init ==
  /\ tree = [x \in UserBranch |-> [p \in Path |-> Absent]]
  /\ base = tree
  /\ current = Trunk /\ pending = NoMerge

Edit(p, r, v) ==
  /\ pending = NoMerge
  /\ tree[current][p] # Absent
  /\ tree' = [tree EXCEPT ![current][p][r] = v]
  /\ UNCHANGED <<base, current, pending>>

(* Going to an existing branch, or starting a new one from here. *)
Switch(x) ==
  /\ pending = NoMerge /\ x # current
  /\ current' = x
  /\ \/ UNCHANGED <<tree, base>>
     \/ /\ tree' = [tree EXCEPT ![x] = tree[current]]
        /\ base' = [base EXCEPT ![x] = base[current]]
  /\ UNCHANGED pending

Merged(new) ==
  [p \in Path |-> MergedFile(base[current][p], tree[current][p], new[p])]

Clashing(new) ==
  \E p \in Path : FileClash(base[current][p], tree[current][p], new[p])

Regenerate(new) ==
  /\ pending = NoMerge
  /\ tree' = [tree EXCEPT ![current] = Merged(new)]
  /\ IF Clashing(new)
     THEN pending' = new /\ UNCHANGED base
     ELSE base' = [base EXCEPT ![current] = new] /\ UNCHANGED pending
  /\ UNCHANGED current

Resolve(v) ==
  /\ pending # NoMerge
  /\ tree' = [tree EXCEPT ![current] =
                [p \in Path |-> IF @[p] = Absent THEN Absent
                                ELSE [r \in Region |-> IF @[p][r] = Marker THEN v ELSE @[p][r]]]]
  /\ base' = [base EXCEPT ![current] = pending]
  /\ pending' = NoMerge
  /\ UNCHANGED current

Next ==
  \/ \E p \in Path, r \in Region, v \in UserValue : Edit(p, r, v)
  \/ \E x \in UserBranch : Switch(x)
  \/ \E i \in Input : Regenerate(Output[i])
  \/ \E v \in Value \ {Marker} : Resolve(v)

Spec == Init /\ [][Next]_vars

=============================================================================
