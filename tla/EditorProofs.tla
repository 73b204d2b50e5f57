----------------------------- MODULE EditorProofs -----------------------------
(***************************************************************************)
(* Proofs about the editor: its undo buffer, what a save promises, and     *)
(* that references survive what is done to an application.                 *)
(***************************************************************************)
EXTENDS Editor, KitchenTreeProofs

-----------------------------------------------------------------------------
(* The inductive invariants.                                               *)

\* The pointer is at an entry of the buffer, which never outgrows its limit.
BufferOK ==
    /\ IsSeq(buffer)
    /\ Len(buffer) \in 1 .. UndoLimit
    /\ pointer \in 0 .. Len(buffer) - 1
    /\ recorded \in BOOLEAN

UndoInv == BufferOK /\ UndoTakesBack

IsSave(s) == /\ s = [id |-> s.id, data |-> s.data, state |-> s.state]
             /\ s.id \in Projects

\* The server answers saves in the order of the calls.
QueueOK ==
    /\ IsSeq(saving)
    /\ \A i \in DOMAIN saving : IsSave(saving[i])
    /\ \A i, j \in DOMAIN saving :
          (i < j /\ saving[j].state # "sent") => saving[i].state # "sent"

\* The last save on its way carries the project.
LastSave ==
    LET l == saving[Len(saving)]
    IN  saving # <<>> =>
            /\ l.id = open /\ l.data = project
            /\ l.state # "failed"
            /\ l.state # "sent" => stored[open] = project

SaveInv ==
    /\ open \in Projects
    /\ DOMAIN stored = Projects
    /\ modified \in BOOLEAN /\ overtaken \in BOOLEAN
    /\ QueueOK
    /\ ~overtaken => LastSave
    /\ UnmodifiedIsStored

-----------------------------------------------------------------------------
(* Sequences.                                                              *)

LEMMA TailIsSeq ==
    ASSUME NEW s, IsSeq(s), s # <<>>
    PROVE  /\ IsSeq(Tail(s))
           /\ Len(Tail(s)) = Len(s) - 1
           /\ \A i \in 1 .. Len(s) - 1 : Tail(s)[i] = s[i + 1]
<1> DEFINE S == {s[i] : i \in DOMAIN s}
<1>1. s \in Seq(S)
  BY DEF IsSeq
<1> HIDE DEF S
<1>2. Tail(s) \in Seq(S)
  BY <1>1
<1>3. IsSeq(Tail(s))
  BY <1>2, SeqIsSeq
<1> QED  BY <1>1, <1>3

LEMMA FrontIsSeq ==
    ASSUME NEW s, IsSeq(s), Len(s) > 0
    PROVE  /\ IsSeq(SubSeq(s, 1, Len(s) - 1))
           /\ Len(SubSeq(s, 1, Len(s) - 1)) = Len(s) - 1
           /\ \A i \in 1 .. Len(s) - 1 : SubSeq(s, 1, Len(s) - 1)[i] = s[i]
<1> DEFINE S == {s[i] : i \in DOMAIN s}
<1>1. s \in Seq(S)
  BY DEF IsSeq
<1> HIDE DEF S
<1>2. SubSeq(s, 1, Len(s) - 1) \in Seq(S)
  BY <1>1
<1>3. IsSeq(SubSeq(s, 1, Len(s) - 1))
  BY <1>2, SeqIsSeq
<1> DEFINE n == Len(s) - 1
<1>4. n \in Nat /\ n <= Len(s)
  BY <1>1
<1> HIDE DEF n
<1>5. /\ Len(SubSeq(s, 1, n)) = n
      /\ \A i \in 1 .. n : SubSeq(s, 1, n)[i] = s[i]
  BY <1>1, <1>4
<1> QED  BY <1>3, <1>5 DEF n

-----------------------------------------------------------------------------
(* What an edit does to the buffer.                                        *)

LEMMA KeptEntries ==
    ASSUME BufferOK
    PROVE  \E kept : /\ kept = Kept /\ IsSeq(kept) /\ Len(kept) \in Nat
                     /\ \A i \in 1 .. Len(kept) : i \in DOMAIN buffer /\ kept[i] = buffer[i]
                     /\ (Len(buffer) - 1) - pointer < 2 => Len(kept) = pointer + 1
<1>1. PICK n \in Nat, at \in Nat :
          n = Len(buffer) /\ at = pointer /\ at <= n - 1
  BY LenIsNat DEF BufferOK
<1>2. IsSeq(buffer) /\ Len(buffer) > 0 /\ DOMAIN buffer = 1 .. n
  <2>1. IsSeq(buffer)
    BY DEF BufferOK
  <2> QED  BY <1>1, <2>1, LenIsNat
<1>3. CASE at < n - 1
  <2>1. PICK kept : kept = SubSeq(buffer, 1, Len(buffer) - 1)
    OBVIOUS
  <2>2. /\ IsSeq(kept) /\ Len(kept) = n - 1
        /\ \A i \in 1 .. n - 1 : kept[i] = buffer[i]
    BY <1>1, <1>2, <2>1, FrontIsSeq
  <2>3. kept = Kept
    BY <1>1, <1>3, <2>1, Zenon DEF Kept
  <2>4. n - 1 - at < 2 => Len(kept) = at + 1
    BY <1>3, <2>2
  <2>5. Len(kept) \in Nat
    BY <1>3, <2>2
  <2>6. \A i \in 1 .. Len(kept) : i \in DOMAIN buffer /\ kept[i] = buffer[i]
    BY <1>2, <2>2
  <2> HIDE <2>1
  <2> QED  BY <1>1, <2>2, <2>3, <2>4, <2>5, <2>6
<1>4. CASE ~(at < n - 1)
  <2>1. Kept = buffer
    BY <1>1, <1>4, Zenon DEF Kept
  <2>2. PICK kept : kept = buffer
    OBVIOUS
  <2>3. Len(kept) = n /\ at = n - 1
    BY <1>1, <1>4, <2>2
  <2>4. \A i \in 1 .. Len(kept) : i \in DOMAIN buffer /\ kept[i] = buffer[i]
    BY <1>2, <2>2, <2>3
  <2>5. kept = Kept /\ IsSeq(kept) /\ Len(kept) \in Nat
    BY <1>2, <2>1, <2>2, <2>3
  <2>6. (Len(buffer) - 1) - pointer < 2 => Len(kept) = pointer + 1
    BY <1>1, <2>3
  <2> QED  BY <2>4, <2>5, <2>6
<1> QED  BY <1>3, <1>4

\* The last of the trees is the last entry, and there are no entries but trees
\* and what there was.  If it is one tree, the entry before it is the one that
\* was loaded, unless two or more could have been redone.
LEMMA Pushed ==
    ASSUME BufferOK, NEW ks, IsSeq(ks), Len(ks) >= 1, AddUndoPoints(ks)
    PROVE  /\ IsSeq(buffer') /\ Len(buffer') \in 1 .. UndoLimit
           /\ pointer' = Len(buffer') - 1
           /\ buffer'[pointer' + 1] = ks[Len(ks)]
           /\ (Len(ks) = 1 /\ (Len(buffer) - 1) - pointer < 2)
                 => pointer' > 0 /\ buffer'[pointer'] = buffer[pointer + 1]
           /\ \A i \in DOMAIN buffer' : \/ \E j \in DOMAIN ks : buffer'[i] = ks[j]
                                       \/ \E j \in DOMAIN buffer : buffer'[i] = buffer[j]
<1>0. UndoLimit \in Nat /\ UndoLimit > 1
  BY EditorAssumption
<1>1. PICK kept : /\ kept = Kept /\ IsSeq(kept) /\ Len(kept) \in Nat
                  /\ \A i \in 1 .. Len(kept) : i \in DOMAIN buffer /\ kept[i] = buffer[i]
                  /\ (Len(buffer) - 1) - pointer < 2 => Len(kept) = pointer + 1
  BY KeptEntries
<1>2. PICK all : all = kept \o ks
  OBVIOUS
<1>3. PICK d : d = IF Len(all) > UndoLimit THEN Len(all) - UndoLimit ELSE 0
  OBVIOUS
<1>4. PICK new : new = SubSeq(all, d + 1, Len(all))
  OBVIOUS
<1>5. buffer' = new /\ pointer' = Len(new) - 1
  BY <1>1, <1>2, <1>3, <1>4, Zenon DEF AddUndoPoints
<1>6. Len(ks) \in Nat /\ DOMAIN ks = 1 .. Len(ks)
  BY LenIsNat
<1>7. /\ IsSeq(all) /\ Len(all) = Len(kept) + Len(ks)
      /\ \A i \in 1 .. Len(kept) : all[i] = kept[i]
      /\ \A i \in 1 .. Len(ks) : all[Len(kept) + i] = ks[i]
  <2>1. IsSeq(kept) /\ IsSeq(ks)
    BY <1>1
  <2>2. IsSeq(all)
    BY <1>2, <2>1, ConcatIsSeq, Zenon
  <2>3. Len(all) = Len(kept) + Len(ks)
    BY <1>2, <2>1, ConcatIsSeq, Zenon
  <2>4. \A i \in 1 .. Len(kept) : all[i] = kept[i]
    BY <1>2, <2>1, ConcatIsSeq
  <2>5. \A i \in 1 .. Len(ks) : all[Len(kept) + i] = ks[i]
    BY <1>2, <2>1, ConcatIsSeq
  <2> QED  BY <2>2, <2>3, <2>4, <2>5
<1>8. PICK n \in Nat : n = Len(all)
  BY <1>1, <1>6, <1>7
<1>9. d \in Nat /\ n - d \in 1 .. UndoLimit /\ (n > 1 => n - d > 1) /\ d <= n
  <2>1. n >= 1
    BY <1>1, <1>6, <1>7, <1>8
  <2>2. d = IF n > UndoLimit THEN n - UndoLimit ELSE 0
    BY <1>3, <1>8
  <2> QED  BY <1>0, <1>8, <2>1, <2>2
<1>10. /\ IsSeq(new) /\ Len(new) = n - d
       /\ \A i \in 1 .. n - d : new[i] = all[d + i]
  <2>1. d + 1 \in 1 .. Len(all) + 1 /\ Len(all) \in (d + 1) - 1 .. Len(all)
    BY <1>8, <1>9
  <2>2. /\ IsSeq(new) /\ Len(new) = Len(all) - (d + 1) + 1
        /\ \A i \in 1 .. Len(all) - (d + 1) + 1 : new[i] = all[(d + 1) + i - 1]
    BY <1>4, <1>7, <2>1, SubSeqIsSeq
  <2>3. Len(all) - (d + 1) + 1 = n - d
    BY <1>8, <1>9
  <2>4. \A i \in 1 .. n - d : (d + 1) + i - 1 = d + i
    BY <1>9
  <2> QED  BY <2>2, <2>3, <2>4
<1>11. new[Len(new)] = ks[Len(ks)]
  <2>1. Len(new) \in 1 .. n - d /\ d + Len(new) = Len(kept) + Len(ks)
    BY <1>1, <1>6, <1>7, <1>8, <1>9, <1>10
  <2> QED  BY <1>1, <1>6, <1>7, <1>10, <2>1
<1>12. ASSUME Len(ks) = 1, (Len(buffer) - 1) - pointer < 2
       PROVE  Len(new) - 1 > 0 /\ new[Len(new) - 1] = buffer[pointer + 1]
  <2>1. pointer \in Nat /\ Len(kept) = pointer + 1 /\ n = pointer + 2
    BY <1>1, <1>7, <1>8, <1>12 DEF BufferOK
  <2>2. Len(new) - 1 \in 1 .. n - d /\ d + (Len(new) - 1) = pointer + 1
    BY <1>9, <1>10, <2>1
  <2>3. new[Len(new) - 1] = all[pointer + 1]
    BY <1>10, <2>2
  <2>4. pointer + 1 \in 1 .. Len(kept)
    BY <2>1
  <2> QED  BY <1>1, <1>7, <2>2, <2>3, <2>4
<1>13. ASSUME NEW i \in DOMAIN new
       PROVE  \/ \E j \in DOMAIN ks : new[i] = ks[j]
              \/ \E j \in DOMAIN buffer : new[i] = buffer[j]
  <2>1. i \in 1 .. n - d
    BY <1>10, LenIsNat
  <2>2. PICK x \in 1 .. Len(kept) + Len(ks) : new[i] = all[x]
    <3>1. d + i \in 1 .. n
      BY <1>8, <1>9, <2>1
    <3>2. n = Len(kept) + Len(ks) /\ new[i] = all[d + i]
      BY <1>7, <1>8, <1>10, <2>1
    <3> QED  BY <3>1, <3>2
  <2>3. CASE x <= Len(kept)
    BY <1>1, <1>7, <2>2, <2>3
  <2>4. CASE ~(x <= Len(kept))
    <3>1. x - Len(kept) \in 1 .. Len(ks) /\ Len(kept) + (x - Len(kept)) = x
      BY <1>1, <1>6, <2>4
    <3>2. all[x] = ks[x - Len(kept)]
      BY <1>7, <3>1
    <3> QED  BY <1>6, <2>2, <3>1, <3>2
  <2> QED  BY <2>3, <2>4
<1>14. Len(new) \in 1 .. UndoLimit
  BY <1>9, <1>10
<1>15. Len(new) - 1 + 1 = Len(new)
  BY <1>0, <1>14
<1> QED  BY <1>5, <1>10, <1>11, <1>12, <1>13, <1>14, <1>15

-----------------------------------------------------------------------------
(* What the steps are to the undo buffer.                                  *)

undoVars == <<project, buffer, pointer, recorded, before>>

\* Operations whose undo points are not those of one call of setModified.
Merging == SelectAQuery \/ ShowData \/ DesignerAddObject

\* Every other operation on the tree is one call of setModified.
LEMMA EditsAreSetModified ==
    ASSUME EditPages \/ EditData
    PROVE  (\E k : SetModified(k)) \/ AddToNoMenu \/ Merging
<1>1. CASE EditPages
  <2>1. CASE AddNewPage
    BY <2>1, Zenon DEF AddNewPage
  <2>2. CASE AddToMenu
    BY <2>2, Zenon DEF AddToMenu
  <2>3. CASE AddToNoMenu
    BY <2>3
  <2>4. CASE StartCrudWizard
    <3>1. PICK w \in WizardChoices, z \in Present(project) \cup Zones,
               c \in project.collections :
             SetModified(Wizard(project, z, c, w[1], w[2], born + 1))
      BY <2>4, Zenon DEF StartCrudWizard
    <3> QED  BY <3>1, Zenon
  <2>5. CASE RenameAPage \/ RemoveAPage \/ MoveAPage
    BY <2>5, Zenon DEF RenameAPage, RemoveAPage, MoveAPage, Edit
  <2>6. CASE MenuEditorAddItem \/ SelectARoute \/ RemoveALink
    BY <2>6, Zenon DEF MenuEditorAddItem, SelectARoute, RemoveALink, Edit
  <2> QED  BY <1>1, <2>1, <2>2, <2>3, <2>4, <2>5, <2>6, Zenon DEF EditPages
<1>2. CASE EditData
  <2>1. CASE AddAComponent \/ RemoveAComponent
    BY <2>1, Zenon DEF AddAComponent, RemoveAComponent, Edit
  <2>2. CASE AddACollection \/ RenameACollection \/ RemoveACollection
    BY <2>2, Zenon DEF AddACollection, RenameACollection, RemoveACollection, Edit
  <2>3. CASE AddAQuery \/ RenameAQuery \/ RemoveAQuery \/ SelectACollection
    BY <2>3, Zenon DEF AddAQuery, RenameAQuery, RemoveAQuery, SelectACollection, Edit
  <2>4. CASE Merging
    BY <2>4
  <2> QED  BY <1>2, <2>1, <2>2, <2>3, <2>4, Zenon DEF EditData, Merging
<1> QED  BY <1>1, <1>2, Zenon

\* What undo can take back to after setModified at the trees ks: one call, and
\* all that was there recorded.
PointsOK(ks, b) ==
    /\ IsSeq(ks) /\ Len(ks) >= 1
    /\ b # None => /\ b = project /\ recorded /\ Len(ks) = 1
                   /\ (Len(buffer) - 1) - pointer < 2

LEMMA OneCall ==
    ASSUME NEW k, SetModified(k)
    PROVE  \E ks, b : SetModifiedAt(ks, k, b) /\ PointsOK(ks, b) /\ \A i \in DOMAIN ks : ks[i] = k
<1>1. PICK ks : ks = <<k>>
  OBVIOUS
<1>2. PICK b : b = IF recorded /\ (Len(buffer) - 1) - pointer < 2 THEN project ELSE None
  OBVIOUS
<1>3. SetModifiedAt(ks, k, b)
  BY <1>1, <1>2, Zenon DEF SetModified
<1>4. IsSeq(ks) /\ Len(ks) = 1 /\ \A i \in DOMAIN ks : ks[i] = k
  BY <1>1, OneIsSeq
<1>5. PointsOK(ks, b)
  BY <1>2, <1>4 DEF PointsOK
<1> QED  BY <1>3, <1>4, <1>5

\* Merging makes calls at the tree itself and at it with other parameters.
LEMMA MergeCalls ==
    ASSUME NEW k, NEW u, NEW n \in Nat, MergeParams(k, u, n)
    PROVE  \E ks, j : /\ SetModifiedAt(ks, j, None) /\ PointsOK(ks, None)
                      /\ \E ps : j = WithParams(k, u, ps)
                      /\ \A i \in DOMAIN ks : ks[i] = k \/ \E ps : ks[i] = WithParams(k, u, ps)
<1>1. PICK gone \in SUBSET Params, m \in 0 .. Cardinality(Params) :
      \E new \in [1 .. m -> Params \ (u.params \ gone)] :
        LET Merged(i) == WithParams(k, u, (u.params \ gone) \cup {new[j] : j \in 1 .. i})
            at == n + Cardinality(gone)
        IN  /\ at + m > n
            /\ SetModifiedAt([i \in 1 .. at + m |-> IF i <= at THEN k ELSE Merged(i - at)],
                             Merged(m), None)
  BY Zenon DEF MergeParams
<1>2. PICK new \in [1 .. m -> Params \ (u.params \ gone)] :
        LET Merged(i) == WithParams(k, u, (u.params \ gone) \cup {new[j] : j \in 1 .. i})
            at == n + Cardinality(gone)
        IN  /\ at + m > n
            /\ SetModifiedAt([i \in 1 .. at + m |-> IF i <= at THEN k ELSE Merged(i - at)],
                             Merged(m), None)
  BY <1>1
<1> DEFINE PS(i) == (u.params \ gone) \cup {new[j] : j \in 1 .. i}
           M(i) == WithParams(k, u, PS(i))
<1>3. Cardinality(gone) \in Nat /\ Cardinality(Params) \in Nat
  BY FS_Subset, FS_CardinalityType, EditorAssumption
<1>4. PICK at : at = n + Cardinality(gone)
  OBVIOUS
<1>5. PICK e : e = at + m
  OBVIOUS
<1>6. at \in Nat /\ m \in Nat /\ e \in Nat /\ e > n
  BY <1>2, <1>3, <1>4, <1>5
<1> HIDE DEF PS
<1>7. SetModifiedAt([i \in 1 .. e |-> IF i <= at THEN k ELSE M(i - at)], M(m), None)
  BY <1>2, <1>4, <1>5, Zenon DEF PS
<1> HIDE DEF M
<1>8. PICK ks : ks = [i \in 1 .. e |-> IF i <= at THEN k ELSE M(i - at)]
  OBVIOUS
<1>9. IsSeq(ks) /\ Len(ks) = e /\ DOMAIN ks = 1 .. e
  <2>1. PICK S : S = {ks[i] : i \in 1 .. e}
    OBVIOUS
  <2>2. DOMAIN ks = 1 .. e /\ ks = [i \in 1 .. e |-> ks[i]]
    BY <1>8, Zenon
  <2>3. ks \in [1 .. e -> S]
    BY <2>1, <2>2
  <2>4. ks \in Seq(S) /\ Len(ks) = e
    BY <1>6, <2>2, <2>3
  <2> QED  BY <2>2, <2>4, SeqIsSeq
<1>10. \A i \in DOMAIN ks : ks[i] = k \/ ks[i] = M(i - at)
  BY <1>8, <1>9
<1>11. \A i : \E ps : M(i) = WithParams(k, u, ps)
  BY DEF M
<1>12. \A i \in DOMAIN ks : ks[i] = k \/ \E ps : ks[i] = WithParams(k, u, ps)
  BY <1>10, <1>11
<1>13. PointsOK(ks, None)
  BY <1>6, <1>9 DEF PointsOK
<1>14. SetModifiedAt(ks, M(m), None)
  BY <1>7, <1>8, Zenon
<1> QED  BY <1>11, <1>12, <1>13, <1>14, Zenon

LEMMA MergingCalls ==
    ASSUME Merging
    PROVE  \E ks, k, b : SetModifiedAt(ks, k, b) /\ PointsOK(ks, b)
<1>1. CASE SelectAQuery
  <2>1. PICK u \in project.uses, n \in QueryNames(project) \cup {Nameless} :
          \E v, k : SetModified(k) \/ MergeParams(k, v, 1)
    BY <1>1, Zenon DEF SelectAQuery
  <2> QED  BY <2>1, OneCall, MergeCalls
<1>2. CASE ShowData
  <2>1. PICK u \in project.uses : MergeParams(project, u, 0)
    BY <1>2, Zenon DEF ShowData
  <2> QED  BY <2>1, MergeCalls
<1>3. CASE DesignerAddObject
  <2>1. PICK k : SetModifiedAt(<<k, k>>, k, None)
    BY <1>3, Zenon DEF DesignerAddObject
  <2>2. PICK ks : ks = <<k, k>>
    OBVIOUS
  <2>3. ks \in Seq({k}) /\ Len(ks) = 2
    BY <2>2
  <2>4. PointsOK(ks, None)
    BY <2>3, SeqIsSeq DEF PointsOK
  <2> QED  BY <2>1, <2>2, <2>4, Zenon
<1> QED  BY <1>1, <1>2, <1>3 DEF Merging

\* So every operation on the tree is calls of setModified.
LEMMA EditsAreCalls ==
    ASSUME EditPages \/ EditData
    PROVE  (\E ks, k, b : SetModifiedAt(ks, k, b) /\ PointsOK(ks, b)) \/ AddToNoMenu
<1>1. CASE \E k : SetModified(k)
  BY <1>1, OneCall
<1> QED  BY <1>1, EditsAreSetModified, MergingCalls

LEMMA LoadKeepsUndo ==
    ASSUME UndoInv, NEW i \in 0 .. Len(buffer) - 1, Load(i)
    PROVE  UndoInv'
<1>1. buffer' = buffer /\ pointer' = i /\ project' = buffer[i + 1]
  BY Zenon DEF Load
<1>2. recorded' = TRUE /\ before' = None
  BY Zenon DEF Load
<1>3. BufferOK'
  BY <1>1, <1>2 DEF UndoInv, BufferOK
<1>4. UndoTakesBack'
  BY <1>1, <1>2 DEF UndoTakesBack
<1> QED  BY <1>3, <1>4 DEF UndoInv

LEMMA CallsKeepUndo ==
    ASSUME UndoInv, NEW ks, NEW k, NEW b, SetModifiedAt(ks, k, b), PointsOK(ks, b)
    PROVE  UndoInv'
<1>1. /\ project' = k /\ AddUndoPoints(ks) /\ recorded' = (ks[Len(ks)] = k) /\ before' = b
  BY Zenon DEF SetModifiedAt
<1>2. /\ IsSeq(buffer') /\ Len(buffer') \in 1 .. UndoLimit
      /\ pointer' = Len(buffer') - 1 /\ buffer'[pointer' + 1] = ks[Len(ks)]
      /\ (Len(ks) = 1 /\ (Len(buffer) - 1) - pointer < 2)
            => pointer' > 0 /\ buffer'[pointer'] = buffer[pointer + 1]
  BY <1>1, Pushed DEF UndoInv, PointsOK
<1>3. BufferOK'
  <2>1. Len(buffer') \in Nat
    BY <1>2, EditorAssumption
  <2>2. recorded' \in BOOLEAN
    BY <1>1
  <2> QED  BY <1>2, <2>1, <2>2 DEF BufferOK
<1>4. before' # None => pointer' > 0 /\ buffer'[pointer'] = before'
  <2>1. SUFFICES ASSUME before' # None
                 PROVE  pointer' > 0 /\ buffer'[pointer'] = before'
    OBVIOUS
  <2>2. before' = project /\ recorded /\ Len(ks) = 1 /\ (Len(buffer) - 1) - pointer < 2
    BY <1>1, <2>1 DEF PointsOK
  <2>3. buffer[pointer + 1] = project
    BY <2>2 DEF UndoInv, UndoTakesBack
  <2> QED  BY <1>2, <2>2, <2>3
<1>5. recorded' => buffer'[pointer' + 1] = project'
  BY <1>1, <1>2
<1>6. UndoTakesBack'
  BY <1>4, <1>5 DEF UndoTakesBack
<1> QED  BY <1>3, <1>6 DEF UndoInv

LEMMA UndoStays ==
    ASSUME UndoInv, UNCHANGED undoVars
    PROVE  UndoInv'
<1>1. /\ project' = project /\ buffer' = buffer /\ pointer' = pointer
      /\ recorded' = recorded /\ before' = before
  BY DEF undoVars
<1> QED  BY <1>1 DEF UndoInv, BufferOK, UndoTakesBack

LEMMA SavesKeepUndo ==
    ASSUME UndoInv, Save
    PROVE  UndoInv'
<1>1. CASE SaveApp
  <2>1. UNCHANGED undoVars
    BY <1>1, Zenon DEF SaveApp, undoVars
  <2> QED  BY <2>1, UndoStays
<1>2. CASE SaveBuildOptions
  <2>1. buffer' = buffer /\ pointer' = pointer /\ recorded' = FALSE /\ before' = None
    BY <1>2, Zenon DEF SaveBuildOptions
  <2> QED  BY <2>1 DEF UndoInv, BufferOK, UndoTakesBack
<1>3. CASE ServerSaves
  <2>1. UNCHANGED undoVars
    BY <1>3, Zenon DEF ServerSaves, undoVars
  <2> QED  BY <2>1, UndoStays
<1>4. CASE SaveReturns
  <2>1. UNCHANGED undoVars
    BY <1>4, Zenon DEF SaveReturns, undoVars
  <2> QED  BY <2>1, UndoStays
<1>5. CASE OpenProject
  <2>1. PICK id \in Projects \ {open} :
           project' = stored[id] /\ buffer' = <<stored[id]>> /\ pointer' = 0
    BY <1>5, Zenon DEF OpenProject
  <2>2. recorded' = TRUE /\ before' = None
    BY <1>5, Zenon DEF OpenProject
  <2>3. IsSeq(buffer') /\ Len(buffer') = 1 /\ buffer'[1] = project'
    BY <2>1 DEF IsSeq
  <2>4. BufferOK'
    BY <2>1, <2>2, <2>3, EditorAssumption DEF BufferOK
  <2>5. UndoTakesBack'
    BY <2>1, <2>2, <2>3 DEF UndoTakesBack
  <2> QED  BY <2>4, <2>5 DEF UndoInv
<1> QED  BY <1>1, <1>2, <1>3, <1>4, <1>5, Zenon DEF Save

LEMMA UndoInvInit ==
    ASSUME Init
    PROVE  UndoInv
<1>1. /\ buffer = <<Initial>> /\ pointer = 0 /\ project = Initial
      /\ recorded = TRUE /\ before = None
  BY Zenon DEF Init
<1>2. IsSeq(buffer) /\ Len(buffer) = 1 /\ buffer[1] = project
  BY <1>1 DEF IsSeq
<1>3. BufferOK
  BY <1>1, <1>2, EditorAssumption DEF BufferOK
<1>4. UndoTakesBack
  BY <1>1, <1>2 DEF UndoTakesBack
<1> QED  BY <1>3, <1>4 DEF UndoInv

LEMMA UndoInvNext ==
    ASSUME UndoInv, [Next]_vars
    PROVE  UndoInv'
<1>1. CASE EditPages \/ EditData
  <2>1. CASE \E ks, k, b : SetModifiedAt(ks, k, b) /\ PointsOK(ks, b)
    BY <2>1, CallsKeepUndo
  <2>2. CASE AddToNoMenu
    <3>1. UNCHANGED undoVars
      BY <2>2, Zenon DEF AddToNoMenu, undoVars
    <3> QED  BY <3>1, UndoStays
  <2> QED  BY <1>1, <2>1, <2>2, EditsAreCalls
<1>2. CASE Undo
  <2>1. pointer > 0 /\ Load(pointer - 1)
    BY <1>2, Zenon DEF Undo
  <2>2. pointer - 1 \in 0 .. Len(buffer) - 1
    BY <2>1, LenIsNat DEF UndoInv, BufferOK
  <2> QED  BY <2>1, <2>2, LoadKeepsUndo
<1>3. CASE Redo
  <2>1. pointer < Len(buffer) - 1 /\ Load(pointer + 1)
    BY <1>3, Zenon DEF Redo
  <2>2. pointer + 1 \in 0 .. Len(buffer) - 1
    BY <2>1, LenIsNat DEF UndoInv, BufferOK
  <2> QED  BY <2>1, <2>2, LoadKeepsUndo
<1>4. CASE Save
  BY <1>4, SavesKeepUndo
<1>5. CASE UNCHANGED vars
  <2>1. UNCHANGED undoVars
    BY <1>5, Zenon DEF vars, undoVars
  <2> QED  BY <2>1, UndoStays
<1> QED  BY <1>1, <1>2, <1>3, <1>4, <1>5, Zenon DEF Next

\* Undo takes back the last edit of App.setModified, for every set of
\* applications and names and every length of App.undoBuffer.
THEOREM EditsAreUndone == Spec => []UndoTakesBack
<1>1. Init => UndoInv
  BY UndoInvInit
<1>2. UndoInv /\ [Next]_vars => UndoInv'
  BY UndoInvNext
<1>3. UndoInv => UndoTakesBack
  BY Zenon DEF UndoInv
<1> QED  BY <1>1, <1>2, <1>3, PTL DEF Spec

-----------------------------------------------------------------------------
(* What the steps are to the saves.                                        *)

saveVars == <<open, project, modified, saving, stored, overtaken>>

LEMMA SavesStay ==
    ASSUME SaveInv, UNCHANGED saveVars
    PROVE  SaveInv'
<1>1. /\ open' = open /\ project' = project /\ modified' = modified
      /\ saving' = saving /\ stored' = stored /\ overtaken' = overtaken
  BY DEF saveVars
<1> QED  BY <1>1 DEF SaveInv, QueueOK, LastSave, UnmodifiedIsStored

\* A change of the project: the flag is up, and saves on their way are
\* overtaken.
Changes ==
    /\ modified' = TRUE
    /\ overtaken' = (overtaken \/ saving # <<>>)
    /\ open' = open /\ saving' = saving /\ stored' = stored

LEMMA ChangesKeepSaves ==
    ASSUME SaveInv, Changes
    PROVE  SaveInv'
<1>1. /\ open' \in Projects /\ DOMAIN stored' = Projects
      /\ modified' \in BOOLEAN /\ overtaken' \in BOOLEAN
  BY DEF SaveInv, Changes
<1>2. QueueOK'
  BY DEF SaveInv, QueueOK, Changes
<1>3. ~overtaken' => LastSave'
  <2>1. ~overtaken' => saving' = <<>>
    BY Zenon DEF Changes
  <2> QED  BY <2>1, Zenon DEF LastSave
<1>4. UnmodifiedIsStored'
  BY Zenon DEF UnmodifiedIsStored, Changes
<1> QED  BY <1>1, <1>2, <1>3, <1>4 DEF SaveInv

\* The application with data k is sent, behind the saves on their way.
LEMMA SentKeepsQueue ==
    ASSUME SaveInv, NEW k, SendSave(k)
    PROVE  /\ QueueOK' /\ saving' # <<>>
           /\ saving'[Len(saving')] = [id |-> open, data |-> k, state |-> "sent"]
<1> DEFINE new == [id |-> open, data |-> k, state |-> "sent"]
<1>1. saving' = Append(saving, new)
  BY Zenon DEF SendSave
<1>2. IsSave(new)
  BY DEF IsSave, SaveInv
<1>3. /\ IsSeq(saving) /\ Len(saving) \in Nat /\ DOMAIN saving = 1 .. Len(saving)
  BY LenIsNat DEF SaveInv, QueueOK
<1>4. new.state = "sent"
  OBVIOUS
<1> HIDE DEF new
<1>5. /\ IsSeq(saving') /\ Len(saving') = Len(saving) + 1
      /\ \A i \in 1 .. Len(saving) : saving'[i] = saving[i]
      /\ saving'[Len(saving) + 1] = new
  BY <1>1, <1>3, AppendIsSeq
<1>6. DOMAIN saving' = 1 .. Len(saving) + 1
  BY <1>5, LenIsNat
<1>7. \A i \in DOMAIN saving' : IsSave(saving'[i])
  <2>1. SUFFICES ASSUME NEW i \in DOMAIN saving' PROVE IsSave(saving'[i])
    OBVIOUS
  <2>2. CASE i = Len(saving) + 1
    BY <1>2, <1>5, <2>2
  <2>3. CASE i # Len(saving) + 1
    <3>1. i \in 1 .. Len(saving)
      BY <1>3, <1>6, <2>3
    <3> QED  BY <1>3, <1>5, <3>1 DEF SaveInv, QueueOK
  <2> QED  BY <2>2, <2>3
<1>8. \A i, j \in DOMAIN saving' :
          (i < j /\ saving'[j].state # "sent") => saving'[i].state # "sent"
  <2>1. SUFFICES ASSUME NEW i \in DOMAIN saving', NEW j \in DOMAIN saving',
                        i < j, saving'[j].state # "sent"
                 PROVE  saving'[i].state # "sent"
    OBVIOUS
  <2>2. j # Len(saving) + 1
    BY <1>4, <1>5, <2>1
  <2>3. i \in 1 .. Len(saving) /\ j \in 1 .. Len(saving)
    BY <1>3, <1>6, <2>1, <2>2
  <2> QED  BY <1>3, <1>5, <2>1, <2>3 DEF SaveInv, QueueOK
<1>9. QueueOK'
  BY <1>5, <1>7, <1>8 DEF QueueOK
<1>10. saving' # <<>>
  BY <1>3, <1>5
<1> QED  BY <1>5, <1>9, <1>10 DEF new

LEMMA SentKeepsSaves ==
    ASSUME SaveInv, NEW k, SendSave(k), project' = k, modified' = modified,
           open' = open, stored' = stored
    PROVE  SaveInv'
<1>1. /\ QueueOK' /\ saving' # <<>>
      /\ saving'[Len(saving')] = [id |-> open, data |-> k, state |-> "sent"]
  BY SentKeepsQueue
<1>2. overtaken' \in BOOLEAN
  BY Zenon DEF SendSave, SaveInv
<1>3. LastSave'
  BY <1>1 DEF LastSave
<1>4. UnmodifiedIsStored'
  BY <1>1, Zenon DEF UnmodifiedIsStored
<1> QED  BY <1>1, <1>2, <1>3, <1>4 DEF SaveInv

LEMMA OptionsKeepSaves ==
    ASSUME SaveInv, SaveBuildOptions
    PROVE  SaveInv'
<1>1. modified' = modified /\ open' = open /\ stored' = stored
  BY Zenon DEF SaveBuildOptions
<1>2. CASE modified
  <2>1. saving' = saving /\ overtaken' = (overtaken \/ saving # <<>>)
    BY <1>2, Zenon DEF SaveBuildOptions
  <2>2. modified' = TRUE
    BY <1>1, <1>2 DEF SaveInv
  <2>3. Changes
    BY <1>1, <2>1, <2>2, Zenon DEF Changes
  <2> QED  BY <2>3, ChangesKeepSaves
<1>3. CASE ~modified
  <2>1. PICK k : k = project'
    OBVIOUS
  <2>2. SendSave(project')
    BY <1>3, Zenon DEF SaveBuildOptions
  <2>3. SendSave(k)
    BY <2>1, <2>2 DEF SendSave
  <2> QED  BY <1>1, <2>1, <2>3, SentKeepsSaves
<1> QED  BY <1>2, <1>3

LEMMA AnswerOfSave ==
    ASSUME NEW s, IsSave(s), NEW a
    PROVE  [s EXCEPT !.state = a] = [id |-> s.id, data |-> s.data, state |-> a]
<1>1. PICK x, y, z : s = [id |-> x, data |-> y, state |-> z]
  BY DEF IsSave
<1> QED  BY <1>1

LEMMA ServerKeepsSaves ==
    ASSUME SaveInv, ServerSaves
    PROVE  SaveInv'
<1>1. PICK i \in DOMAIN saving, ok \in BOOLEAN :
        /\ saving[i].state = "sent"
        /\ \A j \in 1 .. i - 1 : saving[j].state # "sent"
        /\ saving' = [saving EXCEPT ![i].state = IF ok THEN "done" ELSE "failed"]
        /\ stored' = IF ok THEN [stored EXCEPT ![saving[i].id] = saving[i].data] ELSE stored
        /\ overtaken' = (overtaken \/ ~ok)
  BY Zenon DEF ServerSaves
<1>2. project' = project /\ open' = open /\ modified' = modified
  BY Zenon DEF ServerSaves
<1>3. PICK answer \in {"done", "failed"} : answer = IF ok THEN "done" ELSE "failed"
  OBVIOUS
<1>4. /\ IsSeq(saving) /\ Len(saving) \in Nat /\ DOMAIN saving = 1 .. Len(saving)
      /\ saving \in Seq({saving[j] : j \in DOMAIN saving})
  BY LenIsNat DEF SaveInv, QueueOK, IsSeq
<1>5. PICK new : new = [id |-> saving[i].id, data |-> saving[i].data, state |-> answer]
  OBVIOUS
<1>6. saving' = [saving EXCEPT ![i] = new]
  <2>1. IsSave(saving[i])
    BY DEF SaveInv, QueueOK
  <2>2. [saving[i] EXCEPT !.state = answer] = new
    BY <1>5, <2>1, AnswerOfSave
  <2>3. saving' = [saving EXCEPT ![i] = [saving[i] EXCEPT !.state = answer]]
    BY <1>1, <1>3
  <2> QED  BY <2>2, <2>3
<1>7. IsSave(new) /\ new.state = answer /\ new.id = saving[i].id /\ new.data = saving[i].data
  BY <1>5 DEF IsSave, SaveInv, QueueOK
<1>8. saving' = [j \in 1 .. Len(saving) |-> IF j = i THEN new ELSE saving[j]]
  BY <1>4, <1>6
<1>9. IsSeq(saving') /\ Len(saving') = Len(saving) /\ DOMAIN saving' = 1 .. Len(saving)
  <2>1. saving' \in Seq({saving'[j] : j \in DOMAIN saving'})
    BY <1>4, <1>8
  <2> QED  BY <1>4, <1>8, <2>1 DEF IsSeq
<1>10. QueueOK'
  <2>1. \A j \in DOMAIN saving' : IsSave(saving'[j])
    BY <1>4, <1>7, <1>8, <1>9 DEF SaveInv, QueueOK
  <2>2. \A a, b \in DOMAIN saving' :
           (a < b /\ saving'[b].state # "sent") => saving'[a].state # "sent"
    <3>1. SUFFICES ASSUME NEW a \in DOMAIN saving', NEW b \in DOMAIN saving',
                          a < b, saving'[b].state # "sent"
                   PROVE  saving'[a].state # "sent"
      OBVIOUS
    <3>2. CASE a = i
      BY <1>3, <1>7, <1>8, <1>9, <3>2
    <3>3. CASE b = i
      <4>1. a \in 1 .. i - 1
        BY <1>4, <1>9, <3>1, <3>3
      <4>2. a # i
        BY <1>4, <4>1
      <4> QED  BY <1>1, <1>8, <1>9, <4>1, <4>2
    <3>4. CASE a # i /\ b # i
      BY <1>4, <1>8, <1>9, <3>1, <3>4 DEF SaveInv, QueueOK
    <3> QED  BY <3>2, <3>3, <3>4
  <2> QED  BY <1>9, <2>1, <2>2 DEF QueueOK
<1>11. DOMAIN stored' = Projects
  BY <1>1 DEF SaveInv
<1>12. overtaken' \in BOOLEAN
  BY <1>1 DEF SaveInv
<1>13. saving' # <<>> /\ saving # <<>>
  BY <1>4, <1>8, <1>9
<1>14. ~overtaken' => LastSave'
  <2>1. SUFFICES ASSUME ~overtaken' PROVE LastSave'
    OBVIOUS
  <2>2. ~overtaken /\ ok = TRUE
    BY <1>1, <2>1
  <2>3. answer = "done" /\ stored' = [stored EXCEPT ![saving[i].id] = saving[i].data]
    BY <1>1, <1>3, <2>2
  <2>4. LastSave
    BY <2>2 DEF SaveInv
  <2>5. CASE i = Len(saving)
    <3>1. saving[i].id = open /\ saving[i].data = project
      BY <1>13, <2>4, <2>5 DEF LastSave
    <3>2. stored'[open] = project
      BY <2>3, <3>1 DEF SaveInv
    <3>3. saving'[Len(saving')] = new
      BY <1>4, <1>8, <1>9, <2>5
    <3> QED  BY <1>2, <1>7, <2>3, <3>1, <3>2, <3>3 DEF LastSave
  <2>6. CASE i # Len(saving)
    <3>1. saving'[Len(saving')] = saving[Len(saving)]
      BY <1>4, <1>8, <1>9, <2>6
    <3>2. saving[Len(saving)].state = "sent"
      BY <1>1, <1>4, <2>6 DEF SaveInv, QueueOK
    <3> QED  BY <1>2, <1>13, <2>4, <3>1, <3>2 DEF LastSave
  <2> QED  BY <2>5, <2>6
<1>15. UnmodifiedIsStored'
  BY <1>13, Zenon DEF UnmodifiedIsStored
<1> QED  BY <1>2, <1>10, <1>11, <1>12, <1>14, <1>15 DEF SaveInv

LEMMA ReturnKeepsSaves ==
    ASSUME SaveInv, SaveReturns
    PROVE  SaveInv'
<1>1. /\ saving # <<>> /\ Head(saving).state # "sent" /\ saving' = Tail(saving)
      /\ modified' = FALSE
      /\ open' = open /\ project' = project /\ stored' = stored /\ overtaken' = overtaken
  BY Zenon DEF SaveReturns
<1>2. /\ IsSeq(saving) /\ Len(saving) \in Nat /\ DOMAIN saving = 1 .. Len(saving)
      /\ saving \in Seq({saving[j] : j \in DOMAIN saving})
  BY LenIsNat DEF SaveInv, QueueOK, IsSeq
<1>3. /\ IsSeq(saving') /\ Len(saving') = Len(saving) - 1
      /\ \A i \in 1 .. Len(saving) - 1 : saving'[i] = saving[i + 1]
  BY <1>1, <1>2, TailIsSeq
<1>4. DOMAIN saving' = 1 .. Len(saving) - 1
  BY <1>3, LenIsNat
<1>5. Len(saving) > 0 /\ saving[1].state # "sent"
  BY <1>1, <1>2
<1>6. QueueOK'
  <2>1. \A i \in DOMAIN saving' : IsSave(saving'[i])
    <3>1. SUFFICES ASSUME NEW i \in DOMAIN saving' PROVE IsSave(saving'[i])
      OBVIOUS
    <3>2. i \in 1 .. Len(saving) - 1 /\ i + 1 \in DOMAIN saving
      BY <1>2, <1>4
    <3> QED  BY <1>3, <3>2 DEF SaveInv, QueueOK
  <2>2. \A i, j \in DOMAIN saving' :
           (i < j /\ saving'[j].state # "sent") => saving'[i].state # "sent"
    <3>1. SUFFICES ASSUME NEW i \in DOMAIN saving', NEW j \in DOMAIN saving',
                          i < j, saving'[j].state # "sent"
                   PROVE  saving'[i].state # "sent"
      OBVIOUS
    <3>2. /\ i \in 1 .. Len(saving) - 1 /\ j \in 1 .. Len(saving) - 1
          /\ i + 1 \in DOMAIN saving /\ j + 1 \in DOMAIN saving /\ i + 1 < j + 1
      BY <1>2, <1>4, <3>1
    <3>3. saving'[i] = saving[i + 1] /\ saving'[j] = saving[j + 1]
      BY <1>3, <3>2
    <3> QED  BY <3>1, <3>2, <3>3 DEF SaveInv, QueueOK
  <2> QED  BY <1>3, <2>1, <2>2 DEF QueueOK
<1>7. ~overtaken' => LastSave'
  <2>1. SUFFICES ASSUME ~overtaken', saving' # <<>>
                 PROVE  LastSave'
    BY DEF LastSave
  <2>2. LastSave
    BY <1>1, <2>1 DEF SaveInv
  <2>3. Len(saving') > 0
    BY <1>2, <1>3, <2>1 DEF IsSeq
  <2>4. saving'[Len(saving')] = saving[Len(saving)]
    BY <1>2, <1>3, <2>3
  <2> QED  BY <1>1, <2>2, <2>4 DEF LastSave
<1>8. UnmodifiedIsStored'
  <2>1. SUFFICES ASSUME saving' = <<>>, ~overtaken'
                 PROVE  stored'[open'] = project'
    BY DEF UnmodifiedIsStored
  <2>2. Len(saving) = 1
    <3>1. Tail(saving) = <<>>
      BY <1>1, <2>1
    <3>2. Len(Tail(saving)) = Len(saving) - 1
      BY <1>1, <1>2, TailIsSeq
    <3>3. Len(Tail(saving)) = Len(<<>>)
      BY <3>1, Zenon
    <3>4. Len(<<>>) = 0
      OBVIOUS
    <3> QED  BY <1>2, <3>2, <3>3, <3>4
  <2>3. LastSave
    BY <1>1, <2>1 DEF SaveInv
  <2> QED  BY <1>1, <1>5, <2>2, <2>3 DEF LastSave
<1> QED  BY <1>1, <1>6, <1>7, <1>8 DEF SaveInv

LEMMA OpeningKeepsSaves ==
    ASSUME SaveInv, OpenProject
    PROVE  SaveInv'
<1>1. PICK id \in Projects \ {open} : open' = id /\ project' = stored[id]
  BY Zenon DEF OpenProject
<1>2. /\ modified' = FALSE /\ saving' = saving /\ stored' = stored
      /\ overtaken' = (overtaken \/ saving # <<>>)
  BY Zenon DEF OpenProject, Observe
<1>3. ~overtaken' => LastSave'
  <2>1. ~overtaken' => saving' = <<>>
    BY <1>2
  <2> QED  BY <2>1, Zenon DEF LastSave
<1>4. stored'[open'] = project'
  BY <1>1, <1>2
<1>5. UnmodifiedIsStored'
  BY <1>4 DEF UnmodifiedIsStored
<1>6. QueueOK'
  BY <1>2 DEF SaveInv, QueueOK
<1> QED  BY <1>1, <1>2, <1>3, <1>5, <1>6 DEF SaveInv

LEMMA SaveInvInit ==
    ASSUME Init
    PROVE  SaveInv
<1>1. /\ open = First /\ project = Initial /\ modified = FALSE /\ saving = <<>>
      /\ stored = [id \in Projects |-> Initial] /\ overtaken = FALSE
  BY Zenon DEF Init
<1>2. QueueOK
  BY <1>1 DEF QueueOK, IsSeq
<1>3. LastSave
  BY <1>1, Zenon DEF LastSave
<1>4. UnmodifiedIsStored
  BY <1>1, EditorAssumption DEF UnmodifiedIsStored
<1> QED  BY <1>1, <1>2, <1>3, <1>4, EditorAssumption DEF SaveInv

LEMMA SaveInvNext ==
    ASSUME SaveInv, [Next]_vars
    PROVE  SaveInv'
<1>1. CASE EditPages \/ EditData
  <2>1. CASE \E ks, k, b : SetModifiedAt(ks, k, b) /\ PointsOK(ks, b)
    <3>1. Changes
      BY <2>1, Zenon DEF SetModifiedAt, Observe, Changes
    <3> QED  BY <3>1, ChangesKeepSaves
  <2>2. CASE AddToNoMenu
    <3>1. UNCHANGED saveVars
      BY <2>2, Zenon DEF AddToNoMenu, saveVars
    <3> QED  BY <3>1, SavesStay
  <2> QED  BY <1>1, <2>1, <2>2, EditsAreCalls
<1>2. CASE Undo \/ Redo
  <2>1. PICK i \in {pointer - 1, pointer + 1} : Load(i)
    BY <1>2, Zenon DEF Undo, Redo
  <2>2. Changes
    BY <2>1, Zenon DEF Load, Observe, Changes
  <2> QED  BY <2>2, ChangesKeepSaves
<1>3. CASE SaveApp
  <2>1. /\ SendSave(project) /\ project' = project /\ modified' = modified
        /\ open' = open /\ stored' = stored
    BY <1>3, Zenon DEF SaveApp
  <2>2. PICK k : k = project
    OBVIOUS
  <2>3. SendSave(k)
    BY <2>1, <2>2 DEF SendSave
  <2> QED  BY <2>1, <2>2, <2>3, SentKeepsSaves
<1>4. CASE SaveBuildOptions
  BY <1>4, OptionsKeepSaves
<1>5. CASE ServerSaves
  BY <1>5, ServerKeepsSaves
<1>6. CASE SaveReturns
  BY <1>6, ReturnKeepsSaves
<1>7. CASE OpenProject
  BY <1>7, OpeningKeepsSaves
<1>8. CASE UNCHANGED vars
  <2>1. UNCHANGED saveVars
    BY <1>8, Zenon DEF vars, saveVars
  <2> QED  BY <2>1, SavesStay
<1> QED
  BY <1>1, <1>2, <1>3, <1>4, <1>5, <1>6, <1>7, <1>8, Zenon DEF Next, Save

\* App.projectModified can be trusted: with no save on its way and none
\* refused or overtaken, an application without unsaved changes is on the
\* server as it is in the editor, however many saves were sent at once.
THEOREM SavedIsStored == Spec => []UnmodifiedIsStored
<1>1. Init => SaveInv
  BY SaveInvInit
<1>2. SaveInv /\ [Next]_vars => SaveInv'
  BY SaveInvNext
<1>3. SaveInv => UnmodifiedIsStored
  BY Zenon DEF SaveInv
<1> QED  BY <1>1, <1>2, <1>3, PTL DEF Spec

-----------------------------------------------------------------------------
(* The trees of the editor: the application, its undo buffer, what is       *)
(* stored and what is on its way there.                                     *)

Trees == {project} \cup {buffer[i] : i \in DOMAIN buffer}
         \cup {stored[id] : id \in Projects} \cup {saving[i].data : i \in DOMAIN saving}

\* Pages are numbered by one counter, which undo does not set back.
TreesInv ==
    /\ born \in 0 .. MaxPages
    /\ \A k \in Trees : WellFormed(k, born)
    /\ offer \in Present(project) \cup {Nowhere}

RefsInv == \A k \in Trees : RefsOK(k, odd) /\ Ambiguous(k) \subseteq odd

\* What an operation makes of the application.
EditOK ==
    /\ born' \in 0 .. MaxPages /\ born <= born'
    /\ WellFormed(project', born')
    /\ offer' \in Present(project') \cup {Nowhere}
    /\ (NamesTyped /\ RefsOK(project, odd) /\ Ambiguous(project) \subseteq odd)
          => RefsOK(project', odd)

LEMMA ProjectFormed ==
    ASSUME TreesInv
    PROVE  WellFormed(project, born) /\ born \in Nat /\ born <= MaxPages
BY TreeAssumption DEF TreesInv, Trees

LEMMA KeptEdit ==
    ASSUME TreesInv, Keeps(project', project, born), born' = born, offer' = Nowhere
    PROVE  EditOK
<1>1. WellFormed(project', born')
  BY DEF Keeps
<1>2. RefsOK(project, odd) => RefsOK(project', odd)
  BY Zenon DEF Keeps
<1>3. born' \in 0 .. MaxPages /\ born <= born'
  BY ProjectFormed DEF TreesInv
<1> QED  BY <1>1, <1>2, <1>3 DEF EditOK

LEMMA LinkEdits ==
    ASSUME TreesInv, MenuEditorAddItem \/ SelectARoute \/ RemoveALink \/ AddToMenu
    PROVE  EditOK
<1>0. WellFormed(project, born)
  BY ProjectFormed
<1>1. CASE MenuEditorAddItem
  <2>1. PICK z \in Present(project) \cup Zones :
            project' = AddItem(project, z) /\ born' = born /\ offer' = Nowhere
    BY <1>1, Zenon DEF MenuEditorAddItem, Edit, SetModified, SetModifiedAt
  <2>2. Keeps(project', project, born)
    BY <1>0, <2>1, AddItemKeeps
  <2> QED  BY <2>1, <2>2, KeptEdit
<1>2. CASE SelectARoute
  <2>1. PICK l \in project.links, p \in Present(project) \cup {Nowhere} :
            project' = SelectRoute(project, l, p) /\ born' = born /\ offer' = Nowhere
    BY <1>2, Zenon DEF SelectARoute, Edit, SetModified, SetModifiedAt
  <2>2. Keeps(project', project, born)
    BY <1>0, <2>1, SelectRouteKeeps
  <2> QED  BY <2>1, <2>2, KeptEdit
<1>3. CASE RemoveALink
  <2>1. PICK l \in project.links :
            project' = [project EXCEPT !.links = @ \ {l}] /\ born' = born /\ offer' = Nowhere
    BY <1>3, Zenon DEF RemoveALink, Edit, SetModified, SetModifiedAt
  <2>2. Keeps(project', project, born)
    BY <1>0, <2>1, RemoveLinkKeeps
  <2> QED  BY <2>1, <2>2, KeptEdit
<1>4. CASE AddToMenu
  <2>1. /\ offer # Nowhere /\ project' = AddLink(project, project.parent[offer], offer)
        /\ born' = born /\ offer' = Nowhere
    BY <1>4, Zenon DEF AddToMenu, SetModified, SetModifiedAt
  <2>2. offer \in Present(project)
    BY <2>1 DEF TreesInv
  <2>3. project.parent[offer] \in Present(project) \cup Zones
    <3>1. offer \in Pages /\ project.parent[offer] # Nowhere
      BY <2>2 DEF Present
    <3>2. project.parent[offer] \in Spots
      BY <1>0, <3>1 DEF WellFormed, PagesFormed
    <3>3. project.parent[offer] \in Pages => project.parent[offer] \in Present(project)
      BY <1>0, <2>2 DEF WellFormed, PagesFormed
    <3> QED  BY <3>2, <3>3 DEF Spots
  <2>4. Keeps(project', project, born)
    BY <1>0, <2>1, <2>2, <2>3, AddLinkKeeps
  <2> QED  BY <2>1, <2>4, KeptEdit
<1> QED  BY <1>1, <1>2, <1>3, <1>4

LEMMA KeepsTwice ==
    ASSUME NEW i, NEW j, NEW k, NEW n, Keeps(i, j, n), Keeps(j, k, n)
    PROVE  Keeps(i, k, n)
<1>1. SamePages(i, k)
  BY DEF Keeps, SamePages
<1> QED  BY <1>1, Zenon DEF Keeps

LEMMA KeepsSelf ==
    ASSUME NEW k, NEW n, WellFormed(k, n)
    PROVE  Keeps(k, k, n)
BY Zenon DEF Keeps, SamePages

\* What is merged into a component changes its parameters only.
LEMMA MergeKeeps ==
    ASSUME TreesInv, NEW k, Keeps(k, project, born), NEW u \in k.uses, NEW n \in Nat,
           MergeParams(k, u, n)
    PROVE  \E ks, j, b : /\ SetModifiedAt(ks, j, b) /\ PointsOK(ks, b)
                        /\ Keeps(j, project, born)
                        /\ \A i \in DOMAIN ks : Keeps(ks[i], project, born)
<1>1. WellFormed(k, born)
  BY DEF Keeps
<1>2. \A ps : Keeps(WithParams(k, u, ps), project, born)
  BY <1>1, WithParamsKeeps, KeepsTwice
<1>3. PICK ks, j : /\ SetModifiedAt(ks, j, None) /\ PointsOK(ks, None)
                   /\ \E ps : j = WithParams(k, u, ps)
                   /\ \A i \in DOMAIN ks : ks[i] = k \/ \E ps : ks[i] = WithParams(k, u, ps)
  BY MergeCalls, Zenon
<1>4. Keeps(j, project, born)
  BY <1>2, <1>3, Zenon
<1>5. \A i \in DOMAIN ks : Keeps(ks[i], project, born)
  BY <1>2, <1>3, Zenon
<1> QED  BY <1>3, <1>4, <1>5, Zenon

LEMMA MergingKeeps ==
    ASSUME TreesInv, Merging
    PROVE  /\ born' = born /\ offer' = Nowhere
           /\ \E ks, k, b : /\ SetModifiedAt(ks, k, b) /\ PointsOK(ks, b)
                            /\ Keeps(k, project, born)
                            /\ \A i \in DOMAIN ks : Keeps(ks[i], project, born)
<1>0. WellFormed(project, born) /\ Keeps(project, project, born)
  BY ProjectFormed, KeepsSelf
<1>1. CASE SelectAQuery
  <2>1. born' = born /\ offer' = Nowhere
    BY <1>1, Zenon DEF SelectAQuery
  <2>2. PICK u \in project.uses, n \in QueryNames(project) \cup {Nameless} :
          LET v == [u EXCEPT !.query = n]
              k == [project EXCEPT !.uses = (@ \ {u}) \cup {v}]
          IN  SetModified(k) \/ MergeParams(k, v, 1)
    BY <1>1, Zenon DEF SelectAQuery
  <2>3. PICK v : v = [u EXCEPT !.query = n]
    OBVIOUS
  <2>4. PICK k : k = [project EXCEPT !.uses = (@ \ {u}) \cup {v}]
    OBVIOUS
  <2>5. SetModified(k) \/ MergeParams(k, v, 1)
    BY <2>2, <2>3, <2>4, Zenon
  <2>6. Keeps(k, project, born)
    BY <1>0, <2>3, <2>4, SelectQueryKeeps
  <2>7. v \in k.uses
    BY <1>0, <2>4 DEF WellFormed, IsTree
  <2>8. CASE SetModified(k)
    <3>1. PICK ks, b : SetModifiedAt(ks, k, b) /\ PointsOK(ks, b) /\ \A i \in DOMAIN ks : ks[i] = k
      BY <2>8, OneCall
    <3> QED  BY <2>1, <2>6, <3>1, Zenon
  <2>9. CASE MergeParams(k, v, 1)
    BY <2>1, <2>6, <2>7, <2>9, MergeKeeps
  <2> QED  BY <2>5, <2>8, <2>9
<1>2. CASE ShowData
  <2>1. born' = born /\ offer' = Nowhere
    BY <1>2, Zenon DEF ShowData
  <2>2. PICK u \in project.uses : MergeParams(project, u, 0)
    BY <1>2, Zenon DEF ShowData
  <2> QED  BY <1>0, <2>1, <2>2, MergeKeeps
<1>3. CASE DesignerAddObject
  <2>1. born' = born /\ offer' = Nowhere
    BY <1>3, Zenon DEF DesignerAddObject
  <2>2. PICK k : k = [project EXCEPT !.rest = ~@]
    OBVIOUS
  <2>3. PICK ks : ks = <<k, k>>
    OBVIOUS
  <2>4. SetModifiedAt(ks, k, None)
    BY <1>3, <2>2, <2>3, Zenon DEF DesignerAddObject
  <2>5. Keeps(k, project, born)
    BY <1>0, <2>2, RestKeeps
  <2>6. ks \in Seq({k}) /\ Len(ks) = 2 /\ \A i \in DOMAIN ks : ks[i] = k
    BY <2>3
  <2>7. PointsOK(ks, None)
    BY <2>6, SeqIsSeq DEF PointsOK
  <2> QED  BY <2>1, <2>4, <2>5, <2>6, <2>7, Zenon
<1> QED  BY <1>1, <1>2, <1>3 DEF Merging

LEMMA ComponentEdits ==
    ASSUME TreesInv, AddAComponent \/ Merging \/ RemoveAComponent
    PROVE  EditOK
<1>0. WellFormed(project, born)
  BY ProjectFormed
<1>1. CASE AddAComponent
  <2>1. PICK z \in Present(project) \cup Zones :
            project' = UseQuery(project, z, Nameless) /\ born' = born /\ offer' = Nowhere
    BY <1>1, Zenon DEF AddAComponent, Edit, SetModified, SetModifiedAt
  <2>2. Keeps(project', project, born)
    BY <1>0, <2>1, UseQueryKeeps
  <2> QED  BY <2>1, <2>2, KeptEdit
<1>2. CASE Merging
  <2>1. /\ born' = born /\ offer' = Nowhere
        /\ \E ks, k, b : SetModifiedAt(ks, k, b) /\ Keeps(k, project, born)
    BY <1>2, MergingKeeps, Zenon
  <2>2. Keeps(project', project, born)
    BY <2>1, Zenon DEF SetModifiedAt
  <2> QED  BY <2>1, <2>2, KeptEdit
<1>3. CASE RemoveAComponent
  <2>1. PICK u \in project.uses :
            project' = [project EXCEPT !.uses = @ \ {u}] /\ born' = born /\ offer' = Nowhere
    BY <1>3, Zenon DEF RemoveAComponent, Edit, SetModified, SetModifiedAt
  <2>2. Keeps(project', project, born)
    BY <1>0, <2>1, RemoveUseKeeps
  <2> QED  BY <2>1, <2>2, KeptEdit
<1> QED  BY <1>1, <1>2, <1>3

LEMMA QueryEdits ==
    ASSUME TreesInv, AddAQuery \/ RenameAQuery \/ RemoveAQuery \/ SelectACollection
    PROVE  EditOK
<1>0. WellFormed(project, born)
  BY ProjectFormed
<1>1. CASE AddAQuery
  <2>1. PICK n \in Typed, c \in project.collections \cup {Nameless} :
            project' = AddQuery(project, n, c) /\ born' = born /\ offer' = Nowhere
    BY <1>1, Zenon DEF AddAQuery, Edit, SetModified, SetModifiedAt
  <2>2. Keeps(project', project, born)
    BY <1>0, <2>1, AddQueryKeeps
  <2> QED  BY <2>1, <2>2, KeptEdit
<1>2. CASE RenameAQuery
  <2>1. PICK q \in project.queries, n \in Typed :
            project' = RenameQuery(project, q, n) /\ born' = born /\ offer' = Nowhere
    BY <1>2, Zenon DEF RenameAQuery, Edit, SetModified, SetModifiedAt
  <2>2. Keeps(project', project, born)
    BY <1>0, <2>1, RenameQueryKeeps
  <2> QED  BY <2>1, <2>2, KeptEdit
<1>3. CASE RemoveAQuery
  <2>1. PICK q \in project.queries :
            project' = RemoveQuery(project, q) /\ born' = born /\ offer' = Nowhere
    BY <1>3, Zenon DEF RemoveAQuery, Edit, SetModified, SetModifiedAt
  <2>2. Keeps(project', project, born)
    BY <1>0, <2>1, RemoveQueryKeeps
  <2> QED  BY <2>1, <2>2, KeptEdit
<1>4. CASE SelectACollection
  <2>1. PICK q \in project.queries, c \in project.collections \cup {Nameless} :
            /\ project' = [project EXCEPT !.queries =
                              (@ \ {q}) \cup {[q EXCEPT !.collection = c]}]
            /\ born' = born /\ offer' = Nowhere
    BY <1>4, Zenon DEF SelectACollection, Edit, SetModified, SetModifiedAt
  <2>2. Keeps(project', project, born)
    BY <1>0, <2>1, SelectCollectionKeeps
  <2> QED  BY <2>1, <2>2, KeptEdit
<1> QED  BY <1>1, <1>2, <1>3, <1>4

LEMMA CollectionEdits ==
    ASSUME TreesInv, AddACollection \/ RenameACollection \/ RemoveACollection
    PROVE  EditOK
<1>0. WellFormed(project, born)
  BY ProjectFormed
<1>1. CASE AddACollection
  <2>1. PICK n \in Typed :
            project' = AddCollection(project, n) /\ born' = born /\ offer' = Nowhere
    BY <1>1, Zenon DEF AddACollection, Edit, SetModified, SetModifiedAt
  <2>2. Keeps(project', project, born)
    BY <1>0, <2>1, AddCollectionKeeps
  <2> QED  BY <2>1, <2>2, KeptEdit
<1>2. CASE RenameACollection
  <2>1. PICK c \in project.collections, n \in Typed :
            project' = RenameCollection(project, c, n) /\ born' = born /\ offer' = Nowhere
    BY <1>2, Zenon DEF RenameACollection, Edit, SetModified, SetModifiedAt
  <2>2. Keeps(project', project, born)
    BY <1>0, <2>1, RenameCollectionKeeps
  <2> QED  BY <2>1, <2>2, KeptEdit
<1>3. CASE RemoveACollection
  <2>1. PICK c \in project.collections :
            project' = RemoveCollection(project, c) /\ born' = born /\ offer' = Nowhere
    BY <1>3, Zenon DEF RemoveACollection, Edit, SetModified, SetModifiedAt
  <2>2. Keeps(project', project, born)
    BY <1>0, <2>1, RemoveCollectionKeeps
  <2> QED  BY <2>1, <2>2, KeptEdit
<1> QED  BY <1>1, <1>2, <1>3

\* New pages have the next numbers.
LEMMA GrownEdit ==
    ASSUME TreesInv, NEW h \in Nat, born + h <= MaxPages, born' = born + h,
           Grown(project', project, born + h),
           offer' \in Present(project') \cup {Nowhere}
    PROVE  EditOK
<1>1. WellFormed(project', born')
  BY DEF Grown
<1>2. RefsOK(project, odd) => RefsOK(project', odd)
  BY Zenon DEF Grown
<1>3. born' \in 0 .. MaxPages /\ born <= born'
  BY ProjectFormed, TreeAssumption
<1> QED  BY <1>1, <1>2, <1>3 DEF EditOK

LEMMA PageEdits ==
    ASSUME TreesInv, AddNewPage \/ RenameAPage \/ RemoveAPage \/ MoveAPage
    PROVE  EditOK
<1>0. WellFormed(project, born) /\ born \in Nat /\ born <= MaxPages
  BY ProjectFormed
<1>1. CASE AddNewPage
  <2>1. PICK z \in Present(project) \cup Zones, n \in Typed :
            /\ project' = AddPage(project, z, born + 1, n)
            /\ born' = born + 1 /\ offer' = born + 1
            /\ born < MaxPages
    BY <1>1, Zenon DEF AddNewPage, SetModified, SetModifiedAt
  <2>2. born + 1 \in Pages
    BY <1>0, <2>1, TreeAssumption DEF Pages
  <2>3. Grown(project', project, born + 1) /\ born + 1 \in Present(project')
    BY <1>0, <2>1, <2>2, AddPageGrows
  <2>4. born + 1 <= MaxPages
    BY <2>2, TreeAssumption DEF Pages
  <2> QED  BY <2>1, <2>3, <2>4, GrownEdit
<1>2. CASE RenameAPage
  <2>1. PICK p \in Present(project), n \in Typed :
            /\ project' = RenamePage(project, p, n) /\ born' = born /\ offer' = Nowhere
            /\ NameIsFree(NamesIn(project, project.parent[p]) \ {project.name[p]}, n)
    BY <1>2, Zenon DEF RenameAPage, Edit, SetModified, SetModifiedAt
  <2>2. WellFormed(project', born)
    BY <1>0, <2>1, RenamePageWell
  <2>3. ASSUME NamesTyped, RefsOK(project, odd), Ambiguous(project) \subseteq odd
        PROVE  RefsOK(project', odd)
    <3>1. n # Nameless
      BY <2>3 DEF NamesTyped
    <3> QED  BY <1>0, <2>1, <2>3, <3>1, RenamePageRefs
  <2> QED  BY <1>0, <2>1, <2>2, <2>3 DEF EditOK, TreesInv
<1>3. CASE RemoveAPage
  <2>1. PICK p \in Present(project) :
            project' = RemovePage(project, p) /\ born' = born /\ offer' = Nowhere
    BY <1>3, Zenon DEF RemoveAPage, Edit, SetModified, SetModifiedAt
  <2>2. WellFormed(project', born)
    BY <1>0, <2>1, RemovePageWell
  <2>3. ASSUME NamesTyped, RefsOK(project, odd), Ambiguous(project) \subseteq odd
        PROVE  RefsOK(project', odd)
    BY <1>0, <2>1, <2>3, RemovePageRefs
  <2> QED  BY <1>0, <2>1, <2>2, <2>3 DEF EditOK, TreesInv
<1>4. CASE MoveAPage
  <2>1. project' = project /\ born' = born /\ offer' = Nowhere
    BY <1>4, Zenon DEF MoveAPage, Edit, SetModified, SetModifiedAt
  <2> QED  BY <1>0, <2>1 DEF EditOK, TreesInv
<1> QED  BY <1>1, <1>2, <1>3, <1>4

LEMMA WizardEdits ==
    ASSUME TreesInv, StartCrudWizard
    PROVE  EditOK
<1>0. WellFormed(project, born) /\ born \in Nat /\ born <= MaxPages
  BY ProjectFormed
<1>1. PICK w \in WizardChoices, z \in Present(project) \cup Zones, c \in project.collections :
          LET n == Cardinality(w[2]) + (IF w[1] THEN 1 ELSE 0)
          IN  /\ w[1] \/ z \notin Zones
              /\ born + n <= MaxPages
              /\ project' = Wizard(project, z, c, w[1], w[2], born + 1)
              /\ born' = born + n
              /\ offer' = IF w[1] THEN born + 1 ELSE Nowhere
  BY Zenon DEF StartCrudWizard, SetModified, SetModifiedAt
<1>2. PICK page \in BOOLEAN, forms \in SUBSET WizardForms : page = w[1] /\ forms = w[2]
  BY EditorAssumption DEF WizardForms
<1>3. PICK h : h = Cardinality(forms) + (IF page THEN 1 ELSE 0)
  OBVIOUS
<1>4. /\ page \/ z \notin Zones
      /\ born + h <= MaxPages /\ born' = born + h
      /\ project' = Wizard(project, z, c, page, forms, born + 1)
      /\ offer' = IF page THEN born + 1 ELSE Nowhere
  BY <1>1, <1>2, <1>3, Zenon
<1>5. Grown(project', project, born + h) /\ (page => born + 1 \in Present(project'))
  BY <1>0, <1>3, <1>4, WizardGrows
<1>6. h \in Nat
  BY <1>3, FormsCount DEF Count
<1> QED  BY <1>4, <1>5, <1>6, GrownEdit

LEMMA EditsKeepTrees ==
    ASSUME TreesInv, EditPages \/ EditData
    PROVE  EditOK
<1>1. CASE AddToNoMenu
  <2>1. project' = project /\ born' = born /\ offer' = Nowhere
    BY <1>1, Zenon DEF AddToNoMenu
  <2> QED  BY <2>1, ProjectFormed DEF EditOK, TreesInv
<1>2. CASE ~AddToNoMenu
  BY <1>2, LinkEdits, ComponentEdits, QueryEdits, CollectionEdits, PageEdits, WizardEdits, Zenon
     DEF EditPages, EditData, Merging
<1> QED  BY <1>1, <1>2

\* An edit adds the application as it has become to the buffer, and trees that
\* merging goes through.
LEMMA EditEntries ==
    ASSUME UndoInv, TreesInv, EditPages \/ EditData
    PROVE  /\ stored' = stored /\ saving' = saving
           /\ \A i \in DOMAIN buffer' : \/ buffer'[i] \in Trees \cup {project'}
                                       \/ Keeps(buffer'[i], project, born)
<1>1. ASSUME NEW ks, NEW k, NEW b, SetModifiedAt(ks, k, b), PointsOK(ks, b),
             \A i \in DOMAIN ks : ks[i] = k \/ Keeps(ks[i], project, born)
      PROVE  /\ stored' = stored /\ saving' = saving
             /\ \A i \in DOMAIN buffer' : \/ buffer'[i] \in Trees \cup {project'}
                                         \/ Keeps(buffer'[i], project, born)
  <2>1. project' = k /\ AddUndoPoints(ks) /\ stored' = stored /\ saving' = saving
    BY <1>1, Zenon DEF SetModifiedAt
  <2>2. \A i \in DOMAIN buffer' : \/ \E j \in DOMAIN ks : buffer'[i] = ks[j]
                                 \/ \E j \in DOMAIN buffer : buffer'[i] = buffer[j]
    BY <1>1, <2>1, Pushed DEF UndoInv, PointsOK
  <2>3. \A j \in DOMAIN buffer : buffer[j] \in Trees
    BY DEF Trees
  <2> QED  BY <1>1, <2>1, <2>2, <2>3
<1>2. CASE \E k : SetModified(k)
  BY <1>1, <1>2, OneCall
<1>3. CASE Merging
  BY <1>1, <1>3, MergingKeeps
<1>4. CASE AddToNoMenu
  <2>1. buffer' = buffer /\ stored' = stored /\ saving' = saving
    BY <1>4, Zenon DEF AddToNoMenu
  <2> QED  BY <2>1 DEF Trees
<1> QED  BY <1>2, <1>3, <1>4, EditsAreSetModified

\* Any other step adds no tree but the application as it has become.
LEMMA OthersGrow ==
    ASSUME UndoInv, SaveInv, [Next]_vars, ~(EditPages \/ EditData)
    PROVE  Trees' \subseteq Trees \cup {project'}
<1>1. /\ DOMAIN stored = Projects
      /\ IsSeq(saving) /\ Len(saving) \in Nat /\ DOMAIN saving = 1 .. Len(saving)
      /\ \A i \in DOMAIN saving : IsSave(saving[i])
  BY LenIsNat DEF SaveInv, QueueOK
<1> DEFINE B == \A i \in DOMAIN buffer' : buffer'[i] \in Trees \cup {project'}
           S == \A id \in Projects : stored'[id] \in Trees \cup {project'}
           V == \A i \in DOMAIN saving' : saving'[i].data \in Trees \cup {project'}
<1>2. B /\ S /\ V => Trees' \subseteq Trees \cup {project'}
  BY DEF Trees
<1>3. buffer' = buffer => B
  BY DEF Trees
<1>4. stored' = stored => S
  BY DEF Trees
<1>5. saving' = saving => V
  BY DEF Trees
<1>6. ASSUME NEW k, SendSave(k), k \in Trees \cup {project'}
      PROVE  V
  <2>1. PICK new : new = [id |-> open, data |-> k, state |-> "sent"]
    OBVIOUS
  <2>2. saving' = Append(saving, new)
    BY <1>6, <2>1, Zenon DEF SendSave
  <2>3. /\ IsSeq(saving') /\ Len(saving') = Len(saving) + 1
        /\ \A i \in 1 .. Len(saving) : saving'[i] = saving[i]
        /\ saving'[Len(saving) + 1] = new
    BY <1>1, <2>2, AppendIsSeq
  <2>4. DOMAIN saving' = 1 .. Len(saving) + 1
    BY <2>3, LenIsNat
  <2>5. ASSUME NEW i \in DOMAIN saving'
        PROVE  saving'[i].data \in Trees \cup {project'}
    <3>1. CASE i = Len(saving) + 1
      BY <1>6, <2>1, <2>3, <3>1
    <3>2. CASE i # Len(saving) + 1
      <4>1. i \in DOMAIN saving /\ saving'[i] = saving[i]
        BY <1>1, <2>3, <2>4, <3>2
      <4> QED  BY <4>1 DEF Trees
    <3> QED  BY <3>1, <3>2
  <2> QED  BY <2>5
<1>8. CASE Undo \/ Redo
  <2>1. buffer' = buffer /\ stored' = stored /\ saving' = saving
    BY <1>8, Zenon DEF Undo, Redo, Load
  <2> QED  BY <1>2, <1>3, <1>4, <1>5, <2>1
<1>9. CASE SaveApp
  <2>1. PICK k : k = project
    OBVIOUS
  <2>2. SendSave(project) /\ buffer' = buffer /\ stored' = stored
    BY <1>9, Zenon DEF SaveApp
  <2>3. SendSave(k) /\ k \in Trees
    BY <2>1, <2>2 DEF SendSave, Trees
  <2> QED  BY <1>2, <1>3, <1>4, <1>6, <2>2, <2>3
<1>10. CASE SaveBuildOptions
  <2>1. buffer' = buffer /\ stored' = stored
    BY <1>10, Zenon DEF SaveBuildOptions
  <2>2. saving' = saving \/ SendSave(project')
    BY <1>10, Zenon DEF SaveBuildOptions
  <2>3. ASSUME SendSave(project')
        PROVE  V
    <3>1. PICK k : k = project'
      OBVIOUS
    <3>2. SendSave(k)
      BY <2>3, <3>1 DEF SendSave
    <3> QED  BY <1>6, <3>1, <3>2
  <2> QED  BY <1>2, <1>3, <1>4, <1>5, <2>1, <2>2, <2>3
<1>11. CASE ServerSaves
  <2>1. PICK i \in DOMAIN saving, ok \in BOOLEAN :
          /\ saving' = [saving EXCEPT ![i].state = IF ok THEN "done" ELSE "failed"]
          /\ stored' = IF ok THEN [stored EXCEPT ![saving[i].id] = saving[i].data] ELSE stored
    BY <1>11, Zenon DEF ServerSaves
  <2>2. buffer' = buffer
    BY <1>11, Zenon DEF ServerSaves
  <2>3. PICK answer : answer = IF ok THEN "done" ELSE "failed"
    OBVIOUS
  <2>4. PICK new : new = [id |-> saving[i].id, data |-> saving[i].data, state |-> answer]
    OBVIOUS
  <2>5. saving' = [saving EXCEPT ![i] = new]
    <3>1. [saving[i] EXCEPT !.state = answer] = new
      BY <1>1, <2>4, AnswerOfSave
    <3>2. saving' = [saving EXCEPT ![i] = [saving[i] EXCEPT !.state = answer]]
      BY <2>1, <2>3
    <3> QED  BY <3>1, <3>2
  <2>6. V
    <3>1. DOMAIN saving' = DOMAIN saving
      BY <2>5
    <3>2. saving[i].data \in Trees
      BY DEF Trees
    <3>3. ASSUME NEW j \in DOMAIN saving
          PROVE  saving'[j].data = saving[j].data
      <4>1. PICK d : d = saving[i].data
        OBVIOUS
      <4>2. new.data = d
        BY <2>4, <4>1
      <4>3. saving \in [DOMAIN saving -> {saving[x] : x \in DOMAIN saving}]
        BY <1>1 DEF IsSeq
      <4>4. CASE j = i
        <5>1. saving'[j] = new
          BY <2>5, <4>3, <4>4
        <5> QED  BY <4>1, <4>2, <4>4, <5>1
      <4>5. CASE j # i
        <5>1. saving'[j] = saving[j]
          BY <2>5, <4>3, <4>5
        <5> QED  BY <5>1
      <4> QED  BY <4>4, <4>5
    <3> QED  BY <3>1, <3>3 DEF Trees
  <2>7. S
    <3>1. PICK d, y : d = saving[i].data /\ y = saving[i].id
      OBVIOUS
    <3>2. d \in Trees
      BY <3>1 DEF Trees
    <3>3. \A id \in Projects : stored'[id] = d \/ stored'[id] = stored[id]
      BY <1>1, <2>1, <3>1
    <3> QED  BY <3>2, <3>3 DEF Trees
  <2> QED  BY <1>2, <1>3, <2>2, <2>6, <2>7
<1>12. CASE SaveReturns
  <2>1. saving # <<>> /\ saving' = Tail(saving) /\ buffer' = buffer /\ stored' = stored
    BY <1>12, Zenon DEF SaveReturns
  <2>2. /\ IsSeq(saving') /\ Len(saving') = Len(saving) - 1
        /\ \A i \in 1 .. Len(saving) - 1 : saving'[i] = saving[i + 1]
    BY <1>1, <2>1, TailIsSeq
  <2>3. DOMAIN saving' = 1 .. Len(saving) - 1
    BY <2>2, LenIsNat
  <2>4. ASSUME NEW i \in DOMAIN saving'
        PROVE  saving'[i].data \in Trees
    <3>1. i + 1 \in DOMAIN saving /\ saving'[i] = saving[i + 1]
      BY <1>1, <2>2, <2>3
    <3> QED  BY <3>1 DEF Trees
  <2> QED  BY <1>2, <1>3, <1>4, <2>1, <2>4
<1>13. CASE OpenProject
  <2>1. PICK id \in Projects : project' = stored[id] /\ buffer' = <<stored[id]>>
    BY <1>13, Zenon DEF OpenProject
  <2>2. saving' = saving /\ stored' = stored
    BY <1>13, Zenon DEF OpenProject
  <2>3. B
    BY <2>1
  <2> QED  BY <1>2, <1>4, <1>5, <2>2, <2>3
<1>14. CASE UNCHANGED vars
  <2>1. buffer' = buffer /\ stored' = stored /\ saving' = saving
    BY <1>14, Zenon DEF vars
  <2> QED  BY <1>2, <1>3, <1>4, <1>5, <2>1
<1> QED
  BY <1>8, <1>9, <1>10, <1>11, <1>12, <1>13, <1>14, Zenon DEF Next, Save

LEMMA TreesGrow ==
    ASSUME UndoInv, SaveInv, TreesInv, [Next]_vars
    PROVE  \A k \in Trees' : k \in Trees \cup {project'} \/ Keeps(k, project, born)
<1>1. CASE EditPages \/ EditData
  <2>1. /\ stored' = stored /\ saving' = saving
        /\ \A i \in DOMAIN buffer' : \/ buffer'[i] \in Trees \cup {project'}
                                    \/ Keeps(buffer'[i], project, born)
    BY <1>1, EditEntries
  <2>2. Trees' \subseteq Trees \cup {project'} \cup {buffer'[i] : i \in DOMAIN buffer'}
    BY <2>1 DEF Trees
  <2> QED  BY <2>1, <2>2
<1>2. CASE ~(EditPages \/ EditData)
  BY <1>2, OthersGrow
<1> QED  BY <1>1, <1>2

\* What a step makes of the application.
StepOK ==
    /\ born' \in 0 .. MaxPages /\ born <= born'
    /\ WellFormed(project', born')
    /\ offer' \in Present(project') \cup {Nowhere}
    /\ NamesTyped /\ RefsInv => RefsOK(project', odd)

\* The application becomes one there was.
LEMMA OldTree ==
    ASSUME TreesInv, project' \in Trees, born' = born,
           offer' \in Present(project') \cup {Nowhere}
    PROVE  StepOK
<1>1. WellFormed(project', born') /\ born' \in 0 .. MaxPages /\ born <= born'
  BY ProjectFormed DEF TreesInv
<1>2. RefsInv => RefsOK(project', odd)
  BY DEF RefsInv
<1> QED  BY <1>1, <1>2 DEF StepOK

LEMMA StepsKeepTree ==
    ASSUME UndoInv, SaveInv, TreesInv, [Next]_vars
    PROVE  StepOK
<1>1. project \in Trees /\ offer \in Present(project) \cup {Nowhere}
  BY DEF Trees, TreesInv
<1>2. CASE EditPages \/ EditData
  <2>1. EditOK
    BY <1>2, EditsKeepTrees
  <2>2. RefsInv => RefsOK(project, odd) /\ Ambiguous(project) \subseteq odd
    BY <1>1 DEF RefsInv
  <2> QED  BY <2>1, <2>2 DEF EditOK, StepOK
<1>3. CASE Undo \/ Redo
  <2>1. PICK i \in {pointer - 1, pointer + 1} :
            i + 1 \in DOMAIN buffer /\ project' = buffer[i + 1]
    <3>1. IsSeq(buffer) /\ Len(buffer) \in Nat /\ DOMAIN buffer = 1 .. Len(buffer)
          /\ pointer \in 0 .. Len(buffer) - 1
      BY LenIsNat DEF UndoInv, BufferOK
    <3>2. CASE Undo
      <4>1. pointer > 0 /\ project' = buffer[(pointer - 1) + 1]
        BY <3>2, Zenon DEF Undo, Load
      <4> QED  BY <3>1, <4>1
    <3>3. CASE Redo
      <4>1. pointer < Len(buffer) - 1 /\ project' = buffer[(pointer + 1) + 1]
        BY <3>3, Zenon DEF Redo, Load
      <4> QED  BY <3>1, <4>1
    <3> QED  BY <1>3, <3>2, <3>3
  <2>2. project' \in Trees
    BY <2>1 DEF Trees
  <2>3. born' = born /\ offer' = Nowhere
    BY <1>3, Zenon DEF Undo, Redo, Load
  <2> QED  BY <2>2, <2>3, OldTree
<1>4. CASE SaveBuildOptions
  <2>1. /\ project' = [project EXCEPT !.rest = ~@]
        /\ born' = born /\ offer' = Nowhere
    BY <1>4, Zenon DEF SaveBuildOptions
  <2>2. Keeps(project', project, born)
    BY <2>1, ProjectFormed, RestKeeps
  <2>3. EditOK
    BY <2>1, <2>2, KeptEdit
  <2>4. RefsInv => RefsOK(project, odd) /\ Ambiguous(project) \subseteq odd
    BY <1>1 DEF RefsInv
  <2> QED  BY <2>3, <2>4 DEF EditOK, StepOK
<1>5. CASE SaveApp \/ ServerSaves \/ SaveReturns \/ UNCHANGED vars
  <2>1. project' = project /\ born' = born /\ offer' = offer
    BY <1>5, Zenon DEF SaveApp, ServerSaves, SaveReturns, vars
  <2> QED  BY <1>1, <2>1, OldTree
<1>6. CASE OpenProject
  <2>1. PICK id \in Projects : project' = stored[id]
    BY <1>6, Zenon DEF OpenProject
  <2>2. born' = born /\ offer' = Nowhere
    BY <1>6, Zenon DEF OpenProject
  <2>3. project' \in Trees
    BY <2>1 DEF Trees
  <2> QED  BY <2>2, <2>3, OldTree
<1> QED  BY <1>2, <1>3, <1>4, <1>5, <1>6, Zenon DEF Next, Save

\* Ambiguous pages are noted whenever the application changes.
LEMMA OddStep ==
    ASSUME TreesInv, [Next]_vars
    PROVE  /\ odd \subseteq odd' /\ odd' \subseteq odd \cup Pages
           /\ Ambiguous(project) \subseteq odd => Ambiguous(project') \subseteq odd'
<1>1. CASE odd' = odd \cup Ambiguous(project')
  BY <1>1, AmbiguousSubset
<1>2. CASE odd' = odd /\ Ambiguous(project') = Ambiguous(project)
  BY <1>2
<1>3. CASE EditPages \/ EditData
  <2>1. CASE \E ks, k, b : SetModifiedAt(ks, k, b) /\ PointsOK(ks, b)
    <3>1. PICK k : project' = k /\ odd' = odd \cup Ambiguous(k)
      BY <2>1, Zenon DEF SetModifiedAt, Observe
    <3> QED  BY <1>1, <3>1
  <2>2. CASE AddToNoMenu
    <3>1. odd' = odd /\ project' = project
      BY <2>2, Zenon DEF AddToNoMenu
    <3> QED  BY <1>2, <3>1
  <2> QED  BY <1>3, <2>1, <2>2, EditsAreCalls
<1>4. CASE Undo \/ Redo
  <2>1. PICK i \in {pointer - 1, pointer + 1} : Load(i)
    BY <1>4, Zenon DEF Undo, Redo
  <2>2. PICK k : project' = k /\ odd' = odd \cup Ambiguous(k)
    BY <2>1, Zenon DEF Load, Observe
  <2> QED  BY <1>1, <2>2
<1>5. CASE SaveBuildOptions
  <2>1. project' = [project EXCEPT !.rest = ~@] /\ odd' = odd
    BY <1>5, Zenon DEF SaveBuildOptions
  <2>2. SamePages(project', project)
    BY <2>1, ProjectFormed, RestKeeps DEF Keeps
  <2> QED  BY <1>2, <2>1, <2>2, SameAmbiguous
<1>6. CASE SaveApp \/ ServerSaves \/ SaveReturns \/ UNCHANGED vars
  <2>1. project' = project /\ odd' = odd
    BY <1>6, Zenon DEF SaveApp, ServerSaves, SaveReturns, vars
  <2> QED  BY <1>2, <2>1
<1>7. CASE OpenProject
  <2>1. PICK k : project' = k /\ odd' = odd \cup Ambiguous(k)
    BY <1>7, Zenon DEF OpenProject, Observe
  <2> QED  BY <1>1, <2>1
<1> QED  BY <1>3, <1>4, <1>5, <1>6, <1>7, Zenon DEF Next, Save

-----------------------------------------------------------------------------
(* Trees stay well-formed, and references intact.                          *)

LEMMA FirstTrees ==
    ASSUME Init
    PROVE  Trees = {Initial}
<1>1. /\ project = Initial /\ buffer = <<Initial>> /\ saving = <<>>
      /\ stored = [id \in Projects |-> Initial]
  BY Zenon DEF Init
<1>2. {buffer[i] : i \in DOMAIN buffer} = {Initial}
  BY <1>1
<1>3. {saving[i].data : i \in DOMAIN saving} = {}
  BY <1>1
<1>4. {stored[id] : id \in Projects} \subseteq {Initial}
  BY <1>1
<1> QED  BY <1>1, <1>2, <1>3, <1>4, Zenon DEF Trees

LEMMA TreesInvInit ==
    ASSUME Init
    PROVE  TreesInv
<1>1. born = Cardinality(Present(Initial)) /\ offer = Nowhere
  BY Zenon DEF Init
<1>2. Cardinality(Present(Initial)) \in 0 .. MaxPages
  <2>1. IsFiniteSet(Pages) /\ Cardinality(Pages) = MaxPages
    BY FS_Interval, TreeAssumption DEF Pages
  <2>2. Present(Initial) \in SUBSET Pages
    BY DEF Present
  <2> QED  BY <2>1, <2>2, FS_Subset, FS_CardinalityType, TreeAssumption
<1> QED  BY <1>1, <1>2, FirstTrees, EditorAssumption DEF TreesInv

LEMMA TreesInvNext ==
    ASSUME UndoInv, SaveInv, TreesInv, [Next]_vars
    PROVE  TreesInv'
<1>1. StepOK
  BY StepsKeepTree
<1>2. /\ born' \in 0 .. MaxPages /\ born \in Nat /\ born' \in Nat /\ born <= born'
      /\ WellFormed(project', born') /\ offer' \in Present(project') \cup {Nowhere}
  BY <1>1, ProjectFormed, TreeAssumption DEF StepOK
<1>3. ASSUME NEW k \in Trees
      PROVE  WellFormed(k, born')
  <2>1. WellFormed(k, born)
    BY DEF TreesInv
  <2> QED  BY <1>2, <2>1, FormedGrows
<1>4. ASSUME NEW k, Keeps(k, project, born)
      PROVE  WellFormed(k, born')
  <2>1. WellFormed(k, born)
    BY <1>4 DEF Keeps
  <2> QED  BY <1>2, <2>1, FormedGrows
<1>5. \A k \in Trees' : WellFormed(k, born')
  BY <1>2, <1>3, <1>4, TreesGrow
<1> QED  BY <1>2, <1>5 DEF TreesInv

LEMMA RefsInvInit ==
    ASSUME Init, SoundAtFirst
    PROVE  RefsInv
<1>1. odd = Ambiguous(Initial)
  BY Zenon DEF Init
<1>2. RefsOK(Initial, odd)
  BY LinkedIsKept DEF SoundAtFirst
<1> QED  BY <1>1, <1>2, FirstTrees DEF RefsInv

LEMMA RefsInvNext ==
    ASSUME NamesTyped, UndoInv, SaveInv, TreesInv, RefsInv, [Next]_vars
    PROVE  RefsInv'
<1>1. RefsOK(project', odd)
  BY StepsKeepTree DEF StepOK
<1>2. odd \subseteq odd'
  BY OddStep
<1>3. ASSUME NEW k \in Trees
      PROVE  RefsOK(k, odd') /\ Ambiguous(k) \subseteq odd'
  <2>1. RefsOK(k, odd) /\ Ambiguous(k) \subseteq odd
    BY DEF RefsInv
  <2> QED  BY <1>2, <2>1, RefsExcept
<1>4. RefsOK(project', odd') /\ Ambiguous(project') \subseteq odd'
  <2>1. Ambiguous(project) \subseteq odd
    BY DEF RefsInv, Trees
  <2>2. Ambiguous(project') \subseteq odd'
    BY <2>1, OddStep
  <2> QED  BY <1>1, <1>2, <2>2, RefsExcept
<1>5. ASSUME NEW k, Keeps(k, project, born)
      PROVE  RefsOK(k, odd') /\ Ambiguous(k) \subseteq odd'
  <2>1. RefsOK(project, odd) /\ Ambiguous(project) \subseteq odd
    BY DEF RefsInv, Trees
  <2>2. RefsOK(k, odd) /\ SamePages(k, project)
    BY <1>5, <2>1, Zenon DEF Keeps
  <2>3. Ambiguous(k) \subseteq odd
    BY <2>1, <2>2, SameAmbiguous
  <2> QED  BY <1>2, <2>2, <2>3, RefsExcept
<1>6. \A k \in Trees' : RefsOK(k, odd') /\ Ambiguous(k) \subseteq odd'
  BY <1>3, <1>4, <1>5, TreesGrow
<1> QED  BY <1>6 DEF RefsInv

\* renameObject, deleteObject and the wizard leave every reference of
\* App.project intact, whatever is edited, undone, redone, saved and opened in
\* between, for every application that was sound and all names but the empty
\* one, except for links to pages that once could not be told apart.
THEOREM ReferencesSurvive ==
    ASSUME SoundAtFirst, NamesTyped
    PROVE  Spec => []ReferencesIntact
<1> DEFINE Inv == UndoInv /\ SaveInv /\ TreesInv /\ RefsInv
<1>1. Init => Inv
  BY UndoInvInit, SaveInvInit, TreesInvInit, RefsInvInit
<1>2. Inv /\ [Next]_vars => Inv'
  BY UndoInvNext, SaveInvNext, TreesInvNext, RefsInvNext
<1>3. Inv => ReferencesIntact
  <2>1. SUFFICES ASSUME Inv PROVE ReferencesIntact
    OBVIOUS
  <2>2. WellFormed(project, born) /\ RefsOK(project, odd)
    BY <2>1, ProjectFormed DEF RefsInv, Trees
  <2>3. /\ \A l \in project.links : l.goal \notin odd => LinkFollows(project, l)
        /\ Declared(project) /\ NamesDiffer(project)
    BY <2>2, KeptIsIntact
  <2> QED  BY <2>3, Zenon DEF ReferencesIntact
<1> HIDE DEF Inv
<1> QED  BY <1>1, <1>2, <1>3, PTL DEF Spec

-----------------------------------------------------------------------------
(* Types.                                                                  *)

CountersOK ==
    /\ steps \in 0 .. MaxSteps
    /\ odd \subseteq Pages
    /\ \A i \in DOMAIN saving : saving[i].state \in SaveStates

LEMMA CountersInit ==
    ASSUME Init
    PROVE  CountersOK
<1>1. steps = 0 /\ odd = Ambiguous(Initial) /\ saving = <<>>
  BY Zenon DEF Init
<1> QED  BY <1>1, AmbiguousSubset, EditorAssumption DEF CountersOK

LEMMA StepCounted ==
    ASSUME CountersOK, [Next]_vars
    PROVE  steps' \in 0 .. MaxSteps
<1>1. (steps < MaxSteps /\ steps' = steps + 1) \/ steps' = steps
  <2>1. CASE EditPages \/ EditData
    <3>1. CASE \E ks, k, b : SetModifiedAt(ks, k, b) /\ PointsOK(ks, b)
      BY <3>1, Zenon DEF SetModifiedAt
    <3>2. CASE AddToNoMenu
      BY <3>2, Zenon DEF AddToNoMenu
    <3> QED  BY <2>1, <3>1, <3>2, EditsAreCalls
  <2>2. CASE Undo \/ Redo
    BY <2>2, Zenon DEF Undo, Redo, Load
  <2>3. CASE Save
    BY <2>3, Zenon DEF Save, SaveApp, SaveBuildOptions, ServerSaves, SaveReturns, OpenProject
  <2>4. CASE UNCHANGED vars
    BY <2>4, Zenon DEF vars
  <2> QED  BY <2>1, <2>2, <2>3, <2>4, Zenon DEF Next
<1> QED  BY <1>1, EditorAssumption DEF CountersOK

\* A save is sent, answered once, and gone.
LEMMA StatesKept ==
    ASSUME SaveInv, CountersOK, [Next]_vars
    PROVE  \A i \in DOMAIN saving' : saving'[i].state \in SaveStates
<1>1. /\ IsSeq(saving) /\ Len(saving) \in Nat /\ DOMAIN saving = 1 .. Len(saving)
      /\ \A i \in DOMAIN saving : IsSave(saving[i])
  BY LenIsNat DEF SaveInv, QueueOK
<1>2. \A i \in DOMAIN saving : saving[i].state \in SaveStates
  BY DEF CountersOK
<1>3. ASSUME NEW k, SendSave(k)
      PROVE  \A i \in DOMAIN saving' : saving'[i].state \in SaveStates
  <2>1. PICK new : new = [id |-> open, data |-> k, state |-> "sent"]
    OBVIOUS
  <2>2. saving' = Append(saving, new)
    BY <1>3, <2>1, Zenon DEF SendSave
  <2>3. /\ IsSeq(saving') /\ Len(saving') = Len(saving) + 1
        /\ \A i \in 1 .. Len(saving) : saving'[i] = saving[i]
        /\ saving'[Len(saving) + 1] = new
    BY <1>1, <2>2, AppendIsSeq
  <2>4. DOMAIN saving' = 1 .. Len(saving) + 1
    BY <2>3, LenIsNat
  <2>5. new.state \in SaveStates
    BY <2>1 DEF SaveStates
  <2>6. ASSUME NEW i \in DOMAIN saving'
        PROVE  saving'[i].state \in SaveStates
    <3>1. CASE i = Len(saving) + 1
      BY <2>3, <2>5, <3>1
    <3>2. CASE i # Len(saving) + 1
      <4>1. i \in DOMAIN saving /\ saving'[i] = saving[i]
        BY <1>1, <2>3, <2>4, <3>2
      <4> QED  BY <1>2, <4>1
    <3> QED  BY <3>1, <3>2
  <2> QED  BY <2>6
<1>4. CASE saving' = saving
  BY <1>2, <1>4
<1>5. CASE EditPages \/ EditData
  <2>1. CASE \E ks, k, b : SetModifiedAt(ks, k, b) /\ PointsOK(ks, b)
    BY <1>4, <2>1, Zenon DEF SetModifiedAt
  <2>2. CASE AddToNoMenu
    BY <1>4, <2>2, Zenon DEF AddToNoMenu
  <2> QED  BY <1>5, <2>1, <2>2, EditsAreCalls
<1>6. CASE Undo \/ Redo \/ OpenProject \/ UNCHANGED vars
  BY <1>4, <1>6, Zenon DEF Undo, Redo, Load, OpenProject, vars
<1>7. CASE SaveApp
  <2>1. PICK k : k = project
    OBVIOUS
  <2>2. SendSave(project)
    BY <1>7, Zenon DEF SaveApp
  <2>3. SendSave(k)
    BY <2>1, <2>2 DEF SendSave
  <2> QED  BY <1>3, <2>3
<1>8. CASE SaveBuildOptions
  <2>1. PICK k : k = project'
    OBVIOUS
  <2>2. saving' = saving \/ SendSave(project')
    BY <1>8, Zenon DEF SaveBuildOptions
  <2>3. SendSave(project') => SendSave(k)
    BY <2>1 DEF SendSave
  <2> QED  BY <1>3, <1>4, <2>2, <2>3
<1>9. CASE ServerSaves
  <2>1. PICK i \in DOMAIN saving, ok \in BOOLEAN :
            saving' = [saving EXCEPT ![i].state = IF ok THEN "done" ELSE "failed"]
    BY <1>9, Zenon DEF ServerSaves
  <2>2. PICK answer : answer = IF ok THEN "done" ELSE "failed"
    OBVIOUS
  <2>3. PICK new : new = [id |-> saving[i].id, data |-> saving[i].data, state |-> answer]
    OBVIOUS
  <2>4. saving' = [saving EXCEPT ![i] = new]
    <3>1. [saving[i] EXCEPT !.state = answer] = new
      BY <1>1, <2>3, AnswerOfSave
    <3>2. saving' = [saving EXCEPT ![i] = [saving[i] EXCEPT !.state = answer]]
      BY <2>1, <2>2
    <3> QED  BY <3>1, <3>2
  <2>5. new.state \in SaveStates
    BY <2>2, <2>3 DEF SaveStates
  <2>6. saving \in [DOMAIN saving -> {saving[x] : x \in DOMAIN saving}]
    BY <1>1 DEF IsSeq
  <2>7. DOMAIN saving' = DOMAIN saving
    BY <2>4
  <2>8. ASSUME NEW j \in DOMAIN saving
        PROVE  saving'[j].state \in SaveStates
    <3>1. CASE j = i
      <4>1. saving'[j] = new
        BY <2>4, <2>6, <3>1
      <4> QED  BY <2>5, <4>1
    <3>2. CASE j # i
      <4>1. saving'[j] = saving[j]
        BY <2>4, <2>6, <3>2
      <4> QED  BY <1>2, <4>1
    <3> QED  BY <3>1, <3>2
  <2> QED  BY <2>7, <2>8
<1>10. CASE SaveReturns
  <2>1. saving # <<>> /\ saving' = Tail(saving)
    BY <1>10, Zenon DEF SaveReturns
  <2>2. /\ IsSeq(saving') /\ Len(saving') = Len(saving) - 1
        /\ \A i \in 1 .. Len(saving) - 1 : saving'[i] = saving[i + 1]
    BY <1>1, <2>1, TailIsSeq
  <2>3. DOMAIN saving' = 1 .. Len(saving) - 1
    BY <2>2, LenIsNat
  <2>4. ASSUME NEW i \in DOMAIN saving'
        PROVE  saving'[i].state \in SaveStates
    <3>1. i + 1 \in DOMAIN saving /\ saving'[i] = saving[i + 1]
      BY <1>1, <2>2, <2>3
    <3> QED  BY <1>2, <3>1
  <2> QED  BY <2>4
<1> QED
  BY <1>5, <1>6, <1>7, <1>8, <1>9, <1>10, Zenon DEF Next, Save

LEMMA CountersNext ==
    ASSUME SaveInv, TreesInv, CountersOK, [Next]_vars
    PROVE  CountersOK'
<1>1. odd' \subseteq Pages
  BY OddStep DEF CountersOK
<1> QED  BY <1>1, StepCounted, StatesKept DEF CountersOK

\* The variables of App are what the operations take them for: links and
\* components are in pages that exist, and App.undoPointer is an index of
\* App.undoBuffer.
THEOREM EditorTypes == Spec => []TypeOK
<1> DEFINE Inv == UndoInv /\ SaveInv /\ TreesInv /\ CountersOK
<1>1. Init => Inv
  BY UndoInvInit, SaveInvInit, TreesInvInit, CountersInit
<1>2. Inv /\ [Next]_vars => Inv'
  BY UndoInvNext, SaveInvNext, TreesInvNext, CountersNext
<1>3. Inv => TypeOK
  <2>1. SUFFICES ASSUME Inv PROVE TypeOK
    OBVIOUS
  <2>2. WellFormed(project, born)
    BY <2>1, ProjectFormed
  <2>3. /\ project.parent \in [Pages -> Spots \cup {Nowhere}]
        /\ DOMAIN project.name = Pages
    BY <2>2 DEF WellFormed, PagesFormed
  <2>4. /\ \A l \in project.links : l.in \in Present(project) \cup Zones
        /\ \A u \in project.uses : u.in \in Present(project) \cup Zones
    BY <2>2 DEF WellFormed, LinkFormed, UseFormed
  <2>5. \A i \in DOMAIN saving : saving[i].id \in Projects /\ saving[i].state \in SaveStates
    BY <2>1 DEF SaveInv, QueueOK, IsSave, CountersOK
  <2>6. open \in Projects /\ modified \in BOOLEAN /\ DOMAIN stored = Projects
        /\ overtaken \in BOOLEAN
    BY <2>1, Zenon DEF SaveInv
  <2>7. Len(buffer) \in 1 .. UndoLimit /\ pointer \in 0 .. Len(buffer) - 1
        /\ recorded \in BOOLEAN
    BY <2>1, Zenon DEF UndoInv, BufferOK
  <2>8. /\ offer \in Present(project) \cup {Nowhere} /\ born \in 0 .. MaxPages
        /\ steps \in 0 .. MaxSteps /\ odd \subseteq Pages
    BY <2>1, Zenon DEF TreesInv, CountersOK
  <2> QED  BY <2>3, <2>4, <2>5, <2>6, <2>7, <2>8, Zenon DEF TypeOK
<1> HIDE DEF Inv
<1> QED  BY <1>1, <1>2, <1>3, PTL DEF Spec

=============================================================================
