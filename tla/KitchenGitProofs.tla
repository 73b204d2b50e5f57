--------------------------- MODULE KitchenGitProofs ---------------------------
(* Theorems about KitchenGit, for every value of its constants. *)
EXTENDS KitchenGit, WellFoundedInduction, TLAPS

-----------------------------------------------------------------------------
(* Trees and commits. *)

LEMMA EmptyTreeType == EmptyTree \in Tree
  BY DEF EmptyTree, Tree

LEMMA TreeOfType ==
  ASSUME CommitsOK, NEW c \in 0..Len(commits)
  PROVE  TreeOf(c) \in Tree
  <1>1. CASE c = None
    BY <1>1, EmptyTreeType DEF TreeOf
  <1>2. CASE c # None
    <2>1. c \in 1..Len(commits) /\ commits[c] \in Commit
      BY <1>2 DEF CommitsOK, None
    <2> QED BY <2>1, <1>2 DEF TreeOf, Commit
  <1> QED BY <1>1, <1>2

LEMMA AncType ==
  ASSUME CommitsOK, NEW c \in 0..Len(commits)
  PROVE  Anc(c) \subseteq 1..c
  BY DEF CommitsOK, Anc, None

LEMMA OutputType ==
  ASSUME NEW i \in Input
  PROVE  Output[i] \in Tree
  <1>1. [Region -> GenValue] \subseteq File
    BY DEF File, Value
  <1> QED BY <1>1, OutputAssumption DEF Tree

(* A merge of well-formed files is a well-formed file. *)
LEMMA MergedFileType ==
  ASSUME NEW base \in File \cup {Absent}, NEW ours \in File \cup {Absent},
         NEW theirs \in File \cup {Absent}
  PROVE  MergedFile(base, ours, theirs) \in File \cup {Absent}
  <1>1. CASE ours = theirs \/ base = theirs \/ base = ours \/ ours = Absent \/ theirs = Absent
    BY <1>1 DEF MergedFile
  <1>2. CASE ours # theirs /\ base # theirs /\ base # ours /\ ours # Absent /\ theirs # Absent
    <2> DEFINE M == [r \in Region |-> IF RegionClash(base, ours, theirs, r) THEN Marker
                       ELSE IF base = Absent \/ base[r] = theirs[r] THEN ours[r] ELSE theirs[r]]
    <2>1. MergedFile(base, ours, theirs) = M
      BY <1>2 DEF MergedFile
    <2>2. \A r \in Region : ours[r] \in Value /\ theirs[r] \in Value /\ Marker \in Value
      BY <1>2 DEF File, Value
    <2>3. M \in File
      BY <2>2 DEF File
    <2> QED BY <2>1, <2>3
  <1> QED BY <1>1, <1>2

(* What writing a commit on HEAD changes, and that it keeps CommitsOK. *)
LEMMA WriteCommitEffect ==
  ASSUME CommitsOK, branch \in [Branch -> 0..Len(commits)], head \in Branch,
         NEW tree \in Tree, NEW parents \in SUBSET (0..Len(commits)),
         WriteCommit(tree, parents)
  PROVE  /\ CommitsOK'
         /\ Len(commits') = Len(commits) + 1
         /\ \A c \in 1..Len(commits) : commits'[c] = commits[c]
         /\ commits'[Len(commits) + 1] =
              [tree |-> tree, anc |-> {Len(commits) + 1} \cup UNION {Anc(q) : q \in parents}]
         /\ branch' = [branch EXCEPT ![head] = Len(commits) + 1]
         /\ branch' \in [Branch -> 0..Len(commits')]
  <1> DEFINE new == Len(commits) + 1
             rec == [tree |-> tree, anc |-> {new} \cup UNION {Anc(q) : q \in parents}]
  <1>1. \A q \in parents : Anc(q) \subseteq 1..Len(commits)
    BY AncType
  <1>2. rec.anc \subseteq 1..new /\ new \in rec.anc /\ Len(commits) \in Nat
    BY <1>1 DEF CommitsOK
  <1>3. rec \in Commit
    <2>1. {new} \cup UNION {Anc(q) : q \in parents} \in SUBSET Nat
      BY <1>1, <1>2
    <2> QED BY <2>1 DEF Commit
  <1>4. commits' = Append(commits, rec) /\ branch' = [branch EXCEPT ![head] = new]
    BY DEF WriteCommit
  <1>5. /\ commits' \in Seq(Commit) /\ Len(commits') = new
        /\ \A c \in 1..Len(commits) : commits'[c] = commits[c]
        /\ commits'[new] = rec
    BY <1>3, <1>4 DEF CommitsOK
  <1>6. \A c \in 1..Len(commits') : c \in commits'[c].anc /\ commits'[c].anc \subseteq 1..c
    BY <1>2, <1>5 DEF CommitsOK
  <1>7. branch' \in [Branch -> 0..Len(commits')]
    BY <1>2, <1>4, <1>5
  <1> QED BY <1>4, <1>5, <1>6, <1>7 DEF CommitsOK

-----------------------------------------------------------------------------
(* The merge base exists. *)

Below == {ss \in Nat \X Nat : ss[1] < ss[2]}

LEMMA BelowWellFounded == IsWellFoundedOn(Below, Nat)
  BY NatLessThanWellFounded DEF OpToRel, Below

LEMMA LatestExists ==
  ASSUME NEW n \in Nat, NEW S \in SUBSET (1..n), S # {}
  PROVE  \E c \in S : \A d \in S : d =< c
  <1> DEFINE T == {n - c : c \in S}
  <1>1. T \subseteq Nat /\ T # {}
    <2>1. \A c \in S : n - c \in Nat
      OBVIOUS
    <2> QED BY <2>1
  <1>2. PICK x \in T : \A y \in T : ~ (<<y, x>> \in Below)
    <2> HIDE DEF T
    <2> QED BY <1>1, BelowWellFounded, WFMin, Zenon
  <1>3. \A y \in T : ~ (y < x)
    <2> SUFFICES ASSUME NEW y \in T, y < x PROVE FALSE
      OBVIOUS
    <2>1. x \in Nat /\ y \in Nat
      BY <1>1
    <2>2. <<y, x>> \in Below
      BY <2>1 DEF Below
    <2> QED BY <2>2, <1>2
  <1>4. PICK c \in S : x = n - c
    OBVIOUS
  <1>5. \A d \in S : ~ (n - d < n - c)
    BY <1>3, <1>4
  <1> QED BY <1>4, <1>5

LEMMA MergeBaseType ==
  ASSUME CommitsOK, NEW x \in 0..Len(commits), NEW y \in 0..Len(commits)
  PROVE  MergeBase(x, y) \in 0..Len(commits)
  <1> DEFINE common == Anc(x) \cap Anc(y)
  <1>1. common \subseteq 1..Len(commits) /\ Len(commits) \in Nat
    BY AncType DEF CommitsOK
  <1>2. CASE common = {}
    BY <1>1, <1>2 DEF MergeBase, None
  <1>3. CASE common # {}
    <2>1. \E c \in common : \A d \in common : d =< c
      BY <1>1, <1>3, LatestExists
    <2>2. MergeBase(x, y) \in common
      BY <1>3, <2>1 DEF MergeBase
    <2> QED BY <1>1, <2>2
  <1> QED BY <1>2, <1>3

-----------------------------------------------------------------------------
(* The trees a run writes. *)

LEMMA StagedType ==
  ASSUME TypeOK
  PROVE  Staged \in Tree
  BY DEF Staged, TypeOK, RunOK, Tree

LEMMA CheckedOutType ==
  ASSUME TypeOK, NEW target \in Tree
  PROVE  CheckedOut(target) \in Tree
  BY DEF CheckedOut, TypeOK, RunOK, Tree

LEMMA GeneratedType ==
  ASSUME TypeOK, NEW written, NEW removed
  PROVE  Generated(written, removed) \in Tree
  <1>1. Output[input] \in Tree
    BY OutputType DEF TypeOK, RunOK
  <1> QED BY <1>1 DEF Generated, TypeOK, RunOK, Tree

LEMMA MergeTreeType ==
  ASSUME TypeOK
  PROVE  MergeTree \in Tree /\ MergeDir \in Tree /\ MergeIndex \in Tree
  <1>1. HeadCommit \in 0..Len(commits) /\ branch[Kitchen] \in 0..Len(commits)
    BY DEF TypeOK, RefsOK, HeadCommit, Branch
  <1>2. MergeBase(HeadCommit, branch[Kitchen]) \in 0..Len(commits)
    BY <1>1, MergeBaseType DEF TypeOK
  <1>3. /\ TreeOf(MergeBase(HeadCommit, branch[Kitchen])) \in Tree
        /\ HeadTree \in Tree /\ TreeOf(branch[Kitchen]) \in Tree
    BY <1>1, <1>2, TreeOfType DEF TypeOK, HeadTree
  <1>4. \A p \in Path : /\ Side(p).base \in File \cup {Absent}
                        /\ Side(p).ours \in File \cup {Absent}
                        /\ Side(p).theirs \in File \cup {Absent}
    BY <1>3 DEF Side, Tree
  <1>5. \A p \in Path :
          MergedFile(Side(p).base, Side(p).ours, Side(p).theirs) \in File \cup {Absent}
    BY <1>4, MergedFileType
  <1>6. MergeTree \in Tree
    BY <1>5 DEF MergeTree, Tree
  <1>7. MergeDir \in Tree
    BY <1>6 DEF MergeDir, TypeOK, RunOK, Tree
  <1>8. MergeIndex \in Tree
    BY <1>3, <1>6 DEF MergeIndex, Tree
  <1> QED BY <1>6, <1>7, <1>8

-----------------------------------------------------------------------------
(* Type correctness. *)

LEMMA InitType == Init => TypeOK
  <1> SUFFICES ASSUME Init PROVE TypeOK
    OBVIOUS
  <1>1. wd \in Tree /\ manifest \in SUBSET Path
    <2>1. CASE "nothing" \in StartWith /\ commits = <<>> /\ wd = EmptyTree /\ manifest = {}
      BY <2>1, EmptyTreeType
    <2>2. CASE \E i \in Input : \E p \in Outputs(i), r \in Region, v \in UserValue :
                 wd = [Output[i] EXCEPT ![p] = [@ EXCEPT ![r] = v]] /\ manifest = Outputs(i)
      <3>1. PICK i \in Input, p \in Path, r \in Region, v \in UserValue :
              /\ Output[i][p] # Absent
              /\ wd = [Output[i] EXCEPT ![p] = [@ EXCEPT ![r] = v]] /\ manifest = Outputs(i)
        BY <2>2 DEF Outputs
      <3>2. Output[i] \in Tree
        BY OutputType
      <3>3. Output[i][p] \in File
        BY <3>1, <3>2 DEF Tree
      <3>4. [Output[i][p] EXCEPT ![r] = v] \in File
        BY <3>3 DEF File, Value
      <3> QED BY <3>1, <3>2, <3>4 DEF Tree, Outputs
    <2> QED BY <2>1, <2>2 DEF Init
  <1>2. commits \in Seq(Commit) /\ Len(commits) \in Nat
        /\ \A c \in 1..Len(commits) : c \in commits[c].anc /\ commits[c].anc \subseteq 1..c
    <2>1. CASE commits = <<>>
      BY <2>1
    <2>2. CASE commits = <<[tree |-> wd, anc |-> {1}]>>
      <3>1. [tree |-> wd, anc |-> {1}] \in Commit
        BY <1>1 DEF Commit
      <3> QED BY <2>2, <3>1
    <2> QED BY <2>1, <2>2 DEF Init
  <1>3. branch \in [Branch -> 0..Len(commits)]
    BY <1>2 DEF Init, None
  <1>4. RefsOK
    BY <1>2, <1>3, BranchAssumption DEF Init, RefsOK, Branch, None
  <1>5. RunOK
    BY <1>1 DEF Init, RunOK, PC, Outcome
  <1> QED BY <1>2, <1>4, <1>5 DEF TypeOK, CommitsOK

LEMMA LeaveDetachedType ==
  ASSUME CommitsOK, NEW f \in [Branch -> 0..Len(commits)]
  PROVE  LeaveDetached(f) \in [Branch -> 0..Len(commits)]
  <1>1. None \in 0..Len(commits)
    BY DEF CommitsOK, None
  <1> QED BY <1>1 DEF LeaveDetached

LEMMA UserStepType == ASSUME TypeOK, UserStep PROVE TypeOK'
  <1>1. ASSUME NEW p \in Path, NEW r \in Region, NEW v \in UserValue, UserEdit(p, r, v)
        PROVE  TypeOK'
    <2>1. wd[p] \in File
      BY <1>1 DEF UserEdit, TypeOK, RunOK, Tree
    <2>2. [wd[p] EXCEPT ![r] = v] \in File
      BY <2>1 DEF File, Value
    <2>3. wd' \in Tree
      BY <1>1, <2>2 DEF UserEdit, TypeOK, RunOK, Tree
    <2> QED BY <1>1, <2>3 DEF UserEdit, TypeOK, CommitsOK, RefsOK, RunOK, runVars
  <1>2. ASSUME NEW p \in Path, NEW v \in UserValue, UserCreate(p, v)
        PROVE  TypeOK'
    <2>1. [r \in Region |-> v] \in File
      BY DEF File, Value
    <2>2. wd' \in Tree
      BY <1>2, <2>1 DEF UserCreate, TypeOK, RunOK, Tree
    <2> QED BY <1>2, <2>2 DEF UserCreate, TypeOK, CommitsOK, RefsOK, RunOK, runVars
  <1>3. ASSUME NEW p \in Path, UserRemove(p)
        PROVE  TypeOK'
    <2>1. wd' \in Tree
      BY <1>3 DEF UserRemove, TypeOK, RunOK, Tree
    <2> QED BY <1>3, <2>1 DEF UserRemove, TypeOK, CommitsOK, RefsOK, RunOK, runVars
  <1>4. CASE UserCommit
    <2>1. /\ wd \in Tree /\ HeadCommit \in 0..Len(commits) /\ WriteCommit(wd, {HeadCommit})
          /\ CommitsOK /\ branch \in [Branch -> 0..Len(commits)] /\ head \in Branch
      BY <1>4 DEF UserCommit, TypeOK, RefsOK, RunOK, HeadCommit
    <2>2. CommitsOK' /\ Len(commits') = Len(commits) + 1 /\ branch' \in [Branch -> 0..Len(commits')]
      BY <2>1, WriteCommitEffect
    <2> QED BY <1>4, <2>2 DEF UserCommit, TypeOK, CommitsOK, RefsOK, RunOK, runVars
  <1>5. ASSUME NEW x \in UserBranch, UserSwitch(x)
        PROVE  TypeOK'
    <2> DEFINE created == IF branch[x] = None THEN [branch EXCEPT ![x] = HeadCommit] ELSE branch
    <2>1. created \in [Branch -> 0..Len(commits)] /\ x \in Branch
      BY DEF TypeOK, RefsOK, HeadCommit, Branch
    <2>2. LeaveDetached(created) \in [Branch -> 0..Len(commits)]
      <3> HIDE DEF created
      <3> QED BY <2>1, LeaveDetachedType DEF TypeOK
    <2>3. wd' \in Tree /\ index' \in Tree
      BY <1>5, <2>1, TreeOfType DEF UserSwitch, TypeOK
    <2>4. branch' \in [Branch -> 0..Len(commits)]
      BY <1>5, <2>1, <2>2 DEF UserSwitch
    <2> QED BY <1>5, <2>1, <2>3, <2>4 DEF UserSwitch, TypeOK, CommitsOK, RefsOK, RunOK, runVars
  <1>6. CASE UserDetach
    BY <1>6 DEF UserDetach, TypeOK, CommitsOK, RefsOK, RunOK, runVars, HeadCommit, Branch
  <1>7. ASSUME NEW v \in Value \ {Marker}, UserResolve(v)
        PROVE  TypeOK'
    <2> DEFINE resolved == [p \in Path |->
                 IF p \in conflicted /\ wd[p] # Absent
                 THEN [r \in Region |-> IF wd[p][r] = Marker THEN v ELSE wd[p][r]]
                 ELSE wd[p]]
    <2>1. \A p \in Path : wd[p] # Absent =>
            [r \in Region |-> IF wd[p][r] = Marker THEN v ELSE wd[p][r]] \in File
      <3>1. \A p \in Path, r \in Region : wd[p] # Absent => wd[p][r] \in Value
        BY DEF TypeOK, RunOK, Tree, File
      <3> QED BY <3>1 DEF File
    <2>2. resolved \in Tree
      BY <2>1 DEF TypeOK, RunOK, Tree
    <2>3. WriteCommit(resolved, {HeadCommit, mergeHead}) /\ wd' = resolved
          /\ index' = resolved
      BY <1>7 DEF UserResolve
    <2>4. /\ {HeadCommit, mergeHead} \in SUBSET (0..Len(commits))
          /\ CommitsOK /\ branch \in [Branch -> 0..Len(commits)] /\ head \in Branch
      BY DEF TypeOK, RefsOK, HeadCommit
    <2>5. CommitsOK' /\ Len(commits') = Len(commits) + 1 /\ branch' \in [Branch -> 0..Len(commits')]
      <3> HIDE DEF resolved
      <3> QED BY <2>2, <2>3, <2>4, WriteCommitEffect
    <2>6. wd' \in Tree /\ index' \in Tree
      BY <2>2, <2>3
    <2> QED BY <1>7, <2>5, <2>6 DEF UserResolve, TypeOK, CommitsOK, RefsOK, RunOK, runVars, None
  <1>8. ASSUME NEW i \in Input, ChangeInput(i)
        PROVE  TypeOK'
    BY <1>8 DEF ChangeInput, TypeOK, CommitsOK, RefsOK, RunOK, runVars, repoVars
  <1> QED BY <1>1, <1>2, <1>3, <1>4, <1>5, <1>6, <1>7, <1>8 DEF UserStep

LEMMA LaunchType ==
  ASSUME TypeOK, Launch \/ Interrupt \/ Crash
  PROVE  TypeOK'
  BY ModeAssumption DEF Launch, Start, LiveWake, Interrupt, Crash, Goto, Exit, PC, Outcome,
     repoVars, TypeOK, CommitsOK, RefsOK, RunOK

LEMMA GitBeforeType == ASSUME TypeOK, GitBefore PROVE TypeOK'
  <1>1. CASE FirstCommit
    <2>1. CommitsOK' /\ Len(commits') = Len(commits) + 1 /\ branch' \in [Branch -> 0..Len(commits')]
      BY <1>1, StagedType, WriteCommitEffect DEF FirstCommit, TypeOK, RefsOK
    <2> QED BY <1>1, <2>1, StagedType
          DEF FirstCommit, Goto, PC, Outcome, TypeOK, CommitsOK, RefsOK, RunOK
  <1>2. CASE RefuseMerging
    BY <1>2 DEF RefuseMerging, Exit, PC, Outcome, repoVars, TypeOK, CommitsOK, RefsOK, RunOK
  <1>3. CASE CommitWork
    <2>1. CASE RepoIsClean
      BY <1>3, <2>1 DEF CommitWork, Goto, PC, Outcome, TypeOK, CommitsOK, RefsOK, RunOK
    <2>2. CASE ~RepoIsClean
      <3>1. CommitsOK' /\ Len(commits') = Len(commits) + 1
            /\ branch' \in [Branch -> 0..Len(commits')]
        <4>1. {HeadCommit} \in SUBSET (0..Len(commits))
          BY DEF HeadCommit, TypeOK, RefsOK
        <4> QED BY <1>3, <2>2, <4>1, StagedType, WriteCommitEffect
              DEF CommitWork, GitAddAllAndCommit, TypeOK, RefsOK
      <3> QED BY <1>3, <2>2, <3>1, StagedType
            DEF CommitWork, GitAddAllAndCommit, Goto, PC, Outcome, TypeOK, CommitsOK, RefsOK, RunOK
    <2> QED BY <2>1, <2>2
  <1>4. CASE StayOnKitchen
    BY <1>4 DEF StayOnKitchen, Goto, PC, repoVars, TypeOK, CommitsOK, RefsOK, RunOK
  <1>5. CASE CreateKitchenBranch
    <2> DEFINE created == [branch EXCEPT ![Kitchen] = HeadCommit]
    <2>1. created \in [Branch -> 0..Len(commits)] /\ Kitchen \in Branch
      BY DEF TypeOK, RefsOK, HeadCommit, Branch
    <2>2. LeaveDetached(created) \in [Branch -> 0..Len(commits)]
      <3> HIDE DEF created
      <3> QED BY <2>1, LeaveDetachedType DEF TypeOK
    <2>3. branch' \in [Branch -> 0..Len(commits)]
      BY <1>5, <2>1, <2>2 DEF CreateKitchenBranch
    <2> QED BY <1>5, <2>1, <2>3
          DEF CreateKitchenBranch, Goto, PC, TypeOK, CommitsOK, RefsOK, RunOK
  <1>6. CASE CheckoutKitchen
    <2>1. TreeOf(branch[Kitchen]) \in Tree /\ Kitchen \in Branch
      BY TreeOfType DEF TypeOK, RefsOK, Branch
    <2>2. wd' \in Tree /\ index' \in Tree
      BY <1>6, <2>1, CheckedOutType DEF CheckoutKitchen
    <2>3. branch' \in [Branch -> 0..Len(commits)]
      BY <1>6, LeaveDetachedType DEF CheckoutKitchen, TypeOK, RefsOK
    <2> QED BY <1>6, <2>1, <2>2, <2>3
          DEF CheckoutKitchen, Goto, PC, TypeOK, CommitsOK, RefsOK, RunOK
  <1>7. CASE CheckoutKitchenFails
    BY <1>7 DEF CheckoutKitchenFails, Exit, PC, Outcome, repoVars, TypeOK, CommitsOK, RefsOK, RunOK
  <1> QED BY <1>1, <1>2, <1>3, <1>4, <1>5, <1>6, <1>7 DEF GitBefore

LEMMA GenerateStepType == ASSUME TypeOK, GenerateStep PROVE TypeOK'
  <1>1. Outputs(input) \in SUBSET Path
    BY DEF Outputs
  <1>2. CASE Generate
    <2>1. wd' \in Tree
      BY <1>2, GeneratedType DEF Generate
    <2> QED BY <1>1, <1>2, <2>1 DEF Generate, Goto, PC, TypeOK, CommitsOK, RefsOK, RunOK
  <1>3. ASSUME NEW written \in SUBSET Path, NEW removed \in SUBSET Path,
               GenerateFails(written, removed)
        PROVE  TypeOK'
    <2>1. wd' \in Tree
      BY <1>3, GeneratedType DEF GenerateFails
    <2>2. manifest' \in SUBSET Path
      BY <1>1, <1>3 DEF GenerateFails, TypeOK, RunOK
    <2> QED BY <1>3, <2>1, <2>2
          DEF GenerateFails, EndIteration, PC, Outcome, TypeOK, CommitsOK, RefsOK, RunOK
  <1> QED BY <1>2, <1>3 DEF GenerateStep

LEMMA GitAfterType == ASSUME TypeOK, GitAfter PROVE TypeOK'
  <1>1. CASE RecordOutput
    <2>1. CASE RepoIsClean
      BY <1>1, <2>1 DEF RecordOutput, Goto, PC, TypeOK, CommitsOK, RefsOK, RunOK
    <2>2. CASE ~RepoIsClean
      <3>1. CommitsOK' /\ Len(commits') = Len(commits) + 1
            /\ branch' \in [Branch -> 0..Len(commits')]
        <4>1. {HeadCommit} \in SUBSET (0..Len(commits))
          BY DEF HeadCommit, TypeOK, RefsOK
        <4> QED BY <1>1, <2>2, <4>1, StagedType, WriteCommitEffect
              DEF RecordOutput, GitAddAllAndCommit, TypeOK, RefsOK
      <3> QED BY <1>1, <2>2, <3>1, StagedType
            DEF RecordOutput, GitAddAllAndCommit, Goto, PC, TypeOK, CommitsOK, RefsOK, RunOK
    <2> QED BY <2>1, <2>2
  <1>2. CASE EndOnKitchen
    BY <1>2 DEF EndOnKitchen, EndIteration, PC, Outcome, repoVars, TypeOK, CommitsOK, RefsOK, RunOK
  <1>3. CASE SwitchBack
    <2>1. TreeOf(branch[original]) \in Tree
      BY TreeOfType DEF TypeOK, RefsOK
    <2>2. wd' \in Tree /\ index' \in Tree
      BY <1>3, <2>1, CheckedOutType DEF SwitchBack
    <2> QED BY <1>3, <2>2 DEF SwitchBack, Goto, PC, TypeOK, CommitsOK, RefsOK, RunOK
  <1>4. CASE SwitchBackFails
    BY <1>4 DEF SwitchBackFails, Exit, PC, Outcome, repoVars, TypeOK, CommitsOK, RefsOK, RunOK
  <1>5. CASE SwitchBackToDetached
    BY <1>5 DEF SwitchBackToDetached, Goto, PC, Branch, TypeOK, CommitsOK, RefsOK, RunOK
  <1>6. CASE AlreadyUpToDate
    BY <1>6 DEF AlreadyUpToDate, EndIteration, PC, Outcome, repoVars, TypeOK, CommitsOK, RefsOK, RunOK
  <1>7. CASE MergeFails
    BY <1>7 DEF MergeFails, Exit, PC, Outcome, repoVars, TypeOK, CommitsOK, RefsOK, RunOK
  <1>8. CASE MergeConflicts
    <2>1. wd' \in Tree /\ index' \in Tree /\ MergeClashes \in SUBSET Path
      BY <1>8, MergeTreeType DEF MergeConflicts, MergeClashes
    <2>2. branch[Kitchen] \in 0..Len(commits)
      BY DEF TypeOK, RefsOK, Branch
    <2> QED BY <1>8, <2>1, <2>2
          DEF MergeConflicts, Exit, PC, Outcome, TypeOK, CommitsOK, RefsOK, RunOK
  <1>9. CASE Merge
    <2>1. wd' \in Tree /\ index' \in Tree /\ MergeTree \in Tree
      BY <1>9, MergeTreeType DEF Merge
    <2>2. {HeadCommit, branch[Kitchen]} \in SUBSET (0..Len(commits))
      BY DEF TypeOK, RefsOK, Branch, HeadCommit
    <2>3. CommitsOK' /\ Len(commits') = Len(commits) + 1 /\ branch' \in [Branch -> 0..Len(commits')]
      BY <1>9, <2>1, <2>2, WriteCommitEffect DEF Merge, TypeOK, RefsOK
    <2> QED BY <1>9, <2>1, <2>3
          DEF Merge, EndIteration, PC, Outcome, TypeOK, CommitsOK, RefsOK, RunOK
  <1> QED BY <1>1, <1>2, <1>3, <1>4, <1>5, <1>6, <1>7, <1>8, <1>9 DEF GitAfter

LEMMA KilledType == ASSUME TypeOK, KilledBetweenCalls PROVE TypeOK'
  <1> USE DEF Die, Exit, PC, Outcome
  <1>1. CASE KilledInCommit
    <2>1. index' \in Tree
      BY <1>1, StagedType DEF KilledInCommit
    <2> QED BY <1>1, <2>1 DEF KilledInCommit, TypeOK, CommitsOK, RefsOK, RunOK
  <1>2. CASE KilledInCreateBranch
    <2>1. branch' \in [Branch -> 0..Len(commits)]
      BY <1>2 DEF KilledInCreateBranch, TypeOK, RefsOK, HeadCommit, Branch
    <2> QED BY <1>2, <2>1 DEF KilledInCreateBranch, TypeOK, CommitsOK, RefsOK, RunOK
  <1>3. ASSUME NEW b \in Branch, KilledInCheckout(b)
        PROVE  TypeOK'
    <2>1. TreeOf(branch[b]) \in Tree
      BY TreeOfType DEF TypeOK, RefsOK
    <2>2. wd' \in Tree /\ index' \in Tree
      BY <1>3, <2>1, CheckedOutType DEF KilledInCheckout
    <2> QED BY <1>3, <2>2 DEF KilledInCheckout, TypeOK, CommitsOK, RefsOK, RunOK
  <1>4. CASE KilledInMerge
    <2>1. wd' \in Tree /\ index' \in Tree /\ MergeClashes \in SUBSET Path
      BY <1>4, MergeTreeType DEF KilledInMerge, MergeClashes
    <2>2. branch[Kitchen] \in 0..Len(commits)
      BY DEF TypeOK, RefsOK, Branch
    <2> QED BY <1>4, <2>1, <2>2 DEF KilledInMerge, TypeOK, CommitsOK, RefsOK, RunOK
  <1>5. CASE KilledInCleanup
    <2>1. wd' \in Tree /\ index' \in Tree /\ MergeTree \in Tree
      BY <1>5, MergeTreeType DEF KilledInCleanup
    <2>2. {HeadCommit, branch[Kitchen]} \in SUBSET (0..Len(commits))
      BY DEF TypeOK, RefsOK, Branch, HeadCommit
    <2>3. CommitsOK' /\ Len(commits') = Len(commits) + 1 /\ branch' \in [Branch -> 0..Len(commits')]
      BY <1>5, <2>1, <2>2, WriteCommitEffect DEF KilledInCleanup, TypeOK, RefsOK
    <2>4. mergeHead' \in 0..Len(commits')
      BY <1>5, <2>3 DEF KilledInCleanup, TypeOK, CommitsOK, RefsOK, Branch
    <2> QED BY <1>5, <2>1, <2>3, <2>4 DEF KilledInCleanup, TypeOK, CommitsOK, RefsOK, RunOK
  <1> QED BY <1>1, <1>2, <1>3, <1>4, <1>5 DEF KilledBetweenCalls

LEMMA StepType == TypeOK /\ [Next]_vars => TypeOK'
  <1>1. ASSUME TypeOK, Next PROVE TypeOK'
    BY <1>1, UserStepType, LaunchType, GitBeforeType, GenerateStepType, GitAfterType,
       KilledType DEF Next
  <1>2. ASSUME TypeOK, UNCHANGED vars PROVE TypeOK'
    BY <1>2 DEF vars, repoVars, runVars, TypeOK, CommitsOK, RefsOK, RunOK
  <1> QED BY <1>1, <1>2

(* Every state of every behaviour of the workflow is well-formed. *)
THEOREM TypeCorrect == Spec => []TypeOK
  BY InitType, StepType, PTL DEF Spec

-----------------------------------------------------------------------------
(* History: branches advance, and nothing committed is lost. *)

(* The ancestors of a commit in the next state. *)
NextAnc(c) == IF c = None THEN {} ELSE commits'[c].anc

LEMMA WriteCommitAnc ==
  ASSUME CommitsOK, branch \in [Branch -> 0..Len(commits)], head \in Branch,
         NEW tree \in Tree, NEW parents \in SUBSET (0..Len(commits)),
         WriteCommit(tree, parents)
  PROVE  /\ \A c \in 0..Len(commits) : NextAnc(c) = Anc(c)
         /\ \A q \in parents : Anc(q) \subseteq NextAnc(Len(commits) + 1)
         /\ Len(commits) + 1 \in NextAnc(Len(commits) + 1)
  <1>1. /\ \A c \in 1..Len(commits) : commits'[c] = commits[c]
        /\ commits'[Len(commits) + 1] =
             [tree |-> tree, anc |-> {Len(commits) + 1} \cup UNION {Anc(q) : q \in parents}]
    BY WriteCommitEffect
  <1>2. Len(commits) \in Nat
    BY DEF CommitsOK
  <1>3. \A c \in 0..Len(commits) : NextAnc(c) = Anc(c)
    BY <1>1, <1>2 DEF Anc, NextAnc, None
  <1>4. Len(commits) + 1 # None
    BY <1>2 DEF None
  <1>5. NextAnc(Len(commits) + 1) = {Len(commits) + 1} \cup UNION {Anc(q) : q \in parents}
    BY <1>1, <1>4 DEF NextAnc
  <1> QED BY <1>3, <1>5

(* How a step may change the history: a commit on HEAD with HEAD's commit   *)
(* as a parent, or none, and then branches are only created.                *)
CommitStep ==
  \E tree \in Tree, parents \in SUBSET (0..Len(commits)) :
    WriteCommit(tree, parents) /\ (HeadCommit \in parents \/ HeadCommit = None)

RefStep ==
  /\ commits' = commits
  /\ \A x \in UserBranch \cup {Kitchen} : branch[x] # None => branch'[x] = branch[x]

LEMMA HistoryStep ==
  ASSUME TypeOK, [Next]_vars
  PROVE  CommitStep \/ RefStep
  <1> USE DEF TypeOK, RefsOK
  <1>1. CASE UNCHANGED <<commits, branch>>
    BY <1>1 DEF RefStep
  <1>2. {HeadCommit} \in SUBSET (0..Len(commits))
    BY DEF HeadCommit
  <1>3. CASE UserCommit
    BY <1>2, <1>3 DEF UserCommit, CommitStep, RunOK
  <1>4. ASSUME NEW x \in UserBranch, UserSwitch(x) PROVE RefStep
    BY <1>4, BranchAssumption DEF UserSwitch, RefStep, LeaveDetached, Branch
  <1>5. CASE UserDetach
    BY <1>5, BranchAssumption DEF UserDetach, RefStep, Branch
  <1>6. ASSUME NEW v \in Value \ {Marker}, UserResolve(v) PROVE CommitStep
    <2>1. WriteCommit(wd', {HeadCommit, mergeHead})
      BY <1>6 DEF UserResolve
    <2>2. wd' \in Tree
      <3>1. UserStep
        BY <1>6 DEF UserStep
      <3> QED BY <3>1, UserStepType DEF RunOK
    <2> QED BY <1>2, <2>1, <2>2 DEF CommitStep
  <1>7. CASE FirstCommit
    BY <1>7, StagedType DEF FirstCommit, CommitStep
  <1>8. CASE CommitWork
    BY <1>1, <1>2, <1>8, StagedType DEF CommitWork, GitAddAllAndCommit, CommitStep
  <1>9. CASE CreateKitchenBranch
    BY <1>9, BranchAssumption DEF CreateKitchenBranch, RefStep, LeaveDetached, Branch
  <1>10. CASE CheckoutKitchen
    BY <1>10, BranchAssumption DEF CheckoutKitchen, RefStep, LeaveDetached, Branch
  <1>11. CASE RecordOutput
    BY <1>1, <1>2, <1>11, StagedType DEF RecordOutput, GitAddAllAndCommit, CommitStep
  <1>12. CASE Merge
    <2>1. {HeadCommit, branch[Kitchen]} \in SUBSET (0..Len(commits))
      BY DEF HeadCommit, Branch
    <2> QED BY <1>12, <2>1, MergeTreeType DEF Merge, CommitStep
  <1>13. ASSUME Next PROVE \/ UNCHANGED <<commits, branch>>
                           \/ UserCommit \/ (\E x \in UserBranch : UserSwitch(x)) \/ UserDetach
                           \/ (\E v \in Value \ {Marker} : UserResolve(v))
                           \/ FirstCommit \/ CommitWork \/ CreateKitchenBranch \/ CheckoutKitchen
                           \/ RecordOutput \/ Merge \/ KilledInCreateBranch \/ KilledInCleanup
    BY <1>13 DEF Next, UserStep, Launch, GitBefore, GenerateStep, GitAfter, repoVars,
       KilledBetweenCalls, KilledInCommit, KilledInCheckout, KilledInMerge,
       UserEdit, UserCreate, UserRemove, ChangeInput, Start, LiveWake, Interrupt, Crash,
       RefuseMerging, StayOnKitchen, CheckoutKitchenFails, Generate, GenerateFails,
       EndOnKitchen, SwitchBack, SwitchBackFails, SwitchBackToDetached, AlreadyUpToDate,
       MergeFails, MergeConflicts
  <1>14. UNCHANGED vars => UNCHANGED <<commits, branch>>
    BY DEF vars, repoVars
  <1>15. CASE KilledInCreateBranch
    BY <1>15, BranchAssumption DEF KilledInCreateBranch, RefStep, Branch
  <1>16. CASE KilledInCleanup
    <2>1. {HeadCommit, branch[Kitchen]} \in SUBSET (0..Len(commits))
      BY DEF HeadCommit, Branch
    <2> QED BY <1>16, <2>1, MergeTreeType DEF KilledInCleanup, CommitStep
  <1> QED BY <1>1, <1>3, <1>4, <1>5, <1>6, <1>7, <1>8, <1>9, <1>10, <1>11, <1>12, <1>13, <1>14,
             <1>15, <1>16

(* A branch's history only grows. *)
LEMMA HistoryGrows ==
  ASSUME TypeOK, [Next]_vars, NEW x \in UserBranch \cup {Kitchen}
  PROVE  Anc(branch[x]) \subseteq Anc(branch[x])'
  <1>1. x \in Branch /\ branch[x] \in 0..Len(commits)
    BY DEF Branch, TypeOK, RefsOK
  <1>2. Anc(branch[x])' = NextAnc(branch'[x])
    BY DEF Anc, NextAnc
  <1>3. CASE CommitStep
    <2>1. PICK tree \in Tree, parents \in SUBSET (0..Len(commits)) :
            WriteCommit(tree, parents) /\ (HeadCommit \in parents \/ HeadCommit = None)
      BY <1>3 DEF CommitStep
    <2>2. /\ \A c \in 0..Len(commits) : NextAnc(c) = Anc(c)
          /\ \A q \in parents : Anc(q) \subseteq NextAnc(Len(commits) + 1)
      BY <2>1, WriteCommitAnc DEF TypeOK, RefsOK
    <2>3. branch' = [branch EXCEPT ![head] = Len(commits) + 1]
      BY <2>1 DEF WriteCommit
    <2>4. CASE x # head
      <3>1. branch'[x] = branch[x]
        BY <1>1, <2>3, <2>4 DEF TypeOK, RefsOK
      <3> QED BY <1>1, <1>2, <2>2, <3>1
    <2>5. CASE x = head
      <3>1. branch'[x] = Len(commits) + 1
        BY <1>1, <2>3, <2>5 DEF TypeOK, RefsOK
      <3>2. Anc(branch[x]) \subseteq NextAnc(Len(commits) + 1)
        BY <2>1, <2>2, <2>5 DEF HeadCommit, Anc
      <3> QED BY <1>2, <3>1, <3>2
    <2> QED BY <2>4, <2>5
  <1>4. CASE RefStep
    <2>1. Anc(branch[x]) = NextAnc(branch[x])
      BY <1>4 DEF RefStep, Anc, NextAnc
    <2>2. CASE branch[x] = None
      BY <2>2 DEF Anc
    <2>3. CASE branch[x] # None
      BY <1>2, <1>4, <2>1, <2>3 DEF RefStep
    <2> QED BY <2>2, <2>3
  <1> QED BY <1>3, <1>4, HistoryStep

(* No step of a run and no action of the user takes a branch back or        *)
(* sideways: what a branch once held stays in its history.                  *)
THEOREM BranchesAdvance == Spec => BranchesOnlyAdvance
  <1>1. ASSUME TypeOK, [Next]_vars, NEW x \in UserBranch \cup {Kitchen}, branch[x] # None
        PROVE  branch[x] \in Anc(branch[x])'
    <2>1. branch[x] \in Anc(branch[x])
      BY <1>1 DEF Anc, None, Branch, TypeOK, CommitsOK, RefsOK
    <2> QED BY <1>1, <2>1, HistoryGrows
  <1>2. TypeOK /\ [Next]_vars =>
          [\A x \in UserBranch \cup {Kitchen} :
             branch[x] # None => branch[x] \in Anc(branch[x])']_vars
    BY <1>1
  <1> QED BY <1>2, TypeCorrect, PTL DEF Spec, BranchesOnlyAdvance

-----------------------------------------------------------------------------
(* Only leaving a detached HEAD loses commits. *)

(* The run works on "meteor-kitchen" from the switch there to the switch     *)
(* back.                                                                     *)
OnKitchen == pc \in {"generate", "record", "back"} => head = Kitchen

(* The commit a detached HEAD names is held only while HEAD is there. *)
DetachedInv == head # Detached => branch[Detached] = None

HeadInv == OnKitchen /\ DetachedInv

LEMMA HeadInit == Init => HeadInv
  BY BranchAssumption DEF Init, HeadInv, OnKitchen, DetachedInv, Branch

LEMMA HeadStep ==
  ASSUME TypeOK, HeadInv, [Next]_vars
  PROVE  HeadInv'
  <1> USE DEF HeadInv, OnKitchen, DetachedInv
  <1>1. CASE UserStep
    <2>1. CASE UserCommit
      BY <2>1 DEF UserCommit, WriteCommit, runVars, TypeOK, RefsOK
    <2>2. ASSUME NEW x \in UserBranch, UserSwitch(x) PROVE HeadInv'
      BY <2>2, BranchAssumption
         DEF UserSwitch, Quiet, LeaveDetached, runVars, TypeOK, RefsOK, Branch
    <2>3. CASE UserDetach
      BY <2>3 DEF UserDetach, Quiet, runVars
    <2>4. ASSUME NEW v \in Value \ {Marker}, UserResolve(v) PROVE HeadInv'
      BY <2>4 DEF UserResolve, WriteCommit, runVars, TypeOK, RefsOK
    <2>5. CASE UNCHANGED <<branch, head, pc>>
      BY <2>5
    <2> QED BY <1>1, <2>1, <2>2, <2>3, <2>4, <2>5
          DEF UserStep, UserEdit, UserCreate, UserRemove, ChangeInput, runVars, repoVars
  <1>2. CASE Launch \/ Interrupt \/ Crash
    BY <1>2 DEF Launch, Start, LiveWake, Interrupt, Crash, Goto, Exit, repoVars
  <1>3. CASE GitBefore
    <2>1. CASE FirstCommit
      BY <2>1 DEF FirstCommit, WriteCommit, Goto, TypeOK, RefsOK
    <2>2. CASE CommitWork
      <3>1. head' = head /\ pc' = "switch"
        BY <2>2 DEF CommitWork, Goto
      <3>2. branch' = branch \/ branch' = [branch EXCEPT ![head] = Len(commits) + 1]
        BY <2>2 DEF CommitWork, GitAddAllAndCommit, WriteCommit
      <3>3. head # Detached => branch'[Detached] = None
        BY <3>2 DEF TypeOK, RefsOK, Branch
      <3> QED BY <3>1, <3>3
    <2>3. CASE StayOnKitchen
      BY <2>3 DEF StayOnKitchen, Goto, repoVars
    <2>4. CASE CreateKitchenBranch
      BY <2>4, BranchAssumption
         DEF CreateKitchenBranch, LeaveDetached, Goto, TypeOK, RefsOK, Branch
    <2>5. CASE CheckoutKitchen
      BY <2>5, BranchAssumption
         DEF CheckoutKitchen, LeaveDetached, Goto, TypeOK, RefsOK, Branch
    <2>6. CASE RefuseMerging \/ CheckoutKitchenFails
      BY <2>6 DEF RefuseMerging, CheckoutKitchenFails, Exit, repoVars
    <2> QED BY <1>3, <2>1, <2>2, <2>3, <2>4, <2>5, <2>6 DEF GitBefore
  <1>4. CASE GenerateStep
    BY <1>4 DEF GenerateStep, Generate, GenerateFails, EndIteration, Goto
  <1>5. CASE GitAfter
    <2>1. CASE RecordOutput
      <3>1. pc = "record" /\ head' = head
        BY <2>1 DEF RecordOutput
      <3>2. branch' = branch \/ branch' = [branch EXCEPT ![head] = Len(commits) + 1]
        BY <2>1 DEF RecordOutput, GitAddAllAndCommit, WriteCommit
      <3>3. head # Detached => branch'[Detached] = None
        BY <3>2 DEF TypeOK, RefsOK, Branch
      <3> QED BY <3>1, <3>3
    <2>2. CASE SwitchBack
      BY <2>2, BranchAssumption DEF SwitchBack, Goto
    <2>3. CASE SwitchBackToDetached
      BY <2>3 DEF SwitchBackToDetached, Goto
    <2>4. CASE Merge
      BY <2>4 DEF Merge, WriteCommit, EndIteration, TypeOK, RefsOK
    <2>5. CASE MergeConflicts
      BY <2>5 DEF MergeConflicts, Exit
    <2>6. CASE EndOnKitchen \/ SwitchBackFails \/ AlreadyUpToDate \/ MergeFails
      BY <2>6 DEF EndOnKitchen, SwitchBackFails, AlreadyUpToDate, MergeFails,
         EndIteration, Exit, repoVars
    <2> QED BY <1>5, <2>1, <2>2, <2>3, <2>4, <2>5, <2>6 DEF GitAfter
  <1>6. CASE UNCHANGED vars
    BY <1>6 DEF vars, repoVars, runVars
  <1>7. CASE KilledBetweenCalls
    <2>1. pc' = "idle" /\ head' = head
      BY <1>7 DEF KilledBetweenCalls, KilledInCommit, KilledInCreateBranch, KilledInCheckout,
         KilledInMerge, KilledInCleanup, Die, Exit
    <2>2. \/ branch' = branch
          \/ branch' = [branch EXCEPT ![Kitchen] = HeadCommit]
          \/ branch' = [branch EXCEPT ![head] = Len(commits) + 1]
      BY <1>7 DEF KilledBetweenCalls, KilledInCommit, KilledInCreateBranch, KilledInCheckout,
         KilledInMerge, KilledInCleanup, WriteCommit
    <2>3. head # Detached => branch'[Detached] = None
      BY <2>2, BranchAssumption DEF TypeOK, RefsOK, Branch
    <2> QED BY <2>1, <2>3
  <1> QED BY <1>1, <1>2, <1>3, <1>4, <1>5, <1>6, <1>7 DEF Next

LEMMA HeadAlways == Spec => [](TypeOK /\ HeadInv)
  BY InitType, StepType, HeadInit, HeadStep, PTL DEF Spec

(* A step from a branch loses no commit: the old ones stay where they were, *)
(* and a new one goes on HEAD.                                              *)
LEMMA NothingLost ==
  ASSUME TypeOK, DetachedInv, [Next]_vars, head # Detached,
         1..Len(commits) \subseteq Reachable
  PROVE  (1..Len(commits) \subseteq Reachable)'
  <1>1. \A x \in Branch : Anc(branch[x]) \subseteq NextAnc(branch'[x])
    <2>1. ASSUME NEW x \in UserBranch \cup {Kitchen}
          PROVE  Anc(branch[x]) \subseteq NextAnc(branch'[x])
      BY HistoryGrows DEF Anc, NextAnc
    <2>2. Anc(branch[Detached]) = {}
      BY DEF DetachedInv, Anc
    <2> QED BY <2>1, <2>2 DEF Branch
  <1>2. Reachable' = UNION {NextAnc(branch'[x]) : x \in Branch}
    BY DEF Reachable, Anc, NextAnc
  <1>3. Reachable \subseteq Reachable'
    BY <1>1, <1>2 DEF Reachable
  <1>4. CASE RefStep
    BY <1>3, <1>4 DEF RefStep
  <1>5. CASE CommitStep
    <2>1. PICK tree \in Tree, parents \in SUBSET (0..Len(commits)) : WriteCommit(tree, parents)
      BY <1>5 DEF CommitStep
    <2>2. /\ Len(commits') = Len(commits) + 1
          /\ branch' = [branch EXCEPT ![head] = Len(commits) + 1]
      BY <2>1, WriteCommitEffect DEF TypeOK, RefsOK
    <2>3. Len(commits) + 1 \in NextAnc(branch'[head])
      BY <2>1, <2>2, WriteCommitAnc DEF TypeOK, RefsOK
    <2>4. Len(commits) + 1 \in Reachable'
      BY <1>2, <2>3 DEF TypeOK, RefsOK
    <2>5. 1..Len(commits') = 1..Len(commits) \cup {Len(commits) + 1}
      BY <2>2 DEF TypeOK, CommitsOK
    <2> QED BY <1>3, <2>4, <2>5
  <1> QED BY <1>4, <1>5, HistoryStep

(* Failures, kills and edits in the middle of a run included, commits are   *)
(* lost only by a step that leaves a detached HEAD.                         *)
THEOREM OnlyDetachedLoses == Spec => OnlyDetachedHeadLosesCommits
  <1>1. TypeOK /\ HeadInv /\ [Next]_vars =>
          [1..Len(commits) \subseteq Reachable /\ head # Detached
             => (1..Len(commits) \subseteq Reachable)']_vars
    BY NothingLost DEF HeadInv
  <1> QED BY <1>1, HeadAlways, PTL DEF Spec, OnlyDetachedHeadLosesCommits

(* A user who never detaches HEAD loses no commit, his own or a run's.      *)
NeverDetached == head # Detached /\ original # Detached

LEMMA NeverDetachedStep ==
  ASSUME "detach" \notin UserOps, NeverDetached, [Next]_vars
  PROVE  NeverDetached'
  BY BranchAssumption DEF NeverDetached, Next, UserStep, Launch, GitBefore, GenerateStep, GitAfter,
     vars, runVars, repoVars,
     UserEdit, UserCreate, UserRemove, UserCommit, UserSwitch, UserDetach, UserResolve, ChangeInput,
     Start, LiveWake, Interrupt, Crash, FirstCommit, RefuseMerging, CommitWork, StayOnKitchen,
     CreateKitchenBranch, CheckoutKitchen, CheckoutKitchenFails, Generate, GenerateFails,
     RecordOutput, EndOnKitchen, SwitchBack, SwitchBackFails, SwitchBackToDetached,
     AlreadyUpToDate, MergeFails, MergeConflicts, Merge, KilledBetweenCalls, KilledInCommit,
     KilledInCreateBranch, KilledInCheckout, KilledInMerge, KilledInCleanup

LEMMA ReachableInit == Init => CommitsStayReachable
  <1> SUFFICES ASSUME Init PROVE CommitsStayReachable
    OBVIOUS
  <1>1. CASE commits = <<>>
    BY <1>1 DEF CommitsStayReachable
  <1>2. CASE commits = <<[tree |-> wd, anc |-> {1}]>>
    <2>1. branch[Trunk] = 1 /\ Trunk \in Branch
      BY <1>2, BranchAssumption DEF Init, Branch
    <2>2. Anc(branch[Trunk]) = {1}
      BY <1>2, <2>1 DEF Anc, None
    <2> QED BY <1>2, <2>1, <2>2 DEF CommitsStayReachable, Reachable
  <1> QED BY <1>1, <1>2 DEF Init

THEOREM NoCommitLost ==
  ASSUME "detach" \notin UserOps
  PROVE  Spec => []CommitsStayReachable
  <1>1. Init => NeverDetached /\ CommitsStayReachable
    BY ReachableInit, BranchAssumption DEF Init, NeverDetached
  <1>2. /\ TypeOK /\ HeadInv /\ NeverDetached /\ CommitsStayReachable /\ [Next]_vars
        => NeverDetached' /\ CommitsStayReachable'
    BY NeverDetachedStep, NothingLost DEF HeadInv, NeverDetached, CommitsStayReachable
  <1> QED BY <1>1, <1>2, HeadAlways, PTL DEF Spec

-----------------------------------------------------------------------------
(* What the generator overwrites is in a commit, if the user keeps his hands *)
(* off the directory while a run is in progress.                             *)

WorkInHead == \A p \in Path : wd[p] # Absent => wd[p] = HeadTree[p]

OverwriteInv == pc \in {"switch", "generate"} => WorkInHead

(* After a commit on HEAD, HEAD's tree is the one committed. *)
LEMMA HeadTreeAfterCommit ==
  ASSUME TypeOK, NEW tree \in Tree, NEW parents \in SUBSET (0..Len(commits)),
         WriteCommit(tree, parents), head' = head
  PROVE  HeadTree' = tree
  <1>1. /\ commits'[Len(commits) + 1] =
             [tree |-> tree, anc |-> {Len(commits) + 1} \cup UNION {Anc(q) : q \in parents}]
        /\ branch' = [branch EXCEPT ![head] = Len(commits) + 1]
    BY WriteCommitEffect DEF TypeOK, RefsOK
  <1>2. branch'[head'] = Len(commits) + 1 /\ Len(commits) + 1 # None
    BY <1>1 DEF TypeOK, CommitsOK, RefsOK, None
  <1> QED BY <1>1, <1>2 DEF HeadTree, HeadCommit, TreeOf

LEMMA OverwriteStep ==
  ASSUME EditsDuringRun = FALSE, TypeOK, HeadInv, OverwriteInv, [Next]_vars
  PROVE  OverwriteInv'
  <1> USE DEF OverwriteInv
  <1>1. CASE FirstCommit
    <2>1. HeadTree' = Staged /\ wd' = wd
      BY <1>1, StagedType, HeadTreeAfterCommit DEF FirstCommit
    <2> QED BY <2>1 DEF Staged, WorkInHead
  <1>2. CASE CommitWork
    <2>1. CASE RepoIsClean
      <3>1. HeadTree' = HeadTree /\ wd' = wd
        BY <1>2, <2>1 DEF CommitWork, HeadTree, HeadCommit, TreeOf
      <3> QED BY <2>1, <3>1 DEF RepoIsClean, WorkInHead
    <2>2. CASE ~RepoIsClean
      <3>1. {HeadCommit} \in SUBSET (0..Len(commits))
        BY DEF HeadCommit, TypeOK, RefsOK
      <3>2. HeadTree' = Staged /\ wd' = wd
        BY <1>2, <2>2, <3>1, StagedType, HeadTreeAfterCommit DEF CommitWork, GitAddAllAndCommit
      <3> QED BY <3>2 DEF Staged, WorkInHead
    <2> QED BY <2>1, <2>2
  <1>3. CASE StayOnKitchen
    <2>1. pc = "switch" /\ UNCHANGED <<wd, commits, branch, head>>
      BY <1>3 DEF StayOnKitchen, repoVars
    <2> QED BY <2>1 DEF WorkInHead, HeadTree, HeadCommit, TreeOf
  <1>4. CASE CreateKitchenBranch
    <2>1. pc = "switch" /\ UNCHANGED <<wd, commits>> /\ branch'[head'] = branch[head]
      BY <1>4, BranchAssumption
         DEF CreateKitchenBranch, LeaveDetached, HeadCommit, TypeOK, RefsOK, Branch
    <2> QED BY <2>1 DEF WorkInHead, HeadTree, HeadCommit, TreeOf
  <1>5. CASE CheckoutKitchen
    <2> DEFINE target == TreeOf(branch[Kitchen])
    <2>1. pc = "switch" /\ commits' = commits /\ wd' = CheckedOut(target)
      BY <1>5 DEF CheckoutKitchen
    <2>2. branch'[head'] = branch[Kitchen]
      BY <1>5, BranchAssumption DEF CheckoutKitchen, LeaveDetached, TypeOK, RefsOK, Branch
    <2>3. HeadTree' = target
      BY <2>1, <2>2 DEF HeadTree, HeadCommit, TreeOf
    <2>4. \A p \in Path : wd'[p] = IF HeadTree[p] = target[p] THEN wd[p] ELSE target[p]
      BY <2>1 DEF CheckedOut
    <2> QED BY <2>1, <2>3, <2>4 DEF WorkInHead
  <1>6. CASE UserStep
    <2>1. CASE Quiet /\ pc' = pc
      BY <2>1 DEF Quiet
    <2>2. CASE \E i \in Input : ChangeInput(i)
      BY <2>2 DEF ChangeInput, repoVars, runVars, WorkInHead, HeadTree, HeadCommit, TreeOf
    <2> QED BY <1>6, <2>1, <2>2
          DEF UserStep, UserEdit, UserCreate, UserRemove, UserCommit, UserSwitch, UserDetach,
              UserResolve, MayTouchFiles, runVars
  <1>7. CASE Launch \/ Interrupt \/ Crash \/ GenerateStep \/ GitAfter
    BY <1>7 DEF Launch, Start, LiveWake, Interrupt, Crash, GenerateStep, Generate, GenerateFails,
       GitAfter, RecordOutput, EndOnKitchen, SwitchBack, SwitchBackFails, SwitchBackToDetached,
       AlreadyUpToDate, MergeFails, MergeConflicts, Merge, Goto, Exit, EndIteration
  <1>8. CASE RefuseMerging \/ CheckoutKitchenFails
    BY <1>8 DEF RefuseMerging, CheckoutKitchenFails, Exit
  <1>9. CASE UNCHANGED vars
    BY <1>9 DEF vars, repoVars, runVars, WorkInHead, HeadTree, HeadCommit, TreeOf
  <1>10. CASE KilledBetweenCalls
    <2>1. pc' = "idle"
      BY <1>10 DEF KilledBetweenCalls, KilledInCommit, KilledInCreateBranch, KilledInCheckout,
         KilledInMerge, KilledInCleanup, Die, Exit
    <2> QED BY <2>1
  <1> QED BY <1>1, <1>2, <1>3, <1>4, <1>5, <1>6, <1>7, <1>8, <1>9, <1>10 DEF Next, GitBefore

(* Whatever fails and wherever a run is killed, the generator overwrites no *)
(* file that could not be recovered from HEAD.                              *)
THEOREM OverwritesCommitted ==
  ASSUME EditsDuringRun = FALSE
  PROVE  Spec => []OverwritesOnlyCommitted
  <1>1. Init => OverwriteInv
    BY DEF Init, OverwriteInv
  <1>2. TypeOK /\ HeadInv /\ OverwriteInv /\ [Next]_vars => OverwriteInv'
    BY OverwriteStep
  <1>3. OverwriteInv => OverwritesOnlyCommitted
    BY DEF OverwriteInv, WorkInHead, OverwritesOnlyCommitted
  <1> QED BY <1>1, <1>2, <1>3, HeadAlways, PTL DEF Spec

-----------------------------------------------------------------------------
(* Conflict markers are never committed. *)

NoMarkers(t) == \A p \in Path, r \in Region : t[p] # Absent => t[p][r] # Marker

CleanFile(f) == f # Absent => \A r \in Region : f[r] # Marker

(* Markers are only in files git lists as conflicted, there are such files  *)
(* only while a merge is in progress, and a run that gets past its checks   *)
(* found none in progress.  None is staged.                                 *)
MarkerInv ==
  /\ NoMarkersCommitted
  /\ NoMarkers(index)
  /\ \A p \in Path \ conflicted : CleanFile(wd[p])
  /\ mergeHead = None => conflicted = {}
  /\ mergeHead # None => HeadCommit # None
  /\ pc \notin {"idle", "wait", "commit"} => mergeHead = None

LEMMA TreeOfNoMarkers ==
  ASSUME CommitsOK, NoMarkersCommitted, NEW c \in 0..Len(commits)
  PROVE  NoMarkers(TreeOf(c))
  BY DEF NoMarkersCommitted, NoMarkers, TreeOf, EmptyTree, None

(* A merge puts markers only into files that clash. *)
LEMMA MergedFileClean ==
  ASSUME NEW base, NEW ours, NEW theirs, CleanFile(ours), CleanFile(theirs),
         ~FileClash(base, ours, theirs)
  PROVE  CleanFile(MergedFile(base, ours, theirs))
  <1>1. CASE ours = theirs \/ base = theirs \/ base = ours \/ ours = Absent \/ theirs = Absent
    BY <1>1 DEF MergedFile
  <1>2. CASE ours # theirs /\ base # theirs /\ base # ours /\ ours # Absent /\ theirs # Absent
    <2>1. \A r \in Region : ~RegionClash(base, ours, theirs, r)
      BY <1>2 DEF FileClash
    <2>2. MergedFile(base, ours, theirs) =
            [r \in Region |-> IF RegionClash(base, ours, theirs, r) THEN Marker
               ELSE IF base = Absent \/ base[r] = theirs[r] THEN ours[r] ELSE theirs[r]]
      BY <1>2 DEF MergedFile
    <2> QED BY <1>2, <2>1, <2>2 DEF CleanFile
  <1> QED BY <1>1, <1>2

(* A commit of a tree without markers keeps NoMarkersCommitted. *)
LEMMA CommitNoMarkers ==
  ASSUME TypeOK, NoMarkersCommitted, NEW tree \in Tree, NoMarkers(tree),
         NEW parents \in SUBSET (0..Len(commits)), WriteCommit(tree, parents)
  PROVE  NoMarkersCommitted'
  <1>1. /\ Len(commits') = Len(commits) + 1
        /\ \A c \in 1..Len(commits) : commits'[c] = commits[c]
        /\ commits'[Len(commits) + 1] =
             [tree |-> tree, anc |-> {Len(commits) + 1} \cup UNION {Anc(q) : q \in parents}]
    BY WriteCommitEffect DEF TypeOK, RefsOK
  <1>2. \A c \in 1..Len(commits') : c \in 1..Len(commits) \/ c = Len(commits) + 1
    BY <1>1 DEF TypeOK, CommitsOK
  <1>3. \A c \in 1..Len(commits') : NoMarkers(commits'[c].tree)
    BY <1>1, <1>2 DEF NoMarkersCommitted, NoMarkers
  <1> QED BY <1>3 DEF NoMarkersCommitted, NoMarkers

LEMMA StagedNoMarkers ==
  ASSUME NoMarkers(index), NoMarkers(wd)
  PROVE  NoMarkers(Staged)
  BY DEF Staged, NoMarkers

LEMMA CheckedOutNoMarkers ==
  ASSUME NEW target, NoMarkers(target), NoMarkers(wd)
  PROVE  NoMarkers(CheckedOut(target))
  BY DEF CheckedOut, NoMarkers

LEMMA GeneratedNoMarkers ==
  ASSUME TypeOK, NoMarkers(wd), NEW written, NEW removed
  PROVE  NoMarkers(Generated(written, removed))
  <1>1. NoMarkers(Output[input])
    BY OutputAssumption, ValueAssumption DEF NoMarkers, TypeOK, RunOK
  <1> QED BY <1>1 DEF Generated, NoMarkers

LEMMA MergeNoMarkers ==
  ASSUME TypeOK, NoMarkersCommitted, NoMarkers(wd)
  PROVE  /\ \A p \in Path \ MergeClashes : CleanFile(MergeTree[p]) /\ CleanFile(MergeDir[p])
         /\ branch[Kitchen] = None => MergeClashes = {}
         /\ NoMarkers(MergeIndex)
  <1>1. HeadCommit \in 0..Len(commits) /\ branch[Kitchen] \in 0..Len(commits)
    BY DEF TypeOK, RefsOK, HeadCommit, Branch
  <1>2. NoMarkers(HeadTree) /\ NoMarkers(TreeOf(branch[Kitchen]))
    BY <1>1, TreeOfNoMarkers DEF HeadTree, TypeOK
  <1>3. \A p \in Path : CleanFile(Side(p).ours) /\ CleanFile(Side(p).theirs)
    BY <1>2 DEF Side, NoMarkers, CleanFile
  <1>4. \A p \in Path \ MergeClashes : CleanFile(MergeTree[p])
    BY <1>3, MergedFileClean DEF MergeClashes, MergeTree
  <1>5. \A p \in Path \ MergeClashes : CleanFile(MergeDir[p])
    BY <1>4 DEF MergeDir, NoMarkers, CleanFile
  <1>6. ASSUME branch[Kitchen] = None PROVE MergeClashes = {}
    <2>1. MergeBase(HeadCommit, branch[Kitchen]) = None
      BY <1>6 DEF MergeBase, Anc
    <2>2. \A p \in Path : Side(p).base = Absent /\ Side(p).theirs = Absent
      BY <1>6, <2>1 DEF Side, TreeOf, EmptyTree
    <2> QED BY <2>2 DEF MergeClashes, FileClash
  <1>7. NoMarkers(MergeIndex)
    BY <1>2, <1>4 DEF MergeIndex, NoMarkers, CleanFile
  <1> QED BY <1>4, <1>5, <1>6, <1>7

LEMMA CleanWhenNotMerging ==
  ASSUME MarkerInv, mergeHead = None
  PROVE  NoMarkers(wd)
  BY DEF MarkerInv, NoMarkers, CleanFile

LEMMA MarkerInit == Init => MarkerInv
  <1> SUFFICES ASSUME Init PROVE MarkerInv
    OBVIOUS
  <1>1. NoMarkers(wd)
    <2>1. CASE wd = EmptyTree
      BY <2>1 DEF NoMarkers, EmptyTree
    <2>2. CASE \E i \in Input : \E p \in Outputs(i), r \in Region, v \in UserValue :
                 wd = [Output[i] EXCEPT ![p] = [@ EXCEPT ![r] = v]]
      <3>1. PICK i \in Input, p \in Path, r \in Region, v \in UserValue :
              Output[i][p] # Absent /\ wd = [Output[i] EXCEPT ![p] = [@ EXCEPT ![r] = v]]
        BY <2>2 DEF Outputs
      <3>2. \A q \in Path : Output[i][q] \in [Region -> GenValue] \cup {Absent}
        BY OutputAssumption
      <3>3. Output[i][p] \in [Region -> GenValue]
        BY <3>1, <3>2
      <3>4. wd[p] = [Output[i][p] EXCEPT ![r] = v] /\ \A q \in Path \ {p} : wd[q] = Output[i][q]
        BY <3>1, OutputAssumption
      <3>5. \A q \in Region : wd[p][q] # Marker
        BY <3>3, <3>4, ValueAssumption
      <3>6. \A q \in Path \ {p}, s \in Region : wd[q] # Absent => wd[q][s] # Marker
        BY <3>2, <3>4, ValueAssumption
      <3> QED BY <3>5, <3>6 DEF NoMarkers
    <2> QED BY <2>1, <2>2 DEF Init
  <1>2. NoMarkersCommitted
    <2>1. CASE commits = <<>>
      BY <2>1 DEF NoMarkersCommitted
    <2>2. CASE commits = <<[tree |-> wd, anc |-> {1}]>>
      <3>1. \A c \in 1..Len(commits) : commits[c].tree = wd
        BY <2>2
      <3> QED BY <1>1, <3>1 DEF NoMarkers, NoMarkersCommitted
    <2> QED BY <2>1, <2>2 DEF Init
  <1>3. NoMarkers(index)
    BY <1>1 DEF Init
  <1> QED BY <1>1, <1>2, <1>3 DEF MarkerInv, Init, NoMarkers, CleanFile

LEMMA MarkerUserStep ==
  ASSUME TypeOK, HeadInv, MarkerInv, UserStep
  PROVE  MarkerInv'
  <1>1. ASSUME mergeHead = None,
               UNCHANGED <<commits, branch, head, index, mergeHead, conflicted, runVars>>,
               NoMarkers(wd')
        PROVE  MarkerInv'
    BY <1>1 DEF MarkerInv, NoMarkersCommitted, NoMarkers, CleanFile, runVars
  <1>2. mergeHead = None => NoMarkers(wd)
    BY CleanWhenNotMerging
  <1>3. ASSUME NEW p \in Path, NEW r \in Region, NEW v \in UserValue, UserEdit(p, r, v)
        PROVE  MarkerInv'
    <2>1. wd[p] \in File /\ wd \in Tree /\ wd' = [wd EXCEPT ![p] = [wd[p] EXCEPT ![r] = v]]
      BY <1>3 DEF UserEdit, TypeOK, RunOK, Tree
    <2>2. wd'[p] = [wd[p] EXCEPT ![r] = v] /\ \A q \in Path \ {p} : wd'[q] = wd[q]
      BY <2>1 DEF Tree
    <2>3. \A s \in Region : wd[p][s] # Marker
      BY <1>2, <1>3 DEF NoMarkers, UserEdit, MayTouchFiles
    <2>4. \A s \in Region : wd'[p][s] # Marker
      BY <2>1, <2>2, <2>3, ValueAssumption DEF File
    <2>5. NoMarkers(wd')
      BY <1>2, <1>3, <2>2, <2>4 DEF NoMarkers, UserEdit, MayTouchFiles
    <2> QED BY <1>1, <1>3, <2>5 DEF UserEdit, MayTouchFiles
  <1>4. ASSUME NEW p \in Path, NEW v \in UserValue, UserCreate(p, v) PROVE MarkerInv'
    <2>1. NoMarkers(wd')
      BY <1>2, <1>4, ValueAssumption DEF UserCreate, MayTouchFiles, NoMarkers, TypeOK, RunOK, Tree
    <2> QED BY <1>1, <1>4, <2>1 DEF UserCreate, MayTouchFiles
  <1>5. ASSUME NEW p \in Path, UserRemove(p) PROVE MarkerInv'
    <2>1. NoMarkers(wd')
      BY <1>2, <1>5 DEF UserRemove, MayTouchFiles, NoMarkers, TypeOK, RunOK, Tree
    <2> QED BY <1>1, <1>5, <2>1 DEF UserRemove, MayTouchFiles
  <1>6. CASE UserCommit
    <2>1. mergeHead = None /\ WriteCommit(wd, {HeadCommit}) /\ wd \in Tree /\ index' = wd
          /\ UNCHANGED <<head, wd, mergeHead, conflicted, pc>>
      BY <1>6 DEF UserCommit, runVars, TypeOK, RunOK
    <2>2. {HeadCommit} \in SUBSET (0..Len(commits))
      BY DEF HeadCommit, TypeOK, RefsOK
    <2>3. NoMarkersCommitted'
      BY <1>2, <2>1, <2>2, CommitNoMarkers DEF MarkerInv
    <2>4. NoMarkers(index)'
      BY <1>2, <2>1 DEF NoMarkers
    <2> QED BY <2>1, <2>3, <2>4 DEF MarkerInv
  <1>7. ASSUME NEW x \in UserBranch, UserSwitch(x) PROVE MarkerInv'
    <2> DEFINE created == IF branch[x] = None THEN [branch EXCEPT ![x] = HeadCommit] ELSE branch
    <2>1. mergeHead = None /\ UNCHANGED <<commits, mergeHead, conflicted, pc>>
          /\ wd' = TreeOf(created[x]) /\ index' = wd'
      BY <1>7 DEF UserSwitch, runVars
    <2>2. created[x] \in 0..Len(commits)
      BY DEF HeadCommit, TypeOK, RefsOK, Branch
    <2>3. NoMarkers(wd')
      BY <2>1, <2>2, TreeOfNoMarkers DEF TypeOK, MarkerInv
    <2> QED BY <2>1, <2>3 DEF MarkerInv, NoMarkersCommitted, NoMarkers, CleanFile
  <1>8. CASE UserDetach
    BY <1>8 DEF UserDetach, MarkerInv, NoMarkersCommitted, runVars
  <1>9. ASSUME NEW v \in Value \ {Marker}, UserResolve(v) PROVE MarkerInv'
    <2>1. \A p \in Path : wd'[p] = IF p \in conflicted /\ wd[p] # Absent
                                   THEN [r \in Region |-> IF wd[p][r] = Marker THEN v ELSE wd[p][r]]
                                   ELSE wd[p]
      BY <1>9 DEF UserResolve
    <2>2. NoMarkers(wd')
      <3> SUFFICES ASSUME NEW p \in Path, NEW r \in Region, wd'[p] # Absent
                   PROVE  wd'[p][r] # Marker
        BY DEF NoMarkers
      <3>1. CASE p \in conflicted /\ wd[p] # Absent
        BY <2>1, <3>1
      <3>2. CASE ~(p \in conflicted /\ wd[p] # Absent)
        BY <2>1, <3>2 DEF MarkerInv, CleanFile
      <3> QED BY <3>1, <3>2
    <2>3. WriteCommit(wd', {HeadCommit, mergeHead}) /\ mergeHead' = None /\ conflicted' = {}
          /\ index' = wd'
      BY <1>9 DEF UserResolve
    <2>4. wd' \in Tree /\ {HeadCommit, mergeHead} \in SUBSET (0..Len(commits))
      <3>1. UserStep
        BY <1>9 DEF UserStep
      <3> QED BY <3>1, UserStepType DEF HeadCommit, TypeOK, RefsOK, RunOK
    <2>5. NoMarkersCommitted'
      BY <2>2, <2>3, <2>4, CommitNoMarkers DEF MarkerInv
    <2> QED BY <2>2, <2>3, <2>5 DEF MarkerInv, NoMarkers, CleanFile
  <1>10. ASSUME NEW i \in Input, ChangeInput(i) PROVE MarkerInv'
    BY <1>10 DEF ChangeInput, repoVars, runVars, MarkerInv, NoMarkersCommitted, HeadCommit
  <1> QED BY <1>3, <1>4, <1>5, <1>6, <1>7, <1>8, <1>9, <1>10 DEF UserStep

LEMMA MarkerGitBefore ==
  ASSUME TypeOK, MarkerInv, GitBefore
  PROVE  MarkerInv'
  <1>1. CASE FirstCommit
    <2>1. mergeHead = None /\ NoMarkers(wd)
      BY <1>1, CleanWhenNotMerging DEF FirstCommit, MarkerInv
    <2>2. WriteCommit(Staged, {}) /\ UNCHANGED <<head, wd, mergeHead, conflicted>>
      BY <1>1 DEF FirstCommit
    <2>3. NoMarkers(Staged)
      BY <2>1, StagedNoMarkers DEF MarkerInv
    <2>4. NoMarkersCommitted'
      BY <2>1, <2>2, <2>3, StagedType, CommitNoMarkers DEF MarkerInv
    <2>5. NoMarkers(index)'
      BY <1>1, <2>3 DEF FirstCommit, NoMarkers
    <2> QED BY <2>1, <2>2, <2>4, <2>5 DEF MarkerInv
  <1>2. CASE RefuseMerging
    BY <1>2 DEF RefuseMerging, Exit, repoVars, MarkerInv, NoMarkersCommitted, HeadCommit
  <1>3. CASE CommitWork
    <2>1. mergeHead = None /\ NoMarkers(wd)
      BY <1>3, CleanWhenNotMerging DEF CommitWork
    <2>2. UNCHANGED <<head, wd, mergeHead, conflicted>>
      BY <1>3 DEF CommitWork
    <2>3. NoMarkers(Staged)
      BY <2>1, StagedNoMarkers DEF MarkerInv
    <2>4. NoMarkersCommitted'
      <3>1. CASE commits' = commits
        BY <3>1 DEF MarkerInv, NoMarkersCommitted
      <3>2. CASE WriteCommit(Staged, {HeadCommit})
        <4>1. {HeadCommit} \in SUBSET (0..Len(commits))
          BY DEF HeadCommit, TypeOK, RefsOK
        <4> QED BY <2>3, <3>2, <4>1, StagedType, CommitNoMarkers DEF MarkerInv
      <3> QED BY <1>3, <3>1, <3>2 DEF CommitWork, GitAddAllAndCommit
    <2>5. NoMarkers(index)'
      <3>1. index' = index \/ index' = Staged
        BY <1>3 DEF CommitWork, GitAddAllAndCommit
      <3> QED BY <2>3, <3>1 DEF MarkerInv, NoMarkers
    <2> QED BY <2>1, <2>2, <2>4, <2>5 DEF MarkerInv
  <1>4. CASE StayOnKitchen
    BY <1>4 DEF StayOnKitchen, Goto, repoVars, MarkerInv, NoMarkersCommitted, HeadCommit
  <1>5. CASE CreateKitchenBranch
    BY <1>5 DEF CreateKitchenBranch, Goto, MarkerInv, NoMarkersCommitted
  <1>6. CASE CheckoutKitchen
    <2>1. mergeHead = None /\ NoMarkers(wd)
      BY <1>6, CleanWhenNotMerging DEF CheckoutKitchen, MarkerInv
    <2>2. NoMarkers(TreeOf(branch[Kitchen]))
      BY TreeOfNoMarkers DEF MarkerInv, TypeOK, RefsOK, Branch
    <2>3. NoMarkers(wd') /\ NoMarkers(index)'
      BY <1>6, <2>1, <2>2, CheckedOutNoMarkers DEF CheckoutKitchen, NoMarkers
    <2> QED BY <1>6, <2>1, <2>3
          DEF CheckoutKitchen, MarkerInv, NoMarkersCommitted, NoMarkers, CleanFile
  <1>7. CASE CheckoutKitchenFails
    BY <1>7 DEF CheckoutKitchenFails, Exit, repoVars, MarkerInv, NoMarkersCommitted, HeadCommit
  <1> QED BY <1>1, <1>2, <1>3, <1>4, <1>5, <1>6, <1>7 DEF GitBefore

LEMMA MarkerGenerate ==
  ASSUME TypeOK, MarkerInv, GenerateStep
  PROVE  MarkerInv'
  <1>1. pc = "generate" /\ UNCHANGED <<commits, branch, head, index, mergeHead, conflicted>>
        /\ \E written, removed : wd' = Generated(written, removed)
    BY DEF GenerateStep, Generate, GenerateFails
  <1>2. mergeHead = None /\ NoMarkers(wd)
    BY <1>1, CleanWhenNotMerging DEF MarkerInv
  <1>3. NoMarkers(wd')
    BY <1>1, <1>2, GeneratedNoMarkers
  <1> QED BY <1>1, <1>2, <1>3 DEF MarkerInv, NoMarkersCommitted, NoMarkers, CleanFile

LEMMA MarkerGitAfter ==
  ASSUME TypeOK, MarkerInv, GitAfter
  PROVE  MarkerInv'
  <1>1. pc \in {"record", "back", "merge"} /\ mergeHead = None /\ NoMarkers(wd)
    <2>1. pc \in {"record", "back", "merge"}
      BY DEF GitAfter, RecordOutput, EndOnKitchen, SwitchBack, SwitchBackFails,
         SwitchBackToDetached, AlreadyUpToDate, MergeFails, MergeConflicts, Merge
    <2> QED BY <2>1, CleanWhenNotMerging DEF MarkerInv
  <1>2. CASE RecordOutput
    <2>1. UNCHANGED <<head, wd, mergeHead, conflicted>> /\ NoMarkers(Staged)
      BY <1>1, <1>2, StagedNoMarkers DEF RecordOutput, MarkerInv
    <2>2. NoMarkersCommitted'
      <3>1. CASE commits' = commits
        BY <3>1 DEF MarkerInv, NoMarkersCommitted
      <3>2. CASE WriteCommit(Staged, {HeadCommit})
        <4>1. {HeadCommit} \in SUBSET (0..Len(commits))
          BY DEF HeadCommit, TypeOK, RefsOK
        <4> QED BY <2>1, <3>2, <4>1, StagedType, CommitNoMarkers DEF MarkerInv
      <3> QED BY <1>2, <3>1, <3>2 DEF RecordOutput, GitAddAllAndCommit
    <2>3. NoMarkers(index)'
      <3>1. index' = index \/ index' = Staged
        BY <1>2 DEF RecordOutput, GitAddAllAndCommit
      <3> QED BY <2>1, <3>1 DEF MarkerInv, NoMarkers
    <2> QED BY <1>1, <2>1, <2>2, <2>3 DEF MarkerInv
  <1>3. CASE SwitchBack
    <2>1. NoMarkers(TreeOf(branch[original]))
      BY TreeOfNoMarkers DEF MarkerInv, TypeOK, RefsOK
    <2>2. NoMarkers(wd') /\ NoMarkers(index)'
      BY <1>1, <1>3, <2>1, CheckedOutNoMarkers DEF SwitchBack, NoMarkers
    <2> QED BY <1>1, <1>3, <2>2 DEF SwitchBack, MarkerInv, NoMarkersCommitted, NoMarkers, CleanFile
  <1>4. CASE SwitchBackToDetached
    BY <1>1, <1>4 DEF SwitchBackToDetached, MarkerInv, NoMarkersCommitted
  <1>5. CASE MergeConflicts
    <2>1. /\ wd' = MergeDir /\ index' = MergeIndex
          /\ mergeHead' = branch[Kitchen] /\ conflicted' = MergeClashes
          /\ MergeRequired /\ MergeClashes # {} /\ pc' = "idle"
          /\ UNCHANGED <<commits, branch, head>>
      BY <1>5 DEF MergeConflicts, Exit
    <2>2. \A p \in Path \ conflicted' : CleanFile(wd'[p])
      BY <1>1, <2>1, MergeNoMarkers DEF MarkerInv
    <2>3. branch[Kitchen] # None
      BY <1>1, <2>1, MergeNoMarkers DEF MarkerInv
    <2>4. NoMarkers(index)'
      BY <1>1, <2>1, MergeNoMarkers DEF MarkerInv, NoMarkers
    <2> QED BY <2>1, <2>2, <2>3, <2>4 DEF MarkerInv, NoMarkersCommitted, MergeRequired, HeadCommit
  <1>6. CASE Merge
    <2>1. /\ wd' = MergeDir /\ index' = MergeTree /\ MergeClashes = {}
          /\ WriteCommit(MergeTree, {HeadCommit, branch[Kitchen]})
          /\ UNCHANGED <<head, mergeHead, conflicted>>
      BY <1>6 DEF Merge
    <2>2. \A p \in Path : CleanFile(MergeTree[p]) /\ CleanFile(MergeDir[p])
      BY <1>1, <2>1, MergeNoMarkers DEF MarkerInv
    <2>3. NoMarkers(MergeTree)
      BY <2>2 DEF NoMarkers, CleanFile
    <2>4. {HeadCommit, branch[Kitchen]} \in SUBSET (0..Len(commits))
      BY DEF HeadCommit, TypeOK, RefsOK, Branch
    <2>5. NoMarkersCommitted'
      BY <2>1, <2>3, <2>4, MergeTreeType, CommitNoMarkers DEF MarkerInv
    <2>6. NoMarkers(index)'
      BY <2>1, <2>3 DEF NoMarkers
    <2> QED BY <1>1, <2>1, <2>2, <2>5, <2>6 DEF MarkerInv
  <1>7. CASE EndOnKitchen \/ SwitchBackFails \/ AlreadyUpToDate \/ MergeFails
    BY <1>1, <1>7 DEF EndOnKitchen, SwitchBackFails, AlreadyUpToDate, MergeFails, repoVars,
       MarkerInv, NoMarkersCommitted, HeadCommit
  <1> QED BY <1>2, <1>3, <1>4, <1>5, <1>6, <1>7 DEF GitAfter

LEMMA MarkerKilled ==
  ASSUME TypeOK, MarkerInv, KilledBetweenCalls
  PROVE  MarkerInv'
  <1>1. pc' = "idle" /\ head' = head
    BY DEF KilledBetweenCalls, KilledInCommit, KilledInCreateBranch, KilledInCheckout,
       KilledInMerge, KilledInCleanup, Die, Exit
  <1>2. mergeHead = None => NoMarkers(wd)
    BY CleanWhenNotMerging
  <1>3. CASE KilledInCommit
    <2>1. mergeHead = None
      BY <1>3 DEF KilledInCommit, MarkerInv
    <2>2. NoMarkers(index)'
      BY <1>2, <1>3, <2>1, StagedNoMarkers DEF KilledInCommit, MarkerInv, NoMarkers
    <2> QED BY <1>1, <1>3, <2>2 DEF KilledInCommit, MarkerInv, NoMarkersCommitted, HeadCommit
  <1>4. CASE KilledInCreateBranch
    BY <1>1, <1>4 DEF KilledInCreateBranch, MarkerInv, NoMarkersCommitted
  <1>5. ASSUME NEW b \in Branch, KilledInCheckout(b) PROVE MarkerInv'
    <2>1. mergeHead = None
      BY <1>5 DEF KilledInCheckout, MarkerInv
    <2>2. NoMarkers(TreeOf(branch[b]))
      BY TreeOfNoMarkers DEF MarkerInv, TypeOK, RefsOK
    <2>3. NoMarkers(wd') /\ NoMarkers(index)'
      BY <1>2, <1>5, <2>1, <2>2, CheckedOutNoMarkers DEF KilledInCheckout, NoMarkers
    <2> QED BY <1>1, <1>5, <2>1, <2>3
          DEF KilledInCheckout, MarkerInv, NoMarkersCommitted, NoMarkers, CleanFile
  <1>6. CASE KilledInMerge
    <2>1. /\ wd' = MergeDir /\ index' = MergeIndex
          /\ mergeHead' = branch[Kitchen] /\ conflicted' = MergeClashes
          /\ MergeRequired /\ pc = "merge" /\ UNCHANGED <<commits, branch>>
      BY <1>6 DEF KilledInMerge
    <2>2. mergeHead = None
      BY <2>1 DEF MarkerInv
    <2>3. \A p \in Path \ conflicted' : CleanFile(wd'[p])
      BY <1>2, <2>1, <2>2, MergeNoMarkers DEF MarkerInv
    <2>4. mergeHead' = None => conflicted' = {}
      BY <1>2, <2>1, <2>2, MergeNoMarkers DEF MarkerInv
    <2>5. NoMarkers(index)'
      BY <1>2, <2>1, <2>2, MergeNoMarkers DEF MarkerInv, NoMarkers
    <2> QED BY <1>1, <2>1, <2>3, <2>4, <2>5
          DEF MarkerInv, NoMarkersCommitted, MergeRequired, HeadCommit
  <1>7. CASE KilledInCleanup
    <2>1. /\ wd' = MergeDir /\ index' = MergeTree /\ MergeClashes = {} /\ pc = "merge"
          /\ WriteCommit(MergeTree, {HeadCommit, branch[Kitchen]})
          /\ conflicted' = conflicted
      BY <1>7 DEF KilledInCleanup
    <2>2. mergeHead = None /\ conflicted = {}
      BY <2>1 DEF MarkerInv
    <2>3. \A p \in Path : CleanFile(MergeTree[p]) /\ CleanFile(MergeDir[p])
      BY <1>2, <2>1, <2>2, MergeNoMarkers DEF MarkerInv
    <2>4. NoMarkers(MergeTree)
      BY <2>3 DEF NoMarkers, CleanFile
    <2>5. {HeadCommit, branch[Kitchen]} \in SUBSET (0..Len(commits))
      BY DEF HeadCommit, TypeOK, RefsOK, Branch
    <2>6. NoMarkersCommitted'
      BY <2>1, <2>4, <2>5, MergeTreeType, CommitNoMarkers DEF MarkerInv
    <2>7. NoMarkers(index)'
      BY <2>1, <2>4 DEF NoMarkers
    <2>8. HeadCommit' # None
      BY <1>1, <2>1 DEF WriteCommit, HeadCommit, TypeOK, CommitsOK, RefsOK, None
    <2> QED BY <1>1, <2>1, <2>2, <2>3, <2>6, <2>7, <2>8 DEF MarkerInv
  <1> QED BY <1>3, <1>4, <1>5, <1>6, <1>7 DEF KilledBetweenCalls

LEMMA MarkerStep == TypeOK /\ HeadInv /\ MarkerInv /\ [Next]_vars => MarkerInv'
  <1> SUFFICES ASSUME TypeOK, HeadInv, MarkerInv, [Next]_vars PROVE MarkerInv'
    OBVIOUS
  <1>1. CASE Launch \/ Interrupt \/ Crash
    <2>1. UNCHANGED repoVars /\ pc' \in {"idle", "wait", "commit"}
      BY <1>1 DEF Launch, Start, LiveWake, Interrupt, Crash, Goto, Exit
    <2> QED BY <2>1 DEF repoVars, MarkerInv, NoMarkersCommitted, NoMarkers, HeadCommit
  <1>2. CASE UNCHANGED vars
    BY <1>2 DEF vars, repoVars, runVars, MarkerInv, NoMarkersCommitted, NoMarkers, HeadCommit
  <1> QED BY <1>1, <1>2, MarkerUserStep, MarkerGitBefore, MarkerGenerate, MarkerGitAfter,
             MarkerKilled DEF Next

(* Whatever fails, wherever a run is killed and whatever the user does      *)
(* meanwhile, no commit ever holds conflict markers.                        *)
THEOREM MarkersNeverCommitted == Spec => []NoMarkersCommitted
  <1>1. MarkerInv => NoMarkersCommitted
    BY DEF MarkerInv
  <1> QED BY <1>1, MarkerInit, MarkerStep, HeadAlways, PTL DEF Spec

-----------------------------------------------------------------------------
(* The history of "meteor-kitchen" is a line. *)

Line(c) == \A d, e \in Anc(c) : d \in Anc(e) \/ e \in Anc(d)

(* A merge into "meteor-kitchen" never begins, and until there is such a    *)
(* branch no merge at all.                                                  *)
LineInv ==
  /\ Line(branch[Kitchen])
  /\ mergeHead # None => head # Kitchen
  /\ branch[Kitchen] = None => mergeHead = None /\ \A c \in 0..Len(commits) : Line(c)

LEMMA LineInit == Init => LineInv
  <1> SUFFICES ASSUME Init PROVE LineInv
    OBVIOUS
  <1>1. branch[Kitchen] = None /\ mergeHead = None
    BY BranchAssumption DEF Init, Branch
  <1>2. ASSUME NEW c \in 0..Len(commits) PROVE Line(c)
    <2>1. CASE commits = <<>>
      BY <1>2, <2>1 DEF Line, Anc, None
    <2>2. CASE commits = <<[tree |-> wd, anc |-> {1}]>>
      <3>1. c = None \/ c = 1
        BY <1>2, <2>2 DEF None
      <3>2. Anc(1) = {1}
        BY <2>2 DEF Anc, None
      <3> QED BY <3>1, <3>2 DEF Line, Anc
    <2> QED BY <2>1, <2>2 DEF Init
  <1> QED BY <1>1, <1>2 DEF LineInv, Line, Anc

NextLine(c) == \A d, e \in NextAnc(c) : d \in NextAnc(e) \/ e \in NextAnc(d)

LEMMA LineNext == \A c : Line(c)' <=> NextLine(c)
  BY DEF Line, NextLine, Anc, NextAnc

(* Commits stay on their line, and one with a single parent continues it. *)
LEMMA LinesGrow ==
  ASSUME TypeOK, NEW tree \in Tree, NEW parents \in SUBSET (0..Len(commits)),
         WriteCommit(tree, parents)
  PROVE  /\ \A c \in 0..Len(commits) : Line(c) => NextLine(c)
         /\ \A q \in 0..Len(commits) : parents \subseteq {q, None} /\ Line(q) => NextLine(Len(commits) + 1)
  <1> DEFINE new == Len(commits) + 1
  <1>1. /\ CommitsOK /\ Len(commits) \in Nat /\ new # None
        /\ \A c \in 0..Len(commits) : Anc(c) \subseteq 1..Len(commits) /\ NextAnc(c) = Anc(c)
    BY AncType, WriteCommitAnc DEF TypeOK, CommitsOK, RefsOK, None
  <1>2. NextAnc(new) = {new} \cup UNION {Anc(q) : q \in parents}
    <2>1. commits'[new] = [tree |-> tree, anc |-> {new} \cup UNION {Anc(q) : q \in parents}]
      BY WriteCommitEffect DEF TypeOK, RefsOK
    <2> QED BY <1>1, <2>1 DEF NextAnc
  <1>3. ASSUME NEW c \in 0..Len(commits), Line(c) PROVE NextLine(c)
    <2>1. \A d \in Anc(c) : d \in 0..Len(commits)
      BY <1>1
    <2>2. \A d \in Anc(c) : NextAnc(d) = Anc(d)
      BY <1>1, <2>1
    <2> QED BY <1>1, <1>3, <2>2 DEF Line, NextLine
  <1>4. ASSUME NEW q \in 0..Len(commits), parents \subseteq {q, None}, Line(q) PROVE NextLine(new)
    <2>1. NextAnc(new) \subseteq {new} \cup NextAnc(q)
      <3>1. Anc(None) = {}
        BY DEF Anc
      <3> QED BY <1>1, <1>2, <1>4, <3>1
    <2>2. ASSUME NEW d \in NextAnc(new), NEW e \in NextAnc(new)
          PROVE  d \in NextAnc(e) \/ e \in NextAnc(d)
      <3>1. d = new \/ e = new \/ (d \in NextAnc(q) /\ e \in NextAnc(q))
        BY <2>1, <2>2
      <3>2. NextLine(q)
        BY <1>3, <1>4
      <3> QED BY <2>2, <3>1, <3>2 DEF NextLine
    <2> QED BY <2>2 DEF NextLine
  <1> QED BY <1>3, <1>4

(* A commit with no other parent than HEAD's commit. *)
LEMMA CommitKeepsLines ==
  ASSUME TypeOK, LineInv, NEW tree \in Tree, NEW parents \in SUBSET {HeadCommit},
         WriteCommit(tree, parents), head' = head, mergeHead' = mergeHead
  PROVE  LineInv'
  <1> DEFINE new == Len(commits) + 1
  <1>1. /\ branch \in [Branch -> 0..Len(commits)] /\ head \in Branch /\ Kitchen \in Branch
        /\ HeadCommit \in 0..Len(commits) /\ parents \in SUBSET (0..Len(commits))
        /\ Len(commits) \in Nat /\ new # None
    BY DEF TypeOK, RefsOK, CommitsOK, Branch, HeadCommit, None
  <1>2. Len(commits') = new /\ branch' = [branch EXCEPT ![head] = new]
    BY <1>1, WriteCommitEffect DEF TypeOK
  <1>3. /\ \A c \in 0..Len(commits) : Line(c) => NextLine(c)
        /\ Line(HeadCommit) => NextLine(new)
    BY <1>1, LinesGrow
  <1>4. NextLine(branch'[Kitchen])
    <2>1. CASE head = Kitchen
      BY <1>1, <1>2, <1>3, <2>1 DEF LineInv, HeadCommit
    <2>2. CASE head # Kitchen
      BY <1>1, <1>2, <1>3, <2>2 DEF LineInv
    <2> QED BY <2>1, <2>2
  <1>5. ASSUME branch'[Kitchen] = None
        PROVE  mergeHead' = None /\ \A c \in 0..Len(commits') : NextLine(c)
    <2>1. branch[Kitchen] = None
      BY <1>1, <1>2, <1>5
    <2>2. \A c \in 0..Len(commits') : c \in 0..Len(commits) \/ c = new
      BY <1>1, <1>2
    <2> QED BY <1>1, <1>3, <2>1, <2>2 DEF LineInv
  <1> QED BY <1>4, <1>5, LineNext DEF LineInv

(* A commit on another branch than "meteor-kitchen" once that exists. *)
LEMMA KitchenKeepsLine ==
  ASSUME TypeOK, LineInv, NEW tree \in Tree, NEW parents \in SUBSET (0..Len(commits)),
         WriteCommit(tree, parents), branch[Kitchen] # None, head # Kitchen, head' = head
  PROVE  LineInv'
  <1>1. /\ branch \in [Branch -> 0..Len(commits)] /\ head \in Branch /\ Kitchen \in Branch
    BY DEF TypeOK, RefsOK, Branch
  <1>2. branch'[Kitchen] = branch[Kitchen]
    BY <1>1, WriteCommitEffect DEF TypeOK
  <1>3. NextLine(branch'[Kitchen])
    BY <1>1, <1>2, LinesGrow DEF LineInv
  <1> QED BY <1>2, <1>3, LineNext DEF LineInv

(* A step that commits nothing. *)
LEMMA RefsKeepLines ==
  ASSUME TypeOK, LineInv, commits' = commits,
         \/ branch'[Kitchen] = branch[Kitchen]
         \/ branch[Kitchen] = None /\ branch'[Kitchen] = HeadCommit,
         mergeHead' # None => head' # Kitchen,
         branch'[Kitchen] = None => mergeHead' = None
  PROVE  LineInv'
  <1>1. \A c : NextLine(c) <=> Line(c)
    BY DEF Line, NextLine, Anc, NextAnc
  <1>2. HeadCommit \in 0..Len(commits)
    BY DEF TypeOK, RefsOK, HeadCommit
  <1>3. NextLine(branch'[Kitchen])
    BY <1>1, <1>2 DEF LineInv
  <1>4. branch'[Kitchen] = None => branch[Kitchen] = None
    BY DEF LineInv
  <1> QED BY <1>1, <1>3, <1>4, LineNext DEF LineInv

LEMMA LineStep ==
  ASSUME TypeOK, MarkerInv, LineInv, [Next]_vars
  PROVE  LineInv'
  <1>1. /\ Kitchen \in Branch /\ Kitchen # Detached /\ Kitchen \notin UserBranch
        /\ branch \in [Branch -> 0..Len(commits)] /\ mergeHead \in 0..Len(commits)
        /\ HeadCommit \in 0..Len(commits) /\ head \in Branch
    BY BranchAssumption DEF TypeOK, RefsOK, Branch, HeadCommit
  <1>2. pc \notin {"idle", "wait", "commit"} => mergeHead = None
    BY DEF MarkerInv
  <1>3. CASE UNCHANGED <<commits, branch, head, mergeHead>>
    BY <1>3, RefsKeepLines DEF LineInv
  <1>4. CASE UserCommit
    BY <1>4, CommitKeepsLines DEF UserCommit, TypeOK, RunOK
  <1>5. CASE FirstCommit
    BY <1>5, StagedType, CommitKeepsLines DEF FirstCommit
  <1>6. CASE CommitWork \/ RecordOutput
    <2>1. CASE RepoIsClean
      BY <1>3, <1>6, <2>1 DEF CommitWork, RecordOutput
    <2>2. CASE ~RepoIsClean
      BY <1>6, <2>2, StagedType, CommitKeepsLines DEF CommitWork, RecordOutput, GitAddAllAndCommit
    <2> QED BY <2>1, <2>2
  <1>7. ASSUME NEW v \in Value \ {Marker}, UserResolve(v) PROVE LineInv'
    <2>1. wd' \in Tree
      <3>1. UserStep
        BY <1>7 DEF UserStep
      <3> QED BY <3>1, UserStepType DEF TypeOK, RunOK
    <2>2. /\ WriteCommit(wd', {HeadCommit, mergeHead}) /\ head' = head
          /\ head # Kitchen /\ branch[Kitchen] # None
      BY <1>7 DEF UserResolve, LineInv
    <2> QED BY <1>1, <2>1, <2>2, KitchenKeepsLine
  <1>8. CASE Merge \/ KilledInCleanup
    <2>1. /\ WriteCommit(MergeTree, {HeadCommit, branch[Kitchen]}) /\ MergeTree \in Tree
          /\ head' = head /\ (mergeHead' = mergeHead \/ mergeHead' = branch[Kitchen])
          /\ mergeHead = None
          /\ HeadCommit # None /\ branch[Kitchen] \notin Anc(HeadCommit)
      BY <1>2, <1>8, MergeTreeType DEF Merge, KilledInCleanup, MergeRequired
    <2>2. CASE branch[Kitchen] = None
      <3>1. WriteCommit(MergeTree, {HeadCommit})
        BY <2>1, <2>2 DEF WriteCommit, Anc
      <3> QED BY <2>1, <2>2, <3>1, CommitKeepsLines
    <2>3. CASE branch[Kitchen] # None
      <3>1. branch[Kitchen] \in Anc(branch[Kitchen])
        BY <1>1, <2>3 DEF TypeOK, CommitsOK, Anc, None
      <3>2. head # Kitchen
        BY <2>1, <3>1 DEF HeadCommit
      <3> QED BY <1>1, <2>1, <2>3, <3>2, KitchenKeepsLine
    <2> QED BY <2>2, <2>3
  <1>9. CASE MergeConflicts \/ KilledInMerge
    <2>1. /\ UNCHANGED <<commits, branch, head>> /\ mergeHead' = branch[Kitchen]
          /\ branch[Kitchen] \notin Anc(HeadCommit)
      BY <1>9 DEF MergeConflicts, KilledInMerge, MergeRequired
    <2>2. branch[Kitchen] # None => branch[Kitchen] \in Anc(branch[Kitchen])
      BY <1>1 DEF TypeOK, CommitsOK, Anc, None
    <2>3. mergeHead' # None => head' # Kitchen
      BY <2>1, <2>2 DEF HeadCommit
    <2> QED BY <2>1, <2>3, RefsKeepLines
  <1>10. ASSUME NEW x \in UserBranch, UserSwitch(x) PROVE LineInv'
    <2>1. /\ commits' = commits /\ branch'[Kitchen] = branch[Kitchen]
          /\ mergeHead' = mergeHead /\ mergeHead = None
      BY <1>1, <1>10 DEF UserSwitch, LeaveDetached
    <2> QED BY <2>1, RefsKeepLines
  <1>11. CASE UserDetach
    <2>1. /\ commits' = commits /\ branch'[Kitchen] = branch[Kitchen]
          /\ mergeHead' = mergeHead /\ mergeHead = None
      BY <1>1, <1>11 DEF UserDetach
    <2> QED BY <2>1, RefsKeepLines
  <1>12. CASE CreateKitchenBranch \/ KilledInCreateBranch \/ CheckoutKitchen
    <2>1. /\ commits' = commits /\ mergeHead' = mergeHead /\ mergeHead = None
          /\ \/ branch'[Kitchen] = branch[Kitchen]
             \/ branch[Kitchen] = None /\ branch'[Kitchen] = HeadCommit
      BY <1>1, <1>2, <1>12
         DEF CreateKitchenBranch, KilledInCreateBranch, CheckoutKitchen, LeaveDetached
    <2> QED BY <2>1, RefsKeepLines
  <1>13. CASE SwitchBack \/ SwitchBackToDetached
    <2>1. UNCHANGED <<commits, branch, mergeHead>> /\ mergeHead = None
      BY <1>2, <1>13 DEF SwitchBack, SwitchBackToDetached
    <2> QED BY <2>1, RefsKeepLines
  <1>14. ASSUME Next PROVE \/ UNCHANGED <<commits, branch, head, mergeHead>>
                           \/ UserCommit \/ (\E x \in UserBranch : UserSwitch(x)) \/ UserDetach
                           \/ (\E v \in Value \ {Marker} : UserResolve(v))
                           \/ FirstCommit \/ CommitWork \/ CreateKitchenBranch \/ CheckoutKitchen
                           \/ RecordOutput \/ SwitchBack \/ SwitchBackToDetached
                           \/ MergeConflicts \/ Merge
                           \/ KilledInCreateBranch \/ KilledInMerge \/ KilledInCleanup
    BY <1>14 DEF Next, UserStep, Launch, GitBefore, GenerateStep, GitAfter, repoVars,
       KilledBetweenCalls, KilledInCommit, KilledInCheckout,
       UserEdit, UserCreate, UserRemove, ChangeInput, Start, LiveWake, Interrupt, Crash,
       RefuseMerging, StayOnKitchen, CheckoutKitchenFails, Generate, GenerateFails,
       EndOnKitchen, SwitchBackFails, AlreadyUpToDate, MergeFails
  <1>15. UNCHANGED vars => UNCHANGED <<commits, branch, head, mergeHead>>
    BY DEF vars, repoVars
  <1> QED BY <1>3, <1>4, <1>5, <1>6, <1>7, <1>8, <1>9, <1>10, <1>11, <1>12, <1>13, <1>14, <1>15

(* The latest commit on a line has the others among its ancestors. *)
LEMMA LatestIsBest ==
  ASSUME TypeOK, LineInv
  PROVE  MergeBaseIsBest
  <1> SUFFICES ASSUME NEW x \in Branch, Anc(branch[x]) \cap Anc(branch[Kitchen]) # {}
               PROVE  /\ MergeBase(branch[x], branch[Kitchen]) \in Anc(branch[x]) \cap Anc(branch[Kitchen])
                      /\ Anc(branch[x]) \cap Anc(branch[Kitchen])
                           \subseteq Anc(MergeBase(branch[x], branch[Kitchen]))
    BY DEF MergeBaseIsBest
  <1> DEFINE common == Anc(branch[x]) \cap Anc(branch[Kitchen])
             base   == MergeBase(branch[x], branch[Kitchen])
  <1>1. common \subseteq 1..Len(commits) /\ Len(commits) \in Nat
    BY AncType DEF TypeOK, CommitsOK, RefsOK, Branch
  <1>2. \E c \in common : \A d \in common : d =< c
    BY <1>1, LatestExists
  <1>3. base \in common /\ \A d \in common : d =< base
    BY <1>2 DEF MergeBase
  <1>4. \A c \in 1..Len(commits) : c \in Anc(c) /\ Anc(c) \subseteq 1..c
    BY DEF TypeOK, CommitsOK, Anc, None
  <1>5. ASSUME NEW d \in common PROVE d \in Anc(base)
    <2>1. d \in Anc(base) \/ base \in Anc(d)
      BY <1>3 DEF LineInv, Line
    <2>2. d \in 1..Len(commits) /\ base \in 1..Len(commits) /\ d =< base
      BY <1>1, <1>3
    <2>3. base \in Anc(d) => base = d
      BY <1>4, <2>2
    <2> QED BY <1>4, <2>1, <2>2, <2>3
  <1> QED BY <1>3, <1>5

(* "meteor-kitchen" and any other branch have one best common ancestor, in  *)
(* every history that runs, failures, kills and the user can make.          *)
THEOREM OneMergeBase == Spec => []MergeBaseIsBest
  <1>1. Spec => [](TypeOK /\ HeadInv /\ MarkerInv)
    BY MarkerInit, MarkerStep, HeadAlways, PTL DEF Spec
  <1> QED BY <1>1, LineInit, LineStep, LatestIsBest, PTL DEF Spec

=============================================================================
