--------------------------- MODULE KitchenGitPromise ---------------------------
(***************************************************************************)
(* Theorems about what KitchenGit promises the user: git never stops a     *)
(* run, "meteor-kitchen" holds generated code only, a run ends merged on   *)
(* the user's branch with his modifications in place, and each run is one  *)
(* three-way merge of generated code.  They hold while nothing disturbs    *)
(* the runs; the definitions below say what that means.                    *)
(***************************************************************************)
EXTENDS KitchenGitProofs

-----------------------------------------------------------------------------
(* What the theorems suppose. *)

(* No run fails or is killed, and the user waits for its end before he      *)
(* touches a file.                                                          *)
Undisturbed == MayFail = FALSE /\ MayCrash = FALSE /\ EditsDuringRun = FALSE

(* An input changes what is in the generated files, not which there are.    *)
Steady == \A i, j \in Input : Outputs(i) = Outputs(j)

(* The application was made by this generator in this repository, and the   *)
(* user adds no file before it: nothing of his is there when the branch     *)
(* "meteor-kitchen" is created.                                             *)
Fresh == "create" \notin UserOps /\ "application" \notin StartWith

(* Deletions are never staged, so a deleted file is in the way of the       *)
(* checkout that would bring it back, unless what is deleted is generated   *)
(* again.                                                                   *)
Scope == Undisturbed /\ Steady /\ ("remove" \notin UserOps \/ Fresh)

-----------------------------------------------------------------------------
(* The inductive invariant. *)

(* From the switch to "meteor-kitchen" to the switch back. *)
Away == pc \in {"generate", "record", "back"}

(* HEAD is on "meteor-kitchen" only then, and a run returns to where the    *)
(* user was.                                                                *)
Places ==
  /\ original # Kitchen
  /\ ~Away => head # Kitchen
  /\ pc = "switch" => original = head
  /\ userOn = IF Away THEN original ELSE head

(* The branches a run works with have commits. *)
HasWork ==
  /\ pc = "switch" => HeadCommit # None
  /\ pc = "merge"  => HeadCommit # None \/ head = Detached
  /\ Away => branch[original] # None \/ original = Detached
  /\ Away \/ pc = "merge" => branch[Kitchen] # None

(* No file is ever dropped. *)
NoJunk == \A i \in Input : manifest \subseteq Outputs(i)

(* No file of HEAD among those in S is missing from the directory. *)
Tracked(S) == \A p \in S : wd[p] = Absent => HeadTree[p] = Absent

(* What the directory holds where git is about to compare it with HEAD. *)
Directory ==
  /\ (Quiet \/ pc = "commit") /\ mergeHead = None /\ "remove" \notin UserOps => Tracked(Path)
  /\ pc = "switch" /\ "remove" \notin UserOps => wd = HeadTree
  /\ pc = "generate" => Tracked(Path \ Outputs(input))
  /\ pc = "record" => Tracked(Path)
  /\ pc = "back" => wd = HeadTree
  /\ pc = "merge" => HeadCommit = None \/ wd = HeadTree

Versions == {Output[i] : i \in Input}

(* Every commit of "meteor-kitchen" is a version of the generated code,     *)
(* except for the empty one it starts from.                                 *)
Pure == Fresh =>
  /\ \A c \in Anc(branch[Kitchen]) : commits[c].tree \in Versions \cup {EmptyTree}
  /\ branch[Kitchen] = None =>
       wd = EmptyTree /\ \A c \in 1..Len(commits) : commits[c].tree = EmptyTree
  /\ pc = "record" => wd \in Versions
  /\ pc \in {"back", "merge"} => TreeOf(branch[Kitchen]) \in Versions

(* The index is HEAD's tree, but for a merge in progress and the branch      *)
(* "HEAD" that does not exist, where no run begins.                         *)
Indexed ==
  /\ pc = "commit" => ~Stranded
  /\ mergeHead = None => index = HeadTree \/ Stranded

RunInv == Places /\ HasWork /\ NoJunk /\ Directory /\ Pure /\ Indexed

(* What is proved in KitchenGitProofs. *)
Ground == TypeOK /\ HeadInv /\ MarkerInv /\ OverwriteInv

LEMMA GroundAlways ==
  ASSUME Undisturbed
  PROVE  Spec => []Ground
  <1>1. Init => Ground
    BY InitType, HeadInit, MarkerInit DEF Init, OverwriteInv, Ground
  <1>2. Ground /\ [Next]_vars => Ground'
    BY StepType, HeadStep, MarkerStep, OverwriteStep DEF Ground, Undisturbed
  <1> QED BY <1>1, <1>2, PTL DEF Spec

-----------------------------------------------------------------------------
(* Commits and branches that exist stay. *)

NextTree(c) == IF c = None THEN EmptyTree ELSE commits'[c].tree

LEMMA TreesStay ==
  ASSUME TypeOK, [Next]_vars, NEW c \in 0..Len(commits)
  PROVE  NextTree(c) = TreeOf(c) /\ NextAnc(c) = Anc(c)
  <1>1. CASE CommitStep
    <2>1. PICK tree \in Tree, parents \in SUBSET (0..Len(commits)) : WriteCommit(tree, parents)
      BY <1>1 DEF CommitStep
    <2>2. \A d \in 1..Len(commits) : commits'[d] = commits[d]
      BY <2>1, WriteCommitEffect DEF TypeOK, RefsOK
    <2>3. c = None \/ c \in 1..Len(commits)
      BY DEF TypeOK, CommitsOK, None
    <2> QED BY <2>2, <2>3 DEF NextTree, TreeOf, NextAnc, Anc
  <1>2. CASE RefStep
    BY <1>2 DEF RefStep, NextTree, TreeOf, NextAnc, Anc
  <1> QED BY <1>1, <1>2, HistoryStep

LEMMA BranchesStay ==
  ASSUME TypeOK, [Next]_vars, NEW x \in UserBranch \cup {Kitchen}, branch[x] # None
  PROVE  branch'[x] # None
  <1>1. Anc(branch[x]) \subseteq Anc(branch[x])'
    BY HistoryGrows
  <1>2. branch[x] \in Anc(branch[x])
    BY DEF Anc, None, Branch, TypeOK, CommitsOK, RefsOK
  <1> QED BY <1>1, <1>2 DEF Anc

-----------------------------------------------------------------------------
(* Git operations in a directory that is as HEAD says. *)

LEMMA HeadTreeType ==
  ASSUME TypeOK
  PROVE  HeadTree \in Tree
  BY TreeOfType DEF TypeOK, RefsOK, HeadTree, HeadCommit

LEMMA StagedIsWork ==
  ASSUME TypeOK, Tracked(Path), index = HeadTree
  PROVE  Staged = wd
  <1>1. wd = [p \in Path |-> wd[p]]
    BY DEF TypeOK, RunOK, Tree
  <1>2. \A p \in Path : (IF wd[p] = Absent THEN index[p] ELSE wd[p]) = wd[p]
    BY DEF Tracked
  <1> QED BY <1>1, <1>2 DEF Staged

LEMMA CommitAll ==
  ASSUME TypeOK, Tracked(Path), index = HeadTree, head' = head, wd' = wd,
         IF RepoIsClean THEN UNCHANGED <<commits, branch>> ELSE GitAddAllAndCommit
  PROVE  wd' = HeadTree'
  <1>1. CASE RepoIsClean
    BY <1>1 DEF RepoIsClean, HeadTree, HeadCommit, TreeOf
  <1>2. CASE ~RepoIsClean
    <2>1. {HeadCommit} \in SUBSET (0..Len(commits))
      BY DEF HeadCommit, TypeOK, RefsOK
    <2>2. WriteCommit(Staged, {HeadCommit})
      BY <1>2 DEF GitAddAllAndCommit
    <2>3. HeadTree' = Staged
      BY <2>1, <2>2, StagedType, HeadTreeAfterCommit
    <2> QED BY <2>3, StagedIsWork
  <1> QED BY <1>1, <1>2

LEMMA CleanCheckout ==
  ASSUME TypeOK, wd = HeadTree, NEW target \in Tree
  PROVE  CheckedOut(target) = target /\ ~CheckoutBlocked(target)
  <1>1. \A p \in Path : (IF HeadTree[p] = target[p] THEN wd[p] ELSE target[p]) = target[p]
    OBVIOUS
  <1>2. target = [p \in Path |-> target[p]]
    BY DEF Tree
  <1>3. CheckedOut(target) = target
    BY <1>1, <1>2 DEF CheckedOut
  <1>4. \A p \in Path : ~CheckoutClash(HeadTree[p], target[p], wd[p])
    BY DEF CheckoutClash
  <1> QED BY <1>3, <1>4 DEF CheckoutBlocked

LEMMA CleanMerge ==
  ASSUME TypeOK, wd = HeadTree
  PROVE  MergeDir = MergeTree /\ ~MergeBlocked
  <1>1. \A p \in Path : (IF p \in MergePaths THEN MergeTree[p] ELSE wd[p]) = MergeTree[p]
    BY DEF MergePaths
  <1>2. MergeTree = [p \in Path |-> MergeTree[p]]
    BY MergeTreeType DEF Tree
  <1>3. MergeDir = MergeTree
    BY <1>1, <1>2 DEF MergeDir
  <1>4. ~MergeBlocked
    BY DEF MergeBlocked
  <1> QED BY <1>3, <1>4

-----------------------------------------------------------------------------
(* The steps that remain. *)

OrderlyNext ==
  \/ UserStep \/ Launch \/ Interrupt \/ FirstCommit \/ RefuseMerging \/ CommitWork
  \/ CreateKitchenBranch \/ CheckoutKitchen
  \/ CheckoutKitchenFails /\ "remove" \in UserOps
  \/ Generate \/ RecordOutput \/ SwitchBack \/ SwitchBackToDetached
  \/ AlreadyUpToDate \/ MergeConflicts \/ Merge

LEMMA NeverKilled ==
  ASSUME Scope
  PROVE  ~KilledBetweenCalls
  BY DEF Scope, Undisturbed, KilledBetweenCalls, KilledInCommit, KilledInCreateBranch,
     KilledInCheckout, KilledInMerge, KilledInCleanup, Die

LEMMA OrderlyStep ==
  ASSUME Scope, Ground, RunInv, Next
  PROVE  OrderlyNext
  <1>1. ~Crash /\ ~KilledBetweenCalls
        /\ ~(\E written, removed \in SUBSET Path : GenerateFails(written, removed))
    BY NeverKilled DEF Scope, Undisturbed, Crash, GenerateFails
  <1>2. ~StayOnKitchen /\ ~EndOnKitchen
    BY DEF StayOnKitchen, EndOnKitchen, RunInv, Places, Away
  <1>3. ~SwitchBackFails
    <2>1. original \in Branch => TreeOf(branch[original]) \in Tree
      BY TreeOfType DEF Ground, TypeOK, RefsOK
    <2>2. pc = "back" => ~CheckoutBlocked(TreeOf(branch[original]))
      BY <2>1, CleanCheckout DEF Ground, TypeOK, RefsOK, RunInv, Directory
    <2> QED BY <2>2 DEF SwitchBackFails
  <1>4. ~MergeFails
    BY CleanMerge DEF MergeFails, MergeRequired, Ground, RunInv, Directory
  <1>5. CheckoutKitchenFails => "remove" \in UserOps
    <2>1. TreeOf(branch[Kitchen]) \in Tree
      BY TreeOfType DEF Ground, TypeOK, RefsOK, Branch
    <2>2. pc = "switch" /\ "remove" \notin UserOps => ~CheckoutBlocked(TreeOf(branch[Kitchen]))
      BY <2>1, CleanCheckout DEF Ground, RunInv, Directory
    <2> QED BY <2>2 DEF CheckoutKitchenFails
  <1> QED BY <1>1, <1>2, <1>3, <1>4, <1>5
        DEF Next, GitBefore, GenerateStep, GitAfter, OrderlyNext

-----------------------------------------------------------------------------
(* Each part of RunInv is preserved. *)

LEMMA PlacesStep ==
  ASSUME Scope, Ground, RunInv, Next
  PROVE  Places'
  <1> USE DEF Places, Away
  <1>1. Places
    BY DEF RunInv
  <1>2. CASE UserStep
    <2>1. CASE UNCHANGED <<pc, head, original, userOn>>
      BY <1>1, <2>1
    <2>2. Quiet /\ UNCHANGED <<pc, original>> /\ head' \in UserBranch \cup {Detached} /\ userOn' = head'
          => Places'
      BY <1>1, BranchAssumption DEF Quiet
    <2> QED BY <1>2, <2>1, <2>2
          DEF UserStep, UserEdit, UserCreate, UserRemove, UserCommit, UserSwitch, UserDetach,
              UserResolve, ChangeInput, repoVars, runVars
  <1>3. CASE Launch \/ Interrupt
    BY <1>1, <1>3 DEF Launch, Start, LiveWake, Interrupt, Goto, Exit, repoVars
  <1>4. CASE FirstCommit \/ CommitWork
    BY <1>1, <1>4 DEF FirstCommit, CommitWork, Goto
  <1>5. CASE RefuseMerging \/ CheckoutKitchenFails
    BY <1>1, <1>5 DEF RefuseMerging, CheckoutKitchenFails, Exit, repoVars
  <1>6. CASE CreateKitchenBranch \/ CheckoutKitchen
    BY <1>1, <1>6 DEF CreateKitchenBranch, CheckoutKitchen, Goto
  <1>7. CASE Generate \/ RecordOutput
    BY <1>1, <1>7 DEF Generate, RecordOutput, Goto
  <1>8. CASE SwitchBack \/ SwitchBackToDetached
    BY <1>1, <1>8, BranchAssumption DEF SwitchBack, SwitchBackToDetached, Goto
  <1>9. CASE AlreadyUpToDate \/ MergeConflicts \/ Merge
    BY <1>1, <1>9 DEF AlreadyUpToDate, MergeConflicts, Merge, EndIteration, Exit, repoVars
  <1> QED BY <1>2, <1>3, <1>4, <1>5, <1>6, <1>7, <1>8, <1>9, OrderlyStep DEF OrderlyNext

LEMMA NoJunkStep ==
  ASSUME Scope, Ground, RunInv, Next
  PROVE  NoJunk'
  <1>1. CASE manifest' = manifest
    BY <1>1 DEF RunInv, NoJunk, Outputs
  <1>2. CASE manifest' = Outputs(input)
    BY <1>2 DEF NoJunk, Scope, Steady, Outputs, Ground, TypeOK, RunOK
  <1> QED BY <1>1, <1>2
        DEF Next, UserStep, Launch, GitBefore, GenerateStep, GitAfter, runVars,
            UserEdit, UserCreate, UserRemove, UserCommit, UserSwitch, UserDetach, UserResolve,
            ChangeInput, Start, LiveWake, Interrupt, Crash, FirstCommit, RefuseMerging, CommitWork,
            StayOnKitchen, CreateKitchenBranch, CheckoutKitchen, CheckoutKitchenFails, Generate,
            GenerateFails, RecordOutput, EndOnKitchen, SwitchBack, SwitchBackFails,
            SwitchBackToDetached, AlreadyUpToDate, MergeFails, MergeConflicts, Merge,
            KilledBetweenCalls, KilledInCommit, KilledInCreateBranch, KilledInCheckout,
            KilledInMerge, KilledInCleanup

(* Where a run commits, checks out or merges, the index is HEAD's tree. *)
LEMMA IndexIsHead ==
  ASSUME Ground, RunInv, pc \notin {"idle", "wait"}, pc = "merge" => HeadCommit # None,
         pc = "commit" => mergeHead = None
  PROVE  index = HeadTree
  <1>1. mergeHead = None
    BY DEF Ground, MarkerInv
  <1>2. pc \in {"generate", "record", "back"} => head # Detached
    BY BranchAssumption DEF Ground, HeadInv, OnKitchen
  <1>3. ~Stranded
    BY <1>2 DEF Stranded, RunInv, Indexed, HasWork, Ground, TypeOK, RunOK, PC
  <1> QED BY <1>1, <1>3 DEF RunInv, Indexed

LEMMA IndexedStep ==
  ASSUME Scope, Ground, RunInv, Next
  PROVE  Indexed'
  <1> USE DEF Quiet
  <1>1. /\ TypeOK /\ Indexed /\ HasWork /\ branch \in [Branch -> 0..Len(commits)]
        /\ head \in Branch /\ wd \in Tree /\ HeadCommit \in 0..Len(commits)
        /\ mergeHead \in 0..Len(commits) /\ Kitchen \in Branch /\ original \in Branch
        /\ UserBranch \subseteq Branch /\ Detached \in Branch /\ Detached # Kitchen
    BY BranchAssumption
       DEF RunInv, Ground, TypeOK, RefsOK, RunOK, HeadCommit, Branch
  <1>2. UNCHANGED <<commits, branch, head>> =>
          HeadTree' = HeadTree /\ HeadCommit' = HeadCommit /\ Stranded' = Stranded
    BY DEF HeadTree, HeadCommit, TreeOf, Stranded
  <1>3. CASE UNCHANGED <<commits, branch, head, index, mergeHead>>
             /\ (pc' = pc \/ pc' # "commit" \/ ~Stranded)
    BY <1>1, <1>2, <1>3 DEF Indexed
  <1>4. ASSUME NEW tree \in Tree, NEW parents \in SUBSET (0..Len(commits)),
               WriteCommit(tree, parents), index' = tree, head' = head,
               pc' = pc \/ pc' # "commit"
        PROVE  Indexed'
    <2>1. HeadTree' = tree
      BY <1>1, <1>4, HeadTreeAfterCommit
    <2>2. branch'[head] = Len(commits) + 1 /\ Len(commits) + 1 # None
      BY <1>1, <1>4 DEF WriteCommit, TypeOK, CommitsOK, None
    <2>3. ~Stranded'
      BY <1>4, <2>2 DEF Stranded, HeadCommit
    <2> QED BY <1>4, <2>1, <2>3 DEF Indexed
  <1>5. CASE UserStep
    <2>1. CASE UserCommit
      BY <1>1, <1>4, <2>1 DEF UserCommit, runVars
    <2>2. ASSUME NEW v \in Value \ {Marker}, UserResolve(v) PROVE Indexed'
      <3>1. wd' \in Tree
        BY <1>1, <1>5, UserStepType DEF TypeOK, RunOK
      <3> QED BY <1>1, <1>4, <2>2, <3>1 DEF UserResolve, runVars
    <2>3. ASSUME NEW x \in UserBranch, UserSwitch(x) PROVE Indexed'
      <3> DEFINE created == IF branch[x] = None THEN [branch EXCEPT ![x] = HeadCommit] ELSE branch
      <3>1. pc' = pc /\ pc # "commit" /\ commits' = commits /\ head' = x /\ index' = TreeOf(created[x])
        BY <2>3 DEF UserSwitch, runVars
      <3>2. x # Detached /\ branch'[x] = created[x]
        BY <1>1, <2>3, BranchAssumption DEF UserSwitch, LeaveDetached
      <3>3. HeadTree' = index'
        BY <3>1, <3>2 DEF HeadTree, HeadCommit, TreeOf
      <3> QED BY <3>1, <3>3 DEF Indexed
    <2>4. CASE UserDetach
      <3>1. /\ pc' = pc /\ pc # "commit" /\ UNCHANGED <<commits, index, mergeHead>> /\ mergeHead = None
            /\ head' = Detached /\ branch' = [branch EXCEPT ![Detached] = HeadCommit]
            /\ head # Detached
        BY <2>4, BranchAssumption DEF UserDetach, runVars
      <3>2. HeadCommit' = HeadCommit /\ index = HeadTree
        BY <1>1, <3>1 DEF HeadCommit, Indexed, Stranded
      <3>3. HeadTree' = HeadTree
        BY <3>1, <3>2 DEF HeadTree, TreeOf
      <3> QED BY <3>1, <3>2, <3>3 DEF Indexed
    <2> QED BY <1>3, <1>5, <2>1, <2>2, <2>3, <2>4
          DEF UserStep, UserEdit, UserCreate, UserRemove, ChangeInput, repoVars, runVars
  <1>6. CASE Launch \/ Interrupt
    BY <1>3, <1>6 DEF Launch, Start, LiveWake, Interrupt, Goto, Exit, repoVars
  <1>7. CASE RefuseMerging \/ CheckoutKitchenFails \/ AlreadyUpToDate \/ Generate
    BY <1>3, <1>7 DEF RefuseMerging, CheckoutKitchenFails, AlreadyUpToDate, Generate, Goto, Exit,
       EndIteration, repoVars
  <1>8. CASE FirstCommit
    BY <1>4, <1>8, StagedType, <1>1 DEF FirstCommit, Goto
  <1>9. CASE CommitWork \/ RecordOutput
    <2>1. pc' # "commit" /\ UNCHANGED <<head, mergeHead>>
      BY <1>9 DEF CommitWork, RecordOutput, Goto
    <2>2. CASE RepoIsClean
      BY <1>3, <1>9, <2>1, <2>2 DEF CommitWork, RecordOutput
    <2>3. CASE ~RepoIsClean
      <3>1. {HeadCommit} \in SUBSET (0..Len(commits))
        BY <1>1
      <3> QED BY <1>1, <1>4, <1>9, <2>1, <2>3, <3>1, StagedType
            DEF CommitWork, RecordOutput, GitAddAllAndCommit
    <2> QED BY <2>2, <2>3
  <1>10. CASE CreateKitchenBranch
    <2>1. pc' # "commit" /\ UNCHANGED <<commits, index, mergeHead>> /\ branch'[head'] = HeadCommit
          /\ head' = Kitchen
      BY <1>1, <1>10 DEF CreateKitchenBranch, LeaveDetached, Goto
    <2>2. index = HeadTree
      BY <1>10, IndexIsHead DEF CreateKitchenBranch
    <2>3. HeadTree' = HeadTree
      BY <2>1 DEF HeadTree, HeadCommit, TreeOf
    <2> QED BY <2>1, <2>2, <2>3 DEF Indexed
  <1>11. CASE CheckoutKitchen
    <2>1. pc' # "commit" /\ commits' = commits /\ index' = TreeOf(branch[Kitchen])
          /\ branch'[head'] = branch[Kitchen]
      BY <1>1, <1>11 DEF CheckoutKitchen, LeaveDetached, Goto
    <2> QED BY <2>1 DEF Indexed, HeadTree, HeadCommit, TreeOf
  <1>12. CASE SwitchBack
    BY <1>12 DEF SwitchBack, Goto, Indexed, HeadTree, HeadCommit, TreeOf
  <1>13. CASE SwitchBackToDetached
    <2>1. pc = "back" /\ pc' = "merge" /\ branch' = branch /\ head' = Detached
      BY <1>13 DEF SwitchBackToDetached, Goto
    <2>2. branch[Detached] = None
      BY <2>1, BranchAssumption DEF Ground, HeadInv, OnKitchen, DetachedInv
    <2> QED BY <2>1, <2>2 DEF Indexed, Stranded, HeadCommit
  <1>14. CASE MergeConflicts
    <2>1. pc = "merge" /\ pc' = "idle" /\ mergeHead' = branch[Kitchen]
      BY <1>14 DEF MergeConflicts, Exit
    <2> QED BY <1>1, <2>1 DEF Indexed, HasWork
  <1>15. CASE Merge
    <2>1. {HeadCommit, branch[Kitchen]} \in SUBSET (0..Len(commits)) /\ MergeTree \in Tree
      BY <1>1, MergeTreeType
    <2> QED BY <1>4, <1>15, <2>1 DEF Merge, EndIteration
  <1> QED BY <1>5, <1>6, <1>7, <1>8, <1>9, <1>10, <1>11, <1>12, <1>13, <1>14, <1>15, OrderlyStep
        DEF OrderlyNext

LEMMA HasWorkStep ==
  ASSUME Scope, Ground, RunInv, Next
  PROVE  HasWork'
  <1> USE DEF Away
  <1>1. HasWork /\ Places /\ TypeOK /\ HeadInv /\ branch \in [Branch -> 0..Len(commits)]
    BY DEF RunInv, Ground, TypeOK, RefsOK
  <1>2. \A x \in UserBranch \cup {Kitchen} : branch[x] # None => branch'[x] # None
    BY <1>1, BranchesStay
  <1>3. head \in Branch /\ original \in Branch
    BY <1>1 DEF TypeOK, RefsOK
  <1>4. CASE UserStep
    <2>1. CASE Quiet /\ pc' = pc
      BY <2>1 DEF HasWork, Quiet
    <2>2. CASE UNCHANGED <<branch, pc, head, original>>
      BY <1>1, <2>2 DEF HasWork, HeadCommit
    <2> QED BY <1>4, <2>1, <2>2
          DEF UserStep, UserEdit, UserCreate, UserRemove, UserCommit, UserSwitch, UserDetach,
              UserResolve, ChangeInput, MayTouchFiles, repoVars, runVars
  <1>5. CASE Launch \/ Interrupt \/ RefuseMerging \/ CheckoutKitchenFails
    BY <1>5 DEF Launch, Start, LiveWake, Interrupt, RefuseMerging, CheckoutKitchenFails, Goto, Exit,
       HasWork
  <1>6. CASE FirstCommit \/ CommitWork
    <2>1. pc' = "switch" /\ head' = head
      BY <1>6 DEF FirstCommit, CommitWork, Goto
    <2>2. \/ branch' = [branch EXCEPT ![head] = Len(commits) + 1]
          \/ branch' = branch /\ HeadCommit # None
      BY <1>6 DEF FirstCommit, CommitWork, GitAddAllAndCommit, WriteCommit
    <2>3. Len(commits) + 1 # None
      BY <1>1 DEF TypeOK, CommitsOK, None
    <2>4. branch'[head] # None
      BY <1>1, <1>3, <2>2, <2>3 DEF HeadCommit
    <2> QED BY <2>1, <2>4 DEF HasWork, HeadCommit
  <1>7. CASE CreateKitchenBranch \/ CheckoutKitchen
    <2>1. pc = "switch" /\ pc' = "generate" /\ original' = original /\ head = original
          /\ branch[original] # None
      BY <1>1, <1>7 DEF CreateKitchenBranch, CheckoutKitchen, Goto, HasWork, HeadCommit, Places
    <2>2. original = Detached \/ branch'[original] # None
      BY <1>1, <1>2, <1>3, <2>1 DEF Places, Branch
    <2>3. branch'[Kitchen] # None
      BY <1>1, <1>2, <1>7, <2>1, BranchAssumption
         DEF CreateKitchenBranch, CheckoutKitchen, LeaveDetached, HeadCommit, Branch
    <2> QED BY <2>1, <2>2, <2>3 DEF HasWork
  <1>8. CASE Generate \/ RecordOutput
    <2>1. pc \in {"generate", "record"} /\ pc' \in {"record", "back"} /\ original' = original
      BY <1>8 DEF Generate, RecordOutput, Goto
    <2> QED BY <1>1, <1>2, <1>3, <2>1 DEF HasWork, Places, Branch
  <1>9. CASE SwitchBack \/ SwitchBackToDetached
    <2>1. pc = "back" /\ pc' = "merge" /\ branch' = branch
          /\ (head' = original \/ head' = Detached)
      BY <1>9 DEF SwitchBack, SwitchBackToDetached, Goto
    <2> QED BY <1>1, <2>1 DEF HasWork, HeadCommit
  <1>10. CASE AlreadyUpToDate \/ MergeConflicts \/ Merge
    BY <1>10 DEF AlreadyUpToDate, MergeConflicts, Merge, EndIteration, Exit, HasWork
  <1> QED BY <1>4, <1>5, <1>6, <1>7, <1>8, <1>9, <1>10, OrderlyStep DEF OrderlyNext

(* The generated code leaves the paths it does not use empty. *)
LEMMA VersionsFit ==
  ASSUME Steady, NEW i \in Input, NEW t \in Versions \cup {EmptyTree}, NEW p \in Path \ Outputs(i)
  PROVE  t[p] = Absent
  BY DEF Steady, Versions, Outputs, EmptyTree

(* They have nothing of the user's. *)
LEMMA VersionsPristine ==
  ASSUME NEW t \in Versions \cup {EmptyTree}, NEW p \in Path, NEW r \in Region, t[p] # Absent
  PROVE  t[p][r] \notin UserValue
  <1>1. PICK i \in Input : t = Output[i]
    BY DEF Versions, EmptyTree
  <1>2. Output[i][p] \in [Region -> GenValue]
    BY <1>1, OutputAssumption
  <1> QED BY <1>1, <1>2, ValueAssumption

(* What "meteor-kitchen" holds. *)
LEMMA KitchenTip ==
  ASSUME TypeOK, Pure, Fresh
  PROVE  TreeOf(branch[Kitchen]) \in Versions \cup {EmptyTree}
  <1>1. CASE branch[Kitchen] = None
    BY <1>1 DEF TreeOf
  <1>2. CASE branch[Kitchen] # None
    <2>1. branch[Kitchen] \in 1..Len(commits)
      BY <1>2 DEF TypeOK, RefsOK, Branch, None
    <2>2. branch[Kitchen] \in Anc(branch[Kitchen])
      BY <2>1, <1>2 DEF Anc, TypeOK, CommitsOK
    <2> QED BY <1>2, <2>2 DEF Pure, TreeOf
  <1> QED BY <1>1, <1>2

(* Before there is a branch "meteor-kitchen" there is no file either. *)
LEMMA NothingYet ==
  ASSUME TypeOK, Pure, Fresh, branch[Kitchen] = None, NEW c \in 0..Len(commits)
  PROVE  wd = EmptyTree /\ TreeOf(c) = EmptyTree
  <1>1. c = None \/ c \in 1..Len(commits)
    BY DEF TypeOK, CommitsOK, None
  <1> QED BY <1>1 DEF Pure, TreeOf

LEMMA GeneratedSteady ==
  ASSUME Scope, Ground, RunInv
  PROVE  Generated(Outputs(input), Junk(input)) =
           [p \in Path |-> IF p \in Outputs(input) THEN Output[input][p] ELSE wd[p]]
  <1>1. Junk(input) = {}
    BY DEF Junk, RunInv, NoJunk, Ground, TypeOK, RunOK
  <1> QED BY <1>1 DEF Generated

LEMMA DirectoryUserStep ==
  ASSUME Scope, Ground, RunInv, UserStep
  PROVE  Directory'
  <1>1. Directory /\ TypeOK /\ EditsDuringRun = FALSE /\ branch \in [Branch -> 0..Len(commits)]
        /\ head \in Branch /\ wd \in Tree /\ HeadCommit \in 0..Len(commits)
    BY DEF RunInv, Ground, Scope, Undisturbed, TypeOK, RefsOK, RunOK, HeadCommit
  <1>2. ASSUME Quiet, pc' = pc,
               "remove" \notin UserOps /\ mergeHead' = None => Tracked(Path)'
        PROVE  Directory'
    BY <1>2 DEF Directory, Quiet
  <1>3. ASSUME Quiet, pc' = pc, HeadTree' = wd' PROVE Directory'
    <2>1. Tracked(Path)'
      BY <1>3 DEF Tracked
    <2> QED BY <1>2, <1>3, <2>1
  <1>4. UNCHANGED <<commits, branch, head>> => HeadTree' = HeadTree
    BY DEF HeadTree, HeadCommit, TreeOf
  <1>5. ASSUME NEW p \in Path, NEW r \in Region, NEW v \in UserValue, UserEdit(p, r, v)
        PROVE  Directory'
    <2>1. Quiet /\ mergeHead = None /\ pc' = pc /\ wd[p] # Absent
          /\ wd' = [wd EXCEPT ![p] = [wd[p] EXCEPT ![r] = v]] /\ HeadTree' = HeadTree
      BY <1>1, <1>4, <1>5 DEF UserEdit, MayTouchFiles, runVars
    <2>2. [wd[p] EXCEPT ![r] = v] \in File
      BY <1>1, <2>1 DEF Tree, File, Value
    <2>3. \A q \in Path : wd'[q] = Absent => wd[q] = Absent
      BY <1>1, <2>1, <2>2, ValueAssumption DEF Tree
    <2>4. "remove" \notin UserOps => Tracked(Path)
      BY <1>1, <2>1 DEF Directory
    <2>5. "remove" \notin UserOps => Tracked(Path)'
      BY <2>1, <2>3, <2>4 DEF Tracked
    <2> QED BY <1>2, <2>1, <2>5
  <1>6. ASSUME NEW p \in Path, NEW v \in UserValue, UserCreate(p, v)
        PROVE  Directory'
    <2>1. Quiet /\ mergeHead = None /\ pc' = pc
          /\ wd' = [wd EXCEPT ![p] = [r \in Region |-> v]] /\ HeadTree' = HeadTree
      BY <1>1, <1>4, <1>6 DEF UserCreate, MayTouchFiles, runVars
    <2>2. [r \in Region |-> v] \in File
      BY DEF Tree, File, Value
    <2>3. \A q \in Path : wd'[q] = Absent => wd[q] = Absent
      BY <1>1, <2>1, <2>2, ValueAssumption DEF Tree
    <2>4. "remove" \notin UserOps => Tracked(Path)
      BY <1>1, <2>1 DEF Directory
    <2>5. "remove" \notin UserOps => Tracked(Path)'
      BY <2>1, <2>3, <2>4 DEF Tracked
    <2> QED BY <1>2, <2>1, <2>5
  <1>7. ASSUME NEW p \in Path, UserRemove(p) PROVE Directory'
    <2>1. Quiet /\ pc' = pc /\ "remove" \in UserOps
      BY <1>1, <1>7 DEF UserRemove, MayTouchFiles, runVars
    <2> QED BY <1>2, <2>1
  <1>8. CASE UserCommit
    <2>1. Quiet /\ pc' = pc /\ wd' = wd /\ head' = head /\ WriteCommit(wd, {HeadCommit})
      BY <1>8 DEF UserCommit, runVars
    <2>2. HeadTree' = wd
      BY <1>1, <2>1, HeadTreeAfterCommit
    <2> QED BY <1>3, <2>1, <2>2
  <1>9. ASSUME NEW x \in UserBranch, UserSwitch(x) PROVE Directory'
    <2> DEFINE created == IF branch[x] = None THEN [branch EXCEPT ![x] = HeadCommit] ELSE branch
    <2>1. Quiet /\ pc' = pc /\ commits' = commits /\ head' = x /\ wd' = TreeOf(created[x])
          /\ branch' \in {created, LeaveDetached(created)}
      BY <1>9 DEF UserSwitch, runVars
    <2>2. created \in [Branch -> 0..Len(commits)] /\ x \in Branch /\ x # Detached
      BY <1>1, BranchAssumption DEF Branch
    <2>3. branch'[x] = created[x]
      <3> HIDE DEF created
      <3> QED BY <2>1, <2>2 DEF LeaveDetached
    <2>4. HeadTree' = TreeOf(created[x])
      <3> HIDE DEF created
      <3> QED BY <2>1, <2>3 DEF HeadTree, HeadCommit, TreeOf
    <2> QED BY <1>3, <2>1, <2>4
  <1>10. CASE UserDetach
    <2>1. Quiet /\ mergeHead = None /\ UNCHANGED <<pc, wd, commits, mergeHead>>
          /\ head' = Detached /\ branch' = [branch EXCEPT ![Detached] = HeadCommit]
      BY <1>10 DEF UserDetach, runVars
    <2>2. branch'[head'] = HeadCommit
      BY <1>1, <2>1 DEF Branch
    <2>3. HeadTree' = HeadTree
      BY <2>1, <2>2 DEF HeadTree, HeadCommit, TreeOf
    <2>4. "remove" \notin UserOps => Tracked(Path)
      BY <1>1, <2>1 DEF Directory
    <2>5. "remove" \notin UserOps => Tracked(Path)'
      BY <2>1, <2>3, <2>4 DEF Tracked
    <2> QED BY <1>2, <2>1, <2>5
  <1>11. ASSUME NEW v \in Value \ {Marker}, UserResolve(v) PROVE Directory'
    <2>1. Quiet /\ pc' = pc /\ head' = head /\ WriteCommit(wd', {HeadCommit, mergeHead})
      BY <1>11 DEF UserResolve, runVars
    <2>2. wd' \in Tree
      BY StepType DEF Ground, Next, TypeOK, RunOK
    <2>3. {HeadCommit, mergeHead} \in SUBSET (0..Len(commits))
      BY <1>1 DEF TypeOK, RefsOK
    <2>4. HeadTree' = wd'
      BY <1>1, <2>1, <2>2, <2>3, HeadTreeAfterCommit
    <2> QED BY <1>3, <2>1, <2>4
  <1>12. ASSUME NEW i \in Input, ChangeInput(i) PROVE Directory'
    <2>1. UNCHANGED <<pc, wd, commits, branch, head, mergeHead>> /\ input' = i
      BY <1>12 DEF ChangeInput, repoVars, runVars
    <2>2. Outputs(input') = Outputs(input)
      BY <2>1 DEF Scope, Steady, Ground, TypeOK, RunOK
    <2>3. Outputs(input)' = Outputs(input') /\ HeadTree' = HeadTree /\ HeadCommit' = HeadCommit
      BY <2>1 DEF Outputs, HeadTree, HeadCommit, TreeOf
    <2> QED BY <1>1, <2>1, <2>2, <2>3 DEF Directory, Tracked, Quiet
  <1> QED BY <1>5, <1>6, <1>7, <1>8, <1>9, <1>10, <1>11, <1>12 DEF UserStep

LEMMA DirectoryStep ==
  ASSUME Scope, Ground, RunInv, Next
  PROVE  Directory'
  <1> USE DEF Quiet
  <1>1. /\ Directory /\ TypeOK /\ HasWork /\ Pure /\ branch \in [Branch -> 0..Len(commits)]
        /\ head \in Branch /\ wd \in Tree /\ HeadCommit \in 0..Len(commits)
        /\ Kitchen \in Branch /\ original \in Branch
    BY DEF RunInv, Ground, Scope, Undisturbed, TypeOK, RefsOK, RunOK, HeadCommit, Branch
  <1>2. UNCHANGED <<commits, branch, head>> => HeadTree' = HeadTree /\ HeadCommit' = HeadCommit
    BY DEF HeadTree, HeadCommit, TreeOf
  <1>3. CASE Launch \/ Interrupt
    <2>1. pc \in {"idle", "wait"} /\ pc' \in {"idle", "wait", "commit"} /\ UNCHANGED repoVars
      BY <1>3 DEF Launch, Start, LiveWake, Interrupt, Goto, Exit
    <2> QED BY <1>1, <1>2, <2>1 DEF Directory, Tracked, repoVars
  <1>4. CASE RefuseMerging \/ (CheckoutKitchenFails /\ "remove" \in UserOps)
    <2>1. pc' = "idle" /\ (mergeHead' # None \/ "remove" \in UserOps)
      BY <1>4 DEF RefuseMerging, CheckoutKitchenFails, Exit, repoVars
    <2> QED BY <2>1 DEF Directory
  <1>5. CASE FirstCommit
    <2>1. pc = "commit" /\ pc' = "switch" /\ mergeHead = None /\ wd' = wd /\ head' = head
      BY <1>5 DEF FirstCommit, Goto, Ground, MarkerInv
    <2>2. HeadTree' = Staged
      BY <1>1, <1>5, <2>1, StagedType, HeadTreeAfterCommit DEF FirstCommit
    <2>3. "remove" \notin UserOps => wd' = HeadTree'
      BY <1>1, <2>1, <2>2, IndexIsHead, StagedIsWork DEF Directory
    <2> QED BY <2>1, <2>3 DEF Directory
  <1>6. CASE CommitWork
    <2>1. pc = "commit" /\ pc' = "switch" /\ mergeHead = None /\ wd' = wd /\ head' = head
          /\ IF RepoIsClean THEN UNCHANGED <<commits, branch>> ELSE GitAddAllAndCommit
      BY <1>6 DEF CommitWork, Goto
    <2>2. "remove" \notin UserOps => wd' = HeadTree'
      BY <1>1, <2>1, IndexIsHead, CommitAll DEF Directory
    <2> QED BY <2>1, <2>2 DEF Directory
  <1>7. CASE CreateKitchenBranch
    <2>1. /\ pc = "switch" /\ pc' = "generate" /\ branch[Kitchen] = None
          /\ UNCHANGED <<wd, commits, input>>
      BY <1>7 DEF CreateKitchenBranch, Goto
    <2>2. branch'[head'] = HeadCommit
      BY <1>1, <1>7, BranchAssumption DEF CreateKitchenBranch, LeaveDetached
    <2>3. HeadTree' = HeadTree
      BY <2>1, <2>2 DEF HeadTree, HeadCommit, TreeOf
    <2>4. CASE "remove" \notin UserOps
      <3>1. wd' = HeadTree'
        BY <1>1, <2>1, <2>3, <2>4 DEF Directory
      <3> QED BY <2>1, <3>1 DEF Directory, Tracked
    <2>5. CASE Fresh
      <3>1. HeadTree = EmptyTree
        BY <1>1, <2>1, <2>5, NothingYet DEF HeadTree
      <3>2. \A p \in Path : HeadTree'[p] = Absent
        BY <2>3, <3>1 DEF EmptyTree
      <3> QED BY <2>1, <3>2 DEF Directory, Tracked
    <2> QED BY <2>4, <2>5 DEF Scope
  <1>8. CASE CheckoutKitchen
    <2>1. /\ pc = "switch" /\ pc' = "generate" /\ UNCHANGED <<commits, input>>
          /\ wd' = CheckedOut(TreeOf(branch[Kitchen]))
      BY <1>8 DEF CheckoutKitchen, Goto
    <2>2. branch'[head'] = branch[Kitchen]
      BY <1>1, <1>8, BranchAssumption DEF CheckoutKitchen, LeaveDetached
    <2>3. HeadTree' = TreeOf(branch[Kitchen])
      BY <2>1, <2>2 DEF HeadTree, HeadCommit, TreeOf
    <2>4. CASE "remove" \notin UserOps
      <3>1. TreeOf(branch[Kitchen]) \in Tree /\ wd = HeadTree
        BY <1>1, <2>1, <2>4, TreeOfType DEF TypeOK, Directory
      <3>2. wd' = HeadTree'
        BY <1>1, <2>1, <2>3, <3>1, CleanCheckout
      <3> QED BY <2>1, <3>2 DEF Directory, Tracked
    <2>5. CASE Fresh
      <3>1. TreeOf(branch[Kitchen]) \in Versions \cup {EmptyTree} /\ input \in Input
        BY <1>1, <2>5, KitchenTip DEF TypeOK, RunOK
      <3>2. \A p \in Path \ Outputs(input) : HeadTree'[p] = Absent
        BY <2>3, <3>1, VersionsFit DEF Scope
      <3>3. Outputs(input)' = Outputs(input)
        BY <2>1 DEF Outputs
      <3> QED BY <2>1, <3>2, <3>3 DEF Directory, Tracked
    <2> QED BY <2>4, <2>5 DEF Scope
  <1>9. CASE Generate
    <2>1. /\ pc = "generate" /\ pc' = "record" /\ UNCHANGED <<commits, branch, head>>
          /\ wd' = [p \in Path |-> IF p \in Outputs(input) THEN Output[input][p] ELSE wd[p]]
      BY <1>9, GeneratedSteady DEF Generate, Goto
    <2>2. Tracked(Path \ Outputs(input)) /\ HeadTree' = HeadTree
      BY <1>1, <1>2, <2>1 DEF Directory
    <2>3. Tracked(Path)'
      BY <2>1, <2>2 DEF Tracked, Outputs
    <2> QED BY <2>1, <2>3 DEF Directory
  <1>10. CASE RecordOutput
    <2>1. pc = "record" /\ pc' = "back" /\ wd' = wd /\ head' = head
          /\ IF RepoIsClean THEN UNCHANGED <<commits, branch>> ELSE GitAddAllAndCommit
      BY <1>10 DEF RecordOutput, Goto
    <2>2. wd' = HeadTree'
      BY <1>1, <2>1, IndexIsHead, CommitAll DEF Directory
    <2> QED BY <2>1, <2>2 DEF Directory
  <1>11. CASE SwitchBack
    <2>1. /\ pc = "back" /\ pc' = "merge" /\ UNCHANGED <<commits, branch>> /\ head' = original
          /\ wd' = CheckedOut(TreeOf(branch[original]))
      BY <1>11 DEF SwitchBack, Goto
    <2>2. TreeOf(branch[original]) \in Tree /\ wd = HeadTree
      BY <1>1, <2>1, TreeOfType DEF TypeOK, Directory
    <2>3. wd' = TreeOf(branch[original]) /\ HeadTree' = TreeOf(branch[original])
      BY <1>1, <2>1, <2>2, CleanCheckout DEF HeadTree, HeadCommit, TreeOf
    <2> QED BY <2>1, <2>3 DEF Directory
  <1>12. CASE SwitchBackToDetached
    <2>1. pc = "back" /\ pc' = "merge" /\ branch' = branch /\ head' = Detached
      BY <1>12 DEF SwitchBackToDetached, Goto
    <2>2. branch[Detached] = None
      BY <2>1, BranchAssumption DEF Ground, HeadInv, OnKitchen, DetachedInv
    <2>3. HeadCommit' = None
      BY <2>1, <2>2 DEF HeadCommit
    <2> QED BY <2>1, <2>3 DEF Directory
  <1>13. CASE AlreadyUpToDate
    <2>1. pc = "merge" /\ pc' \in {"idle", "wait"} /\ UNCHANGED repoVars
      BY <1>13 DEF AlreadyUpToDate, EndIteration
    <2>2. Tracked(Path)
      BY <1>1, <2>1 DEF Directory, Tracked, HeadTree, TreeOf, EmptyTree
    <2>3. Tracked(Path)'
      BY <1>2, <2>1, <2>2 DEF Tracked, repoVars
    <2> QED BY <2>1, <2>3 DEF Directory
  <1>14. CASE MergeConflicts
    <2>1. pc = "merge" /\ pc' = "idle" /\ mergeHead' = branch[Kitchen]
      BY <1>14 DEF MergeConflicts, Exit
    <2>2. mergeHead' # None
      BY <1>1, <2>1 DEF HasWork
    <2> QED BY <2>1, <2>2 DEF Directory
  <1>15. CASE Merge
    <2>1. /\ pc = "merge" /\ pc' \in {"idle", "wait"} /\ head' = head /\ wd' = MergeDir
          /\ WriteCommit(MergeTree, {HeadCommit, branch[Kitchen]}) /\ HeadCommit # None
      BY <1>15 DEF Merge, EndIteration, MergeRequired
    <2>2. MergeDir = MergeTree
      BY <1>1, <2>1, CleanMerge DEF Directory
    <2>3. HeadTree' = MergeTree
      <3>1. {HeadCommit, branch[Kitchen]} \in SUBSET (0..Len(commits))
        BY <1>1
      <3> QED BY <1>1, <2>1, <3>1, MergeTreeType, HeadTreeAfterCommit
    <2>4. Tracked(Path)'
      BY <2>1, <2>2, <2>3 DEF Tracked
    <2> QED BY <2>1, <2>4 DEF Directory
  <1> QED BY <1>3, <1>4, <1>5, <1>6, <1>7, <1>8, <1>9, <1>10, <1>11, <1>12, <1>13, <1>14, <1>15,
             DirectoryUserStep, OrderlyStep DEF OrderlyNext

-----------------------------------------------------------------------------
(* "meteor-kitchen" gets the generated code and nothing else. *)

(* Only the creation of the branch and a run's commit there move it. *)
LEMMA KitchenStays ==
  ASSUME Scope, Ground, RunInv, Next
  PROVE  branch'[Kitchen] = branch[Kitchen] \/ CreateKitchenBranch \/ RecordOutput
  <1>1. /\ Places /\ branch \in [Branch -> 0..Len(commits)] /\ Kitchen \in Branch
        /\ Kitchen # Detached /\ Kitchen \notin UserBranch
    BY BranchAssumption DEF RunInv, Ground, TypeOK, RefsOK, Branch
  <1>2. CASE UserStep
    <2>1. CASE UNCHANGED branch
      BY <2>1
    <2>2. CASE branch' = [branch EXCEPT ![head] = Len(commits) + 1] /\ Quiet
      BY <1>1, <2>2 DEF Places, Away, Quiet
    <2>3. CASE UserDetach
      BY <1>1, <2>3 DEF UserDetach
    <2>4. ASSUME NEW x \in UserBranch, UserSwitch(x) PROVE branch'[Kitchen] = branch[Kitchen]
      BY <1>1, <2>4 DEF UserSwitch, LeaveDetached
    <2> QED BY <1>2, <2>1, <2>2, <2>3, <2>4
          DEF UserStep, UserEdit, UserCreate, UserRemove, UserCommit, UserResolve, ChangeInput,
              WriteCommit, repoVars
  <1>3. CASE FirstCommit \/ CommitWork \/ Merge
    <2>1. pc \in {"commit", "merge"}
      BY <1>3 DEF FirstCommit, CommitWork, Merge
    <2>2. \/ branch' = branch
          \/ branch' = [branch EXCEPT ![head] = Len(commits) + 1]
      BY <1>3 DEF FirstCommit, CommitWork, Merge, GitAddAllAndCommit, WriteCommit
    <2> QED BY <1>1, <2>1, <2>2 DEF Places, Away
  <1>4. CASE CheckoutKitchen
    BY <1>1, <1>4 DEF CheckoutKitchen, LeaveDetached
  <1>5. CASE Launch \/ Interrupt \/ RefuseMerging \/ CheckoutKitchenFails \/ Generate \/ SwitchBack
             \/ SwitchBackToDetached \/ AlreadyUpToDate \/ MergeConflicts
    BY <1>5 DEF Launch, Start, LiveWake, Interrupt, RefuseMerging, CheckoutKitchenFails, Generate,
       SwitchBack, SwitchBackToDetached, AlreadyUpToDate, MergeConflicts, repoVars
  <1> QED BY <1>2, <1>3, <1>4, <1>5, OrderlyStep DEF OrderlyNext

(* What the generator leaves in the directory is the version for the input. *)
LEMMA GeneratedVersion ==
  ASSUME Scope, Ground, RunInv, Fresh, pc = "generate"
  PROVE  Generated(Outputs(input), Junk(input)) = Output[input]
  <1>1. head = Kitchen /\ input \in Input /\ WorkInHead /\ TypeOK /\ Pure
    BY DEF Ground, TypeOK, RunOK, HeadInv, OnKitchen, OverwriteInv, RunInv
  <1>2. \A p \in Path \ Outputs(input) : HeadTree[p] = Absent
    BY <1>1, KitchenTip, VersionsFit DEF HeadTree, HeadCommit, Scope
  <1>3. \A p \in Path \ Outputs(input) : wd[p] = Output[input][p]
    BY <1>1, <1>2 DEF WorkInHead, Outputs
  <1>4. \A p \in Path : (IF p \in Outputs(input) THEN Output[input][p] ELSE wd[p]) = Output[input][p]
    BY <1>3
  <1>5. Output[input] = [p \in Path |-> Output[input][p]]
    BY <1>1, OutputType DEF Tree
  <1> QED BY <1>4, <1>5, GeneratedSteady

(* A run's commit holds what is in the directory. *)
LEMMA RecordedVersion ==
  ASSUME Scope, Ground, RunInv, Fresh, RecordOutput
  PROVE  /\ wd \in Versions
         /\ TreeOf(branch[Kitchen])' = wd
         /\ \A c \in Anc(branch[Kitchen])' :
              (c \in Anc(branch[Kitchen]) /\ commits'[c] = commits[c]) \/ commits'[c].tree = wd
  <1>1. /\ pc = "record" /\ wd' = wd /\ head' = head /\ head = Kitchen /\ TypeOK /\ Pure
        /\ Tracked(Path) /\ CommitsOK /\ branch \in [Branch -> 0..Len(commits)] /\ Kitchen \in Branch
        /\ IF RepoIsClean THEN UNCHANGED <<commits, branch>> ELSE GitAddAllAndCommit
        /\ index = HeadTree
    BY IndexIsHead DEF RecordOutput, Ground, RunInv, TypeOK, RefsOK, HeadInv, OnKitchen, Branch, Directory
  <1>2. wd \in Versions
    BY <1>1 DEF Pure
  <1>3. wd' = HeadTree'
    BY <1>1, CommitAll
  <1>4. TreeOf(branch[Kitchen])' = HeadTree'
    BY <1>1 DEF HeadTree, HeadCommit, TreeOf
  <1>5. ASSUME NEW c \in Anc(branch[Kitchen])'
        PROVE  (c \in Anc(branch[Kitchen]) /\ commits'[c] = commits[c]) \/ commits'[c].tree = wd
    <2>1. CASE RepoIsClean
      BY <1>1, <1>5, <2>1 DEF Anc
    <2>2. CASE ~RepoIsClean
      <3>1. WriteCommit(Staged, {HeadCommit}) /\ Staged = wd
        BY <1>1, <2>2, StagedIsWork DEF GitAddAllAndCommit
      <3>2. wd \in Tree /\ {HeadCommit} \in SUBSET (0..Len(commits)) /\ head \in Branch
        BY <1>1 DEF TypeOK, RunOK, RefsOK, HeadCommit
      <3>3. /\ \A d \in 1..Len(commits) : commits'[d] = commits[d]
            /\ commits'[Len(commits) + 1] =
                 [tree |-> wd, anc |-> {Len(commits) + 1} \cup UNION {Anc(q) : q \in {HeadCommit}}]
            /\ branch' = [branch EXCEPT ![head] = Len(commits) + 1]
        BY <1>1, <3>1, <3>2, WriteCommitEffect
      <3>4. branch'[Kitchen] = Len(commits) + 1 /\ Len(commits) + 1 # None /\ HeadCommit = branch[Kitchen]
        BY <1>1, <3>3 DEF CommitsOK, None, HeadCommit
      <3>5. c \in {Len(commits) + 1} \cup Anc(branch[Kitchen])
        BY <1>5, <3>3, <3>4 DEF Anc
      <3>6. Anc(branch[Kitchen]) \subseteq 1..Len(commits)
        BY <1>1, AncType
      <3> QED BY <3>3, <3>5, <3>6
    <2> QED BY <2>1, <2>2
  <1> QED BY <1>1, <1>2, <1>3, <1>4, <1>5

(* While the branch does not exist every tree is empty. *)
LEMMA EmptyBefore ==
  ASSUME Scope, Ground, RunInv, Next, Fresh, branch'[Kitchen] = None
  PROVE  wd' = EmptyTree /\ \A c \in 1..Len(commits') : commits'[c].tree = EmptyTree
  <1>1. TypeOK /\ CommitsOK /\ Pure /\ branch \in [Branch -> 0..Len(commits)] /\ head \in Branch
        /\ {HeadCommit} \in SUBSET (0..Len(commits)) /\ mergeHead \in 0..Len(commits)
    BY DEF Ground, RunInv, TypeOK, RefsOK, HeadCommit
  <1>2. branch[Kitchen] = None
    BY <1>1, BranchesStay
  <1>3. wd = EmptyTree /\ HeadTree = EmptyTree
    BY <1>1, <1>2, NothingYet DEF HeadTree
  <1>4. \A p \in Path : wd[p] = Absent
    BY <1>3 DEF EmptyTree
  <1>5. \A c \in 1..Len(commits) : commits[c].tree = EmptyTree
    BY <1>1, <1>2 DEF Pure
  <1>6. CASE commits' = commits /\ wd' = wd
    BY <1>3, <1>5, <1>6
  <1>7. ASSUME NEW parents \in SUBSET (0..Len(commits)), WriteCommit(EmptyTree, parents), wd' = EmptyTree
        PROVE  wd' = EmptyTree /\ \A c \in 1..Len(commits') : commits'[c].tree = EmptyTree
    <2>1. /\ Len(commits') = Len(commits) + 1
          /\ \A c \in 1..Len(commits) : commits'[c] = commits[c]
          /\ commits'[Len(commits) + 1] =
               [tree |-> EmptyTree, anc |-> {Len(commits) + 1} \cup UNION {Anc(q) : q \in parents}]
      BY <1>1, <1>7, EmptyTreeType, WriteCommitEffect
    <2>2. \A c \in 1..Len(commits') : c \in 1..Len(commits) \/ c = Len(commits) + 1
      BY <1>1, <2>1 DEF CommitsOK
    <2> QED BY <1>5, <1>7, <2>1, <2>2
  <1>8. CASE UserStep
    <2>1. ~(\E p \in Path, r \in Region, v \in UserValue : UserEdit(p, r, v))
          /\ ~(\E p \in Path : UserRemove(p)) /\ ~UserCommit
          /\ ~(\E p \in Path, v \in UserValue : UserCreate(p, v))
      BY <1>3, <1>4 DEF UserEdit, UserRemove, UserCommit, UserCreate, Fresh
    <2>2. ASSUME NEW x \in UserBranch, UserSwitch(x) PROVE commits' = commits /\ wd' = wd
      <3>1. (IF branch[x] = None THEN [branch EXCEPT ![x] = HeadCommit] ELSE branch)[x]
              \in 0..Len(commits)
        BY <1>1 DEF Branch
      <3> QED BY <1>1, <1>2, <1>3, <2>2, <3>1, NothingYet DEF UserSwitch
    <2>3. ASSUME NEW v \in Value \ {Marker}, UserResolve(v)
          PROVE  WriteCommit(EmptyTree, {HeadCommit, mergeHead}) /\ wd' = EmptyTree
      <3>1. WriteCommit(wd', {HeadCommit, mergeHead})
            /\ wd' = [p \in Path |-> IF p \in conflicted /\ wd[p] # Absent
                                THEN [r \in Region |-> IF wd[p][r] = Marker THEN v ELSE wd[p][r]]
                                ELSE wd[p]]
        BY <2>3 DEF UserResolve
      <3>2. wd' = EmptyTree
        BY <1>4, <3>1 DEF EmptyTree
      <3> QED BY <3>1, <3>2
    <2>4. {HeadCommit, mergeHead} \in SUBSET (0..Len(commits))
      BY <1>1
    <2> QED BY <1>6, <1>7, <1>8, <2>1, <2>2, <2>3, <2>4
          DEF UserStep, UserDetach, ChangeInput, repoVars
  <1>9. FirstCommit \/ CommitWork => Staged = EmptyTree /\ RepoIsClean
    <2>1. FirstCommit \/ CommitWork => index = HeadTree
      BY IndexIsHead DEF FirstCommit, CommitWork, Ground, MarkerInv
    <2> QED BY <1>3, <1>4, <2>1 DEF Staged, EmptyTree, RepoIsClean
  <1>10. CASE FirstCommit \/ CommitWork
    BY <1>3, <1>6, <1>7, <1>9, <1>10 DEF FirstCommit, CommitWork
  <1>11. ~CreateKitchenBranch
    <2>1. Kitchen \in Branch /\ Kitchen # Detached
      BY BranchAssumption DEF Branch
    <2> QED BY <1>1, <2>1 DEF CreateKitchenBranch, LeaveDetached, RunInv, HasWork, HeadCommit
  <1>12. ~CheckoutKitchen /\ ~CheckoutKitchenFails
    BY <1>2 DEF CheckoutKitchen, CheckoutKitchenFails
  <1>13. pc \notin {"generate", "record", "back", "merge"}
    BY <1>2 DEF RunInv, HasWork, Away
  <1>14. CASE Launch \/ Interrupt \/ RefuseMerging
    BY <1>6, <1>14 DEF Launch, Start, LiveWake, Interrupt, RefuseMerging, repoVars
  <1>15. ~Generate /\ ~RecordOutput /\ ~SwitchBack /\ ~SwitchBackToDetached /\ ~AlreadyUpToDate
         /\ ~MergeConflicts /\ ~Merge
    BY <1>13 DEF Generate, RecordOutput, SwitchBack, SwitchBackToDetached, AlreadyUpToDate,
       MergeConflicts, Merge
  <1> QED BY <1>8, <1>10, <1>11, <1>12, <1>14, <1>15, OrderlyStep DEF OrderlyNext

LEMMA PureStep ==
  ASSUME Scope, Ground, RunInv, Next
  PROVE  Pure'
  <1> SUFFICES ASSUME Fresh PROVE Pure'
    BY DEF Pure, Fresh
  <1>1. /\ TypeOK /\ CommitsOK /\ Pure /\ Kitchen \in Branch
        /\ branch \in [Branch -> 0..Len(commits)] /\ branch[Kitchen] \in 0..Len(commits)
    BY DEF Ground, RunInv, TypeOK, RefsOK, Branch
  <1>2. \A c \in 0..Len(commits) : NextTree(c) = TreeOf(c) /\ NextAnc(c) = Anc(c)
    BY <1>1, TreesStay
  <1>3. TreeOf(branch[Kitchen])' = NextTree(branch'[Kitchen])
        /\ Anc(branch[Kitchen])' = NextAnc(branch'[Kitchen])
    BY DEF TreeOf, Anc, NextTree, NextAnc
  <1>4. \A c \in Anc(branch[Kitchen])' : commits'[c].tree \in Versions \cup {EmptyTree}
    <2>1. ASSUME NEW b \in 0..Len(commits), branch'[Kitchen] = b,
                 \A c \in Anc(b) : commits[c].tree \in Versions \cup {EmptyTree}
          PROVE  \A c \in Anc(branch[Kitchen])' : commits'[c].tree \in Versions \cup {EmptyTree}
      <3>1. Anc(branch[Kitchen])' = Anc(b) /\ Anc(b) \subseteq 1..Len(commits)
        BY <1>1, <1>2, <1>3, <2>1, AncType
      <3>2. \A c \in 1..Len(commits) : commits'[c].tree = commits[c].tree
        BY <1>2 DEF NextTree, TreeOf, None
      <3> QED BY <2>1, <3>1, <3>2
    <2>2. CASE branch'[Kitchen] = branch[Kitchen]
      BY <1>1, <2>1, <2>2 DEF Pure
    <2>3. CASE CreateKitchenBranch
      <3>1. branch[Kitchen] = None /\ branch'[Kitchen] = HeadCommit /\ HeadCommit \in 0..Len(commits)
        BY <1>1, <2>3, BranchAssumption
           DEF CreateKitchenBranch, LeaveDetached, TypeOK, RefsOK, HeadCommit
      <3>2. Anc(HeadCommit) \subseteq 1..Len(commits)
        BY <1>1, <3>1, AncType
      <3>3. \A c \in Anc(HeadCommit) : commits[c].tree = EmptyTree
        BY <1>1, <3>1, <3>2 DEF Pure
      <3> QED BY <2>1, <3>1, <3>3
    <2>4. CASE RecordOutput
      <3>1. \A c \in Anc(branch[Kitchen])' :
              (c \in Anc(branch[Kitchen]) /\ commits'[c] = commits[c]) \/ commits'[c].tree = wd
        BY <2>4, RecordedVersion
      <3> QED BY <1>1, <2>4, <3>1, RecordedVersion DEF Pure
    <2> QED BY <2>2, <2>3, <2>4, KitchenStays
  <1>5. branch'[Kitchen] = None =>
          wd' = EmptyTree /\ \A c \in 1..Len(commits') : commits'[c].tree = EmptyTree
    BY EmptyBefore
  <1>6. CASE Generate
    <2>1. pc = "generate" /\ pc' = "record" /\ wd' = Generated(Outputs(input), Junk(input))
      BY <1>6 DEF Generate, Goto
    <2>2. wd' \in Versions
      BY <2>1, GeneratedVersion DEF Versions, Ground, TypeOK, RunOK
    <2> QED BY <1>4, <1>5, <2>1, <2>2 DEF Pure, Versions
  <1>7. CASE RecordOutput
    <2>1. pc' = "back" /\ TreeOf(branch[Kitchen])' \in Versions
      BY <1>7, RecordedVersion DEF RecordOutput, Goto
    <2> QED BY <1>4, <1>5, <2>1 DEF Pure, Versions
  <1>8. CASE SwitchBack \/ SwitchBackToDetached
    <2>1. pc = "back" /\ pc' = "merge" /\ branch' = branch
      BY <1>8 DEF SwitchBack, SwitchBackToDetached, Goto
    <2>2. TreeOf(branch[Kitchen])' \in Versions
      BY <1>1, <1>2, <1>3, <2>1 DEF Pure
    <2> QED BY <1>4, <1>5, <2>1, <2>2 DEF Pure, Versions
  <1>9. CASE \E i \in Input : ChangeInput(i)
    <2>1. UNCHANGED <<pc, wd, branch>>
      BY <1>9 DEF ChangeInput, repoVars, runVars
    <2>2. pc \in {"back", "merge"} => TreeOf(branch[Kitchen])' \in Versions
      BY <1>1, <1>2, <1>3, <2>1 DEF Pure
    <2> QED BY <1>1, <1>4, <1>5, <2>1, <2>2 DEF Pure, Versions
  <1>10. CASE pc' \notin {"record", "back", "merge"}
    BY <1>4, <1>5, <1>10 DEF Pure, Versions
  <1>11. CASE UserStep /\ ~(\E i \in Input : ChangeInput(i))
    <2>1. Quiet /\ pc' = pc
      BY <1>11 DEF UserStep, UserEdit, UserCreate, UserRemove, UserCommit, UserSwitch, UserDetach,
         UserResolve, MayTouchFiles, Scope, Undisturbed, runVars
    <2> QED BY <1>10, <2>1 DEF Quiet
  <1>12. CASE \/ Launch \/ Interrupt \/ FirstCommit \/ RefuseMerging \/ CommitWork
              \/ CreateKitchenBranch \/ CheckoutKitchen \/ CheckoutKitchenFails
              \/ AlreadyUpToDate \/ MergeConflicts \/ Merge
    <2>1. pc' \notin {"record", "back", "merge"}
      BY <1>12 DEF Launch, Start, LiveWake, Interrupt, FirstCommit, RefuseMerging, CommitWork,
         CreateKitchenBranch, CheckoutKitchen, CheckoutKitchenFails, AlreadyUpToDate,
         MergeConflicts, Merge, Goto, Exit, EndIteration
    <2> QED BY <1>10, <2>1
  <1> QED BY <1>6, <1>7, <1>8, <1>9, <1>11, <1>12, OrderlyStep DEF OrderlyNext

-----------------------------------------------------------------------------
(* The theorems. *)

LEMMA RunInit ==
  ASSUME Steady
  PROVE  Init => RunInv
  <1> SUFFICES ASSUME Init PROVE RunInv
    OBVIOUS
  <1>1. pc = "idle" /\ head = Trunk /\ original = Trunk /\ userOn = Trunk /\ Trunk # Kitchen
        /\ branch[Kitchen] = None /\ branch[Trunk] = Len(commits)
    BY BranchAssumption DEF Init, Branch
  <1>2. Places /\ HasWork
    BY <1>1 DEF Places, HasWork, Away
  <1>5. HeadTree = wd => Indexed
    BY <1>1 DEF Indexed, Init
  <1>3. CASE "nothing" \in StartWith /\ commits = <<>> /\ wd = EmptyTree /\ manifest = {}
    <2>1. HeadTree = EmptyTree
      BY <1>1, <1>3 DEF HeadTree, HeadCommit, TreeOf, None
    <2>2. Directory
      BY <1>1, <1>3, <2>1 DEF Directory, Tracked, EmptyTree
    <2>3. Pure
      BY <1>1, <1>3 DEF Pure, Anc
    <2> QED BY <1>2, <1>3, <1>5, <2>1, <2>2, <2>3 DEF RunInv, NoJunk
  <1>4. CASE /\ "application" \in StartWith
             /\ \E i \in Input : manifest = Outputs(i)
             /\ commits = <<[tree |-> wd, anc |-> {1}]>>
    <2>1. HeadTree = wd
      BY <1>1, <1>4 DEF HeadTree, HeadCommit, TreeOf, None
    <2>2. Directory
      BY <1>1, <2>1 DEF Directory, Tracked
    <2>3. NoJunk
      BY <1>4 DEF NoJunk, Steady
    <2> QED BY <1>2, <1>4, <1>5, <2>1, <2>2, <2>3 DEF RunInv, Pure, Fresh
  <1> QED BY <1>3, <1>4 DEF Init

LEMMA RunStep == Scope /\ Ground /\ RunInv /\ [Next]_vars => RunInv'
  <1>1. ASSUME Scope, Ground, RunInv, Next PROVE RunInv'
    BY <1>1, PlacesStep, HasWorkStep, NoJunkStep, DirectoryStep, PureStep, IndexedStep
       DEF RunInv
  <1>2. ASSUME RunInv, UNCHANGED vars PROVE RunInv'
    <2>1. UNCHANGED <<commits, branch, head, wd, index, mergeHead, manifest, pc, original, input,
                      userOn>>
      BY <1>2 DEF vars, repoVars, runVars
    <2>2. HeadTree' = HeadTree /\ HeadCommit' = HeadCommit
          /\ TreeOf(branch[Kitchen])' = TreeOf(branch[Kitchen])
          /\ Anc(branch[Kitchen])' = Anc(branch[Kitchen])
          /\ Outputs(input)' = Outputs(input)
      BY <2>1 DEF HeadTree, HeadCommit, TreeOf, Anc, Outputs
    <2>3. Places' /\ HasWork' /\ NoJunk'
      BY <1>2, <2>1, <2>2 DEF RunInv, Places, HasWork, NoJunk, Away, Outputs
    <2>4. Directory'
      BY <1>2, <2>1, <2>2 DEF RunInv, Directory, Tracked, Quiet
    <2>5. Pure'
      BY <1>2, <2>1, <2>2 DEF RunInv, Pure, Versions, Fresh
    <2>6. Indexed'
      BY <1>2, <2>1, <2>2 DEF RunInv, Indexed, Stranded
    <2> QED BY <2>3, <2>4, <2>5, <2>6 DEF RunInv
  <1> QED BY <1>1, <1>2

LEMMA RunAlways ==
  ASSUME Scope
  PROVE  Spec => [](Ground /\ RunInv)
  <1>1. Spec => []Ground
    BY GroundAlways DEF Scope
  <1>2. Init => RunInv
    BY RunInit DEF Scope
  <1>3. Ground /\ RunInv /\ [Next]_vars => RunInv'
    BY RunStep
  <1> QED BY <1>1, <1>2, <1>3, PTL DEF Spec

(* Runs that nothing disturbs are never stopped by git: no checkout and no  *)
(* merge finds a file in its way, for the commit before each of them has    *)
(* left the directory as HEAD says.                                         *)
THEOREM GitNeverStops ==
  ASSUME Undisturbed, Steady, "remove" \notin UserOps
  PROVE  Spec => []GitStepsSucceed
  <1>1. Scope
    BY DEF Scope
  <1>2. Init => GitStepsSucceed
    BY DEF Init, GitStepsSucceed
  <1>3. ASSUME Ground, RunInv, GitStepsSucceed, [Next]_vars PROVE GitStepsSucceed'
    <2>1. CASE Next
      BY <1>1, <1>3, <2>1, OrderlyStep
         DEF OrderlyNext, UserStep, Launch, GitStepsSucceed, runVars, Goto, Exit, EndIteration,
             UserEdit, UserCreate, UserRemove, UserCommit, UserSwitch, UserDetach, UserResolve,
             ChangeInput, Start, LiveWake, Interrupt, FirstCommit, RefuseMerging, CommitWork,
             CreateKitchenBranch, CheckoutKitchen, Generate, RecordOutput, SwitchBack,
             SwitchBackToDetached, AlreadyUpToDate, MergeConflicts, Merge
    <2>2. CASE UNCHANGED vars
      BY <1>3, <2>2 DEF vars, runVars, GitStepsSucceed
    <2> QED BY <1>3, <2>1, <2>2
  <1>4. Spec => [](Ground /\ RunInv)
    BY <1>1, RunAlways
  <1> QED BY <1>2, <1>3, <1>4, PTL DEF Spec

(* Where nothing of the user's is there when the branch is created, nothing *)
(* of his ever gets onto "meteor-kitchen".                                  *)
THEOREM KitchenStaysPristine ==
  ASSUME Undisturbed, Steady, Fresh
  PROVE  Spec => []KitchenBranchPristine
  <1>1. RunInv => KitchenBranchPristine
    BY VersionsPristine DEF RunInv, Pure, KitchenBranchPristine
  <1>2. Spec => [](Ground /\ RunInv)
    BY RunAlways DEF Scope
  <1> QED BY <1>1, <1>2, PTL

-----------------------------------------------------------------------------
(* How an iteration ends. *)

LEMMA DoneStep ==
  ASSUME Scope, Ground, RunInv, NeverDetached, Next, IterationDone
  PROVE  /\ pc = "merge" /\ userOn = head /\ HeadCommit # None /\ branch[Kitchen] # None
         /\ wd = HeadTree /\ head # Kitchen
         /\ AlreadyUpToDate \/ Merge
  <1>1. AlreadyUpToDate \/ Merge
    BY OrderlyStep
       DEF OrderlyNext, IterationDone, UserStep, Launch, runVars, Goto, Exit, EndIteration,
           UserEdit, UserCreate, UserRemove, UserCommit, UserSwitch, UserDetach, UserResolve,
           ChangeInput, Start, LiveWake, Interrupt, FirstCommit, RefuseMerging, CommitWork,
           CreateKitchenBranch, CheckoutKitchen, CheckoutKitchenFails, Generate, RecordOutput,
           SwitchBack, SwitchBackToDetached, MergeConflicts
  <1>2. pc = "merge"
    BY <1>1 DEF AlreadyUpToDate, Merge
  <1> QED BY <1>1, <1>2 DEF RunInv, Places, HasWork, Directory, NeverDetached, Away

LEMMA MergeParents ==
  ASSUME TypeOK, Merge, branch[Kitchen] # None, head # Kitchen
  PROVE  branch'[Kitchen] = branch[Kitchen] /\ branch[Kitchen] \in Anc(branch[head])'
  <1>1. /\ CommitsOK /\ branch \in [Branch -> 0..Len(commits)] /\ head \in Branch
        /\ Kitchen \in Branch /\ MergeTree \in Tree
        /\ {HeadCommit, branch[Kitchen]} \in SUBSET (0..Len(commits))
        /\ WriteCommit(MergeTree, {HeadCommit, branch[Kitchen]}) /\ head' = head
    BY MergeTreeType DEF TypeOK, RefsOK, Branch, HeadCommit, Merge
  <1>2. /\ branch' = [branch EXCEPT ![head] = Len(commits) + 1]
        /\ Anc(branch[Kitchen]) \subseteq NextAnc(Len(commits) + 1)
    BY <1>1, WriteCommitEffect, WriteCommitAnc
  <1>3. branch[Kitchen] \in Anc(branch[Kitchen])
    BY <1>1 DEF Anc, None, CommitsOK
  <1>4. Anc(branch[head])' = NextAnc(branch'[head'])
    BY DEF Anc, NextAnc
  <1> QED BY <1>1, <1>2, <1>3, <1>4

LEMMA NeverDetachedAlways ==
  ASSUME Scope, "detach" \notin UserOps
  PROVE  Spec => [](Ground /\ RunInv /\ NeverDetached)
  <1>1. Init => NeverDetached
    BY BranchAssumption DEF Init, NeverDetached
  <1>2. NeverDetached /\ [Next]_vars => NeverDetached'
    BY NeverDetachedStep
  <1>3. Spec => [](Ground /\ RunInv)
    BY RunAlways
  <1> QED BY <1>1, <1>2, <1>3, PTL DEF Spec

(* Runs that nothing disturbs end on the branch the user had put HEAD on,   *)
(* and that branch has what the run generated among its ancestors.          *)
THEOREM RunsEndMerged ==
  ASSUME Scope, "detach" \notin UserOps
  PROVE  Spec => EndsMergedOnUserBranch
  <1>1. ASSUME Ground, RunInv, NeverDetached, [Next]_vars
        PROVE  [IterationDone => head' = userOn /\ branch'[Kitchen] \in Anc(branch[head])']_vars
    <2> SUFFICES ASSUME Next, IterationDone
                 PROVE  head' = userOn /\ branch'[Kitchen] \in Anc(branch[head])'
      BY <1>1
    <2>1. /\ userOn = head /\ HeadCommit # None /\ branch[Kitchen] # None /\ head # Kitchen
          /\ AlreadyUpToDate \/ Merge
      BY <1>1, DoneStep
    <2>2. CASE AlreadyUpToDate
      <3>1. UNCHANGED <<commits, branch, head>> /\ branch[Kitchen] \in Anc(HeadCommit)
        BY <2>1, <2>2 DEF AlreadyUpToDate, MergeRequired, repoVars
      <3>2. Anc(branch[head])' = Anc(HeadCommit)
        BY <3>1 DEF Anc, HeadCommit
      <3> QED BY <2>1, <3>1, <3>2
    <2>3. CASE Merge
      <3>1. head' = head
        BY <2>3 DEF Merge
      <3> QED BY <1>1, <2>1, <2>3, <3>1, MergeParents DEF Ground
    <2> QED BY <2>1, <2>2, <2>3
  <1>2. Spec => [](Ground /\ RunInv /\ NeverDetached)
    BY NeverDetachedAlways
  <1> QED BY <1>1, <1>2, PTL DEF Spec, EndsMergedOnUserBranch

-----------------------------------------------------------------------------
(* Manual modifications remain. *)

Keeps(t) == \A p \in Path : before[p] # Absent => t[p] = before[p]

(* What the directory held when the run began is in the user's branch until *)
(* the merge.                                                               *)
BeforeInv ==
  /\ pc \in {"switch", "merge"} => Keeps(HeadTree)
  /\ Away => Keeps(TreeOf(branch[original]))

LEMMA BeforeStep ==
  ASSUME Scope, Ground, RunInv, NeverDetached, BeforeInv, Next
  PROVE  BeforeInv'
  <1> USE DEF Away
  <1>1. /\ TypeOK /\ Places /\ branch \in [Branch -> 0..Len(commits)]
        /\ \A c \in 0..Len(commits) : NextTree(c) = TreeOf(c)
        /\ original \in UserBranch /\ original \in Branch
    BY TreesStay DEF Ground, TypeOK, RefsOK, RunInv, NeverDetached, Places, Branch
  <1>2. HeadTree' = NextTree(branch'[head']) /\ TreeOf(branch[original])' = NextTree(branch'[original'])
    BY DEF HeadTree, HeadCommit, TreeOf, NextTree
  <1>3. CASE \E i \in Input : ChangeInput(i)
    <2>1. UNCHANGED <<pc, before, original, head, branch>>
      BY <1>3 DEF ChangeInput, repoVars, runVars
    <2>2. HeadTree' = HeadTree /\ TreeOf(branch[original])' = TreeOf(branch[original])
      BY <1>1, <1>2, <2>1 DEF HeadTree, HeadCommit, TypeOK, RefsOK
    <2> QED BY <2>1, <2>2 DEF BeforeInv, Keeps
  <1>4. CASE pc' \in {"idle", "wait", "commit"}
    BY <1>4 DEF BeforeInv
  <1>5. CASE UserStep /\ ~(\E i \in Input : ChangeInput(i))
    <2>1. Quiet /\ pc' = pc
      BY <1>5 DEF UserStep, UserEdit, UserCreate, UserRemove, UserCommit, UserSwitch, UserDetach,
         UserResolve, MayTouchFiles, Scope, Undisturbed, runVars
    <2> QED BY <1>4, <2>1 DEF Quiet
  <1>6. CASE \/ Launch \/ Interrupt \/ RefuseMerging \/ CheckoutKitchenFails
             \/ AlreadyUpToDate \/ MergeConflicts \/ Merge
    <2>1. pc' \in {"idle", "wait", "commit"}
      BY <1>6 DEF Launch, Start, LiveWake, Interrupt, RefuseMerging, CheckoutKitchenFails,
         AlreadyUpToDate, MergeConflicts, Merge, Goto, Exit, EndIteration
    <2> QED BY <1>4, <2>1
  <1>7. CASE FirstCommit \/ CommitWork
    <2>1. pc' = "switch" /\ before' = wd /\ head' = head
      BY <1>7 DEF FirstCommit, CommitWork, Goto
    <2>2. HeadTree' = Staged \/ HeadTree' = wd
      <3>1. WriteCommit(Staged, {}) \/ WriteCommit(Staged, {HeadCommit})
            \/ (RepoIsClean /\ UNCHANGED <<commits, branch>>)
        BY <1>7 DEF FirstCommit, CommitWork, GitAddAllAndCommit
      <3>2. {HeadCommit} \in SUBSET (0..Len(commits)) /\ {} \in SUBSET (0..Len(commits))
        BY <1>1 DEF HeadCommit, TypeOK, RefsOK
      <3>3. CASE WriteCommit(Staged, {}) \/ WriteCommit(Staged, {HeadCommit})
        BY <1>1, <2>1, <3>2, <3>3, StagedType, HeadTreeAfterCommit
      <3>4. CASE RepoIsClean /\ UNCHANGED <<commits, branch>>
        BY <2>1, <3>4 DEF RepoIsClean, HeadTree, HeadCommit, TreeOf
      <3> QED BY <3>1, <3>3, <3>4
    <2>3. Keeps(HeadTree)'
      BY <2>1, <2>2 DEF Keeps, Staged
    <2> QED BY <2>1, <2>3 DEF BeforeInv
  <1>8. CASE CreateKitchenBranch \/ CheckoutKitchen
    <2>1. pc = "switch" /\ pc' = "generate" /\ UNCHANGED <<before, original>> /\ head = original
      BY <1>1, <1>8 DEF CreateKitchenBranch, CheckoutKitchen, Goto, Places
    <2>2. branch'[original] = branch[original]
      BY <1>1, <1>8, BranchAssumption DEF CreateKitchenBranch, CheckoutKitchen, LeaveDetached
    <2>3. TreeOf(branch[original])' = HeadTree
      BY <1>1, <1>2, <2>1, <2>2 DEF HeadTree, HeadCommit
    <2> QED BY <2>1, <2>3 DEF BeforeInv, Keeps
  <1>9. CASE Generate \/ RecordOutput
    <2>1. pc \in {"generate", "record"} /\ pc' \in {"record", "back"} /\ UNCHANGED <<before, original>>
      BY <1>9 DEF Generate, RecordOutput, Goto
    <2>2. head # original
      BY <1>1, <2>1 DEF Ground, HeadInv, OnKitchen, Places
    <2>3. branch'[original] = branch[original]
      BY <1>1, <1>9, <2>2 DEF Generate, RecordOutput, GitAddAllAndCommit, WriteCommit
    <2>4. TreeOf(branch[original])' = TreeOf(branch[original])
      BY <1>1, <1>2, <2>1, <2>3
    <2> QED BY <2>1, <2>4 DEF BeforeInv, Keeps
  <1>10. CASE SwitchBack \/ SwitchBackToDetached
    <2>1. pc = "back" /\ pc' = "merge" /\ UNCHANGED <<before, branch>> /\ head' = original
      BY <1>10 DEF SwitchBack, SwitchBackToDetached, Goto
    <2>2. HeadTree' = TreeOf(branch[original])
      BY <1>1, <1>2, <2>1
    <2> QED BY <2>1, <2>2 DEF BeforeInv, Keeps
  <1> QED BY <1>3, <1>5, <1>6, <1>7, <1>8, <1>9, <1>10, OrderlyStep DEF OrderlyNext

LEMMA MergeBaseIs ==
  ASSUME CommitsOK, NEW x \in 0..Len(commits), NEW y \in 0..Len(commits)
  PROVE  \/ Anc(x) \cap Anc(y) = {} /\ MergeBase(x, y) = None
         \/ /\ MergeBase(x, y) \in Anc(x) \cap Anc(y)
            /\ \A d \in Anc(x) \cap Anc(y) : d =< MergeBase(x, y)
  <1> DEFINE common == Anc(x) \cap Anc(y)
  <1>1. common \subseteq 1..Len(commits) /\ Len(commits) \in Nat
    BY AncType DEF CommitsOK
  <1>2. CASE common = {}
    BY <1>2 DEF MergeBase
  <1>3. CASE common # {}
    <2>1. \E c \in common : \A d \in common : d =< c
      BY <1>1, <1>3, LatestExists
    <2> QED BY <1>3, <2>1 DEF MergeBase
  <1> QED BY <1>2, <1>3

(* A merge without clashes keeps a region that neither the base nor the     *)
(* other side has as it is.                                                 *)
LEMMA MergeKeeps ==
  ASSUME NEW base, NEW ours \in File, NEW theirs \in File \cup {Absent}, NEW r \in Region,
         base # Absent => base[r] # ours[r], theirs # Absent => theirs[r] # ours[r],
         ~FileClash(base, ours, theirs)
  PROVE  /\ MergedFile(base, ours, theirs) # Absent
         /\ MergedFile(base, ours, theirs)[r] = ours[r]
  <1>1. ours # Absent
    BY ValueAssumption
  <1>2. CASE base = theirs
    BY <1>1, <1>2 DEF MergedFile
  <1>3. CASE base # theirs
    <2>1. base # ours /\ theirs # ours /\ theirs # Absent
      BY <1>1, <1>3 DEF FileClash
    <2>2. \A s \in Region : ~RegionClash(base, ours, theirs, s)
      BY <1>1, <1>3, <2>1 DEF FileClash
    <2> DEFINE M == [s \in Region |-> IF RegionClash(base, ours, theirs, s) THEN Marker
                       ELSE IF base = Absent \/ base[s] = theirs[s] THEN ours[s] ELSE theirs[s]]
    <2>3. MergedFile(base, ours, theirs) = M
      BY <1>1, <1>3, <2>1 DEF MergedFile
    <2>4. \A s \in Region : ours[s] \in Value /\ theirs[s] \in Value /\ Marker \in Value
      BY <2>1 DEF File, Value
    <2>5. M \in File
      BY <2>4 DEF File
    <2>6. base # Absent /\ base[r] = theirs[r]
      BY <2>1, <2>2 DEF RegionClash
    <2>7. M[r] = ours[r]
      BY <2>2, <2>6
    <2> QED BY <2>3, <2>5, <2>7, ValueAssumption
  <1> QED BY <1>2, <1>3

(* The user's regions are neither in the base of a merge nor in what is     *)
(* merged.                                                                  *)
LEMMA SidesPristine ==
  ASSUME Ground, RunInv, Fresh, NEW p \in Path, NEW r \in Region
  PROVE  /\ Side(p).base # Absent => Side(p).base[r] \notin UserValue
         /\ Side(p).theirs # Absent => Side(p).theirs[r] \notin UserValue
  <1>1. /\ TypeOK /\ CommitsOK /\ Pure /\ HeadCommit \in 0..Len(commits)
        /\ branch[Kitchen] \in 0..Len(commits)
    BY DEF Ground, RunInv, TypeOK, RefsOK, HeadCommit, Branch
  <1>2. TreeOf(branch[Kitchen]) \in Versions \cup {EmptyTree}
    BY <1>1, KitchenTip
  <1>3. TreeOf(MergeBase(HeadCommit, branch[Kitchen])) \in Versions \cup {EmptyTree}
    <2>1. CASE MergeBase(HeadCommit, branch[Kitchen]) = None
      BY <2>1 DEF TreeOf
    <2>2. CASE MergeBase(HeadCommit, branch[Kitchen]) # None
      <3>1. MergeBase(HeadCommit, branch[Kitchen]) \in Anc(branch[Kitchen])
        BY <1>1, <2>2, MergeBaseIs
      <3> QED BY <1>1, <2>2, <3>1 DEF Pure, TreeOf
    <2> QED BY <2>1, <2>2
  <1> QED BY <1>2, <1>3, VersionsPristine DEF Side

LEMMA ModificationsStep ==
  ASSUME Scope, Fresh, Ground, RunInv, NeverDetached, BeforeInv, Next, IterationDone,
         NEW p \in Path, NEW r \in Region, before[p] # Absent, before[p][r] \in UserValue
  PROVE  wd'[p] # Absent /\ wd'[p][r] = before[p][r]
  <1>1. /\ pc = "merge" /\ wd = HeadTree /\ HeadTree[p] = before[p] /\ before[p] \in File
        /\ AlreadyUpToDate \/ Merge
    BY DoneStep DEF BeforeInv, Keeps, Ground, TypeOK, RunOK, Tree
  <1>2. CASE AlreadyUpToDate
    BY <1>1, <1>2 DEF AlreadyUpToDate, repoVars
  <1>3. CASE Merge
    <2>1. wd' = MergeTree /\ MergeClashes = {}
      BY <1>1, <1>3, CleanMerge DEF Merge, Ground
    <2>2. Side(p).ours = before[p] /\ Side(p).theirs \in File \cup {Absent}
      <3>1. TreeOf(branch[Kitchen]) \in Tree
        BY TreeOfType DEF Ground, TypeOK, RefsOK, Branch
      <3> QED BY <1>1, <3>1 DEF Side, Tree
    <2>3. ~FileClash(Side(p).base, Side(p).ours, Side(p).theirs)
      BY <2>1 DEF MergeClashes
    <2>4. MergedFile(Side(p).base, Side(p).ours, Side(p).theirs) # Absent
          /\ MergedFile(Side(p).base, Side(p).ours, Side(p).theirs)[r] = before[p][r]
      <3>1. /\ Side(p).base # Absent => Side(p).base[r] # before[p][r]
            /\ Side(p).theirs # Absent => Side(p).theirs[r] # before[p][r]
        BY SidesPristine
      <3> QED BY <1>1, <2>2, <2>3, <3>1, MergeKeeps
    <2>5. wd'[p] = MergedFile(Side(p).base, Side(p).ours, Side(p).theirs)
      BY <2>1 DEF MergeTree
    <2> QED BY <2>4, <2>5
  <1> QED BY <1>1, <1>2, <1>3

(* The promise in the words of the documentation: what the user wrote is    *)
(* where he wrote it when a run that nothing disturbed ends well, also if   *)
(* he has deleted files, and whatever the merges before were.               *)
THEOREM ModificationsRemain ==
  ASSUME Undisturbed, Steady, Fresh, "detach" \notin UserOps
  PROVE  Spec => ManualModificationsRemain
  <1>1. Scope
    BY DEF Scope
  <1>2. Init => BeforeInv
    BY DEF Init, BeforeInv, Away
  <1>3. ASSUME Ground, RunInv, NeverDetached, BeforeInv, [Next]_vars PROVE BeforeInv'
    <2>1. CASE UNCHANGED vars
      <3>1. UNCHANGED <<commits, branch, head, pc, original, before>>
        BY <2>1 DEF vars, repoVars, runVars
      <3>2. HeadTree' = HeadTree /\ TreeOf(branch[original])' = TreeOf(branch[original])
        BY <3>1 DEF HeadTree, HeadCommit, TreeOf
      <3> QED BY <1>3, <3>1, <3>2 DEF BeforeInv, Keeps, Away
    <2> QED BY <1>1, <1>3, <2>1, BeforeStep
  <1>4. ASSUME Ground, RunInv, NeverDetached, BeforeInv, [Next]_vars
        PROVE  [IterationDone =>
                 \A p \in Path, r \in Region :
                   before[p] # Absent /\ before[p][r] \in UserValue
                     => wd'[p] # Absent /\ wd'[p][r] = before[p][r]]_vars
    BY <1>1, <1>4, ModificationsStep
  <1>5. Spec => [](Ground /\ RunInv /\ NeverDetached)
    BY <1>1, NeverDetachedAlways
  <1> QED BY <1>2, <1>3, <1>4, <1>5, PTL DEF Spec, ManualModificationsRemain

-----------------------------------------------------------------------------
(* Runs are vendor merges: the merge base. *)

(* What is being merged while conflicts are open is the tip of               *)
(* "meteor-kitchen": no run gets past its checks and moves it.               *)
OpenInv == mergeHead # None => mergeHead = branch[Kitchen]

LEMMA OpenStep ==
  ASSUME Scope, Ground, RunInv, OpenInv, Next
  PROVE  OpenInv'
  <1>1. CASE mergeHead' = None
    BY <1>1 DEF OpenInv
  <1>2. CASE MergeConflicts
    BY <1>2 DEF MergeConflicts, OpenInv
  <1>3. CASE mergeHead' = mergeHead
    <2>1. CreateKitchenBranch \/ RecordOutput => mergeHead = None
      BY DEF CreateKitchenBranch, RecordOutput, Ground, MarkerInv
    <2> QED BY <1>3, <2>1, KitchenStays DEF OpenInv
  <1> QED BY <1>1, <1>2, <1>3, NeverKilled
        DEF Next, UserStep, Launch, GitBefore, GenerateStep, GitAfter, repoVars,
            UserEdit, UserCreate, UserRemove, UserCommit, UserSwitch, UserDetach, UserResolve,
            ChangeInput, Start, LiveWake, Interrupt, Crash, FirstCommit, RefuseMerging, CommitWork,
            StayOnKitchen, CreateKitchenBranch, CheckoutKitchen, CheckoutKitchenFails, Generate,
            GenerateFails, RecordOutput, EndOnKitchen, SwitchBack, SwitchBackFails,
            SwitchBackToDetached, AlreadyUpToDate, MergeFails, Merge

Latest(S) == IF S = {} THEN None ELSE CHOOSE c \in S : \A d \in S : d =< c

NextMergeBase(o, t) == Latest(NextAnc(o) \cap NextAnc(t))

(* What is last merged into x after a step. *)
NextMerged(x) == NextTree(NextMergeBase(branch'[x], branch'[Kitchen]))

LEMMA MergedIntoNext == MergedInto' = [x \in UserBranch |-> NextMerged(x)]
  BY DEF MergedInto, NextMerged, NextMergeBase, Latest, MergeBase, NextTree, TreeOf, NextAnc, Anc

LEMMA VersionOnNext ==
  VersionOn' = [x \in UserBranch |-> IF head' = x THEN wd' ELSE NextTree(branch'[x])]
  BY DEF VersionOn, NextTree, TreeOf

(* The base stays if no ancestors become common. *)
LEMMA BaseStays ==
  ASSUME TypeOK, [Next]_vars, NEW x \in UserBranch,
         NextAnc(branch'[x]) \cap NextAnc(branch'[Kitchen]) = Anc(branch[x]) \cap Anc(branch[Kitchen])
  PROVE  NextMerged(x) = MergedInto[x]
  <1>1. CommitsOK /\ branch[x] \in 0..Len(commits) /\ branch[Kitchen] \in 0..Len(commits)
    BY DEF TypeOK, RefsOK, Branch
  <1>2. NextMergeBase(branch'[x], branch'[Kitchen]) = MergeBase(branch[x], branch[Kitchen])
    <2>1. MergeBase(branch[x], branch[Kitchen]) = Latest(Anc(branch[x]) \cap Anc(branch[Kitchen]))
      BY DEF MergeBase, Latest
    <2> QED BY <2>1 DEF NextMergeBase
  <1>3. MergeBase(branch[x], branch[Kitchen]) \in 0..Len(commits)
    BY <1>1, MergeBaseType
  <1> QED BY <1>2, <1>3, TreesStay DEF NextMerged, MergedInto

(* It is the tip of "meteor-kitchen" once that is merged. *)
LEMMA BaseMerged ==
  ASSUME TypeOK, [Next]_vars, NEW x \in UserBranch, NEW k \in 1..Len(commits), branch'[Kitchen] = k,
         k \in NextAnc(branch'[x])
  PROVE  NextMerged(x) = TreeOf(k)
  <1>1. /\ CommitsOK /\ k \in 0..Len(commits) /\ k # None /\ k \in Nat
    BY DEF TypeOK, CommitsOK, None
  <1>2. NextAnc(k) = Anc(k) /\ NextTree(k) = TreeOf(k) /\ Anc(k) \subseteq 1..k /\ k \in Anc(k)
    BY <1>1, TreesStay, AncType DEF CommitsOK, Anc
  <1> DEFINE common == NextAnc(branch'[x]) \cap NextAnc(branch'[Kitchen])
  <1>3. k \in common /\ \A d \in common : d \in Nat /\ d =< k
    BY <1>1, <1>2
  <1>4. PICK c \in common : c = NextMergeBase(branch'[x], branch'[Kitchen]) /\ \A d \in common : d =< c
    BY <1>3 DEF NextMergeBase, Latest
  <1>5. c = k
    <2>1. k =< c /\ c =< k /\ c \in Nat
      BY <1>3, <1>4
    <2> QED BY <1>1, <2>1
  <1> QED BY <1>2, <1>4, <1>5 DEF NextMerged

(* A commit with HEAD's commit for its only parent moves no base. *)
LEMMA CommitBase ==
  ASSUME TypeOK, [Next]_vars, NEW tree \in Tree, NEW parents \in SUBSET {HeadCommit},
         WriteCommit(tree, parents), HeadCommit \in parents \/ HeadCommit = None,
         NEW x \in UserBranch
  PROVE  NextMerged(x) = MergedInto[x]
  <1>1. /\ CommitsOK /\ branch \in [Branch -> 0..Len(commits)] /\ head \in Branch
        /\ x \in Branch /\ Kitchen \in Branch /\ x # Kitchen
        /\ HeadCommit \in 0..Len(commits) /\ parents \in SUBSET (0..Len(commits))
        /\ Len(commits) \in Nat
    BY BranchAssumption DEF TypeOK, CommitsOK, RefsOK, Branch, HeadCommit
  <1>2. /\ commits'[Len(commits) + 1] =
             [tree |-> tree, anc |-> {Len(commits) + 1} \cup UNION {Anc(q) : q \in parents}]
        /\ branch' = [branch EXCEPT ![head] = Len(commits) + 1]
    BY <1>1, WriteCommitEffect
  <1>3. NextAnc(Len(commits) + 1) = {Len(commits) + 1} \cup Anc(HeadCommit)
    <2>1. UNION {Anc(q) : q \in parents} = Anc(HeadCommit)
      BY DEF Anc
    <2> QED BY <1>1, <1>2, <2>1 DEF NextAnc, None
  <1>4. \A z \in Branch : /\ z # head => NextAnc(branch'[z]) = Anc(branch[z])
                          /\ z = head => NextAnc(branch'[z]) = {Len(commits) + 1} \cup Anc(branch[z])
    <2> SUFFICES ASSUME NEW z \in Branch
                 PROVE  /\ z # head => NextAnc(branch'[z]) = Anc(branch[z])
                        /\ z = head => NextAnc(branch'[z]) = {Len(commits) + 1} \cup Anc(branch[z])
      OBVIOUS
    <2>1. NextAnc(branch[z]) = Anc(branch[z])
      BY <1>1, TreesStay
    <2>2. branch'[z] = IF z = head THEN Len(commits) + 1 ELSE branch[z]
      BY <1>1, <1>2
    <2> QED BY <1>3, <2>1, <2>2 DEF HeadCommit
  <1>5. \A z \in Branch : Len(commits) + 1 \notin Anc(branch[z])
    <2>1. \A z \in Branch : Anc(branch[z]) \subseteq 1..branch[z] /\ branch[z] =< Len(commits)
                            /\ branch[z] \in Nat
      BY <1>1, AncType
    <2> QED BY <1>1, <2>1
  <1>6. NextAnc(branch'[x]) \cap NextAnc(branch'[Kitchen]) = Anc(branch[x]) \cap Anc(branch[Kitchen])
    BY <1>1, <1>4, <1>5
  <1> QED BY <1>6, BaseStays

LEMMA UnmovedBase ==
  ASSUME TypeOK, [Next]_vars, commits' = commits, branch'[Kitchen] = branch[Kitchen],
         NEW x \in UserBranch, branch'[x] = branch[x]
  PROVE  NextMerged(x) = MergedInto[x]
  <1>1. \A c : NextAnc(c) = Anc(c)
    BY DEF NextAnc, Anc
  <1> QED BY <1>1, BaseStays

-----------------------------------------------------------------------------
(* Runs are vendor merges: each step of a run but the last is a stutter. *)

(* What the user does is edit, commit, switch branches, resolve conflicts   *)
(* and change the input.                                                    *)
MergeScope ==
  Undisturbed /\ Steady /\ Fresh /\ "remove" \notin UserOps /\ "detach" \notin UserOps

MergeInv == Ground /\ RunInv /\ NeverDetached /\ OpenInv

Stutters == UNCHANGED <<VersionOn, MergedInto, userOn, OpenMerge>>

LEMMA StutterWhen ==
  ASSUME TypeOK, [Next]_vars, userOn' = userOn, mergeHead' = mergeHead,
         \A x \in UserBranch : (IF head' = x THEN wd' ELSE NextTree(branch'[x])) = VersionOn[x],
         \A x \in UserBranch : NextMerged(x) = MergedInto[x]
  PROVE  Stutters
  <1>1. VersionOn = [x \in UserBranch |-> VersionOn[x]] /\ MergedInto = [x \in UserBranch |-> MergedInto[x]]
    BY DEF VersionOn, MergedInto
  <1>2. VersionOn' = VersionOn
    BY <1>1, VersionOnNext
  <1>3. MergedInto' = MergedInto
    BY <1>1, MergedIntoNext
  <1>4. OpenMerge' = OpenMerge
    <2>1. OpenMerge' = IF mergeHead = None THEN Absent ELSE NextTree(mergeHead)
      BY DEF OpenMerge, NextTree, TreeOf
    <2>2. NextTree(mergeHead) = TreeOf(mergeHead)
      BY TreesStay DEF TypeOK, RefsOK
    <2> QED BY <2>1, <2>2 DEF OpenMerge
  <1> QED BY <1>2, <1>3, <1>4 DEF Stutters

LEMMA MergeInvFacts ==
  ASSUME MergeScope, MergeInv
  PROVE  /\ Scope /\ TypeOK /\ CommitsOK /\ branch \in [Branch -> 0..Len(commits)]
         /\ head \in UserBranch \cup {Kitchen} /\ original \in UserBranch /\ userOn \in UserBranch
         /\ Kitchen \in Branch /\ UserBranch \subseteq Branch /\ Kitchen \notin UserBranch
         /\ Detached \notin UserBranch /\ wd \in Tree
         /\ HeadCommit \in 0..Len(commits)
         /\ Away => head = Kitchen
         /\ ~Away => userOn = head /\ head \in UserBranch
  BY BranchAssumption
     DEF MergeScope, Scope, MergeInv, Ground, RunInv, TypeOK, RefsOK, RunOK, Branch, HeadCommit,
         Places, NeverDetached, Away, HeadInv, OnKitchen

(* The versions before a step. *)
LEMMA VersionNow ==
  ASSUME MergeScope, MergeInv, NEW x \in UserBranch
  PROVE  /\ VersionOn[x] = IF head = x THEN wd ELSE TreeOf(branch[x])
         /\ MergedInto[x] = TreeOf(MergeBase(branch[x], branch[Kitchen]))
         /\ branch[x] \in 0..Len(commits)
         /\ [Next]_vars => NextTree(branch[x]) = TreeOf(branch[x])
  <1>1. branch[x] \in 0..Len(commits) /\ TypeOK
    BY MergeInvFacts
  <1> QED BY <1>1, TreesStay DEF VersionOn, MergedInto

(* Nothing moves but the directory while HEAD is on "meteor-kitchen". *)
LEMMA QuietStep ==
  ASSUME MergeScope, MergeInv, [Next]_vars, UNCHANGED <<commits, branch, head, mergeHead, userOn>>,
         wd' = wd \/ Away
  PROVE  Stutters
  <1>1. TypeOK /\ (Away => head \notin UserBranch)
    BY MergeInvFacts
  <1>2. \A x \in UserBranch : (IF head' = x THEN wd' ELSE NextTree(branch'[x])) = VersionOn[x]
    BY <1>1, VersionNow
  <1>3. \A x \in UserBranch : NextMerged(x) = MergedInto[x]
    BY <1>1, UnmovedBase
  <1> QED BY <1>1, <1>2, <1>3, StutterWhen

(* A commit of what is in the directory, on whatever branch HEAD is. *)
LEMMA CommitStutters ==
  ASSUME MergeScope, MergeInv, [Next]_vars, UNCHANGED <<head, wd, mergeHead, userOn>>,
         NEW tree \in Tree, NEW parents \in SUBSET {HeadCommit}, WriteCommit(tree, parents),
         HeadCommit \in parents \/ HeadCommit = None
  PROVE  Stutters
  <1>1. TypeOK /\ CommitsOK /\ branch \in [Branch -> 0..Len(commits)] /\ UserBranch \subseteq Branch
    BY MergeInvFacts
  <1>2. branch' = [branch EXCEPT ![head] = Len(commits) + 1]
    BY DEF WriteCommit
  <1>3. ASSUME NEW x \in UserBranch
        PROVE  (IF head' = x THEN wd' ELSE NextTree(branch'[x])) = VersionOn[x]
    <2>1. head # x => branch'[x] = branch[x]
      BY <1>1, <1>2
    <2> QED BY <2>1, VersionNow
  <1>4. \A x \in UserBranch : NextMerged(x) = MergedInto[x]
    BY <1>1, CommitBase
  <1> QED BY <1>1, <1>3, <1>4, StutterWhen

LEMMA RunStutters ==
  ASSUME MergeScope, MergeInv, Next,
         \/ Launch \/ Interrupt \/ FirstCommit \/ RefuseMerging \/ CommitWork
         \/ CreateKitchenBranch \/ CheckoutKitchen
         \/ Generate \/ RecordOutput \/ SwitchBack \/ AlreadyUpToDate
  PROVE  Stutters
  <1>1. /\ Scope /\ TypeOK /\ CommitsOK /\ branch \in [Branch -> 0..Len(commits)]
        /\ head \in UserBranch \cup {Kitchen} /\ original \in UserBranch /\ userOn \in UserBranch
        /\ Kitchen \in Branch /\ UserBranch \subseteq Branch /\ Kitchen \notin UserBranch
        /\ Detached \notin UserBranch /\ Kitchen # Detached
        /\ HeadCommit \in 0..Len(commits) /\ Directory /\ Pure /\ Places /\ OnKitchen
        /\ "remove" \notin UserOps /\ Fresh
    BY MergeInvFacts, BranchAssumption DEF MergeInv, RunInv, Ground, HeadInv, MergeScope
  <1>2. {HeadCommit} \in SUBSET (0..Len(commits))
    BY <1>1
  <1>3. CASE Launch \/ Interrupt \/ RefuseMerging \/ AlreadyUpToDate
    BY <1>3, QuietStep
       DEF Launch, Start, LiveWake, Interrupt, RefuseMerging, AlreadyUpToDate, repoVars
  <1>4. CASE FirstCommit
    <2>1. {} \in SUBSET {HeadCommit}
      OBVIOUS
    <2> QED BY <1>1, <1>4, <2>1, StagedType, CommitStutters DEF FirstCommit
  <1>5. CASE CommitWork \/ RecordOutput
    <2>1. UNCHANGED <<head, wd, mergeHead, userOn>>
          /\ IF RepoIsClean THEN UNCHANGED <<commits, branch>> ELSE WriteCommit(Staged, {HeadCommit})
      BY <1>5 DEF CommitWork, RecordOutput, GitAddAllAndCommit
    <2>2. {HeadCommit} \in SUBSET {HeadCommit} /\ HeadCommit \in {HeadCommit}
      OBVIOUS
    <2>3. CASE RepoIsClean
      BY <2>1, <2>3, QuietStep
    <2>4. CASE ~RepoIsClean
      BY <1>1, <2>1, <2>2, <2>4, StagedType, CommitStutters
    <2> QED BY <2>3, <2>4
  <1>6. CASE CreateKitchenBranch
    <2>1. /\ pc = "switch" /\ branch[Kitchen] = None /\ head \in UserBranch
          /\ UNCHANGED <<commits, wd, mergeHead, userOn>> /\ head' = Kitchen
          /\ branch' = [branch EXCEPT ![Kitchen] = HeadCommit]
      BY <1>1, <1>6 DEF CreateKitchenBranch
    <2>2. wd = HeadTree
      BY <1>1, <2>1 DEF Directory
    <2>3. \A x \in UserBranch : (IF head' = x THEN wd' ELSE NextTree(branch'[x])) = VersionOn[x]
      BY <1>1, <2>1, <2>2, VersionNow DEF HeadTree, HeadCommit
    <2>4. ASSUME NEW x \in UserBranch PROVE NextMerged(x) = MergedInto[x]
      <3>1. branch'[x] \in 0..Len(commits) /\ branch'[Kitchen] \in 0..Len(commits)
            /\ branch[x] \in 0..Len(commits) /\ branch[Kitchen] \in 0..Len(commits)
        BY <1>1, <2>1
      <3>2. NextMergeBase(branch'[x], branch'[Kitchen]) = MergeBase(branch'[x], branch'[Kitchen])
        BY <2>1 DEF NextMergeBase, MergeBase, Latest, NextAnc, Anc
      <3>3. MergeBase(branch'[x], branch'[Kitchen]) \in 0..Len(commits)
            /\ MergeBase(branch[x], branch[Kitchen]) \in 0..Len(commits)
        BY <1>1, <3>1, MergeBaseType
      <3>4. NextMerged(x) = TreeOf(MergeBase(branch'[x], branch'[Kitchen]))
        BY <1>1, <3>2, <3>3, TreesStay DEF NextMerged
      <3> QED BY <1>1, <2>1, <3>3, <3>4, NothingYet DEF MergedInto
    <2> QED BY <1>1, <2>1, <2>3, <2>4, StutterWhen
  <1>7. CASE CheckoutKitchen
    <2>1. /\ pc = "switch" /\ head \in UserBranch
          /\ UNCHANGED <<commits, branch, mergeHead, userOn>> /\ head' = Kitchen
      BY <1>1, <1>7 DEF CheckoutKitchen
    <2>2. wd = HeadTree
      BY <1>1, <2>1 DEF Directory
    <2>3. \A x \in UserBranch : (IF head' = x THEN wd' ELSE NextTree(branch'[x])) = VersionOn[x]
      BY <1>1, <2>1, <2>2, VersionNow DEF HeadTree, HeadCommit
    <2> QED BY <1>1, <2>1, <2>3, UnmovedBase, StutterWhen
  <1>8. CASE Generate
    BY <1>8, QuietStep DEF Generate, Away
  <1>9. CASE SwitchBack
    <2>1. /\ pc = "back" /\ head = Kitchen /\ UNCHANGED <<commits, branch, mergeHead, userOn>>
          /\ head' = original /\ wd' = CheckedOut(TreeOf(branch[original]))
      BY <1>1, <1>9 DEF SwitchBack, OnKitchen
    <2>2. TreeOf(branch[original]) \in Tree /\ wd = HeadTree
      BY <1>1, <2>1, TreeOfType DEF Directory
    <2>3. wd' = TreeOf(branch[original])
      BY <1>1, <2>1, <2>2, CleanCheckout
    <2>4. \A x \in UserBranch : (IF head' = x THEN wd' ELSE NextTree(branch'[x])) = VersionOn[x]
      BY <1>1, <2>1, <2>3, VersionNow
    <2> QED BY <1>1, <2>1, <2>4, UnmovedBase, StutterWhen
  <1> QED BY <1>3, <1>4, <1>5, <1>6, <1>7, <1>8, <1>9

-----------------------------------------------------------------------------
(* Runs are vendor merges: the user's steps. *)

(* A step that leaves HEAD where it is changes one version. *)
LEMMA OneVersion ==
  ASSUME MergeScope, MergeInv, [Next]_vars, head' = head,
         \A x \in UserBranch \ {head} : branch'[x] = branch[x]
  PROVE  VersionOn' = [VersionOn EXCEPT ![head] = wd']
  <1>1. VersionOn = [x \in UserBranch |-> VersionOn[x]]
    BY DEF VersionOn
  <1>2. ASSUME NEW x \in UserBranch
        PROVE  (IF head' = x THEN wd' ELSE NextTree(branch'[x])) = IF x = head THEN wd' ELSE VersionOn[x]
    BY VersionNow
  <1>3. [VersionOn EXCEPT ![head] = wd'] = [x \in UserBranch |-> IF x = head THEN wd' ELSE VersionOn[x]]
    BY <1>1
  <1> QED BY <1>2, <1>3, VersionOnNext

(* And one base, if it leaves "meteor-kitchen" too. *)
LEMMA OneBase ==
  ASSUME MergeScope, MergeInv, [Next]_vars, branch'[Kitchen] = branch[Kitchen],
         \A x \in UserBranch \ {head} : branch'[x] = branch[x]
  PROVE  MergedInto' = [MergedInto EXCEPT ![head] = NextMerged(head)]
  <1>1. MergedInto = [x \in UserBranch |-> MergedInto[x]]
    BY DEF MergedInto
  <1>2. ASSUME NEW x \in UserBranch, x # head
        PROVE  NextMerged(x) = MergedInto[x]
    <2>1. TypeOK /\ branch[x] \in 0..Len(commits) /\ branch[Kitchen] \in 0..Len(commits)
      BY MergeInvFacts
    <2>2. NextAnc(branch[x]) = Anc(branch[x]) /\ NextAnc(branch[Kitchen]) = Anc(branch[Kitchen])
      BY <2>1, TreesStay
    <2> QED BY <1>2, <2>1, <2>2, BaseStays
  <1>3. [MergedInto EXCEPT ![head] = NextMerged(head)]
          = [x \in UserBranch |-> IF x = head THEN NextMerged(head) ELSE MergedInto[x]]
    BY <1>1
  <1>4. \A x \in UserBranch : NextMerged(x) = IF x = head THEN NextMerged(head) ELSE MergedInto[x]
    BY <1>2
  <1> QED BY <1>3, <1>4, MergedIntoNext

LEMMA NoneIsOpen ==
  ASSUME MergeScope, MergeInv
  PROVE  OpenMerge = Absent <=> mergeHead = None
  <1>1. TreeOf(mergeHead) \in Tree
    BY MergeInvFacts, TreeOfType DEF MergeInv, Ground, TypeOK, RefsOK
  <1>2. TreeOf(mergeHead) # Absent
    BY <1>1, ValueAssumption
  <1> QED BY <1>2 DEF OpenMerge

LEMMA EditIsEdit ==
  ASSUME MergeScope, MergeInv, Next, NEW p \in Path, NEW r \in Region, NEW v \in UserValue,
         UserEdit(p, r, v)
  PROVE  Promise!Edit(p, r, v)
  <1>1. /\ ~Away /\ mergeHead = None /\ wd[p] # Absent
        /\ wd' = [wd EXCEPT ![p] = [@ EXCEPT ![r] = v]]
        /\ UNCHANGED <<commits, branch, head, mergeHead, userOn>>
    BY DEF UserEdit, MayTouchFiles, Quiet, Away, MergeScope, Undisturbed
  <1>2. userOn = head /\ head \in UserBranch /\ TypeOK
    BY <1>1, MergeInvFacts
  <1>3. VersionOn[head] = wd
    BY <1>2, VersionNow
  <1>4. OpenMerge = Absent /\ OpenMerge' = OpenMerge
    BY <1>1 DEF OpenMerge
  <1>5. VersionOn' = [VersionOn EXCEPT ![head] = wd']
    BY <1>1, OneVersion
  <1>6. VersionOn' = [VersionOn EXCEPT ![userOn][p][r] = v]
    <2>1. wd' = [wd EXCEPT ![p][r] = v]
      BY <1>1
    <2> QED BY <1>2, <1>3, <1>5, <2>1
  <1>7. MergedInto' = MergedInto
    <2>1. \A x \in UserBranch : NextMerged(x) = MergedInto[x]
      BY <1>1, <1>2, UnmovedBase
    <2>2. MergedInto = [x \in UserBranch |-> MergedInto[x]]
      BY DEF MergedInto
    <2> QED BY <2>1, <2>2, MergedIntoNext
  <1> QED BY <1>1, <1>2, <1>3, <1>4, <1>6, <1>7 DEF Promise!Edit

LEMMA SwitchIsSwitch ==
  ASSUME MergeScope, MergeInv, Next, NEW b \in UserBranch, UserSwitch(b)
  PROVE  Promise!Switch(b)
  <1> DEFINE created == IF branch[b] = None THEN [branch EXCEPT ![b] = HeadCommit] ELSE branch
  <1>1. /\ ~Away /\ mergeHead = None /\ b # head /\ HeadCommit # None /\ wd = HeadTree
        /\ branch' = (IF head = Detached THEN LeaveDetached(created) ELSE created)
        /\ wd' = TreeOf(created[b]) /\ head' = b /\ userOn' = b
        /\ UNCHANGED <<commits, mergeHead>>
    BY DEF UserSwitch, Quiet, Away, RepoIsClean
  <1>2. /\ userOn = head /\ head \in UserBranch /\ TypeOK /\ b \in Branch /\ UserBranch \subseteq Branch
        /\ branch \in [Branch -> 0..Len(commits)] /\ b # Kitchen /\ Kitchen \in Branch
        /\ head # Detached /\ HeadCommit = branch[head]
    BY <1>1, MergeInvFacts DEF HeadCommit
  <1>3. branch' = created
    BY <1>1, <1>2
  <1>4. /\ OpenMerge = Absent /\ OpenMerge' = OpenMerge
        /\ VersionOn = [x \in UserBranch |-> VersionOn[x]]
        /\ MergedInto = [x \in UserBranch |-> MergedInto[x]]
    BY <1>1 DEF OpenMerge, VersionOn, MergedInto
  <1>5. VersionOn[head] = TreeOf(branch[head])
    BY <1>1, <1>2, VersionNow DEF HeadTree
  <1>6. CASE branch[b] # None
    <2>1. branch' = branch /\ wd' = TreeOf(branch[b])
      BY <1>1, <1>3, <1>6
    <2>2. \A x \in UserBranch : (IF head' = x THEN wd' ELSE NextTree(branch'[x])) = VersionOn[x]
      BY <1>1, <1>2, <1>5, <2>1, VersionNow
    <2>3. \A x \in UserBranch : NextMerged(x) = MergedInto[x]
      BY <1>1, <1>2, <2>1, UnmovedBase
    <2>4. UNCHANGED <<VersionOn, MergedInto>>
      BY <1>4, <2>2, <2>3, VersionOnNext, MergedIntoNext
    <2> QED BY <1>1, <1>2, <1>4, <2>4 DEF Promise!Switch
  <1>7. CASE branch[b] = None
    <2>1. branch' = [branch EXCEPT ![b] = HeadCommit] /\ wd' = TreeOf(branch[head])
      BY <1>1, <1>2, <1>3, <1>7
    <2>2. \A x \in UserBranch : (IF head' = x THEN wd' ELSE NextTree(branch'[x])) =
                                  IF x = b THEN VersionOn[head] ELSE VersionOn[x]
      BY <1>1, <1>2, <1>5, <2>1, VersionNow
    <2>3. \A x \in UserBranch \ {b} : NextMerged(x) = MergedInto[x]
      BY <1>1, <1>2, <2>1, UnmovedBase
    <2>4. NextMerged(b) = MergedInto[head]
      <3>1. branch'[b] = branch[head] /\ branch'[head] = branch[head]
        BY <1>1, <1>2, <2>1
      <3>2. NextMerged(b) = NextMerged(head)
        BY <3>1 DEF NextMerged
      <3> QED BY <1>1, <1>2, <2>3, <3>2
    <2>5. VersionOn' = [VersionOn EXCEPT ![b] = VersionOn[head]]
      BY <1>4, <2>2, VersionOnNext
    <2>6. MergedInto' = [MergedInto EXCEPT ![b] = MergedInto[head]]
      BY <1>4, <2>3, <2>4, MergedIntoNext
    <2> QED BY <1>1, <1>2, <1>4, <2>5, <2>6 DEF Promise!Switch
  <1> QED BY <1>6, <1>7

(* The commit that resolves the conflicts has the tip of "meteor-kitchen"   *)
(* for a parent, so the code generated then is the base from now on.        *)
LEMMA ResolveIsResolve ==
  ASSUME MergeScope, MergeInv, Next, NEW v \in Value \ {Marker}, UserResolve(v)
  PROVE  Promise!Resolve(v)
  <1> DEFINE resolved == [p \in Path |-> IF p \in conflicted /\ wd[p] # Absent
                                         THEN [r \in Region |-> IF wd[p][r] = Marker THEN v ELSE wd[p][r]]
                                         ELSE wd[p]]
             settled == [p \in Path |-> IF wd[p] = Absent THEN Absent
                                        ELSE [r \in Region |-> IF wd[p][r] = Marker THEN v ELSE wd[p][r]]]
  <1>1. /\ ~Away /\ mergeHead # None /\ mergeHead' = None /\ UNCHANGED <<head, userOn>>
        /\ wd' = resolved /\ WriteCommit(resolved, {HeadCommit, mergeHead})
    BY DEF UserResolve, Quiet, Away
  <1>2. /\ userOn = head /\ head \in UserBranch /\ TypeOK /\ CommitsOK /\ UserBranch \subseteq Branch
        /\ branch \in [Branch -> 0..Len(commits)] /\ Kitchen \in Branch /\ Kitchen \notin UserBranch
        /\ wd \in Tree /\ mergeHead \in 0..Len(commits) /\ HeadCommit \in 0..Len(commits)
        /\ mergeHead = branch[Kitchen] /\ MarkerInv
    BY <1>1, MergeInvFacts DEF MergeInv, OpenInv, Ground, TypeOK, RefsOK
  <1>3. resolved = settled
    <2>1. ASSUME NEW p \in Path, wd[p] # Absent, p \notin conflicted
          PROVE  [r \in Region |-> IF wd[p][r] = Marker THEN v ELSE wd[p][r]] = wd[p]
      <3>1. wd[p] \in File /\ \A r \in Region : wd[p][r] # Marker
        BY <1>2, <2>1 DEF Tree, MarkerInv, CleanFile
      <3> QED BY <3>1 DEF File
    <2>2. \A p \in Path :
            (IF p \in conflicted /\ wd[p] # Absent
             THEN [r \in Region |-> IF wd[p][r] = Marker THEN v ELSE wd[p][r]]
             ELSE wd[p])
            = (IF wd[p] = Absent THEN Absent
               ELSE [r \in Region |-> IF wd[p][r] = Marker THEN v ELSE wd[p][r]])
      BY <2>1
    <2> QED BY <2>2
  <1>4. resolved \in Tree
    BY <1>2 DEF Tree, File
  <1>5. {HeadCommit, mergeHead} \in SUBSET (0..Len(commits))
    BY <1>2
  <1>6. /\ branch' = [branch EXCEPT ![head] = Len(commits) + 1]
        /\ Anc(mergeHead) \subseteq NextAnc(Len(commits) + 1)
    <2>1. PICK tree \in Tree : WriteCommit(tree, {HeadCommit, mergeHead})
      BY <1>1, <1>4
    <2>2. head \in Branch /\ mergeHead \in {HeadCommit, mergeHead}
      BY <1>2
    <2> QED BY <1>2, <1>5, <2>1, <2>2, WriteCommitEffect, WriteCommitAnc
  <1>7. branch'[Kitchen] = mergeHead /\ \A x \in UserBranch \ {head} : branch'[x] = branch[x]
    BY <1>2, <1>6
  <1>8. NextMerged(head) = TreeOf(mergeHead)
    <2>1. mergeHead \in 1..Len(commits) /\ mergeHead \in Anc(mergeHead)
      BY <1>1, <1>2 DEF CommitsOK, None, Anc
    <2>2. mergeHead \in NextAnc(branch'[head])
      BY <1>2, <1>6, <2>1
    <2> QED BY <1>2, <1>7, <2>1, <2>2, BaseMerged
  <1>9. VersionOn' = [VersionOn EXCEPT ![userOn] = settled]
    BY <1>1, <1>2, <1>3, <1>7, OneVersion
  <1>10. VersionOn[userOn] = wd
    BY <1>2, VersionNow
  <1>11. MergedInto' = [MergedInto EXCEPT ![userOn] = OpenMerge]
    <2>1. OpenMerge = TreeOf(mergeHead)
      BY <1>1 DEF OpenMerge
    <2> QED BY <1>2, <1>7, <1>8, <2>1, OneBase
  <1>12. OpenMerge # Absent /\ OpenMerge' = Absent
    BY <1>1, NoneIsOpen DEF OpenMerge
  <1> QED BY <1>1, <1>9, <1>10, <1>11, <1>12 DEF Promise!Resolve

-----------------------------------------------------------------------------
(* Runs are vendor merges: the merge. *)

LEMMA SameFileMerge ==
  ASSUME NEW b, NEW o, NEW t
  PROVE  /\ Promise!MergedFile(b, o, t) = MergedFile(b, o, t)
         /\ Promise!FileClash(b, o, t) <=> FileClash(b, o, t)
  <1>1. \A r : Promise!RegionClash(b, o, t, r) <=> RegionClash(b, o, t, r)
    BY DEF Promise!RegionClash, RegionClash
  <1> QED BY <1>1 DEF Promise!MergedFile, MergedFile, Promise!FileClash, FileClash

(* What git merges is what the promise says: the base is the code generated *)
(* for the last merge, ours is the user's version, theirs the new code.     *)
LEMMA MergeIsMerge ==
  ASSUME MergeScope, MergeInv, pc = "merge", MergeRequired
  PROVE  /\ \E i \in Input : TreeOf(branch[Kitchen]) = Output[i]
         /\ MergeDir = MergeTree
         /\ MergeTree = Promise!Merged(TreeOf(branch[Kitchen]))
         /\ MergeClashes # {} <=> Promise!Clashing(TreeOf(branch[Kitchen]))
         /\ branch[Kitchen] # None
         /\ mergeHead = None /\ userOn = head /\ head \in UserBranch
  <1>1. /\ userOn = head /\ head \in UserBranch /\ TypeOK /\ Fresh
    BY MergeInvFacts DEF Away, MergeScope
  <1>2. wd = HeadTree /\ TreeOf(branch[Kitchen]) \in Versions /\ mergeHead = None /\ branch[Kitchen] # None
    BY <1>1 DEF MergeInv, RunInv, Directory, MergeRequired, Pure, Ground, MarkerInv, HasWork
  <1>3. MergeDir = MergeTree
    BY <1>1, <1>2, CleanMerge
  <1>4. /\ VersionOn[userOn] = HeadTree
        /\ MergedInto[userOn] = TreeOf(MergeBase(HeadCommit, branch[Kitchen]))
    BY <1>1, <1>2, VersionNow DEF HeadCommit
  <1>5. \A p \in Path : /\ Side(p).base = MergedInto[userOn][p]
                        /\ Side(p).ours = VersionOn[userOn][p]
                        /\ Side(p).theirs = TreeOf(branch[Kitchen])[p]
    BY <1>4 DEF Side
  <1>6. MergeTree = Promise!Merged(TreeOf(branch[Kitchen]))
    BY <1>5, SameFileMerge DEF MergeTree, Promise!Merged
  <1>7. MergeClashes # {} <=> Promise!Clashing(TreeOf(branch[Kitchen]))
    BY <1>5, SameFileMerge DEF MergeClashes, Promise!Clashing
  <1> QED BY <1>1, <1>2, <1>3, <1>6, <1>7 DEF Versions

LEMMA ConflictsAreRegenerate ==
  ASSUME MergeScope, MergeInv, Next, MergeConflicts
  PROVE  \E i \in Input : Promise!Regenerate(Output[i])
  <1>1. /\ pc = "merge" /\ MergeRequired /\ MergeClashes # {}
        /\ wd' = MergeDir /\ mergeHead' = branch[Kitchen]
        /\ UNCHANGED <<commits, branch, head, userOn>>
    BY DEF MergeConflicts
  <1>2. /\ MergeDir = MergeTree
        /\ MergeTree = Promise!Merged(TreeOf(branch[Kitchen]))
        /\ Promise!Clashing(TreeOf(branch[Kitchen]))
        /\ branch[Kitchen] # None /\ mergeHead = None /\ userOn = head /\ head \in UserBranch
    BY <1>1, MergeIsMerge
  <1>3. PICK i \in Input : TreeOf(branch[Kitchen]) = Output[i]
    BY <1>1, MergeIsMerge
  <1>4. VersionOn' = [VersionOn EXCEPT ![userOn] = Promise!Merged(Output[i])]
    BY <1>1, <1>2, <1>3, OneVersion
  <1>5. MergedInto' = MergedInto
    <2>1. TypeOK
      BY MergeInvFacts
    <2>2. \A x \in UserBranch : NextMerged(x) = MergedInto[x]
      BY <1>1, <2>1, UnmovedBase
    <2>3. MergedInto = [x \in UserBranch |-> MergedInto[x]]
      BY DEF MergedInto
    <2> QED BY <2>2, <2>3, MergedIntoNext
  <1>6. OpenMerge = Absent /\ OpenMerge' = Output[i]
    BY <1>1, <1>2, <1>3 DEF OpenMerge, TreeOf
  <1> QED BY <1>1, <1>2, <1>3, <1>4, <1>5, <1>6 DEF Promise!Regenerate

LEMMA MergeIsRegenerate ==
  ASSUME MergeScope, MergeInv, Next, Merge
  PROVE  \E i \in Input : Promise!Regenerate(Output[i])
  <1>1. /\ pc = "merge" /\ MergeRequired /\ MergeClashes = {}
        /\ wd' = MergeDir /\ WriteCommit(MergeTree, {HeadCommit, branch[Kitchen]})
        /\ UNCHANGED <<head, mergeHead, userOn>>
    BY DEF Merge
  <1>2. /\ MergeDir = MergeTree
        /\ MergeTree = Promise!Merged(TreeOf(branch[Kitchen]))
        /\ ~Promise!Clashing(TreeOf(branch[Kitchen]))
        /\ branch[Kitchen] # None /\ mergeHead = None /\ userOn = head /\ head \in UserBranch
    BY <1>1, MergeIsMerge
  <1>3. PICK i \in Input : TreeOf(branch[Kitchen]) = Output[i]
    BY <1>1, MergeIsMerge
  <1>4. /\ TypeOK /\ branch \in [Branch -> 0..Len(commits)] /\ UserBranch \subseteq Branch
        /\ Kitchen \in Branch /\ Kitchen \notin UserBranch
    BY MergeInvFacts
  <1>5. /\ branch'[Kitchen] = branch[Kitchen] /\ branch[Kitchen] \in Anc(branch[head])'
        /\ \A x \in UserBranch \ {head} : branch'[x] = branch[x]
    <2>1. head # Kitchen
      BY <1>2, <1>4
    <2>2. branch' = [branch EXCEPT ![head] = Len(commits) + 1]
      BY <1>1 DEF WriteCommit
    <2> QED BY <1>2, <1>4, <2>1, <2>2, MergeParents
  <1>6. VersionOn' = [VersionOn EXCEPT ![userOn] = Promise!Merged(Output[i])]
    BY <1>1, <1>2, <1>3, <1>5, OneVersion
  <1>7. MergedInto' = [MergedInto EXCEPT ![userOn] = Output[i]]
    <2>1. branch[Kitchen] \in 1..Len(commits)
      BY <1>2, <1>4 DEF None
    <2>2. branch[Kitchen] \in NextAnc(branch'[head])
      BY <1>1, <1>5 DEF Anc, NextAnc
    <2>3. NextMerged(head) = TreeOf(branch[Kitchen])
      BY <1>2, <1>4, <1>5, <2>1, <2>2, BaseMerged
    <2> QED BY <1>2, <1>3, <1>5, <2>3, OneBase
  <1>8. OpenMerge = Absent /\ OpenMerge' = Absent
    BY <1>1, <1>2 DEF OpenMerge
  <1> QED BY <1>1, <1>2, <1>3, <1>6, <1>7, <1>8 DEF Promise!Regenerate

-----------------------------------------------------------------------------
(* Runs are vendor merges. *)

LEMMA PromiseInit ==
  ASSUME MergeScope, Init
  PROVE  Promise!Init
  <1>1. /\ commits = <<>> /\ wd = EmptyTree /\ head = Trunk /\ userOn = Trunk /\ mergeHead = None
        /\ branch = [b \in Branch |-> IF b = Trunk THEN Len(commits) ELSE None]
    BY DEF Init, MergeScope, Fresh
  <1>2. \A x \in UserBranch \cup {Kitchen} : branch[x] = None
    BY <1>1, BranchAssumption DEF Branch, None
  <1>3. VersionOn = [x \in UserBranch |-> EmptyTree]
    BY <1>1, <1>2 DEF VersionOn, TreeOf
  <1>4. MergedInto = [x \in UserBranch |-> EmptyTree]
    BY <1>2 DEF MergedInto, MergeBase, Anc, TreeOf
  <1>5. OpenMerge = Absent
    BY <1>1 DEF OpenMerge
  <1> QED BY <1>1, <1>3, <1>4, <1>5 DEF Promise!Init, EmptyTree

LEMMA UserPromiseStep ==
  ASSUME MergeScope, MergeInv, Next, UserStep
  PROVE  Promise!Next \/ Stutters
  <1>1. ASSUME NEW p \in Path, NEW r \in Region, NEW v \in UserValue, UserEdit(p, r, v)
        PROVE  Promise!Next
    BY <1>1, EditIsEdit DEF Promise!Next
  <1>2. (\A p \in Path, v \in UserValue : ~UserCreate(p, v)) /\ (\A p \in Path : ~UserRemove(p)) /\ ~UserDetach
    BY DEF UserCreate, UserRemove, UserDetach, MergeScope, Fresh
  <1>3. CASE UserCommit
    <2>1. wd \in Tree
      BY MergeInvFacts
    <2>2. {HeadCommit} \in SUBSET {HeadCommit} /\ HeadCommit \in {HeadCommit}
      OBVIOUS
    <2> QED BY <1>3, <2>1, <2>2, CommitStutters DEF UserCommit
  <1>4. ASSUME NEW b \in UserBranch, UserSwitch(b) PROVE Promise!Next
    BY <1>4, SwitchIsSwitch DEF Promise!Next
  <1>5. ASSUME NEW v \in Value \ {Marker}, UserResolve(v) PROVE Promise!Next
    BY <1>5, ResolveIsResolve DEF Promise!Next
  <1>6. ASSUME NEW i \in Input, ChangeInput(i) PROVE Stutters
    BY <1>6, QuietStep DEF ChangeInput, repoVars
  <1> QED BY <1>1, <1>2, <1>3, <1>4, <1>5, <1>6 DEF UserStep

LEMMA PromiseStep ==
  ASSUME MergeScope, MergeInv, [Next]_vars
  PROVE  Promise!Next \/ Stutters
  <1>1. CASE UNCHANGED vars
    BY <1>1, QuietStep DEF vars, repoVars
  <1>2. CASE Next
    <2>1. OrderlyNext
      BY <1>2, MergeInvFacts, OrderlyStep DEF MergeInv
    <2>2. ~SwitchBackToDetached /\ "remove" \notin UserOps
      BY MergeInvFacts DEF SwitchBackToDetached, MergeScope
    <2>3. CASE UserStep
      BY <1>2, <2>3, UserPromiseStep
    <2>4. CASE MergeConflicts \/ Merge
      <3>1. \E i \in Input : Promise!Regenerate(Output[i])
        BY <1>2, <2>4, ConflictsAreRegenerate, MergeIsRegenerate
      <3> QED BY <3>1 DEF Promise!Next
    <2>5. CASE \/ Launch \/ Interrupt \/ FirstCommit \/ RefuseMerging \/ CommitWork
               \/ CreateKitchenBranch \/ CheckoutKitchen
               \/ Generate \/ RecordOutput \/ SwitchBack \/ AlreadyUpToDate
      BY <1>2, <2>5, RunStutters
    <2> QED BY <2>1, <2>2, <2>3, <2>4, <2>5 DEF OrderlyNext
  <1> QED BY <1>1, <1>2

(* The workflow implements the promise: while the user edits, commits,      *)
(* switches branches, resolves conflicts and changes the input, and nothing *)
(* fails, every merge of a run is one three-way merge of a version of the   *)
(* generated code into the branch he is on, and no other step of a run      *)
(* changes his version of the application on any branch.                    *)
THEOREM RunsImplementPromise ==
  ASSUME Undisturbed, Steady, Fresh, "remove" \notin UserOps, "detach" \notin UserOps
  PROVE  Spec => RunsAreVendorMerges
  <1>1. Scope /\ MergeScope
    BY DEF Scope, MergeScope
  <1>2. Init => Promise!Init
    BY <1>1, PromiseInit
  <1>3. Init => OpenInv
    BY DEF Init, OpenInv
  <1>4. ASSUME Ground, RunInv, NeverDetached, OpenInv, [Next]_vars
        PROVE  OpenInv'
    <2>1. CASE UNCHANGED vars
      BY <1>4, <2>1 DEF OpenInv, vars, repoVars
    <2> QED BY <1>1, <1>4, <2>1, OpenStep
  <1>5. ASSUME Ground, RunInv, NeverDetached, OpenInv, [Next]_vars
        PROVE  [Promise!Next]_(Promise!vars)
    <2>1. Promise!Next \/ Stutters
      BY <1>1, <1>5, PromiseStep DEF MergeInv
    <2> QED BY <2>1 DEF Stutters, Promise!vars
  <1>6. Spec => [](Ground /\ RunInv /\ NeverDetached)
    BY <1>1, NeverDetachedAlways
  <1> QED BY <1>2, <1>3, <1>4, <1>5, <1>6, PTL DEF Spec, RunsAreVendorMerges, Promise!Spec

=============================================================================
