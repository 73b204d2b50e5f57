------------------------------ MODULE KitchenGit ------------------------------
(***************************************************************************)
(* The git workflow of the command line generator (kitchen-cli/main.cpp    *)
(* with cppweb/cppw_git.cpp), one user and one output directory.           *)
(*                                                                         *)
(* Every run commits the user's work on the branch it finds, switches to   *)
(* the branch "meteor-kitchen", generates there, commits the output,       *)
(* switches back and merges "meteor-kitchen" into the user's branch.  In   *)
(* live mode the run then waits for the input to change and starts again.  *)
(* The user edits, commits, switches branches and resolves conflicts; the  *)
(* generator may fail half-way and the process may be killed.              *)
(*                                                                         *)
(* A file is a function from regions (the hunks a merge treats separately) *)
(* to values, or Absent.  A call into libgit2 is one step.  What else can   *)
(* happen between two calls of one operation commutes with the second call, *)
(* except a kill, so an operation is one action, and each of its prefixes   *)
(* that a kill can leave behind is another (KilledIn...).                   *)
(***************************************************************************)
EXTENDS Integers, Sequences, FileMerge

CONSTANTS
  Path,            \* paths in the output directory
  GenValue,        \* region contents the generator can write
  UserValue,       \* region contents only the user writes
  Input,           \* contents of the input file
  Output,          \* Output[i]: the tree the generator writes for input i
  Trunk,           \* the branch an empty repository starts on
  UserBranch,      \* the user's branches
  Kitchen,         \* "meteor-kitchen"
  Detached,        \* "HEAD", the shorthand of a detached HEAD
  Modes,           \* subset of {"once", "live"}
  UserOps,         \* what the user may do in the output directory
  StartWith,       \* subset of {"nothing", "application"}: initial repositories
  MayFail,         \* the generator may fail
  MayCrash,        \* the process may be killed
  EditsDuringRun,  \* the user may touch files while a run is in progress
  MaxCommits       \* bound on the number of commits

None == 0          \* no commit

Branch == UserBranch \cup {Kitchen, Detached}
Value  == GenValue \cup UserValue \cup {Marker}
File   == [Region -> Value]
Tree   == [Path -> File \cup {Absent}]
Commit == [tree : Tree, anc : SUBSET Nat]

ASSUME BranchAssumption ==
  /\ Trunk \in UserBranch
  /\ Kitchen \notin UserBranch /\ Detached \notin UserBranch /\ Kitchen # Detached

ASSUME ValueAssumption ==
  /\ GenValue \cap UserValue = {}
  /\ Marker \notin GenValue \cup UserValue
  /\ Absent \notin File \cup Tree

ASSUME OutputAssumption ==
  Output \in [Input -> [Path -> [Region -> GenValue] \cup {Absent}]]

ASSUME ModeAssumption ==
  /\ Modes \subseteq {"once", "live"}
  /\ StartWith \subseteq {"nothing", "application"}
  /\ UserOps \subseteq {"edit", "create", "remove", "commit", "switch", "detach"}
  /\ MayFail \in BOOLEAN /\ MayCrash \in BOOLEAN /\ EditsDuringRun \in BOOLEAN
  /\ MaxCommits \in Nat

VARIABLES
  commits,     \* commits[c] = [tree, anc]: its tree and its ancestors, itself included
  branch,      \* branch[b]: the commit b points to, None if there is no such branch
  head,        \* the branch HEAD names
  wd,          \* the working directory
  index,       \* the tree in git's index; conflict entries are in conflicted
  mergeHead,   \* MERGE_HEAD, None unless the repository is in the merging state
  conflicted,  \* paths with conflict entries in the index
  manifest,    \* the output_files listed in the .meteor-kitchen.json of the branch
               \* "meteor-kitchen" (only read and written while HEAD is there)
  input,       \* current content of the input file
  pc,          \* where the run is
  mode,        \* "once" or "live"
  original,    \* main's original_branch
  seen,        \* input whose checksum the live wait compares with
  before,      \* history: the working directory the iteration started from
  userOn,      \* history: the branch the user himself last put HEAD on
  result       \* history: how the last iteration ended

repoVars == <<commits, branch, head, wd, index, mergeHead, conflicted>>
runVars  == <<manifest, pc, mode, original, seen, before, result>>
vars == <<repoVars, runVars, input, userOn>>

-----------------------------------------------------------------------------
(* Trees and commits. *)

EmptyTree == [p \in Path |-> Absent]
TreeOf(c) == IF c = None THEN EmptyTree ELSE commits[c].tree
Anc(c)    == IF c = None THEN {} ELSE commits[c].anc

HeadCommit == branch[head]
HeadTree   == TreeOf(HeadCommit)
HasRoom(n) == Len(commits) + n =< MaxCommits

(* Mutant of WriteCommit: the commit is not among its own ancestors. *)
CommitOutsideItsHistory(tree, parents) ==
  /\ commits' = Append(commits, [tree |-> tree, anc |-> UNION {Anc(q) : q \in parents}])
  /\ branch' = [branch EXCEPT ![head] = Len(commits) + 1]

(* git_commit_create_v on "HEAD". *)
WriteCommit(tree, parents) ==
  LET new == Len(commits) + 1
  IN  /\ commits' = Append(commits, [tree |-> tree,
                                     anc  |-> {new} \cup UNION {Anc(q) : q \in parents}])
      /\ branch' = [branch EXCEPT ![head] = new]

(* What add_all_cb lets into the index: new and modified files.  A file     *)
(* that is missing from the working directory is skipped and stays tracked. *)
Staged == [p \in Path |-> IF wd[p] = Absent THEN index[p] ELSE wd[p]]

(* Mutant of GitAddAllAndCommit: HEAD's commit is not passed as the parent. *)
CommitWithoutParent == index' = Staged /\ WriteCommit(Staged, {})

GitAddAllAndCommit == index' = Staged /\ WriteCommit(Staged, {HeadCommit})

(* No entry in the status list: nothing staged, nothing to stage. *)
RepoIsClean == wd = HeadTree /\ index = HeadTree

(* GIT_CHECKOUT_SAFE of a tree over the current one, path by path: b is the *)
(* file in HEAD, t in the target, w in the working directory.               *)
CheckoutClash(b, t, w) ==
  /\ b # t
  /\ \/ b = Absent /\ w # Absent
     \/ b # Absent /\ t = Absent /\ w # Absent /\ w # b
     \/ b # Absent /\ t # Absent /\ w # b /\ w # t

CheckoutBlocked(target) == \E p \in Path : CheckoutClash(HeadTree[p], target[p], wd[p])

CheckedOut(target) == [p \in Path |-> IF HeadTree[p] = target[p] THEN wd[p] ELSE target[p]]

(* Leaving a detached HEAD forgets the commit it named: no ref holds it. *)
LeaveDetached(branches) == [branches EXCEPT ![Detached] = None]

(* Mutant of MergeBase: our own commit is taken for the base. *)
OursAsBase(o, t) == o

(* Mutant of MergeBase: the walk goes on to the first commit they share. *)
OldestAsBase(o, t) ==
  LET common == Anc(o) \cap Anc(t)
  IN  IF common = {} THEN None
      ELSE CHOOSE c \in common : \A d \in common : c =< d

(* The latest common ancestor.  libgit2 looks for one that has all others    *)
(* among its ancestors: see MergeBaseIsBest.                                 *)
MergeBase(o, t) ==
  LET common == Anc(o) \cap Anc(t)
  IN  IF common = {} THEN None
      ELSE CHOOSE c \in common : \A d \in common : d =< c

-----------------------------------------------------------------------------
(* The user. *)

Quiet == pc \in {"idle", "wait"}
MayTouchFiles == (Quiet \/ EditsDuringRun) /\ mergeHead = None

UserEdit(p, r, v) ==
  /\ MayTouchFiles /\ "edit" \in UserOps
  /\ wd[p] # Absent
  /\ wd' = [wd EXCEPT ![p] = [@ EXCEPT ![r] = v]]
  /\ UNCHANGED <<commits, branch, head, index, mergeHead, conflicted, runVars, input, userOn>>

UserCreate(p, v) ==
  /\ MayTouchFiles /\ "create" \in UserOps
  /\ wd[p] = Absent
  /\ wd' = [wd EXCEPT ![p] = [r \in Region |-> v]]
  /\ UNCHANGED <<commits, branch, head, index, mergeHead, conflicted, runVars, input, userOn>>

UserRemove(p) ==
  /\ MayTouchFiles /\ "remove" \in UserOps
  /\ wd[p] # Absent
  /\ wd' = [wd EXCEPT ![p] = Absent]
  /\ UNCHANGED <<commits, branch, head, index, mergeHead, conflicted, runVars, input, userOn>>

(* git add --all; git commit *)
UserCommit ==
  /\ Quiet /\ mergeHead = None /\ "commit" \in UserOps
  /\ HeadCommit # None /\ wd # HeadTree
  /\ HasRoom(1)
  /\ index' = wd /\ WriteCommit(wd, {HeadCommit})
  /\ UNCHANGED <<head, wd, mergeHead, conflicted, runVars, input, userOn>>

(* git checkout [-b] b, in a clean directory *)
UserSwitch(b) ==
  /\ Quiet /\ mergeHead = None /\ "switch" \in UserOps
  /\ b # head /\ HeadCommit # None /\ RepoIsClean
  /\ LET created == IF branch[b] = None THEN [branch EXCEPT ![b] = HeadCommit] ELSE branch
     IN  /\ branch' = IF head = Detached THEN LeaveDetached(created) ELSE created
         /\ wd' = TreeOf(created[b]) /\ index' = TreeOf(created[b])
  /\ head' = b /\ userOn' = b
  /\ UNCHANGED <<commits, mergeHead, conflicted, runVars, input>>

(* git checkout of the current commit by its id *)
UserDetach ==
  /\ Quiet /\ mergeHead = None /\ "detach" \in UserOps
  /\ head \in UserBranch /\ HeadCommit # None
  /\ branch' = [branch EXCEPT ![Detached] = HeadCommit]
  /\ head' = Detached /\ userOn' = Detached
  /\ UNCHANGED <<commits, wd, index, mergeHead, conflicted, runVars, input>>

(* "Please fix conflicts and run git commit" *)
UserResolve(v) ==
  /\ Quiet /\ mergeHead # None /\ HasRoom(1)
  /\ LET resolved == [p \in Path |-> IF p \in conflicted /\ wd[p] # Absent
                                     THEN [r \in Region |-> IF wd[p][r] = Marker THEN v ELSE wd[p][r]]
                                     ELSE wd[p]]
     IN  wd' = resolved /\ index' = resolved /\ WriteCommit(resolved, {HeadCommit, mergeHead})
  /\ mergeHead' = None /\ conflicted' = {}
  /\ UNCHANGED <<head, runVars, input, userOn>>

ChangeInput(i) ==
  /\ i # input
  /\ input' = i
  /\ UNCHANGED <<repoVars, runVars, userOn>>

-----------------------------------------------------------------------------
(* The run.  main() exits on an error; an iteration that ends normally is   *)
(* followed by the wait in live mode.                                       *)

Exit(outcome) == pc' = "idle" /\ result' = outcome /\ UNCHANGED seen

(* WaitForFileChange and /waitapp take the value to compare with when they  *)
(* are called.                                                              *)
EndIteration(outcome) ==
  /\ pc' = IF mode = "live" THEN "wait" ELSE "idle"
  /\ seen' = input
  /\ result' = outcome

Goto(label) == pc' = label /\ UNCHANGED <<seen, result>>

(* HEAD names the branch "HEAD", which has no commit (SwitchBackToDetached).  *)
(* The model follows the runs no further.                                     *)
Stranded == head = Detached /\ HeadCommit = None

(* Every iteration makes at most three commits. *)
Start(m) ==
  /\ pc = "idle" /\ ~Stranded /\ (HasRoom(3) \/ mergeHead # None)
  /\ mode' = m
  /\ Goto("commit")
  /\ UNCHANGED <<repoVars, manifest, original, before, input, userOn>>

LiveWake ==
  /\ pc = "wait" /\ ~Stranded /\ input # seen /\ HasRoom(3)
  /\ Goto("commit")
  /\ UNCHANGED <<repoVars, manifest, mode, original, before, input, userOn>>

Interrupt ==
  /\ pc = "wait"
  /\ Exit("interrupted")
  /\ UNCHANGED <<repoVars, manifest, mode, original, before, input, userOn>>

Crash ==
  /\ MayCrash /\ ~Quiet
  /\ Exit("killed")
  /\ UNCHANGED <<repoVars, manifest, mode, original, before, input, userOn>>

(* No current branch: everything goes into an initial commit, and the       *)
(* checks for uncommitted work and for a merge in progress are skipped.     *)
FirstCommit ==
  /\ pc = "commit" /\ HeadCommit = None
  /\ index' = Staged /\ WriteCommit(Staged, {})
  /\ original' = head /\ before' = wd
  /\ Goto("switch")
  /\ UNCHANGED <<head, wd, mergeHead, conflicted, manifest, mode, input, userOn>>

RefuseMerging ==
  /\ pc = "commit" /\ HeadCommit # None /\ mergeHead # None
  /\ original' = head
  /\ Exit("merging")
  /\ UNCHANGED <<repoVars, manifest, mode, before, input, userOn>>

(* Mutant of CommitWork: the merging state is not checked. *)
CommitWhileMerging ==
  /\ pc = "commit" /\ HeadCommit # None
  /\ original' = head /\ before' = wd
  /\ IF RepoIsClean THEN UNCHANGED <<commits, branch, index>> ELSE GitAddAllAndCommit
  /\ Goto("switch")
  /\ UNCHANGED <<head, wd, mergeHead, conflicted, manifest, mode, input, userOn>>

(* Mutant of CommitWork: the directory is taken to be clean. *)
SwitchUncommitted ==
  /\ pc = "commit" /\ HeadCommit # None /\ mergeHead = None
  /\ original' = head /\ before' = wd
  /\ Goto("switch")
  /\ UNCHANGED <<commits, branch, head, wd, index, mergeHead, conflicted, manifest, mode, input, userOn>>

CommitWork ==
  /\ pc = "commit" /\ HeadCommit # None /\ mergeHead = None
  /\ original' = head /\ before' = wd
  /\ IF RepoIsClean THEN UNCHANGED <<commits, branch, index>> ELSE GitAddAllAndCommit
  /\ Goto("switch")
  /\ UNCHANGED <<head, wd, mergeHead, conflicted, manifest, mode, input, userOn>>

StayOnKitchen ==
  /\ pc = "switch" /\ head = Kitchen
  /\ Goto("generate")
  /\ UNCHANGED <<repoVars, manifest, mode, original, before, input, userOn>>

CreateKitchenBranch ==
  /\ pc = "switch" /\ head # Kitchen /\ branch[Kitchen] = None
  /\ LET created == [branch EXCEPT ![Kitchen] = HeadCommit]
     IN  branch' = IF head = Detached THEN LeaveDetached(created) ELSE created
  /\ head' = Kitchen
  /\ Goto("generate")
  /\ UNCHANGED <<commits, wd, index, mergeHead, conflicted, manifest, mode, original, before, input,
                 userOn>>

CheckoutKitchen ==
  /\ pc = "switch" /\ head # Kitchen /\ branch[Kitchen] # None
  /\ ~CheckoutBlocked(TreeOf(branch[Kitchen]))
  /\ wd' = CheckedOut(TreeOf(branch[Kitchen])) /\ index' = TreeOf(branch[Kitchen])
  /\ branch' = IF head = Detached THEN LeaveDetached(branch) ELSE branch
  /\ head' = Kitchen
  /\ Goto("generate")
  /\ UNCHANGED <<commits, mergeHead, conflicted, manifest, mode, original, before, input, userOn>>

CheckoutKitchenFails ==
  /\ pc = "switch" /\ head # Kitchen /\ branch[Kitchen] # None
  /\ CheckoutBlocked(TreeOf(branch[Kitchen]))
  /\ Exit("checkoutFailed")
  /\ UNCHANGED <<repoVars, manifest, mode, original, before, input, userOn>>

-----------------------------------------------------------------------------
(* CWApplication::Generate, on the directory and the manifest in it. *)

Outputs(i) == {p \in Path : Output[i][p] # Absent}
Junk(i)    == manifest \ Outputs(i)

(* The directory once the files in written are saved and the old ones in    *)
(* removed are deleted.                                                     *)
Generated(written, removed) ==
  [p \in Path |-> IF p \in written THEN Output[input][p]
                  ELSE IF p \in removed THEN Absent ELSE wd[p]]

Generate ==
  /\ pc = "generate"
  /\ wd' = Generated(Outputs(input), Junk(input))
  /\ manifest' = Outputs(input)
  /\ Goto("record")
  /\ UNCHANGED <<commits, branch, head, index, mergeHead, conflicted, mode, original, before, input, userOn>>

(* The input does not parse, a file cannot be written (part of them are),   *)
(* or, after all are written and the manifest is saved, a junk file cannot  *)
(* be deleted.  main() exits unless it is in live mode; either way HEAD and *)
(* the directory are left as they are.                                      *)
GenerateFails(written, removed) ==
  /\ MayFail /\ pc = "generate"
  /\ written \subseteq Outputs(input) /\ removed \subseteq Junk(input)
  /\ written # Outputs(input) => removed = {}
  /\ wd' = Generated(written, removed)
  /\ \/ removed = {} /\ manifest' = manifest
     \/ written = Outputs(input) /\ manifest' = Outputs(input)
  /\ EndIteration("failed")
  /\ UNCHANGED <<commits, branch, head, index, mergeHead, conflicted, mode, original, before, input, userOn>>

(* Mutant of RecordOutput: the output is left uncommitted. *)
OutputNotRecorded ==
  /\ pc = "record"
  /\ Goto("back")
  /\ UNCHANGED <<repoVars, manifest, mode, original, before, input, userOn>>

RecordOutput ==
  /\ pc = "record"
  /\ IF RepoIsClean THEN UNCHANGED <<commits, branch, index>> ELSE GitAddAllAndCommit
  /\ Goto("back")
  /\ UNCHANGED <<head, wd, mergeHead, conflicted, manifest, mode, original, before, input, userOn>>

(* The run began on "meteor-kitchen": no switch, no merge. *)
EndOnKitchen ==
  /\ pc = "back" /\ original = Kitchen
  /\ EndIteration("done")
  /\ UNCHANGED <<repoVars, manifest, mode, original, before, input, userOn>>

(* Mutant of SwitchBack: the files are checked out and HEAD is not set. *)
CheckoutWithoutHead ==
  /\ pc = "back" /\ original \in UserBranch
  /\ ~CheckoutBlocked(TreeOf(branch[original]))
  /\ wd' = CheckedOut(TreeOf(branch[original])) /\ index' = TreeOf(branch[original])
  /\ Goto("merge")
  /\ UNCHANGED <<commits, branch, head, mergeHead, conflicted, manifest, mode, original, before,
                 input, userOn>>

SwitchBack ==
  /\ pc = "back" /\ original \in UserBranch
  /\ ~CheckoutBlocked(TreeOf(branch[original]))
  /\ wd' = CheckedOut(TreeOf(branch[original])) /\ index' = TreeOf(branch[original])
  /\ head' = original
  /\ Goto("merge")
  /\ UNCHANGED <<commits, branch, mergeHead, conflicted, manifest, mode, original, before, input, userOn>>

SwitchBackFails ==
  /\ pc = "back" /\ original \in UserBranch
  /\ CheckoutBlocked(TreeOf(branch[original]))
  /\ Exit("checkoutFailed")
  /\ UNCHANGED <<repoVars, manifest, mode, original, before, input, userOn>>

(* "HEAD" names the commit just made, so its checkout changes nothing, and  *)
(* HEAD is then set to refs/heads/HEAD, a branch that does not exist.       *)
SwitchBackToDetached ==
  /\ pc = "back" /\ original = Detached
  /\ head' = Detached
  /\ Goto("merge")
  /\ UNCHANGED <<commits, branch, wd, index, mergeHead, conflicted, manifest, mode, original, before,
                 input, userOn>>

-----------------------------------------------------------------------------
(* GitIsMergeRequired and GitMerge of "meteor-kitchen" into HEAD. *)

(* Mutant of MergeRequired: the two branches are swapped. *)
KitchenIsBehind == HeadCommit # None /\ HeadCommit \notin Anc(branch[Kitchen])

MergeRequired ==
  HeadCommit # None /\ branch[Kitchen] \notin Anc(HeadCommit)

Side(p) == [base   |-> TreeOf(MergeBase(HeadCommit, branch[Kitchen]))[p],
            ours   |-> HeadTree[p],
            theirs |-> TreeOf(branch[Kitchen])[p]]

MergeClashes == {p \in Path : LET s == Side(p) IN FileClash(s.base, s.ours, s.theirs)}
MergeTree    == [p \in Path |-> LET s == Side(p) IN MergedFile(s.base, s.ours, s.theirs)]
MergePaths   == MergeClashes \cup {p \in Path : MergeTree[p] # HeadTree[p]}

(* git_merge refuses to touch a path whose file differs from the index. *)
MergeBlocked == \E p \in MergePaths : wd[p] # HeadTree[p]

(* A path in conflict has the entries of the three sides; the entry it has  *)
(* here is not read before the user resolves the conflict.                  *)
MergeIndex == [p \in Path |-> IF p \in MergeClashes THEN HeadTree[p] ELSE MergeTree[p]]

MergeDir == [p \in Path |-> IF p \in MergePaths THEN MergeTree[p] ELSE wd[p]]

AlreadyUpToDate ==
  /\ pc = "merge" /\ ~MergeRequired
  /\ EndIteration("done")
  /\ UNCHANGED <<repoVars, manifest, mode, original, before, input, userOn>>

MergeFails ==
  /\ pc = "merge" /\ MergeRequired /\ MergeBlocked
  /\ Exit("mergeFailed")
  /\ UNCHANGED <<repoVars, manifest, mode, original, before, input, userOn>>

MergeConflicts ==
  /\ pc = "merge" /\ MergeRequired /\ ~MergeBlocked /\ MergeClashes # {}
  /\ wd' = MergeDir
  /\ index' = MergeIndex
  /\ mergeHead' = branch[Kitchen] /\ conflicted' = MergeClashes
  /\ Exit("conflicts")
  /\ UNCHANGED <<commits, branch, head, manifest, mode, original, before, input, userOn>>

(* Mutants of Merge: one of the two parents is missing. *)
MergeWithoutOurs ==
  /\ pc = "merge" /\ MergeRequired /\ ~MergeBlocked /\ MergeClashes = {}
  /\ wd' = MergeDir /\ index' = MergeTree
  /\ WriteCommit(MergeTree, {branch[Kitchen]})
  /\ EndIteration("done")
  /\ UNCHANGED <<head, mergeHead, conflicted, manifest, mode, original, before, input, userOn>>

MergeWithoutTheirs ==
  /\ pc = "merge" /\ MergeRequired /\ ~MergeBlocked /\ MergeClashes = {}
  /\ wd' = MergeDir /\ index' = MergeTree
  /\ WriteCommit(MergeTree, {HeadCommit})
  /\ EndIteration("done")
  /\ UNCHANGED <<head, mergeHead, conflicted, manifest, mode, original, before, input, userOn>>

Merge ==
  /\ pc = "merge" /\ MergeRequired /\ ~MergeBlocked /\ MergeClashes = {}
  /\ wd' = MergeDir /\ index' = MergeTree
  /\ WriteCommit(MergeTree, {HeadCommit, branch[Kitchen]})
  /\ EndIteration("done")
  /\ UNCHANGED <<head, mergeHead, conflicted, manifest, mode, original, before, input, userOn>>

-----------------------------------------------------------------------------
(* The process is killed between two calls of one operation. *)

Die == MayCrash /\ Exit("killed")

(* GitAddAllAndCommit: the index is written, the commit is not made. *)
KilledInCommit ==
  /\ \/ pc = "commit" /\ (HeadCommit = None \/ mergeHead = None)
     \/ pc = "record"
  /\ ~RepoIsClean
  /\ index' = Staged
  /\ Die
  /\ UNCHANGED <<commits, branch, head, wd, mergeHead, conflicted, manifest, mode, original, before,
                 input, userOn>>

(* GitCreateBranch: the branch is there, HEAD is not on it. *)
KilledInCreateBranch ==
  /\ pc = "switch" /\ head # Kitchen /\ branch[Kitchen] = None
  /\ branch' = [branch EXCEPT ![Kitchen] = HeadCommit]
  /\ Die
  /\ UNCHANGED <<commits, head, wd, index, mergeHead, conflicted, manifest, mode, original, before,
                 input, userOn>>

(* GitCheckout of b: its files are in the directory and the index, HEAD is  *)
(* where it was.                                                            *)
KilledInCheckout(b) ==
  /\ \/ pc = "switch" /\ head # Kitchen /\ b = Kitchen /\ branch[b] # None
     \/ pc = "back" /\ b = original /\ b \in UserBranch
  /\ ~CheckoutBlocked(TreeOf(branch[b]))
  /\ wd' = CheckedOut(TreeOf(branch[b])) /\ index' = TreeOf(branch[b])
  /\ Die
  /\ UNCHANGED <<commits, branch, head, mergeHead, conflicted, manifest, mode, original, before,
                 input, userOn>>

(* GitMerge, after git_merge: the repository is left in the merging state,  *)
(* with or without conflicts.                                               *)
KilledInMerge ==
  /\ pc = "merge" /\ MergeRequired /\ ~MergeBlocked
  /\ wd' = MergeDir /\ index' = MergeIndex
  /\ mergeHead' = branch[Kitchen] /\ conflicted' = MergeClashes
  /\ Die
  /\ UNCHANGED <<commits, branch, head, manifest, mode, original, before, input, userOn>>

(* GitMerge, after the commit: the merging state is not cleaned up. *)
KilledInCleanup ==
  /\ pc = "merge" /\ MergeRequired /\ ~MergeBlocked /\ MergeClashes = {}
  /\ wd' = MergeDir /\ index' = MergeTree
  /\ WriteCommit(MergeTree, {HeadCommit, branch[Kitchen]})
  /\ mergeHead' = branch[Kitchen]
  /\ Die
  /\ UNCHANGED <<head, conflicted, manifest, mode, original, before, input, userOn>>

-----------------------------------------------------------------------------

(* An empty directory, or an application the user keeps in git that was     *)
(* generated before (without git, or whose "meteor-kitchen" branch was not  *)
(* cloned) and that he has since modified.                                  *)
Init ==
  /\ input \in Input
  /\ \/ /\ "nothing" \in StartWith
        /\ commits = <<>> /\ wd = EmptyTree /\ manifest = {}
     \/ /\ "application" \in StartWith
        /\ \E i \in Input : \E p \in Outputs(i), r \in Region, v \in UserValue :
             wd = [Output[i] EXCEPT ![p] = [@ EXCEPT ![r] = v]] /\ manifest = Outputs(i)
        /\ commits = <<[tree |-> wd, anc |-> {1}]>>
  /\ branch = [b \in Branch |-> IF b = Trunk THEN Len(commits) ELSE None]
  /\ index = wd
  /\ head = Trunk /\ userOn = Trunk /\ original = Trunk
  /\ mergeHead = None /\ conflicted = {}
  /\ pc = "idle" /\ mode = "once" /\ seen = input /\ result = "none"
  /\ before = wd

UserStep ==
  \/ \E p \in Path, r \in Region, v \in UserValue : UserEdit(p, r, v)
  \/ \E p \in Path, v \in UserValue : UserCreate(p, v)
  \/ \E p \in Path : UserRemove(p)
  \/ UserCommit
  \/ \E b \in UserBranch : UserSwitch(b)
  \/ UserDetach
  \/ \E v \in Value \ {Marker} : UserResolve(v)
  \/ \E i \in Input : ChangeInput(i)

Launch == (\E m \in Modes : Start(m)) \/ LiveWake

GitBefore ==
  \/ FirstCommit \/ RefuseMerging \/ CommitWork
  \/ StayOnKitchen \/ CreateKitchenBranch \/ CheckoutKitchen \/ CheckoutKitchenFails

GenerateStep ==
  \/ Generate
  \/ \E written, removed \in SUBSET Path : GenerateFails(written, removed)

GitAfter ==
  \/ RecordOutput \/ EndOnKitchen \/ SwitchBack \/ SwitchBackFails \/ SwitchBackToDetached
  \/ AlreadyUpToDate \/ MergeFails \/ MergeConflicts \/ Merge

KilledBetweenCalls ==
  \/ KilledInCommit \/ KilledInCreateBranch \/ KilledInMerge \/ KilledInCleanup
  \/ \E b \in Branch : KilledInCheckout(b)

Next ==
  \/ UserStep \/ Launch \/ Interrupt
  \/ GitBefore \/ GenerateStep \/ GitAfter
  \/ Crash \/ KilledBetweenCalls

Spec == Init /\ [][Next]_vars

-----------------------------------------------------------------------------
(* Properties. *)

PC == {"idle", "commit", "switch", "generate", "record", "back", "merge", "wait"}
Outcome == {"none", "done", "failed", "killed", "interrupted", "merging",
            "checkoutFailed", "mergeFailed", "conflicts"}

CommitsOK ==
  /\ commits \in Seq(Commit)
  /\ \A c \in 1..Len(commits) : c \in commits[c].anc /\ commits[c].anc \subseteq 1..c

RefsOK ==
  /\ branch \in [Branch -> 0..Len(commits)]
  /\ head \in Branch /\ original \in Branch /\ userOn \in Branch
  /\ mergeHead \in 0..Len(commits)

RunOK ==
  /\ wd \in Tree /\ index \in Tree /\ before \in Tree
  /\ conflicted \in SUBSET Path /\ manifest \in SUBSET Path
  /\ input \in Input /\ seen \in Input
  /\ pc \in PC /\ mode \in {"once", "live"} /\ result \in Outcome

(* Every variable has its type; a commit is its own ancestor, and the       *)
(* others were made before it.                                              *)
TypeOK == CommitsOK /\ RefsOK /\ RunOK

(* Nothing that was ever committed is lost: each commit, the user's or a    *)
(* run's, can be reached from a branch, whatever fails and wherever a run   *)
(* is killed.                                                               *)
Reachable == UNION {Anc(branch[x]) : x \in Branch}
CommitsStayReachable == 1..Len(commits) \subseteq Reachable

(* The same where HEAD may be detached: only leaving a detached HEAD loses  *)
(* commits.                                                                 *)
OnlyDetachedHeadLosesCommits ==
  [][1..Len(commits) \subseteq Reachable /\ head # Detached
       => (1..Len(commits) \subseteq Reachable)']_vars

(* Conflict markers left by a merge never get into a commit: a run that     *)
(* finds the repository in the merging state must not commit the directory. *)
NoMarkersCommitted ==
  \A c \in 1..Len(commits), p \in Path, r \in Region :
    commits[c].tree[p] # Absent => commits[c].tree[p][r] # Marker

(* When the generator starts to overwrite files, each file in the directory *)
(* is in the commit HEAD names, so what it overwrites can be recovered.     *)
OverwritesOnlyCommitted ==
  pc = "generate" => \A p \in Path : wd[p] # Absent => wd[p] = HeadTree[p]

(* The branch "meteor-kitchen" holds what the generator wrote and nothing   *)
(* the user did, which is what makes it the right merge base.               *)
KitchenBranchPristine ==
  \A c \in Anc(branch[Kitchen]), p \in Path, r \in Region :
    commits[c].tree[p] # Absent => commits[c].tree[p][r] \notin UserValue

(* No run is stopped by git: the checkouts and the merge find no file in    *)
(* their way.                                                               *)
GitStepsSucceed == result \notin {"checkoutFailed", "mergeFailed"}

IterationDone == pc \in {"back", "merge"} /\ pc' \in {"idle", "wait"} /\ result' = "done"

(* "You can manually modify generated source code and run generator again - *)
(* your manual modifications will remain": what the user had written before *)
(* a run is in the directory when the run ends well.                        *)
ManualModificationsRemain ==
  [][IterationDone =>
       \A p \in Path, r \in Region :
         before[p] # Absent /\ before[p][r] \in UserValue
           => wd'[p] # Absent /\ wd'[p][r] = before[p][r]]_vars

(* A run that ends well leaves HEAD on the branch the user was on, with the *)
(* generated code merged into it.                                           *)
EndsMergedOnUserBranch ==
  [][IterationDone => head' = userOn /\ branch'[Kitchen] \in Anc(branch[head])']_vars

(* A branch moves only to a commit that has its old one as an ancestor.     *)
BranchesOnlyAdvance ==
  [][\A x \in UserBranch \cup {Kitchen} :
       branch[x] # None => branch[x] \in Anc(branch[x])']_vars

(* git_merge_base finds one best common ancestor of any branch and          *)
(* "meteor-kitchen", however runs and merges on several branches have       *)
(* crossed: no merge has two bases to choose from.                          *)
MergeBaseIsBest ==
  \A x \in Branch :
    LET common == Anc(branch[x]) \cap Anc(branch[Kitchen])
        base   == MergeBase(branch[x], branch[Kitchen])
    IN  common # {} => base \in common /\ common \subseteq Anc(base)

-----------------------------------------------------------------------------
(* What the runs mean to the user. *)

(* His version on a branch is the directory while HEAD is on it, and the     *)
(* branch's tip otherwise.                                                   *)
VersionOn == [x \in UserBranch |-> IF head = x THEN wd ELSE TreeOf(branch[x])]

(* What was last merged into a branch is its merge base with the branch      *)
(* "meteor-kitchen".                                                         *)
MergedInto == [x \in UserBranch |-> TreeOf(MergeBase(branch[x], branch[Kitchen]))]

OpenMerge == IF mergeHead = None THEN Absent ELSE TreeOf(mergeHead)

Promise == INSTANCE VendorMerge WITH
  tree <- VersionOn, base <- MergedInto, current <- userOn, pending <- OpenMerge, NoMerge <- Absent

(* Each run is one three-way merge of the generated code into the user's    *)
(* branch, with the code generated for the last merge as its base: nothing  *)
(* of the switching and committing in between shows in the result.          *)
RunsAreVendorMerges == Promise!Spec

=============================================================================
