---------------------------- MODULE CommunityProofs ----------------------------
(* Theorems about Community, for every value of its constants. *)
EXTENDS Community, FiniteSetTheorems, TLAPS

\* What a fiber at each place has read.
Born(i) == IF i \in Apps THEN app[i].status # "unborn" ELSE job[i].status # "unborn"

FiberOK(s) ==
    /\ pc[s] \in {"findStar", "star"} => arg[s] \in Items /\ Born(arg[s])
    /\ pc[s] = "insertApp" => /\ arg[s] \in AppDocs
                              /\ arg[s].status = "live"
                              /\ arg[s].forkOf # NoApp => Born(arg[s].forkOf)
    /\ pc[s] = "setSlug" => arg[s] \in [app : Apps, slug : Slugs]
    /\ pc[s] = "flipPublic" => arg[s] \in [app : Apps, public : BOOLEAN]
    /\ pc[s] = "store" => arg[s] \in Nat /\ Head(todo[s]) \in Counters
    /\ pc[s] = "remove" =>
         /\ Head(todo[s]) \in StarSelectors => arg[s] \subseteq StarDocs /\ IsFiniteSet(arg[s])
         /\ Head(todo[s]) \in AppSelectors => arg[s] \subseteq AppRefs /\ IsFiniteSet(arg[s])
         /\ Head(todo[s]) \in JobSelectors => arg[s] \subseteq Jobs
    /\ pc[s] \in {"work", "remove", "store"} <=> todo[s] # <<>>

Documents ==
    /\ users \subseteq Users
    /\ app \in [Apps -> AppDocs]
    /\ job \in [Jobs -> [status : Statuses, owner : Users]]
    /\ stars \subseteq StarDocs /\ IsFiniteSet(stars)
    /\ count \in [Counters -> Nat]
    /\ \A x \in stars : Born(x.item)
    /\ \A a \in Apps : app[a].forkOf # NoApp => Born(app[a].forkOf)

FibersOK ==
    /\ pc \in [Sessions -> Fibers]
    /\ todo \in [Sessions -> Seq(Chores)]
    /\ arg = [s \in Sessions |-> arg[s]]
    /\ \A s \in Sessions : FiberOK(s)

\* The stars that calls in progress may still insert have their numbers.
MayStar == {s \in Sessions : pc[s] \in {"findStar", "star"}}
RoomForStars == nextStar \in Nat \ {0} /\ nextStar + Cardinality(MayStar) <= MaxStars + 1

Books ==
    /\ calls \in 0 .. MaxCalls
    /\ restarts \in 0 .. MaxRestarts
    /\ stale \subseteq Sessions
    /\ raced \subseteq Counters
    /\ starRace \subseteq Users \X Items
    /\ slugRace \subseteq Slugs
    /\ cleanRemovals \subseteq Users

Well == Documents /\ FibersOK /\ RoomForStars /\ Books

-----------------------------------------------------------------------------
(* Work, and what it owes.                                                 *)

LEMMA ChoreType ==
  ASSUME NEW w \in Chores
  PROVE  /\ w[1] = "appRemoved" => w[2] \in AppRefs
         /\ w \in StarSelectors \cup AppSelectors \cup JobSelectors \cup UserSelectors
               => w \notin Counters /\ w[1] # "appRemoved"
         /\ w \in Counters => w[1] # "appRemoved"
         /\ w \in UserSelectors => w[2] \in Users
  BY DEF Counters, Chores, StarSelectors, AppSelectors, JobSelectors, UserSelectors

\* What the hooks need of an application.
LEMMA DocTypes ==
  /\ \A d \in AppDocs : d.owner \in Users /\ d.forkOf \in Apps \cup {NoApp}
  /\ \A d \in AppRefs : d.owner \in Users /\ d.forkOf \in Apps \cup {NoApp} /\ d.id \in Apps
  BY DEF AppDocs, AppRefs

LEMMA SelectorTypes ==
  /\ \A i \in Items : <<"starsOf", i>> \in StarSelectors
  /\ \A x \in StarDocs : <<"star", x>> \in StarSelectors
  /\ \A a \in Apps : <<"app", a>> \in AppSelectors
  /\ \A j \in Jobs : <<"job", j>> \in JobSelectors
  /\ \A u \in Users : /\ <<"starsBy", u>> \in StarSelectors
                      /\ <<"appsBy", u>> \in AppSelectors
                      /\ <<"jobsBy", u>> \in JobSelectors
                      /\ <<"user", u>> \in UserSelectors
  /\ StarSelectors \cup AppSelectors \cup JobSelectors \cup UserSelectors \subseteq Chores
  BY DEF Chores, StarSelectors, AppSelectors, JobSelectors, UserSelectors

LEMMA CountersOfType ==
  ASSUME NEW d, d.owner \in Users, d.forkOf \in Apps \cup {NoApp}
  PROVE  CountersOf(d) \subseteq Counters
  BY DEF CountersOf, Counters

LEMMA OwedType ==
  ASSUME NEW w \in Chores
  PROVE  Owed(w) \subseteq Counters
  BY ChoreType, DocTypes, CountersOfType DEF Owed

LEMMA SelectorsOweNothing ==
  ASSUME NEW w \in StarSelectors \cup AppSelectors \cup JobSelectors \cup UserSelectors
  PROVE  Owed(w) = {} /\ w \in Chores
  BY SelectorTypes, ChoreType DEF Owed

LEMMA OwedByType ==
  ASSUME NEW q \in Seq(Chores)
  PROVE  OwedBy(q) \subseteq Counters
  BY OwedType DEF OwedBy

LEMMA RecountsType ==
  ASSUME NEW d, d.owner \in Users, d.forkOf \in Apps \cup {NoApp}
  PROVE  Recounts(d) \in Seq(Chores)
  <1>1. d.forkOf # NoApp => <<"forks", d.forkOf>> \in Chores
    BY DEF Counters, Chores
  <1>2. <<"public", d.owner>> \in Chores
    BY DEF Counters, Chores
  <1> QED BY <1>1, <1>2 DEF Recounts

LEMMA AfterAppRemoveType ==
  ASSUME NEW d \in AppRefs
  PROVE  AfterAppRemove(d) \in Seq(Chores)
  <1>1. <<"starsOf", d.id>> \in Chores
    BY DocTypes, SelectorTypes DEF Items
  <1> QED BY <1>1, DocTypes, RecountsType DEF AfterAppRemove

LEMMA OwedByConcat ==
  ASSUME NEW p \in Seq(Chores), NEW q \in Seq(Chores)
  PROVE  OwedBy(p \o q) = OwedBy(p) \cup OwedBy(q)
  <1>1. \A i \in DOMAIN (p \o q) : (p \o q)[i] = IF i <= Len(p) THEN p[i] ELSE q[i - Len(p)]
    OBVIOUS
  <1>2. ASSUME NEW c \in OwedBy(p \o q) PROVE c \in OwedBy(p) \cup OwedBy(q)
    BY <1>1 DEF OwedBy
  <1>3. ASSUME NEW c \in OwedBy(p) PROVE c \in OwedBy(p \o q)
    BY <1>1 DEF OwedBy
  <1>4. ASSUME NEW c \in OwedBy(q) PROVE c \in OwedBy(p \o q)
    <2>1. PICK i \in DOMAIN q : c \in Owed(q[i])
      BY <1>4 DEF OwedBy
    <2>2. i + Len(p) \in DOMAIN (p \o q) /\ (p \o q)[i + Len(p)] = q[i]
      OBVIOUS
    <2> QED BY <2>1, <2>2 DEF OwedBy
  <1> QED BY <1>2, <1>3, <1>4

LEMMA OwedByHead ==
  ASSUME NEW q \in Seq(Chores), q # <<>>
  PROVE  OwedBy(q) = Owed(Head(q)) \cup OwedBy(Tail(q))
  <1>1. Len(q) \in Nat \ {0} /\ Head(q) = q[1] /\ DOMAIN q = 1 .. Len(q)
        /\ DOMAIN Tail(q) = 1 .. (Len(q) - 1) /\ \A i \in 1 .. (Len(q) - 1) : Tail(q)[i] = q[i + 1]
    OBVIOUS
  <1>2. ASSUME NEW c \in OwedBy(q) PROVE c \in Owed(Head(q)) \cup OwedBy(Tail(q))
    <2>1. PICK i \in 1 .. Len(q) : c \in Owed(q[i])
      BY <1>1, <1>2 DEF OwedBy
    <2>2. i # 1 => i - 1 \in DOMAIN Tail(q) /\ Tail(q)[i - 1] = q[i]
      BY <1>1
    <2> QED BY <1>1, <2>1, <2>2 DEF OwedBy
  <1>3. ASSUME NEW c \in OwedBy(Tail(q)) PROVE c \in OwedBy(q)
    BY <1>1, <1>3 DEF OwedBy
  <1>4. Owed(Head(q)) \subseteq OwedBy(q)
    BY <1>1 DEF OwedBy
  <1> QED BY <1>2, <1>3, <1>4

LEMMA OwedByRecounts ==
  ASSUME NEW d, d.owner \in Users, d.forkOf \in Apps \cup {NoApp}
  PROVE  OwedBy(Recounts(d)) = CountersOf(d)
  <1>1. <<"public", d.owner>> \in Counters
    BY DEF Counters
  <1>2. CASE d.forkOf = NoApp
    <2>1. Recounts(d) = << <<"public", d.owner>> >>
      BY <1>2 DEF Recounts
    <2> QED BY <1>1, <1>2, <2>1 DEF OwedBy, Owed, CountersOf
  <1>3. CASE d.forkOf # NoApp
    <2>1. <<"forks", d.forkOf>> \in Counters
      BY <1>3 DEF Counters
    <2>2. \A c \in Counters : <<c>> \in Seq(Chores) /\ OwedBy(<<c>>) = {c}
      BY DEF OwedBy, Owed, Chores
    <2>3. OwedBy(Recounts(d)) = OwedBy(<< <<"forks", d.forkOf>> >>) \cup OwedBy(<< <<"public", d.owner>> >>)
      BY <1>1, <1>3, <2>1, <2>2, OwedByConcat DEF Recounts
    <2> QED BY <1>1, <1>3, <2>1, <2>2, <2>3 DEF CountersOf
  <1> QED BY <1>2, <1>3

-----------------------------------------------------------------------------
(* Every variable keeps its type.                                          *)

LEMMA BlankType == Blank \in AppDocs /\ Gone \in AppDocs /\ Blank.status = "unborn"
                   /\ Gone.status = "gone" /\ Blank.forkOf = NoApp /\ Gone.forkOf = NoApp
  BY CommunityAssumption DEF Blank, Gone, AppDocs, Statuses

LEMMA InitWell == Init => Well
  <1> SUFFICES ASSUME Init PROVE Well
    OBVIOUS
  <1> DEFINE First(a) == [Blank EXCEPT !.status = "live", !.slug = FirstSlug[a]]
  <1>0. /\ users = Users /\ stars = {} /\ nextStar = 1 /\ calls = 0 /\ restarts = 0
        /\ job = [j \in Jobs |-> [status |-> "unborn", owner |-> Blank.owner]]
        /\ count = [c \in Counters |-> 0]
        /\ pc = [s \in Sessions |-> "idle"]
        /\ arg = [s \in Sessions |-> NoApp]
        /\ todo = [s \in Sessions |-> <<>>]
        /\ stale = {} /\ raced = {} /\ starRace = {} /\ slugRace = {} /\ cleanRemovals = {}
    BY DEF Init
  <1>1. app \in [Apps -> AppDocs] /\ \A a \in Apps : app[a].forkOf = NoApp
    <2>1. \A a \in DOMAIN FirstSlug : First(a) \in AppDocs /\ First(a).forkOf = NoApp
      BY BlankType, CommunityAssumption DEF AppDocs, Statuses
    <2>2. app = [a \in Apps |-> IF a \in DOMAIN FirstSlug THEN First(a) ELSE Blank]
      BY DEF Init
    <2> QED BY <2>1, <2>2, BlankType
  <1>2. Documents
    <2>1. Blank.owner \in Users
      BY BlankType DEF AppDocs
    <2> QED BY <1>0, <1>1, <2>1, FS_EmptySet DEF Documents, Statuses
  <1>3. FibersOK
    BY <1>0 DEF FibersOK, FiberOK, Fibers
  <1>4. RoomForStars
    <2>1. MayStar = {} /\ Cardinality({}) = 0
      BY <1>0, FS_EmptySet DEF MayStar
    <2> QED BY <1>0, <2>1, CommunityAssumption DEF RoomForStars
  <1>5. Books
    BY <1>0, CommunityAssumption DEF Books
  <1> QED BY <1>2, <1>3, <1>4, <1>5 DEF Well

\* No item's birth is undone.
Grows == \A i \in Items : Born(i) => Born(i)'

LEMMA FiberKept ==
  ASSUME NEW t, FiberOK(t), Grows, pc'[t] = pc[t], arg'[t] = arg[t], todo'[t] = todo[t]
  PROVE  FiberOK(t)'
  BY DEF FiberOK, Grows, Items, AppDocs

LEMMA ContinueOK ==
  ASSUME FibersOK, Grows, NEW s \in Sessions, NEW w \in Seq(Chores), Continue(s, w)
  PROVE  FibersOK' /\ MayStar' \subseteq MayStar
  <1>1. pc' \in [Sessions -> Fibers] /\ todo' \in [Sessions -> Seq(Chores)]
        /\ arg' = [t \in Sessions |-> arg'[t]]
    BY DEF FibersOK, Continue, Fibers
  <1>2. pc'[s] = (IF w = <<>> THEN "idle" ELSE "work") /\ todo'[s] = w
    BY DEF FibersOK, Continue
  <1>3. FiberOK(s)'
    BY <1>2 DEF FiberOK
  <1>4. \A t \in Sessions \ {s} : pc'[t] = pc[t] /\ arg'[t] = arg[t] /\ todo'[t] = todo[t]
    BY DEF FibersOK, Continue
  <1>5. \A t \in Sessions : FiberOK(t)'
    BY <1>3, <1>4, FiberKept DEF FibersOK
  <1>6. MayStar' \subseteq MayStar
    BY <1>2, <1>4 DEF MayStar
  <1> QED BY <1>1, <1>5, <1>6 DEF FibersOK

LEMMA GotoOK ==
  ASSUME FibersOK, Grows, NEW s \in Sessions, NEW label \in Fibers, NEW v, Goto(s, label, v),
         todo' = todo, pc'[s] = label /\ arg'[s] = v => FiberOK(s)'
  PROVE  /\ FibersOK' /\ pc'[s] = label /\ arg'[s] = v
         /\ \A t \in Sessions \ {s} : pc'[t] = pc[t] /\ arg'[t] = arg[t]
  <1>1. pc' \in [Sessions -> Fibers] /\ arg' = [t \in Sessions |-> arg'[t]]
    BY DEF FibersOK, Goto
  <1>2. pc'[s] = label /\ arg'[s] = v
        /\ \A t \in Sessions \ {s} : pc'[t] = pc[t] /\ arg'[t] = arg[t]
    BY DEF FibersOK, Goto
  <1>3. \A t \in Sessions : FiberOK(t)'
    BY <1>2, FiberKept DEF FibersOK
  <1> QED BY <1>1, <1>2, <1>3 DEF FibersOK

LEMMA RoomKept ==
  ASSUME RoomForStars, MayStar' \subseteq MayStar, nextStar' = nextStar
  PROVE  RoomForStars'
  <1>1. IsFiniteSet(MayStar)
    BY CommunityAssumption, FS_Subset DEF MayStar
  <1>2. Cardinality(MayStar') <= Cardinality(MayStar) /\ IsFiniteSet(MayStar')
    BY <1>1, FS_Subset
  <1>3. Cardinality(MayStar') \in Nat /\ Cardinality(MayStar) \in Nat
    BY <1>1, <1>2, FS_CardinalityType
  <1> QED BY <1>2, <1>3, CommunityAssumption DEF RoomForStars

\* A step of the calls that only reads.
LEMMA ReadOnly ==
  ASSUME Well, UNCHANGED <<users, app, job, stars, count>>
  PROVE  Documents' /\ Grows
  BY DEF Well, Documents, Grows, Born

LEMMA ToggleStarWell ==
  ASSUME Well, NEW s \in Sessions, NEW i \in Items, ToggleStar(s, i), calls' \in 0 .. MaxCalls
  PROVE  Well'
  <1>1. UNCHANGED <<db, todo, restarts, history>>
        /\ pc[s] = "idle" /\ Live(i) /\ Goto(s, "findStar", i)
    BY DEF ToggleStar, MayCall
  <1>2. Documents' /\ Grows
    BY <1>1, ReadOnly DEF db
  <1>3. Born(i)'
    BY <1>1, <1>2 DEF Live, Born, Grows
  <1>4. FibersOK /\ todo[s] = <<>>
    BY <1>1 DEF Well, FibersOK, FiberOK
  <1>5. FibersOK' /\ pc'[s] = "findStar" /\ \A t \in Sessions \ {s} : pc'[t] = pc[t]
    BY <1>1, <1>2, <1>3, <1>4, GotoOK DEF FiberOK, Fibers
  <1>6. RoomForStars'
    <2>1. MayStar' = MayStar \cup {s} /\ s \notin MayStar
      BY <1>1, <1>5 DEF MayStar
    <2>2. IsFiniteSet(MayStar)
      BY CommunityAssumption, FS_Subset DEF MayStar
    <2>3. Cardinality(MayStar') = Cardinality(MayStar) + 1 /\ Cardinality(MayStar) \in Nat
      BY <2>1, <2>2, FS_AddElement, FS_CardinalityType
    <2>4. nextStar + Cardinality(MayStar) <= MaxStars /\ nextStar' = nextStar
      BY DEF ToggleStar, MayStar, db
    <2> QED BY <2>3, <2>4, CommunityAssumption DEF Well, RoomForStars
  <1> QED BY <1>1, <1>2, <1>5, <1>6 DEF Well, Books, history

LEMMA CallTypes ==
  ASSUME Well, NEW s \in Sessions, MayCall(s)
  PROVE  /\ pc[s] = "idle" /\ todo[s] = <<>> /\ s \notin MayStar
         /\ UserOf[s] \in Users /\ FibersOK /\ Books /\ RoomForStars
  BY CommunityAssumption DEF MayCall, Well, FibersOK, FiberOK, MayStar

LEMMA BeforeInsertAppWell ==
  ASSUME Well, NEW s \in Sessions, BeforeInsertApp(s), calls' \in 0 .. MaxCalls
  PROVE  Well'
  <1>1. PICK g \in Slugs, p \in BOOLEAN,
             f \in {NoApp} \cup {a \in Apps : app[a].status # "unborn"} :
          /\ Goto(s, "insertApp", [status |-> "live", owner |-> UserOf[s], slug |-> g,
                                  public |-> p, forkOf |-> f])
          /\ slugRace' = IF SlugWanted(s, g) THEN slugRace \cup {g} ELSE slugRace
    BY DEF BeforeInsertApp
  <1>2. UNCHANGED <<db, todo, restarts, stale, raced, starRace, cleanRemovals>> /\ MayCall(s)
    BY DEF BeforeInsertApp
  <1> DEFINE d == [status |-> "live", owner |-> UserOf[s], slug |-> g, public |-> p, forkOf |-> f]
  <1>3. Documents' /\ Grows
    BY <1>2, ReadOnly DEF db
  <1>4. d \in AppDocs /\ d.status = "live" /\ (d.forkOf # NoApp => Born(d.forkOf)')
    BY <1>2, <1>3, CallTypes DEF AppDocs, Statuses, Born, Grows, Items
  <1> HIDE DEF d
  <1>5. FibersOK' /\ pc'[s] = "insertApp" /\ \A t \in Sessions \ {s} : pc'[t] = pc[t]
    <2>1. Goto(s, "insertApp", d)
      BY <1>1 DEF d
    <2>2. pc'[s] = "insertApp" /\ arg'[s] = d => FiberOK(s)'
      BY <1>2, <1>4, CallTypes DEF FiberOK
    <2> QED BY <1>2, <1>3, <2>1, <2>2, CallTypes, GotoOK DEF Fibers
  <1>6. RoomForStars'
    <2>1. MayStar' \subseteq MayStar
      BY <1>5 DEF MayStar
    <2> QED BY <1>2, <2>1, CallTypes, RoomKept DEF db
  <1>7. slugRace' \subseteq Slugs
    BY <1>1 DEF Well, Books
  <1> QED BY <1>2, <1>3, <1>5, <1>6, <1>7 DEF Well, Books

LEMMA BeforeSetSlugWell ==
  ASSUME Well, NEW s \in Sessions, BeforeSetSlug(s), calls' \in 0 .. MaxCalls
  PROVE  Well'
  <1>1. PICK a \in Apps, g \in Slugs :
          /\ Goto(s, "setSlug", [app |-> a, slug |-> g])
          /\ slugRace' = IF SlugWanted(s, g) THEN slugRace \cup {g} ELSE slugRace
    BY DEF BeforeSetSlug
  <1>2. UNCHANGED <<db, todo, restarts, stale, raced, starRace, cleanRemovals>> /\ MayCall(s)
    BY DEF BeforeSetSlug
  <1>3. Documents' /\ Grows
    BY <1>2, ReadOnly DEF db
  <1>5. FibersOK' /\ pc'[s] = "setSlug" /\ \A t \in Sessions \ {s} : pc'[t] = pc[t]
    <2>1. pc'[s] = "setSlug" /\ arg'[s] = [app |-> a, slug |-> g] => FiberOK(s)'
      BY <1>2, CallTypes DEF FiberOK
    <2> QED BY <1>1, <1>2, <1>3, <2>1, CallTypes, GotoOK DEF Fibers
  <1>6. RoomForStars'
    <2>1. MayStar' \subseteq MayStar
      BY <1>5 DEF MayStar
    <2> QED BY <1>2, <2>1, CallTypes, RoomKept DEF db
  <1>7. slugRace' \subseteq Slugs
    BY <1>1 DEF Well, Books
  <1> QED BY <1>2, <1>3, <1>5, <1>6, <1>7 DEF Well, Books

LEMMA ToggleAppPublicWell ==
  ASSUME Well, NEW s \in Sessions, ToggleAppPublic(s), calls' \in 0 .. MaxCalls
  PROVE  Well'
  <1>1. PICK a \in Apps : Goto(s, "flipPublic", [app |-> a, public |-> ~app[a].public])
    BY DEF ToggleAppPublic
  <1>2. UNCHANGED <<db, todo, restarts, history>> /\ MayCall(s)
    BY DEF ToggleAppPublic
  <1>3. Documents' /\ Grows
    BY <1>2, ReadOnly DEF db
  <1>5. FibersOK' /\ pc'[s] = "flipPublic" /\ \A t \in Sessions \ {s} : pc'[t] = pc[t]
    <2>1. pc'[s] = "flipPublic" /\ arg'[s] = [app |-> a, public |-> ~app[a].public] => FiberOK(s)'
      BY <1>2, CallTypes DEF FiberOK
    <2> QED BY <1>1, <1>2, <1>3, <2>1, CallTypes, GotoOK DEF Fibers
  <1>6. RoomForStars'
    <2>1. MayStar' \subseteq MayStar
      BY <1>5 DEF MayStar
    <2> QED BY <1>2, <2>1, CallTypes, RoomKept DEF db
  <1> QED BY <1>2, <1>3, <1>5, <1>6 DEF Well, Books, history

\* A step that goes on with work w.
LEMMA WellByContinue ==
  ASSUME Well, Documents', Grows, NEW s \in Sessions, NEW w \in Seq(Chores), Continue(s, w),
         nextStar' = nextStar, calls' \in 0 .. MaxCalls, restarts' = restarts,
         stale' \subseteq Sessions, raced' \subseteq Counters,
         starRace' \subseteq Users \X Items, slugRace' = slugRace, cleanRemovals' \subseteq Users
  PROVE  Well'
  BY ContinueOK, RoomKept DEF Well, Books

\* What a step that changes counts records.
LEMMA ChangeType ==
  ASSUME Well, NEW s \in Sessions, NEW C \in SUBSET Counters, NEW w, Change(s, C, w)
  PROVE  stale' \subseteq Sessions /\ raced' \subseteq Counters
  BY DEF Change, Well, Books

\* A call that begins a removal.
LEMMA BeginRemovalWell ==
  ASSUME Well, NEW s \in Sessions, RemoveApp(s) \/ JobsRemove(s) \/ RemoveUserAccount(s),
         calls' \in 0 .. MaxCalls
  PROVE  Well'
  <1>1. PICK w \in AppSelectors \cup JobSelectors \cup UserSelectors : Continue(s, <<w>>)
    <2>1. users \subseteq Users
      BY DEF Well, Documents
    <2> QED BY <2>1, SelectorTypes DEF RemoveApp, JobsRemove, RemoveUserAccount
  <1>2. UNCHANGED <<db, restarts, history>>
    BY DEF RemoveApp, JobsRemove, RemoveUserAccount
  <1>3. Documents' /\ Grows
    BY <1>2, ReadOnly DEF db
  <1>4. <<w>> \in Seq(Chores)
    BY SelectorTypes
  <1> QED BY <1>1, <1>2, <1>3, <1>4, WellByContinue DEF db, history, Well, Books

LEMMA AppsChange ==
  ASSUME Well, UNCHANGED <<users, job, stars>>, count' \in [Counters -> Nat],
         app' \in [Apps -> AppDocs],
         \A a \in Apps : app[a].status # "unborn" => app'[a].status # "unborn",
         \A a \in Apps : \/ app'[a].forkOf = app[a].forkOf
                         \/ app'[a].forkOf # NoApp => Born(app'[a].forkOf)
  PROVE  Documents' /\ Grows
  <1>1. Grows
    BY DEF Grows, Born
  <1>2. \A x \in stars : x.item \in Items
    BY DEF Well, Documents, StarDocs
  <1>3. \A a \in Apps : app'[a].forkOf # NoApp => app'[a].forkOf \in Items
    BY DEF AppDocs, Items
  <1>4. ASSUME NEW a \in Apps, app'[a].forkOf # NoApp
        PROVE  app'[a].forkOf \in Apps /\ app'[app'[a].forkOf].status # "unborn"
    <2>1. app'[a].forkOf \in Apps
      BY <1>4 DEF AppDocs
    <2>2. Born(app'[a].forkOf)
      BY <1>4 DEF Well, Documents
    <2> QED BY <2>1, <2>2 DEF Born
  <1>5. /\ users' \subseteq Users
        /\ job' \in [Jobs -> [status : Statuses, owner : Users]]
        /\ stars' \subseteq StarDocs /\ IsFiniteSet(stars')
    BY DEF Well, Documents
  <1>6. \A x \in stars' : Born(x.item)'
    BY <1>1, <1>2 DEF Well, Documents, Grows
  <1> QED BY <1>1, <1>4, <1>5, <1>6 DEF Documents, Born

LEMMA JobsChange ==
  ASSUME Well, UNCHANGED <<users, app, stars>>, count' \in [Counters -> Nat],
         job' \in [Jobs -> [status : Statuses, owner : Users]],
         \A j \in Jobs : job[j].status # "unborn" => job'[j].status # "unborn"
  PROVE  Documents' /\ Grows
  <1>1. Grows
    BY DEF Grows, Born, Items
  <1>2. \A x \in stars : x.item \in Items
    BY DEF Well, Documents, StarDocs
  <1>3. \A a \in Apps : app[a].forkOf # NoApp => app[a].forkOf \in Items
    BY DEF Well, Documents, AppDocs, Items
  <1> QED BY <1>1, <1>2, <1>3 DEF Well, Documents, Grows, Born

LEMMA StarsChange ==
  ASSUME Well, UNCHANGED <<users, app, job, count>>, stars' \subseteq StarDocs, IsFiniteSet(stars'),
         \A x \in stars' \ stars : Born(x.item)
  PROVE  Documents' /\ Grows
  BY DEF Well, Documents, Grows, Born

LEMMA JobsInsertWell ==
  ASSUME Well, NEW s \in Sessions, JobsInsert(s), calls' \in 0 .. MaxCalls
  PROVE  Well'
  <1>1. PICK j \in Jobs :
         /\ job' = [job EXCEPT ![j] = [status |-> "live", owner |-> UserOf[s]]]
         /\ count' = [count EXCEPT ![<<"stars", j>>] = 0]
    BY DEF JobsInsert
  <1>2. UNCHANGED <<users, app, stars, nextStar, pc, arg, todo, restarts, history>>
    BY DEF JobsInsert
  <1>3. Documents' /\ Grows
    <2>1. job' \in [Jobs -> [status : Statuses, owner : Users]]
      BY <1>1, CommunityAssumption DEF Well, Documents, Statuses
    <2>2. \A i \in Jobs : job'[i].status = IF i = j THEN "live" ELSE job[i].status
      BY <1>1 DEF Well, Documents
    <2>3. count' \in [Counters -> Nat]
      BY <1>1 DEF Well, Documents
    <2> QED BY <1>2, <2>1, <2>2, <2>3, JobsChange
  <1>4. FibersOK'
    BY <1>2, <1>3, FiberKept DEF Well, FibersOK
  <1>5. RoomForStars'
    BY <1>2 DEF Well, RoomForStars, MayStar
  <1> QED BY <1>2, <1>3, <1>4, <1>5 DEF Well, Books, history

LEMMA CallWell ==
  ASSUME Well, NEW s \in Sessions, Start(s)
  PROVE  Well'
  <1>1. calls' \in 0 .. MaxCalls
    BY CommunityAssumption DEF Start, Well, Books
  <1> QED BY <1>1, ToggleStarWell, BeforeInsertAppWell, BeforeSetSlugWell, ToggleAppPublicWell,
             JobsInsertWell, BeginRemovalWell
          DEF Start, Call, ToggleStarApplication, ToggleStarJob, Items

LEMMA FindStarWell ==
  ASSUME Well, NEW s \in Sessions, FindStar(s), calls' = calls
  PROVE  Well'
  <1> DEFINE mine == {x \in Starred(arg[s]) : x.by = UserOf[s]}
  <1>1. arg[s] \in Items /\ Born(arg[s]) /\ todo[s] = <<>> /\ pc[s] = "findStar"
    BY DEF FindStar, Well, FibersOK, FiberOK
  <1>2. UNCHANGED <<db, restarts, stale, raced, slugRace, cleanRemovals>>
    BY DEF FindStar
  <1>3. Documents' /\ Grows
    BY <1>2, ReadOnly DEF db
  <1>4. CASE \E x \in mine : Continue(s, << <<"star", x>> >>) /\ UNCHANGED starRace
    <2>1. PICK x \in mine : Continue(s, << <<"star", x>> >>)
      BY <1>4
    <2>2. x \in StarDocs
      BY DEF Starred, Well, Documents
    <2>3. << <<"star", x>> >> \in Seq(Chores)
      <3>1. <<"star", x>> \in Chores
        BY <2>2, SelectorTypes
      <3> QED BY <3>1
    <2> QED BY <1>2, <1>3, <1>4, <2>1, <2>3, WellByContinue DEF db, Well, Books
  <1>5. CASE Goto(s, "star", arg[s]) /\ UNCHANGED todo
    <2>1. pc'[s] = "star" /\ arg'[s] = arg[s] => FiberOK(s)'
      BY <1>1, <1>3, <1>5 DEF FiberOK, Grows
    <2>2. FibersOK' /\ pc'[s] = "star" /\ \A t \in Sessions \ {s} : pc'[t] = pc[t]
      BY <1>3, <1>5, <2>1, GotoOK DEF Fibers, Well
    <2>3. RoomForStars'
      <3>1. MayStar' \subseteq MayStar
        BY <1>1, <2>2 DEF MayStar
      <3> QED BY <1>2, <3>1, RoomKept DEF db, Well
    <2>4. starRace' \subseteq Users \X Items
      <3>1. starRace' = starRace \/ starRace' = starRace \cup {<<UserOf[s], arg[s]>>}
        BY DEF FindStar
      <3>2. <<UserOf[s], arg[s]>> \in Users \X Items
        BY <1>1, CommunityAssumption
      <3> QED BY <3>1, <3>2 DEF Well, Books
    <2> QED BY <1>2, <1>3, <1>5, <2>2, <2>3, <2>4 DEF Well, Books
  <1> QED BY <1>4, <1>5 DEF FindStar

LEMMA CounterTypes ==
  /\ \A i \in Items : <<"stars", i>> \in Counters
  /\ \A a \in Apps : <<"forks", a>> \in Counters
  /\ \A u \in Users : <<"public", u>> \in Counters
  /\ \A c \in Counters : c \in Chores /\ <<c>> \in Seq(Chores)
  BY DEF Counters, Chores

LEMMA EmptyWork == <<>> \in Seq(Chores)
  OBVIOUS

LEMMA InsertStarWell ==
  ASSUME Well, NEW s \in Sessions, InsertStar(s), calls' = calls
  PROVE  Well'
  <1> DEFINE x == [id |-> nextStar, by |-> UserOf[s], item |-> arg[s]]
             c == <<"stars", arg[s]>>
  <1>1. arg[s] \in Items /\ Born(arg[s]) /\ s \in MayStar
    BY DEF InsertStar, Well, FibersOK, FiberOK, MayStar
  <1>2. stars' = stars \cup {x} /\ nextStar' = nextStar + 1 /\ Change(s, {c}, <<c>>) /\ Continue(s, <<c>>)
        /\ UNCHANGED <<users, app, job, count, restarts, starRace, slugRace, cleanRemovals>>
    BY DEF InsertStar
  <1>3. Documents' /\ Grows
    <2>1. x \in StarDocs /\ x.item = arg[s]
      BY <1>1, CommunityAssumption DEF StarDocs, Well, RoomForStars
    <2>2. IsFiniteSet(stars')
      BY <1>2, FS_AddElement DEF Well, Documents
    <2> QED BY <1>1, <1>2, <2>1, <2>2, StarsChange DEF Well, Documents
  <1>4. c \in Counters /\ <<c>> \in Seq(Chores)
    BY <1>1, CounterTypes
  <1>5. FibersOK' /\ MayStar' \subseteq MayStar
    BY <1>2, <1>3, <1>4, ContinueOK DEF Well
  <1>6. RoomForStars'
    <2>1. s \notin MayStar'
      BY <1>2 DEF MayStar, Continue, Well, FibersOK
    <2>2. IsFiniteSet(MayStar)
      BY CommunityAssumption, FS_Subset DEF MayStar
    <2>3. Cardinality(MayStar \ {s}) = Cardinality(MayStar) - 1 /\ IsFiniteSet(MayStar \ {s})
      BY <1>1, <2>2, FS_RemoveElement
    <2>4. Cardinality(MayStar') <= Cardinality(MayStar \ {s}) /\ Cardinality(MayStar') \in Nat
      BY <1>5, <2>1, <2>3, FS_Subset, FS_CardinalityType
    <2>5. Cardinality(MayStar) \in Nat
      BY <2>2, FS_CardinalityType
    <2> QED BY <1>2, <2>3, <2>4, <2>5, CommunityAssumption DEF Well, RoomForStars
  <1>7. stale' \subseteq Sessions /\ raced' \subseteq Counters
    <2>1. {c} \in SUBSET Counters
      BY <1>4
    <2> QED BY <1>2, <2>1, ChangeType
  <1> QED BY <1>2, <1>3, <1>5, <1>6, <1>7 DEF Well, Books

LEMMA InsertAppWell ==
  ASSUME Well, NEW s \in Sessions, InsertApp(s), calls' = calls
  PROVE  Well'
  <1>1. PICK a \in Apps :
         /\ app' = [app EXCEPT ![a] = arg[s]]
         /\ count' = [count EXCEPT ![<<"stars", a>>] = 0, ![<<"forks", a>>] = 0]
    BY DEF InsertApp
  <1>2. Change(s, CountersOf(arg[s]), Recounts(arg[s])) /\ Continue(s, Recounts(arg[s]))
        /\ UNCHANGED <<users, job, stars, nextStar, restarts, starRace, slugRace,
                       cleanRemovals>>
    BY DEF InsertApp
  <1>3. arg[s] \in AppDocs /\ arg[s].status = "live" /\ (arg[s].forkOf # NoApp => Born(arg[s].forkOf))
    BY DEF InsertApp, Well, FibersOK, FiberOK
  <1>4. Documents' /\ Grows
    <2>1. app' \in [Apps -> AppDocs] /\ count' \in [Counters -> Nat]
      BY <1>1, <1>3 DEF Well, Documents
    <2>2. \A b \in Apps : app'[b] = IF b = a THEN arg[s] ELSE app[b]
      BY <1>1 DEF Well, Documents
    <2> QED BY <1>2, <1>3, <2>1, <2>2, AppsChange
  <1>5. stale' \subseteq Sessions /\ raced' \subseteq Counters
    <2>1. CountersOf(arg[s]) \in SUBSET Counters
      BY <1>3, DocTypes, CountersOfType
    <2> QED BY <1>2, <2>1, ChangeType
  <1>6. Recounts(arg[s]) \in Seq(Chores)
    BY <1>3, DocTypes, RecountsType
  <1> QED BY <1>2, <1>4, <1>5, <1>6, WellByContinue DEF Well, Books

LEMMA SlugType ==
  ASSUME NEW d \in AppDocs, NEW g \in Slugs
  PROVE  LET e == [d EXCEPT !.slug = g]
         IN  /\ e \in AppDocs /\ e.slug = g
             /\ e.status = d.status /\ e.forkOf = d.forkOf /\ e.owner = d.owner /\ e.public = d.public
  BY DEF AppDocs

LEMMA PublicType ==
  ASSUME NEW d \in AppDocs, NEW p \in BOOLEAN
  PROVE  LET e == [d EXCEPT !.public = p]
         IN  /\ e \in AppDocs
             /\ e.status = d.status /\ e.forkOf = d.forkOf /\ e.owner = d.owner /\ e.slug = d.slug
  BY DEF AppDocs

LEMMA SetSlugWell ==
  ASSUME Well, NEW s \in Sessions, SetSlug(s), calls' = calls
  PROVE  Well'
  <1> DEFINE a == arg[s].app
  <1>1. a \in Apps /\ arg[s].slug \in Slugs
    BY DEF SetSlug, Well, FibersOK, FiberOK
  <1>2. app' = (IF app[a].status = "live" THEN [app EXCEPT ![a] = [@ EXCEPT !.slug = arg[s].slug]]
                ELSE app)
        /\ Continue(s, <<>>)
        /\ UNCHANGED <<users, job, stars, count, nextStar, restarts, history>>
    BY DEF SetSlug
  <1>3. Documents' /\ Grows
    <2>1. app[a] \in AppDocs /\ [app[a] EXCEPT !.slug = arg[s].slug] \in AppDocs
      BY <1>1, SlugType DEF Well, Documents
    <2>2. app' \in [Apps -> AppDocs] /\ count' \in [Counters -> Nat]
      BY <1>1, <1>2, <2>1 DEF Well, Documents
    <2>3. \A b \in Apps : app'[b] = app[b] \/ (b = a /\ app'[b] = [app[a] EXCEPT !.slug = arg[s].slug])
      BY <1>1, <1>2 DEF Well, Documents
    <2>4. \A b \in Apps : app'[b].status = app[b].status /\ app'[b].forkOf = app[b].forkOf
      <3>1. [app[a] EXCEPT !.slug = arg[s].slug].status = app[a].status
            /\ [app[a] EXCEPT !.slug = arg[s].slug].forkOf = app[a].forkOf
        BY <1>1, <2>1, SlugType
      <3> QED BY <2>3, <3>1
    <2> QED BY <1>2, <2>2, <2>4, AppsChange
  <1> QED BY <1>2, <1>3, EmptyWork, WellByContinue DEF Well, Books, history

LEMMA FlipPublicWell ==
  ASSUME Well, NEW s \in Sessions, FlipPublic(s), calls' = calls
  PROVE  Well'
  <1> DEFINE a == arg[s].app
             mine == {<<"public", app[a].owner>>}
  <1>1. a \in Apps /\ arg[s].public \in BOOLEAN
    BY DEF FlipPublic, Well, FibersOK, FiberOK
  <1>2. Continue(s, <<>>)
        /\ UNCHANGED <<users, job, stars, count, nextStar, restarts, starRace, slugRace, cleanRemovals>>
    BY DEF FlipPublic
  <1>3. app[a] \in AppDocs /\ mine \subseteq Counters
    BY <1>1, CounterTypes DEF Well, Documents, AppDocs
  <1>4. app[a].status = "live" =>
          /\ app' = [app EXCEPT ![a] = [@ EXCEPT !.public = arg[s].public]]
          /\ Change(s, mine, <<>>)
    BY DEF FlipPublic
  <1>5. app[a].status # "live" => UNCHANGED <<app, raced, stale>>
    BY DEF FlipPublic
  <1>6. Documents' /\ Grows
    <2>1. [app[a] EXCEPT !.public = arg[s].public] \in AppDocs
      BY <1>1, <1>3, PublicType
    <2>2. app' \in [Apps -> AppDocs] /\ count' \in [Counters -> Nat]
      BY <1>1, <1>2, <1>4, <1>5, <2>1 DEF Well, Documents
    <2>3. \A b \in Apps : app'[b] = app[b] \/ (b = a /\ app'[b] = [app[a] EXCEPT !.public = arg[s].public])
      BY <1>1, <1>4, <1>5 DEF Well, Documents
    <2>4. \A b \in Apps : app'[b].status = app[b].status /\ app'[b].forkOf = app[b].forkOf
      <3>1. [app[a] EXCEPT !.public = arg[s].public].status = app[a].status
            /\ [app[a] EXCEPT !.public = arg[s].public].forkOf = app[a].forkOf
        BY <1>1, <1>3, PublicType
      <3> QED BY <2>3, <3>1
    <2> QED BY <1>2, <2>2, <2>4, AppsChange
  <1>7. stale' \subseteq Sessions /\ raced' \subseteq Counters
    <2>1. Change(s, mine, <<>>) => stale' \subseteq Sessions /\ raced' \subseteq Counters
      <3>1. mine \in SUBSET Counters
        BY <1>3
      <3> HIDE DEF mine
      <3> QED BY <3>1, ChangeType
    <2> QED BY <1>4, <1>5, <2>1 DEF Well, Books
  <1> QED BY <1>2, <1>6, <1>7, EmptyWork, WellByContinue DEF Well, Books

LEMMA ActualType ==
  ASSUME Well, NEW c \in Counters
  PROVE  Actual(c) \in Nat
  <1>1. \A i \in Items : IsFiniteSet(Starred(i))
    BY FS_Subset DEF Starred, Well, Documents
  <1>2. \A x : IsFiniteSet(Forks(x)) /\ IsFiniteSet(PublicApps(x))
    <2>1. \A x : Forks(x) \subseteq Apps /\ PublicApps(x) \subseteq Apps
      BY DEF Forks, PublicApps
    <2> QED BY <2>1, CommunityAssumption, FS_Subset
  <1>3. CASE c \in {"stars"} \X Items
    BY <1>1, <1>3, FS_CardinalityType DEF Actual
  <1>4. CASE c \in {"forks"} \X Apps
    BY <1>2, <1>4, FS_CardinalityType DEF Actual
  <1>5. CASE c \in {"public"} \X Users
    BY <1>2, <1>5, FS_CardinalityType DEF Actual
  <1> QED BY <1>3, <1>4, <1>5 DEF Counters

\* A fiber that runs hooks.
LEMMA HookTypes ==
  ASSUME Well, NEW s \in Sessions, pc[s] \in {"work", "remove", "store"}
  PROVE  /\ todo[s] \in Seq(Chores) /\ todo[s] # <<>>
         /\ Next1(s) \in Chores /\ Later(s) \in Seq(Chores)
  BY DEF Well, FibersOK, FiberOK, Next1, Later

LEMMA CountHookWell ==
  ASSUME Well, NEW s \in Sessions, CountHook(s), calls' = calls
  PROVE  Well'
  <1>1. Goto(s, "store", Actual(Next1(s))) /\ UNCHANGED <<db, todo, restarts, history>>
        /\ pc[s] = "work" /\ Next1(s) \in Counters
    BY DEF CountHook
  <1>2. Documents' /\ Grows
    BY <1>1, ReadOnly DEF db
  <1>3. FibersOK' /\ pc'[s] = "store" /\ \A t \in Sessions \ {s} : pc'[t] = pc[t]
    <2>1. Actual(Next1(s)) \in Nat
      BY <1>1, ActualType
    <2>2. pc'[s] = "store" /\ arg'[s] = Actual(Next1(s)) => FiberOK(s)'
      BY <1>1, <2>1, HookTypes DEF FiberOK, Next1
    <2> QED BY <1>1, <1>2, <2>2, GotoOK DEF Fibers, Well
  <1>4. RoomForStars'
    <2>1. MayStar' \subseteq MayStar
      BY <1>3 DEF MayStar
    <2> QED BY <1>1, <2>1, RoomKept DEF db, Well
  <1> QED BY <1>1, <1>2, <1>3, <1>4 DEF Well, Books, history

LEMMA StoreHookWell ==
  ASSUME Well, NEW s \in Sessions, StoreHook(s), calls' = calls
  PROVE  Well'
  <1> DEFINE c == Next1(s)
  <1>1. arg[s] \in Nat /\ c \in Counters /\ Later(s) \in Seq(Chores)
    BY HookTypes DEF StoreHook, Well, FibersOK, FiberOK, Next1
  <1>2. /\ count' = IF Carried(c) THEN [count EXCEPT ![c] = arg[s]] ELSE count
        /\ raced' = IF s \in stale THEN raced \cup {c} ELSE raced \ {c}
        /\ stale' = stale \ {s}
        /\ Continue(s, Later(s))
        /\ UNCHANGED <<users, app, job, stars, nextStar, restarts, starRace, slugRace,
                       cleanRemovals>>
    BY DEF StoreHook
  <1>3. count' \in [Counters -> Nat]
    BY <1>1, <1>2 DEF Well, Documents
  <1>4. Documents' /\ Grows
    BY <1>2, <1>3 DEF Well, Documents, Grows, Born
  <1>5. stale' \subseteq Sessions /\ raced' \subseteq Counters
    BY <1>1, <1>2 DEF Well, Books
  <1> QED BY <1>1, <1>2, <1>4, <1>5, WellByContinue DEF Well, Books

LEMMA AppRemovedHookWell ==
  ASSUME Well, NEW s \in Sessions, AppRemovedHook(s), calls' = calls
  PROVE  Well'
  <1> DEFINE d == Next1(s)[2]
  <1>1. Continue(s, AfterAppRemove(d) \o Later(s)) /\ UNCHANGED <<db, restarts, history>>
        /\ pc[s] = "work" /\ Next1(s)[1] = "appRemoved"
    BY DEF AppRemovedHook
  <1>2. Documents' /\ Grows
    BY <1>1, ReadOnly DEF db
  <1>3. d \in AppRefs /\ Later(s) \in Seq(Chores)
    BY <1>1, HookTypes, ChoreType
  <1> HIDE DEF d
  <1>4. AfterAppRemove(d) \o Later(s) \in Seq(Chores)
    BY <1>3, AfterAppRemoveType
  <1> QED BY <1>1, <1>2, <1>4, WellByContinue DEF db, history, Well, Books

LEMMA OrderType ==
  ASSUME NEW S, IsFiniteSet(S), NEW q \in Orders(S)
  PROVE  \E n \in Nat : DOMAIN q = 1 .. n /\ \A i \in 1 .. n : q[i] \in S
  BY FS_CardinalityType DEF Orders

LEMMA FetchWell ==
  ASSUME Well, NEW s \in Sessions, Fetch(s), calls' = calls
  PROVE  Well'
  <1> DEFINE w == Next1(s)
  <1>1. UNCHANGED <<db, todo, restarts, history>> /\ pc[s] = "work" /\ todo[s] # <<>>
    BY DEF Fetch, Well, FibersOK, FiberOK
  <1>2. Documents' /\ Grows
    BY <1>1, ReadOnly DEF db
  <1>3. PICK v : /\ Goto(s, "remove", v)
                 /\ \/ w \in StarSelectors /\ v = StarsMatching(w)
                    \/ w \in AppSelectors /\ v = {AppRef(a) : a \in AppsMatching(w)}
                    \/ w \in JobSelectors /\ v = JobsMatching(w)
                    \/ w \in UserSelectors
    BY DEF Fetch
  <1>4. StarsMatching(w) \subseteq StarDocs /\ IsFiniteSet(StarsMatching(w))
    <2>1. StarsMatching(w) \subseteq stars
      BY DEF StarsMatching
    <2> QED BY <2>1, FS_Subset DEF Well, Documents
  <1>5. {AppRef(a) : a \in AppsMatching(w)} \subseteq AppRefs /\ IsFiniteSet({AppRef(a) : a \in AppsMatching(w)})
    <2>1. \A a \in Apps : AppRef(a) \in AppRefs
      BY DocTypes DEF AppRef, AppRefs, Well, Documents
    <2>2. AppsMatching(w) \subseteq Apps
      BY DEF AppsMatching
    <2>3. IsFiniteSet(AppsMatching(w))
      BY <2>2, CommunityAssumption, FS_Subset
    <2>4. IsFiniteSet({AppRef(a) : a \in AppsMatching(w)})
      <3>0. PICK n \in Nat : ExistsSurjection(1 .. n, AppsMatching(w))
        BY <2>3, FS_NatSurjection
      <3>1. PICK f \in [1 .. n -> AppsMatching(w)] :
               \A a \in AppsMatching(w) : \E i \in 1 .. n : f[i] = a
        BY <3>0 DEF ExistsSurjection, Surjection
      <3> DEFINE g == [i \in 1 .. n |-> AppRef(f[i])]
                 T == {AppRef(a) : a \in AppsMatching(w)}
      <3>2. g \in [1 .. n -> T] /\ \A t \in T : \E i \in 1 .. n : g[i] = t
        BY <3>1
      <3> HIDE DEF g, T
      <3>3. ExistsSurjection(1 .. n, T)
        BY <3>2 DEF ExistsSurjection, Surjection
      <3>4. IsFiniteSet(T)
        BY <3>3, FS_NatSurjection
      <3> QED BY <3>4 DEF T
    <2> QED BY <2>1, <2>2, <2>4
  <1>6. JobsMatching(w) \subseteq Jobs
    BY DEF JobsMatching
  <1>7. /\ \A x \in StarSelectors : x \notin AppSelectors \cup JobSelectors
        /\ \A x \in AppSelectors : x \notin StarSelectors \cup JobSelectors
        /\ \A x \in JobSelectors : x \notin StarSelectors \cup AppSelectors
        /\ \A x \in UserSelectors : x \notin StarSelectors \cup AppSelectors \cup JobSelectors
    BY DEF StarSelectors, AppSelectors, JobSelectors, UserSelectors
  <1>8. pc'[s] = "remove" /\ arg'[s] = v => FiberOK(s)'
    BY <1>1, <1>3, <1>4, <1>5, <1>6, <1>7 DEF FiberOK, Next1
  <1>9. FibersOK' /\ pc'[s] = "remove" /\ \A t \in Sessions \ {s} : pc'[t] = pc[t]
    BY <1>1, <1>2, <1>3, <1>8, GotoOK DEF Fibers, Well
  <1>10. RoomForStars'
    <2>1. MayStar' \subseteq MayStar
      BY <1>9 DEF MayStar
    <2> QED BY <1>1, <2>1, RoomKept DEF db, Well
  <1> QED BY <1>1, <1>2, <1>9, <1>10 DEF Well, Books, history

LEMMA RemoveStarsWell ==
  ASSUME Well, NEW s \in Sessions, RemoveStars(s), calls' = calls
  PROVE  Well'
  <1> DEFINE S == StarsMatching(Next1(s))
             C == {<<"stars", x.item>> : x \in S}
  <1>1. stars' = stars \ S /\ pc[s] = "remove" /\ Next1(s) \in StarSelectors
        /\ UNCHANGED <<users, app, job, count, nextStar, restarts, starRace, slugRace, cleanRemovals>>
    BY DEF RemoveStars
  <1> DEFINE w(q) == [i \in DOMAIN q |-> <<"stars", q[i].item>>] \o Later(s)
  <1>2. PICK q \in Orders(arg[s]) : Change(s, C, w(q)) /\ Continue(s, w(q))
    BY DEF RemoveStars
  <1>3. Documents' /\ Grows
    <2>1. IsFiniteSet(stars') /\ stars' \subseteq stars
      BY <1>1, FS_Subset DEF Well, Documents
    <2> QED BY <1>1, <2>1, StarsChange DEF Well, Documents
  <1>4. w(q) \in Seq(Chores)
    <2>1. arg[s] \subseteq StarDocs /\ IsFiniteSet(arg[s])
      BY <1>1 DEF Well, FibersOK, FiberOK, Next1
    <2>2. PICK n \in Nat : DOMAIN q = 1 .. n /\ \A i \in 1 .. n : q[i] \in arg[s]
      BY <2>1, OrderType
    <2>3. \A i \in 1 .. n : <<"stars", q[i].item>> \in Chores
      BY <2>1, <2>2, CounterTypes DEF StarDocs
    <2>4. [i \in DOMAIN q |-> <<"stars", q[i].item>>] \in Seq(Chores)
      BY <2>2, <2>3
    <2> QED BY <1>1, <2>4, HookTypes
  <1>5. stale' \subseteq Sessions /\ raced' \subseteq Counters
    <2>1. C \in SUBSET Counters
      BY CounterTypes DEF StarsMatching, StarDocs, Well, Documents
    <2> HIDE DEF C, w
    <2> QED BY <1>2, <2>1, ChangeType
  <1> QED BY <1>1, <1>2, <1>3, <1>4, <1>5, WellByContinue DEF Well, Books

LEMMA RemoveAppsWell ==
  ASSUME Well, NEW s \in Sessions, RemoveApps(s), calls' = calls
  PROVE  Well'
  <1> DEFINE M == AppsMatching(Next1(s))
             C == UNION {CountersOf(app[a]) : a \in M}
  <1>1. app' = [a \in Apps |-> IF a \in M THEN Gone ELSE app[a]]
        /\ pc[s] = "remove" /\ Next1(s) \in AppSelectors
        /\ UNCHANGED <<users, job, stars, count, nextStar, restarts, starRace, slugRace, cleanRemovals>>
    BY DEF RemoveApps
  <1> DEFINE w(q) == [i \in DOMAIN q |-> <<"appRemoved", q[i]>>] \o Later(s)
  <1>2. PICK q \in Orders(arg[s]) : Change(s, C, w(q)) /\ Continue(s, w(q))
    BY DEF RemoveApps
  <1>3. Documents' /\ Grows
    <2>1. app' \in [Apps -> AppDocs] /\ count' \in [Counters -> Nat]
      BY <1>1, BlankType DEF Well, Documents
    <2> QED BY <1>1, <2>1, BlankType, AppsChange
  <1>4. w(q) \in Seq(Chores)
    <2>1. arg[s] \subseteq AppRefs /\ IsFiniteSet(arg[s])
      BY <1>1 DEF Well, FibersOK, FiberOK, Next1
    <2>2. PICK n \in Nat : DOMAIN q = 1 .. n /\ \A i \in 1 .. n : q[i] \in arg[s]
      BY <2>1, OrderType
    <2>3. \A i \in 1 .. n : <<"appRemoved", q[i]>> \in Chores
      BY <2>1, <2>2 DEF Chores
    <2>4. [i \in DOMAIN q |-> <<"appRemoved", q[i]>>] \in Seq(Chores)
      BY <2>2, <2>3
    <2> QED BY <1>1, <2>4, HookTypes
  <1>5. stale' \subseteq Sessions /\ raced' \subseteq Counters
    <2>1. C \in SUBSET Counters
      <3>1. \A a \in M : CountersOf(app[a]) \subseteq Counters
        BY DocTypes, CountersOfType DEF AppsMatching, Well, Documents
      <3> QED BY <3>1
    <2> HIDE DEF C, w
    <2> QED BY <1>2, <2>1, ChangeType
  <1> QED BY <1>1, <1>2, <1>3, <1>4, <1>5, WellByContinue DEF Well, Books

LEMMA RemoveJobsWell ==
  ASSUME Well, NEW s \in Sessions, RemoveJobs(s), calls' = calls
  PROVE  Well'
  <1> DEFINE M == JobsMatching(Next1(s))
  <1>1. job' = [j \in Jobs |-> IF j \in M THEN [job[j] EXCEPT !.status = "gone"] ELSE job[j]]
        /\ pc[s] = "remove" /\ Next1(s) \in JobSelectors
        /\ UNCHANGED <<users, app, stars, count, nextStar, restarts, history>>
    BY DEF RemoveJobs
  <1> DEFINE w(q) == [i \in DOMAIN q |-> <<"starsOf", q[i]>>] \o Later(s)
  <1>2. PICK q \in Orders(arg[s]) : Continue(s, w(q))
    BY DEF RemoveJobs
  <1>3. Documents' /\ Grows
    <2>1. \A j \in Jobs : [job[j] EXCEPT !.status = "gone"] \in [status : Statuses, owner : Users]
                          /\ [job[j] EXCEPT !.status = "gone"].status = "gone"
      BY DEF Well, Documents, Statuses
    <2>2. job' \in [Jobs -> [status : Statuses, owner : Users]] /\ count' \in [Counters -> Nat]
      BY <1>1, <2>1 DEF Well, Documents
    <2>3. \A j \in Jobs : job[j].status # "unborn" => job'[j].status # "unborn"
      BY <1>1, <2>1
    <2> QED BY <1>1, <2>2, <2>3, JobsChange
  <1>4. w(q) \in Seq(Chores)
    <2>1. arg[s] \subseteq Jobs
      BY <1>1 DEF Well, FibersOK, FiberOK, Next1
    <2>2. IsFiniteSet(arg[s])
      BY <2>1, CommunityAssumption, FS_Subset
    <2>3. PICK n \in Nat : DOMAIN q = 1 .. n /\ \A i \in 1 .. n : q[i] \in arg[s]
      BY <2>2, OrderType
    <2>4. \A i \in 1 .. n : <<"starsOf", q[i]>> \in Chores
      BY <2>1, <2>3, SelectorTypes DEF Items
    <2>5. [i \in DOMAIN q |-> <<"starsOf", q[i]>>] \in Seq(Chores)
      BY <2>3, <2>4
    <2> QED BY <1>1, <2>5, HookTypes
  <1> QED BY <1>1, <1>2, <1>3, <1>4, WellByContinue DEF Well, Books, history

LEMMA RemoveUserWell ==
  ASSUME Well, NEW s \in Sessions, RemoveUser(s), calls' = calls
  PROVE  Well'
  <1> DEFINE mine == << <<"appsBy", UserOf[s]>>, <<"jobsBy", UserOf[s]>>, <<"starsBy", UserOf[s]>> >>
             w == (IF arg[s] = {} THEN <<>> ELSE mine) \o Later(s)
  <1>1. /\ users' \subseteq users /\ pc[s] = "remove" /\ Next1(s) \in UserSelectors
        /\ Continue(s, w)
        /\ UNCHANGED <<app, job, stars, count, nextStar, restarts, stale, raced, starRace, slugRace>>
    BY DEF RemoveUser
  <1>2. Next1(s)[2] \in Users /\ Later(s) \in Seq(Chores)
    BY <1>1, HookTypes, ChoreType
  <1>3. cleanRemovals' \subseteq Users
    BY <1>2 DEF RemoveUser, Well, Books
  <1>4. Documents' /\ Grows
    BY <1>1 DEF Well, Documents, Grows, Born
  <1>5. mine \in Seq(Chores)
    <2>1. /\ <<"appsBy", UserOf[s]>> \in Chores /\ <<"jobsBy", UserOf[s]>> \in Chores
          /\ <<"starsBy", UserOf[s]>> \in Chores
      BY CommunityAssumption, SelectorTypes
    <2> QED BY <2>1
  <1>6. w \in Seq(Chores)
    <2> HIDE DEF mine
    <2> QED BY <1>2, <1>5
  <1> HIDE DEF w
  <1> QED BY <1>1, <1>3, <1>4, <1>6, WellByContinue DEF Well, Books

LEMMA WorkWell ==
  ASSUME Well, NEW s \in Sessions, Work(s)
  PROVE  Well'
  <1>1. calls' = calls
    BY DEF Work
  <1> QED BY <1>1, FindStarWell, InsertStarWell, InsertAppWell, SetSlugWell, FlipPublicWell,
             FetchWell, RemoveStarsWell, RemoveAppsWell, RemoveJobsWell, RemoveUserWell,
             CountHookWell, StoreHookWell, AppRemovedHookWell
          DEF Work, Proceed, Removal, Hook

LEMMA RestartWell ==
  ASSUME Well, Restart
  PROVE  Well'
  <1>1. Documents' /\ Grows
    BY ReadOnly DEF Restart, db
  <1>2. FibersOK'
    BY DEF Restart, FibersOK, FiberOK, Fibers
  <1>3. RoomForStars'
    <2>1. MayStar' \subseteq MayStar
      BY DEF MayStar, Restart
    <2> QED BY <2>1, RoomKept DEF Restart, db, Well
  <1>4. raced' \subseteq Counters
    <2>1. \A s \in Sessions : Pending(s) \subseteq Counters
      BY OwedByType DEF Pending, Well, FibersOK
    <2> QED BY <2>1 DEF Restart, Well, Books
  <1> QED BY <1>1, <1>2, <1>3, <1>4, CommunityAssumption DEF Restart, Well, Books

LEMMA StepWell == Well /\ [Next]_vars => Well'
  <1>1. ASSUME Well, UNCHANGED vars PROVE Well'
    BY <1>1 DEF vars, Well, Documents, FibersOK, FiberOK, RoomForStars, MayStar, Books, Born
  <1> QED BY <1>1, CallWell, WorkWell, RestartWell DEF Next

(* The collections, the fibers, their hooks and the history are well-formed *)
(* in every state, for any users, applications, jobs, sessions and bounds.  *)
THEOREM TypeCorrect == Spec => []TypeOK
  <1>1. Spec => []Well
    BY InitWell, StepWell, PTL DEF Spec
  <1>2. ASSUME Well PROVE TypeOK
    <2>1. nextStar \in 1 .. MaxStars + 1
      <3>1. Cardinality(MayStar) \in Nat
        BY CommunityAssumption, FS_Subset, FS_CardinalityType DEF MayStar
      <3> QED BY <1>2, <3>1, CommunityAssumption DEF Well, RoomForStars
    <2> QED BY <1>2, <2>1 DEF Well, Documents, FibersOK, Books, TypeOK, Chores
  <1> QED BY <1>1, <1>2, PTL

-----------------------------------------------------------------------------
(* Slugs.                                                                  *)

\* Fiber s has found slug g free and not written it yet.
Claims(s, g) == pc[s] \in {"insertApp", "setSlug"} /\ arg[s].slug = g
Uses(a, g) == app[a].status = "live" /\ app[a].slug = g

\* A slug without a race is claimed by one fiber at most, and no application
\* but the one the fiber is about to change has it.
SlugInv ==
    \A g \in Slugs \ slugRace :
        /\ \A s, t \in Sessions : Claims(s, g) /\ Claims(t, g) => s = t
        /\ \A s \in Sessions, b \in Apps :
              Claims(s, g) /\ Uses(b, g) => pc[s] = "setSlug" /\ arg[s].app = b
        /\ \A a, b \in Apps : Uses(a, g) /\ Uses(b, g) => a = b

LEMMA SlugInit == Init => SlugInv
  <1> SUFFICES ASSUME Init PROVE SlugInv
    OBVIOUS
  <1>1. \A s \in Sessions : \A g : ~Claims(s, g)
    BY DEF Init, Claims
  <1>2. \A a \in Apps : IF a \in DOMAIN FirstSlug THEN app[a].slug = FirstSlug[a]
                       ELSE app[a].status = "unborn"
    BY BlankType DEF Init, AppDocs
  <1>3. \A a, b \in Apps, g \in Slugs : Uses(a, g) /\ Uses(b, g) => a = b
    BY <1>2, CommunityAssumption DEF Uses
  <1> QED BY <1>1, <1>3 DEF SlugInv

\* A step that claims no slug and gives none to an application.
LEMMA SlugKept ==
  ASSUME SlugInv, slugRace \subseteq slugRace',
         \A s \in Sessions, g \in Slugs : Claims(s, g)' => Claims(s, g) /\ pc'[s] = pc[s] /\ arg'[s] = arg[s],
         \A a \in Apps, g \in Slugs : Uses(a, g)' => Uses(a, g)
  PROVE  SlugInv'
  BY DEF SlugInv

\* A step of s that goes on with some work and gives no application a slug.
LEMMA SlugByContinue ==
  ASSUME Well, SlugInv, NEW s \in Sessions, NEW w, Continue(s, w), slugRace' = slugRace,
         \A a \in Apps, g \in Slugs : Uses(a, g)' => Uses(a, g)
  PROVE  SlugInv'
  <1>1. pc'[s] \in {"idle", "work"} /\ \A t \in Sessions \ {s} : pc'[t] = pc[t] /\ arg'[t] = arg[t]
    BY DEF Continue, Well, FibersOK
  <1> QED BY <1>1, SlugKept DEF Claims

LEMMA SlugByGoto ==
  ASSUME Well, SlugInv, NEW s \in Sessions, NEW label, NEW v, Goto(s, label, v), UNCHANGED <<slugRace, app>>,
         label \notin {"insertApp", "setSlug"}
  PROVE  SlugInv'
  <1>1. pc'[s] = label /\ \A t \in Sessions \ {s} : pc'[t] = pc[t] /\ arg'[t] = arg[t]
    BY DEF Goto, Well, FibersOK
  <1> QED BY <1>1, SlugKept DEF Claims, Uses

LEMMA SlugCalls ==
  ASSUME Well, SlugInv, NEW s \in Sessions, Start(s)
  PROVE  SlugInv'
  <1>0. MayCall(s)
    BY DEF Start, Call, ToggleStarApplication, ToggleStarJob, ToggleStar, BeforeInsertApp,
           BeforeSetSlug, ToggleAppPublic, RemoveApp, JobsInsert, JobsRemove, RemoveUserAccount
  <1>a. pc[s] = "idle" /\ \A g \in Slugs : ~Claims(s, g)
    BY <1>0 DEF MayCall, Claims
  <1>b. DOMAIN pc = Sessions /\ arg = [t \in Sessions |-> arg[t]]
    BY DEF Well, FibersOK
  <1>1. ASSUME NEW i \in Items, ToggleStar(s, i) PROVE SlugInv'
    BY <1>1, <1>a, <1>b, SlugKept DEF ToggleStar, Goto, db, history, Claims, Uses
  <1>2. ASSUME BeforeInsertApp(s) PROVE SlugInv'
    <2>1. PICK g, v :
            /\ g \in Slugs
            /\ SlugIsFree(NoApp, g) /\ v.slug = g /\ Goto(s, "insertApp", v)
            /\ slugRace' = IF SlugWanted(s, g) THEN slugRace \cup {g} ELSE slugRace
      BY <1>2 DEF BeforeInsertApp
    <2>2. app' = app
      BY <1>2 DEF BeforeInsertApp, db
    <2>3. \A h \in Slugs, t \in Sessions : Claims(t, h)' <=> IF t = s THEN h = g ELSE Claims(t, h)
      BY <1>b, <2>1 DEF Goto, Claims
    <2>4. \A t \in Sessions \ {s} : pc'[t] = pc[t] /\ arg'[t] = arg[t]
      BY <1>b, <2>1 DEF Goto
    <2>5. \A b \in Apps : ~Uses(b, g)
      BY <2>1, CommunityAssumption DEF SlugIsFree, Uses
    <2>6. g \notin slugRace' => \A t \in Sessions \ {s} : ~Claims(t, g)
      BY <2>1 DEF SlugWanted, Claims
    <2>7. \A b \in Apps : \A h : Uses(b, h)' = Uses(b, h)
      BY <2>2 DEF Uses
    <2> QED BY <2>1, <2>3, <2>4, <2>5, <2>6, <2>7 DEF SlugInv
  <1>3. ASSUME BeforeSetSlug(s) PROVE SlugInv'
    <2>1. PICK a \in Apps, g \in Slugs :
            /\ SlugIsFree(a, g) /\ Goto(s, "setSlug", [app |-> a, slug |-> g])
            /\ slugRace' = IF SlugWanted(s, g) THEN slugRace \cup {g} ELSE slugRace
      BY <1>3 DEF BeforeSetSlug
    <2>2. app' = app
      BY <1>3 DEF BeforeSetSlug, db
    <2>3. \A h \in Slugs, t \in Sessions : Claims(t, h)' <=> IF t = s THEN h = g ELSE Claims(t, h)
      BY <1>b, <2>1 DEF Goto, Claims
    <2>4. /\ \A t \in Sessions \ {s} : pc'[t] = pc[t] /\ arg'[t] = arg[t]
          /\ pc'[s] = "setSlug" /\ arg'[s].app = a
      BY <1>b, <2>1 DEF Goto
    <2>5. \A b \in Apps : Uses(b, g) => b = a
      BY <2>1 DEF SlugIsFree, Uses
    <2>6. g \notin slugRace' => \A t \in Sessions \ {s} : ~Claims(t, g)
      BY <2>1 DEF SlugWanted, Claims
    <2>7. \A b \in Apps : \A h : Uses(b, h)' = Uses(b, h)
      BY <2>2 DEF Uses
    <2> QED BY <2>1, <2>3, <2>4, <2>5, <2>6, <2>7 DEF SlugInv
  <1>4. ASSUME ToggleAppPublic(s) PROVE SlugInv'
    BY <1>4, <1>a, <1>b, SlugKept DEF ToggleAppPublic, Goto, db, history, Claims, Uses
  <1>6. ASSUME JobsInsert(s) PROVE SlugInv'
    BY <1>6, SlugKept DEF JobsInsert, history, Claims, Uses
  <1>5. ASSUME RemoveApp(s) \/ JobsRemove(s) \/ RemoveUserAccount(s) PROVE SlugInv'
    <2>1. PICK w : Continue(s, w)
      BY <1>5 DEF RemoveApp, JobsRemove, RemoveUserAccount
    <2>2. app' = app /\ slugRace' = slugRace
      BY <1>5 DEF RemoveApp, JobsRemove, RemoveUserAccount, db, history
    <2> QED BY <2>1, <2>2, SlugByContinue DEF Uses
  <1> QED BY <1>1, <1>2, <1>3, <1>4, <1>5, <1>6
          DEF Start, Call, ToggleStarApplication, ToggleStarJob, Items

LEMMA SlugWork ==
  ASSUME Well, SlugInv, NEW s \in Sessions, Work(s)
  PROVE  SlugInv'
  <1>1. CASE FindStar(s)
    <2>1. app' = app /\ slugRace' = slugRace
      BY <1>1 DEF FindStar, db
    <2>2. (\E w : Continue(s, w)) \/ Goto(s, "star", arg[s])
      BY <1>1 DEF FindStar
    <2>3. ASSUME NEW w, Continue(s, w) PROVE SlugInv'
      BY <2>1, <2>3, SlugByContinue DEF Uses
    <2> QED BY <2>1, <2>2, <2>3, SlugByGoto
  <1>2. CASE InsertStar(s)
    BY <1>2, SlugByContinue DEF InsertStar, Uses
  <1>3. CASE Fetch(s)
    <2>1. PICK v : Goto(s, "remove", v)
      BY <1>3 DEF Fetch
    <2> QED BY <1>3, <2>1, SlugByGoto DEF Fetch, db, history
  <1>4. CASE InsertApp(s)
    <2> DEFINE g == arg[s].slug
    <2>1. PICK a \in Apps : app' = [app EXCEPT ![a] = arg[s]]
      BY <1>4 DEF InsertApp
    <2>2. Continue(s, Recounts(arg[s])) /\ pc[s] = "insertApp" /\ slugRace' = slugRace
      BY <1>4 DEF InsertApp
    <2>3. g \in Slugs /\ Claims(s, g)
      BY <2>2 DEF Well, FibersOK, FiberOK, AppDocs, Claims
    <2>4. \A b \in Apps, h \in Slugs : Uses(b, h)' => Uses(b, h) \/ (b = a /\ h = g)
      BY <2>1 DEF Uses, Well, Documents
    <2>5. pc'[s] \in {"idle", "work"} /\ \A t \in Sessions \ {s} : pc'[t] = pc[t] /\ arg'[t] = arg[t]
      BY <2>2 DEF Continue, Well, FibersOK
    <2>6. \A t \in Sessions : \A h : Claims(t, h)' => t # s /\ Claims(t, h)
      BY <2>5 DEF Claims
    <2>7. g \notin slugRace => (\A t \in Sessions \ {s} : ~Claims(t, g)) /\ \A b \in Apps : ~Uses(b, g)
      BY <2>2, <2>3 DEF SlugInv
    <2> QED BY <2>2, <2>4, <2>5, <2>6, <2>7 DEF SlugInv
  <1>5. CASE SetSlug(s)
    <2> DEFINE g == arg[s].slug
               a == arg[s].app
    <2>1. app' = (IF app[a].status = "live" THEN [app EXCEPT ![a] = [@ EXCEPT !.slug = g]] ELSE app)
          /\ Continue(s, <<>>) /\ pc[s] = "setSlug" /\ slugRace' = slugRace
      BY <1>5 DEF SetSlug, history
    <2>2. g \in Slugs /\ a \in Apps /\ Claims(s, g)
      BY <2>1 DEF Well, FibersOK, FiberOK, Claims
    <2>3. app[a] \in AppDocs /\ app \in [Apps -> AppDocs]
      BY <2>2 DEF Well, Documents
    <2>4. [app[a] EXCEPT !.slug = g].slug = g
      BY <2>2, <2>3, SlugType
    <2>5. \A b \in Apps, h \in Slugs : Uses(b, h)' => Uses(b, h) \/ (b = a /\ h = g)
      BY <2>1, <2>3, <2>4 DEF Uses
    <2>6. pc'[s] \in {"idle", "work"} /\ \A t \in Sessions \ {s} : pc'[t] = pc[t] /\ arg'[t] = arg[t]
      BY <2>1 DEF Continue, Well, FibersOK
    <2>7. \A t \in Sessions : \A h : Claims(t, h)' => t # s /\ Claims(t, h)
      BY <2>6 DEF Claims
    <2>8. g \notin slugRace => /\ \A t \in Sessions \ {s} : ~Claims(t, g)
                               /\ \A b \in Apps : Uses(b, g) => b = a
      BY <2>1, <2>2 DEF SlugInv
    <2>9. \A b \in Apps, h \in Slugs \ slugRace, t \in Sessions :
             Claims(t, h)' /\ Uses(b, h)' => pc'[t] = "setSlug" /\ arg'[t].app = b
      BY <2>5, <2>6, <2>7, <2>8 DEF SlugInv
    <2>10. \A h \in Slugs \ slugRace : \A t, r \in Sessions : Claims(t, h)' /\ Claims(r, h)' => t = r
      BY <2>7 DEF SlugInv
    <2>11. \A h \in Slugs \ slugRace : \A b, d \in Apps : Uses(b, h)' /\ Uses(d, h)' => b = d
      BY <2>5, <2>8 DEF SlugInv
    <2> QED BY <2>1, <2>9, <2>10, <2>11 DEF SlugInv
  <1>6. CASE FlipPublic(s)
    <2> DEFINE a == arg[s].app
    <2>1. a \in Apps /\ arg[s].public \in BOOLEAN /\ app[a] \in AppDocs /\ app \in [Apps -> AppDocs]
      BY <1>6 DEF FlipPublic, Well, FibersOK, FiberOK, Documents
    <2>2. app' = app \/ app' = [app EXCEPT ![a] = [@ EXCEPT !.public = arg[s].public]]
      BY <1>6 DEF FlipPublic
    <2>3. [app[a] EXCEPT !.public = arg[s].public].slug = app[a].slug
          /\ [app[a] EXCEPT !.public = arg[s].public].status = app[a].status
      BY <2>1, PublicType
    <2>4. \A b \in Apps, h \in Slugs : Uses(b, h)' => Uses(b, h)
      BY <2>1, <2>2, <2>3 DEF Uses
    <2> QED BY <1>6, <2>4, SlugByContinue DEF FlipPublic
  <1>7. CASE CountHook(s)
    BY <1>7, SlugByGoto DEF CountHook, db, history
  <1>8. CASE StoreHook(s)
    BY <1>8, SlugByContinue DEF StoreHook, Uses
  <1>9. CASE AppRemovedHook(s)
    BY <1>9, SlugByContinue DEF AppRemovedHook, db, history, Uses
  <1>10. CASE RemoveStars(s) \/ RemoveJobs(s) \/ RemoveUser(s)
    <2>1. PICK w : Continue(s, w)
      BY <1>10 DEF RemoveStars, RemoveJobs, RemoveUser
    <2>2. app' = app /\ slugRace' = slugRace
      BY <1>10 DEF RemoveStars, RemoveJobs, RemoveUser, history
    <2> QED BY <2>1, <2>2, SlugByContinue DEF Uses
  <1>11. CASE RemoveApps(s)
    <2>1. PICK w : Continue(s, w)
      BY <1>11 DEF RemoveApps
    <2>2. \A b \in Apps, h \in Slugs : Uses(b, h)' => Uses(b, h)
      BY <1>11, BlankType DEF RemoveApps, Uses
    <2>3. slugRace' = slugRace
      BY <1>11 DEF RemoveApps
    <2> QED BY <2>1, <2>2, <2>3, SlugByContinue
  <1> QED BY <1>1, <1>2, <1>3, <1>4, <1>5, <1>6, <1>7, <1>8, <1>9, <1>10, <1>11
          DEF Work, Proceed, Removal, Hook

LEMMA SlugStep == Well /\ SlugInv /\ [Next]_vars => SlugInv'
  <1>1. ASSUME Well, SlugInv, UNCHANGED vars PROVE SlugInv'
    BY <1>1, SlugKept DEF vars, Claims, Uses
  <1>2. ASSUME Well, SlugInv, Restart PROVE SlugInv'
    <2>1. \A s \in Sessions : \A g : ~Claims(s, g)'
      BY <1>2 DEF Restart, Claims
    <2> QED BY <1>2, <2>1, SlugKept DEF Restart, db, Uses
  <1> QED BY <1>1, <1>2, SlugCalls, SlugWork DEF Next

(* Whatever calls overlap, two applications share a slug only after two     *)
(* fibers have found it free before either had written it: the checks in    *)
(* the hooks suffice against everything but that.                           *)
THEOREM SlugsStayUnique == Spec => []SlugsUnique
  <1>1. Spec => [](Well /\ SlugInv)
    BY InitWell, StepWell, SlugInit, SlugStep, PTL DEF Spec
  <1>2. Well /\ SlugInv => SlugsUnique
    BY DEF Well, Documents, AppDocs, SlugInv, SlugsUnique, Uses, Live
  <1> QED BY <1>1, <1>2, PTL

-----------------------------------------------------------------------------
(* Stars.                                                                  *)

StarsOf(u, i) == {x \in stars : x.item = i /\ x.by = u}
\* Fiber s has found no star of its user on item i, and will insert one.
AboutToStar(s, i) == pc[s] = "star" /\ arg[s] = i

\* Without a race one fiber of a user at most is about to star an item, and
\* then the user has no star on it.
StarInv ==
    \A u \in Users, i \in Items : <<u, i>> \notin starRace =>
        /\ \A s, t \in Sessions :
              UserOf[s] = u /\ UserOf[t] = u /\ AboutToStar(s, i) /\ AboutToStar(t, i) => s = t
        /\ \A s \in Sessions : UserOf[s] = u /\ AboutToStar(s, i) => StarsOf(u, i) = {}
        /\ \A x, y \in StarsOf(u, i) : x = y

LEMMA StarInit == Init => StarInv
  BY DEF Init, StarInv, AboutToStar, StarsOf

\* A step that neither stars nor begins to.
LEMMA StarKept ==
  ASSUME StarInv, starRace \subseteq starRace', stars' \subseteq stars,
         \A s \in Sessions, i \in Items : AboutToStar(s, i)' => AboutToStar(s, i)
  PROVE  StarInv'
  <1>1. \A u, i : StarsOf(u, i)' \subseteq StarsOf(u, i)
    BY DEF StarsOf
  <1> QED BY <1>1 DEF StarInv

LEMMA StarByGoto ==
  ASSUME Well, StarInv, NEW s \in Sessions, NEW label, NEW v, Goto(s, label, v),
         UNCHANGED <<stars, starRace>>, label # "star"
  PROVE  StarInv'
  <1>1. pc'[s] = label /\ \A t \in Sessions \ {s} : pc'[t] = pc[t] /\ arg'[t] = arg[t]
    BY DEF Goto, Well, FibersOK
  <1> QED BY <1>1, StarKept DEF AboutToStar

LEMMA StarByContinue ==
  ASSUME Well, StarInv, NEW s \in Sessions, NEW w, Continue(s, w), starRace' = starRace,
         stars' \subseteq stars
  PROVE  StarInv'
  <1>1. pc'[s] \in {"idle", "work"} /\ \A t \in Sessions \ {s} : pc'[t] = pc[t] /\ arg'[t] = arg[t]
    BY DEF Continue, Well, FibersOK
  <1> QED BY <1>1, StarKept DEF AboutToStar

LEMMA StarCalls ==
  ASSUME Well, StarInv, NEW s \in Sessions, Start(s)
  PROVE  StarInv'
  <1>1. CASE BeforeInsertApp(s)
    <2>1. PICK v : Goto(s, "insertApp", v)
      BY <1>1 DEF BeforeInsertApp
    <2> QED BY <1>1, <2>1, StarByGoto DEF BeforeInsertApp, db
  <1>2. CASE BeforeSetSlug(s)
    <2>1. PICK v : Goto(s, "setSlug", v)
      BY <1>2 DEF BeforeSetSlug
    <2> QED BY <1>2, <2>1, StarByGoto DEF BeforeSetSlug, db
  <1>3. CASE ToggleAppPublic(s)
    <2>1. PICK v : Goto(s, "flipPublic", v)
      BY <1>3 DEF ToggleAppPublic
    <2> QED BY <1>3, <2>1, StarByGoto DEF ToggleAppPublic, db, history
  <1>4. CASE RemoveApp(s) \/ JobsRemove(s) \/ RemoveUserAccount(s)
    <2>1. PICK w : Continue(s, w)
      BY <1>4 DEF RemoveApp, JobsRemove, RemoveUserAccount
    <2>2. UNCHANGED <<stars, starRace>>
      BY <1>4 DEF RemoveApp, JobsRemove, RemoveUserAccount, db, history
    <2> QED BY <2>1, <2>2, StarByContinue
  <1>5. CASE JobsInsert(s)
    BY <1>5, StarKept DEF JobsInsert, history, AboutToStar
  <1>6. ASSUME NEW i \in Items, ToggleStar(s, i) PROVE StarInv'
    BY <1>6, StarByGoto DEF ToggleStar, db, history
  <1> QED BY <1>1, <1>2, <1>3, <1>4, <1>5, <1>6
          DEF Start, Call, ToggleStarApplication, ToggleStarJob, Items

LEMMA StarFind ==
  ASSUME Well, StarInv, NEW s \in Sessions, FindStar(s)
  PROVE  StarInv'
  <1> DEFINE u == UserOf[s]
             i == arg[s]
  <1>1. stars' = stars /\ i \in Items /\ u \in Users
    BY CommunityAssumption DEF FindStar, db, Well, FibersOK, FiberOK
  <1>2. CASE \E x : Continue(s, << <<"star", x>> >>) /\ UNCHANGED starRace
    BY <1>1, <1>2, StarByContinue
  <1>3. CASE /\ {x \in Starred(i) : x.by = u} = {}
             /\ Goto(s, "star", i)
             /\ starRace' = IF Starring(s, i) THEN starRace \cup {<<u, i>>} ELSE starRace
    <2>1. StarsOf(u, i) = {}
      BY <1>3 DEF StarsOf, Starred
    <2>2. \A w, j : StarsOf(w, j)' = StarsOf(w, j)
      BY <1>1 DEF StarsOf
    <2>3. pc'[s] = "star" /\ arg'[s] = i /\ \A t \in Sessions \ {s} : pc'[t] = pc[t] /\ arg'[t] = arg[t]
      BY <1>3 DEF Goto, Well, FibersOK
    <2>4. \A t \in Sessions, j \in Items : AboutToStar(t, j)' <=> IF t = s THEN j = i ELSE AboutToStar(t, j)
      BY <2>3 DEF AboutToStar
    <2>5. <<u, i>> \notin starRace' => \A t \in Sessions \ {s} : UserOf[t] = u => ~AboutToStar(t, i)
      BY <1>3 DEF Starring, AboutToStar
    <2>6. \A w, j : <<w, j>> \notin starRace' => <<w, j>> \notin starRace
      BY <1>3
    <2> SUFFICES ASSUME NEW w \in Users, NEW j \in Items, <<w, j>> \notin starRace'
                 PROVE  /\ \A r, t \in Sessions : UserOf[r] = w /\ UserOf[t] = w
                              /\ AboutToStar(r, j)' /\ AboutToStar(t, j)' => r = t
                        /\ \A r \in Sessions : UserOf[r] = w /\ AboutToStar(r, j)' => StarsOf(w, j)' = {}
                        /\ \A x, y \in StarsOf(w, j)' : x = y
      BY DEF StarInv
    <2>7. <<w, j>> \notin starRace
      BY <2>6
    <2>8. \A r, t \in Sessions : UserOf[r] = w /\ UserOf[t] = w
            /\ AboutToStar(r, j)' /\ AboutToStar(t, j)' => r = t
      BY <2>4, <2>5, <2>7 DEF StarInv
    <2>9. \A r \in Sessions : UserOf[r] = w /\ AboutToStar(r, j)' => StarsOf(w, j)' = {}
      BY <2>1, <2>2, <2>4, <2>7 DEF StarInv
    <2>10. \A x, y \in StarsOf(w, j)' : x = y
      BY <2>2, <2>7 DEF StarInv
    <2> QED BY <2>8, <2>9, <2>10
  <1> QED BY <1>2, <1>3 DEF FindStar

LEMMA StarInsert ==
  ASSUME Well, StarInv, NEW s \in Sessions, InsertStar(s)
  PROVE  StarInv'
  <1> DEFINE u == UserOf[s]
             i == arg[s]
             x == [id |-> nextStar, by |-> u, item |-> i]
  <1>1. /\ stars' = stars \cup {x} /\ starRace' = starRace /\ pc[s] = "star"
        /\ Continue(s, << <<"stars", i>> >>) /\ i \in Items /\ u \in Users
    BY CommunityAssumption DEF InsertStar, Well, FibersOK, FiberOK
  <1>2. pc'[s] \in {"idle", "work"} /\ \A t \in Sessions \ {s} : pc'[t] = pc[t] /\ arg'[t] = arg[t]
    BY <1>1 DEF Continue, Well, FibersOK
  <1>3. \A t \in Sessions, j \in Items : AboutToStar(t, j)' => t # s /\ AboutToStar(t, j)
    BY <1>2 DEF AboutToStar
  <1>4. \A w, j : StarsOf(w, j)' = IF w = u /\ j = i THEN StarsOf(w, j) \cup {x} ELSE StarsOf(w, j)
    BY <1>1 DEF StarsOf
  <1>5. <<u, i>> \notin starRace =>
          /\ StarsOf(u, i) = {}
          /\ \A t \in Sessions \ {s} : UserOf[t] = u => ~AboutToStar(t, i)
    BY <1>1 DEF StarInv, AboutToStar
  <1> SUFFICES ASSUME NEW w \in Users, NEW j \in Items, <<w, j>> \notin starRace
               PROVE  /\ \A r, t \in Sessions : UserOf[r] = w /\ UserOf[t] = w
                            /\ AboutToStar(r, j)' /\ AboutToStar(t, j)' => r = t
                      /\ \A r \in Sessions : UserOf[r] = w /\ AboutToStar(r, j)' => StarsOf(w, j)' = {}
                      /\ \A y, z \in StarsOf(w, j)' : y = z
    BY <1>1 DEF StarInv
  <1>8. \A r, t \in Sessions : UserOf[r] = w /\ UserOf[t] = w
                            /\ AboutToStar(r, j)' /\ AboutToStar(t, j)' => r = t
    BY <1>3 DEF StarInv
  <1>9. ASSUME NEW r \in Sessions, UserOf[r] = w, AboutToStar(r, j)'
        PROVE  StarsOf(w, j)' = {}
    <2>1. r # s /\ AboutToStar(r, j)
      BY <1>3, <1>9
    <2>2. StarsOf(w, j) = {}
      BY <1>9, <2>1 DEF StarInv
    <2>3. ~(w = u /\ j = i)
      BY <1>5, <1>9, <2>1
    <2> QED BY <1>4, <2>2, <2>3
  <1>10. \A y, z \in StarsOf(w, j)' : y = z
    BY <1>4, <1>5 DEF StarInv
  <1> QED BY <1>8, <1>9, <1>10

LEMMA StarWork ==
  ASSUME Well, StarInv, NEW s \in Sessions, Work(s)
  PROVE  StarInv'
  <1>1. CASE Fetch(s)
    <2>1. PICK v : Goto(s, "remove", v)
      BY <1>1 DEF Fetch
    <2> QED BY <1>1, <2>1, StarByGoto DEF Fetch, db, history
  <1>2. CASE InsertApp(s)
    BY <1>2, StarByContinue DEF InsertApp
  <1>3. CASE SetSlug(s)
    BY <1>3, StarByContinue DEF SetSlug, history
  <1>4. CASE FlipPublic(s)
    BY <1>4, StarByContinue DEF FlipPublic
  <1>5. CASE CountHook(s)
    BY <1>5, StarByGoto DEF CountHook, db, history
  <1>6. CASE StoreHook(s)
    BY <1>6, StarByContinue DEF StoreHook
  <1>7. CASE AppRemovedHook(s)
    BY <1>7, StarByContinue DEF AppRemovedHook, db, history
  <1>8. CASE RemoveStars(s) \/ RemoveApps(s) \/ RemoveJobs(s) \/ RemoveUser(s)
    <2>1. PICK w : Continue(s, w)
      BY <1>8 DEF RemoveStars, RemoveApps, RemoveJobs, RemoveUser
    <2>2. stars' \subseteq stars /\ starRace' = starRace
      BY <1>8 DEF RemoveStars, RemoveApps, RemoveJobs, RemoveUser, history
    <2> QED BY <2>1, <2>2, StarByContinue
  <1> QED BY <1>1, <1>2, <1>3, <1>4, <1>5, <1>6, <1>7, <1>8, StarFind, StarInsert
          DEF Work, Proceed, Removal, Hook

LEMMA StarStep == Well /\ StarInv /\ [Next]_vars => StarInv'
  <1>1. ASSUME Well, StarInv, UNCHANGED vars PROVE StarInv'
    BY <1>1, StarKept DEF vars, AboutToStar
  <1>2. ASSUME Well, StarInv, Restart PROVE StarInv'
    BY <1>2, StarKept DEF Restart, db, AboutToStar
  <1> QED BY <1>1, <1>2, StarCalls, StarWork DEF Next

(* A user has at most one star on an item unless one of the user's toggles  *)
(* found none while another one had found none and not inserted it yet; no  *)
(* other overlap of calls, removal, hook or restart doubles a star.         *)
THEOREM StarsStaySingle == Spec => []OneStarPerUser
  <1>1. Spec => [](Well /\ StarInv)
    BY InitWell, StepWell, StarInit, StarStep, PTL DEF Spec
  <1>2. ASSUME Well, StarInv, NEW u \in Users, NEW i \in Items, <<u, i>> \notin starRace
        PROVE  Cardinality({x \in Starred(i) : x.by = u}) <= 1
    <2>1. {x \in Starred(i) : x.by = u} = StarsOf(u, i)
      BY DEF Starred, StarsOf
    <2>2. CASE StarsOf(u, i) = {}
      BY <2>1, <2>2, FS_EmptySet
    <2>3. CASE StarsOf(u, i) # {}
      <3>1. PICK x : x \in StarsOf(u, i)
        BY <2>3
      <3>2. StarsOf(u, i) = {x}
        BY <1>2, <3>1 DEF StarInv
      <3>3. Cardinality(StarsOf(u, i)) = 1
        BY <3>2, FS_Singleton, Zenon
      <3> QED BY <2>1, <3>3
    <2> QED BY <2>2, <2>3
  <1>3. Well /\ StarInv => OneStarPerUser
    BY <1>2 DEF OneStarPerUser
  <1> QED BY <1>1, <1>3, PTL

-----------------------------------------------------------------------------
(* Derived numbers.                                                        *)

\* A counter without a race that nobody owes is exact; a fiber about to store
\* one has the exact number unless the count changed since it counted.
CounterInv(c) ==
    /\ c \notin raced /\ Carried(c) /\ (\A s \in Sessions : c \notin Pending(s)) => count[c] = Actual(c)
    /\ \A s \in Sessions \ stale : pc[s] = "store" /\ Next1(s) = c => arg[s] = Actual(c)

CountInv == \A c \in Counters : CounterInv(c)

LEMMA OwedByEmpty == OwedBy(<<>>) = {}
  BY DEF OwedBy

LEMMA CountInit == Init => CountInv
  <1> SUFFICES ASSUME Init, NEW c \in Counters PROVE CounterInv(c)
    BY DEF CountInv
  <1>1. \A s \in Sessions : Pending(s) = {}
    BY OwedByEmpty DEF Init, Pending
  <1>2. stars = {} /\ count[c] = 0
    BY DEF Init
  <1>3. \A a \in Apps : app[a].forkOf = NoApp /\ app[a].public = FALSE
    <2>1. Blank.forkOf = NoApp /\ Blank.public = FALSE
      BY DEF Blank
    <2>2. \A a \in DOMAIN FirstSlug :
             LET d == [Blank EXCEPT !.status = "live", !.slug = FirstSlug[a]]
             IN  d.forkOf = NoApp /\ d.public = FALSE
      BY <2>1, BlankType DEF AppDocs
    <2> QED BY <2>1, <2>2 DEF Init
  <1>4. (\A i : Starred(i) = {}) /\ (\A u : PublicApps(u) = {}) /\ (\A a \in Apps : Forks(a) = {})
    BY <1>2, <1>3, CommunityAssumption DEF Starred, PublicApps, Forks
  <1>5. Actual(c) = 0
    <2>1. Cardinality({}) = 0
      BY FS_EmptySet
    <2> QED BY <1>4, <2>1 DEF Actual, Counters
  <1>6. \A s \in Sessions : pc[s] # "store"
    BY DEF Init
  <1> QED BY <1>1, <1>2, <1>5, <1>6 DEF CounterInv

\* A counter whose number of documents a step does not change.
LEMMA CounterKept ==
  ASSUME NEW c \in Counters, CounterInv(c), Actual(c)' = Actual(c),
         Carried(c)' => (Carried(c) /\ count'[c] = count[c]) \/ count'[c] = Actual(c)',
         c \notin raced' => c \notin raced,
         \A t \in Sessions : c \in Pending(t) => c \in Pending(t)',
         \A t \in Sessions \ stale' : pc'[t] = "store" /\ Next1(t)' = c =>
             t \notin stale /\ pc[t] = "store" /\ Next1(t) = c /\ arg'[t] = arg[t]
  PROVE  CounterInv(c)'
  BY DEF CounterInv

LEMMA PendingContinue ==
  ASSUME Well, NEW s \in Sessions, NEW w, Continue(s, w)
  PROVE  /\ Pending(s)' = OwedBy(w) /\ pc'[s] # "store"
         /\ \A t \in Sessions \ {s} : Pending(t)' = Pending(t) /\ pc'[t] = pc[t] /\ arg'[t] = arg[t]
                                      /\ Next1(t)' = Next1(t)
  <1>1. /\ todo'[s] = w /\ pc'[s] # "store"
        /\ \A t \in Sessions \ {s} : todo'[t] = todo[t] /\ pc'[t] = pc[t] /\ arg'[t] = arg[t]
    BY DEF Continue, Well, FibersOK
  <1> QED BY <1>1 DEF Pending, OwedBy, Owed, CountersOf, Next1

\* A step that changes what the counters C count and goes on with w.
LEMMA CountByChange ==
  ASSUME Well, CountInv, NEW s \in Sessions, NEW C \in SUBSET Counters, NEW w, Change(s, C, w),
         Continue(s, w), Pending(s) \subseteq OwedBy(w),
         \A c \in Counters \ C :
             /\ Actual(c)' = Actual(c)
             /\ Carried(c)' => (Carried(c) /\ count'[c] = count[c]) \/ count'[c] = Actual(c)'
  PROVE  CountInv'
  <1> SUFFICES ASSUME NEW c \in Counters PROVE CounterInv(c)'
    BY DEF CountInv
  <1>1. /\ Pending(s)' = OwedBy(w) /\ pc'[s] # "store"
        /\ \A t \in Sessions \ {s} : Pending(t)' = Pending(t) /\ pc'[t] = pc[t] /\ arg'[t] = arg[t]
                                     /\ Next1(t)' = Next1(t)
    BY PendingContinue
  <1>2. /\ stale' = stale \cup {t \in Sessions \ {s} : pc[t] = "store" /\ Next1(t) \in C}
        /\ raced' = raced \cup (C \ OwedBy(w))
    BY DEF Change
  <1>3. CASE c \in C
    <2>1. c \notin raced' => c \in Pending(s)'
      BY <1>1, <1>2, <1>3
    <2>2. \A t \in Sessions \ stale' : ~(pc'[t] = "store" /\ Next1(t)' = c)
      BY <1>1, <1>2, <1>3
    <2> QED BY <2>1, <2>2 DEF CounterInv
  <1>4. CASE c \notin C
    <2>1. \A t \in Sessions : c \in Pending(t) => c \in Pending(t)'
      BY <1>1
    <2>2. \A t \in Sessions \ stale' : pc'[t] = "store" /\ Next1(t)' = c =>
             t \notin stale /\ pc[t] = "store" /\ Next1(t) = c /\ arg'[t] = arg[t]
      BY <1>1, <1>2
    <2> QED BY <1>2, <1>4, <2>1, <2>2, CounterKept DEF CountInv
  <1> QED BY <1>3, <1>4

\* A step that goes on, changes no count and owes at least what it did before.
LEMMA CountByContinue ==
  ASSUME Well, CountInv, NEW s \in Sessions, NEW w, Continue(s, w), Pending(s) \subseteq OwedBy(w),
         raced' = raced, stale' = stale,
         \A c \in Counters : Actual(c)' = Actual(c) /\ (Carried(c)' => Carried(c)) /\ count'[c] = count[c]
  PROVE  CountInv'
  <1> SUFFICES ASSUME NEW c \in Counters PROVE CounterInv(c)'
    BY DEF CountInv
  <1>1. \A t \in Sessions : c \in Pending(t) => c \in Pending(t)'
    BY PendingContinue
  <1>2. \A t \in Sessions : pc'[t] = "store" /\ Next1(t)' = c =>
           pc[t] = "store" /\ Next1(t) = c /\ arg'[t] = arg[t]
    BY PendingContinue
  <1> QED BY <1>1, <1>2, CounterKept DEF CountInv

\* Which counts a change of the collections leaves alone.
LEMMA ActualStars ==
  ASSUME NEW c \in Counters, NEW S, UNCHANGED app,
         stars' = stars \cup S \/ stars' = stars \ S, c \notin {<<"stars", x.item>> : x \in S}
  PROVE  Actual(c)' = Actual(c)
  <1>1. (\A x : Forks(x)' = Forks(x)) /\ (\A x : PublicApps(x)' = PublicApps(x))
    BY DEF Forks, PublicApps
  <1>2. ASSUME NEW i \in Items, c = <<"stars", i>> PROVE Starred(i)' = Starred(i)
    <2>1. \A x \in S : x.item # i
      BY <1>2
    <2> QED BY <2>1 DEF Starred
  <1> QED BY <1>1, <1>2 DEF Actual, Counters

LEMMA ActualSame ==
  ASSUME NEW c \in Counters, UNCHANGED <<app, stars>>
  PROVE  Actual(c)' = Actual(c)
  BY DEF Actual, Starred, Forks, PublicApps

LEMMA ActualAppsGone ==
  ASSUME Well, NEW M \in SUBSET Apps, UNCHANGED stars,
         app' = [a \in Apps |-> IF a \in M THEN Gone ELSE app[a]],
         NEW c \in Counters, c \notin UNION {CountersOf(app[a]) : a \in M}
  PROVE  Actual(c)' = Actual(c)
  <1>1. \A x : Starred(x)' = Starred(x)
    BY DEF Starred
  <1>2. \A a \in Apps : app'[a] = IF a \in M THEN Gone ELSE app[a]
    OBVIOUS
  <1>3. \A a \in M : c \notin CountersOf(app[a])
    OBVIOUS
  <1>4. ASSUME NEW x \in Apps, c = <<"forks", x>> PROVE Forks(x)' = Forks(x)
    <2>1. \A a \in M : app[a].forkOf # x
      BY <1>3, <1>4, CommunityAssumption DEF CountersOf
    <2> QED BY <1>2, <2>1, BlankType DEF Forks
  <1>5. ASSUME NEW u \in Users, c = <<"public", u>> PROVE PublicApps(u)' = PublicApps(u)
    <2>1. \A a \in M : app[a].owner # u
      BY <1>3, <1>5 DEF CountersOf
    <2> QED BY <1>2, <2>1, BlankType DEF PublicApps
  <1> QED BY <1>1, <1>4, <1>5 DEF Actual, Counters

\* Carriers do not come back.
LEMMA CarriedShrinks ==
  ASSUME NEW c \in Counters, users' \subseteq users,
         \A a \in Apps : app'[a].status = "live" => app[a].status = "live",
         \A j \in Jobs : job'[j].status = "live" => job[j].status = "live"
  PROVE  Carried(c)' => Carried(c)
  BY DEF Carried, Live, Counters, Items

LEMMA IdlePending ==
  ASSUME Well, NEW s \in Sessions, pc[s] \notin {"work", "remove", "store"}
  PROVE  Pending(s) = {}
  BY OwedByEmpty DEF Pending, Well, FibersOK, FiberOK

LEMMA HookPending ==
  ASSUME Well, NEW s \in Sessions, pc[s] \in {"work", "remove", "store"}
  PROVE  Pending(s) = Owed(Next1(s)) \cup OwedBy(Later(s))
  BY HookTypes, OwedByHead DEF Pending, Next1, Later

\* A step of s that is not one of hooks, and goes to another place.
LEMMA CountByGoto ==
  ASSUME Well, CountInv, NEW s \in Sessions, NEW label, NEW v, Goto(s, label, v), label # "store",
         UNCHANGED <<users, app, job, stars, count, todo, raced, stale>>
  PROVE  CountInv'
  <1> SUFFICES ASSUME NEW c \in Counters PROVE CounterInv(c)'
    BY DEF CountInv
  <1>1. pc'[s] = label /\ \A t \in Sessions \ {s} : pc'[t] = pc[t] /\ arg'[t] = arg[t]
    BY DEF Goto, Well, FibersOK
  <1>2. \A t \in Sessions : Pending(t)' = Pending(t) /\ Next1(t)' = Next1(t)
    BY DEF Pending, OwedBy, Owed, CountersOf, Next1
  <1>3. Actual(c)' = Actual(c) /\ (Carried(c)' => Carried(c))
    BY ActualSame, CarriedShrinks
  <1> QED BY <1>1, <1>2, <1>3, CounterKept DEF CountInv

LEMMA OneOwed ==
  ASSUME NEW w \in Chores
  PROVE  OwedBy(<<w>>) = Owed(w)
  BY DEF OwedBy

LEMMA CountCalls ==
  ASSUME Well, CountInv, NEW s \in Sessions, Start(s)
  PROVE  CountInv'
  <1>1. ASSUME NEW i \in Items, ToggleStar(s, i) PROVE CountInv'
    BY <1>1, CountByGoto DEF ToggleStar, db, history
  <1>2. CASE BeforeInsertApp(s)
    <2>1. PICK v : Goto(s, "insertApp", v)
      BY <1>2 DEF BeforeInsertApp
    <2> QED BY <1>2, <2>1, CountByGoto DEF BeforeInsertApp, db
  <1>3. CASE BeforeSetSlug(s)
    <2>1. PICK v : Goto(s, "setSlug", v)
      BY <1>3 DEF BeforeSetSlug
    <2> QED BY <1>3, <2>1, CountByGoto DEF BeforeSetSlug, db
  <1>4. CASE ToggleAppPublic(s)
    <2>1. PICK v : Goto(s, "flipPublic", v)
      BY <1>4 DEF ToggleAppPublic
    <2> QED BY <1>4, <2>1, CountByGoto DEF ToggleAppPublic, db, history
  <1>5. CASE JobsInsert(s)
    <2>1. PICK j \in Jobs :
             /\ job[j].status = "unborn"
             /\ job' = [job EXCEPT ![j] = [status |-> "live", owner |-> UserOf[s]]]
             /\ count' = [count EXCEPT ![<<"stars", j>>] = 0]
      BY <1>5 DEF JobsInsert
    <2>2. UNCHANGED <<users, app, stars, pc, arg, todo, raced, stale>>
      BY <1>5 DEF JobsInsert, history
    <2>3. j \notin Apps /\ <<"stars", j>> \in Counters /\ job \in [Jobs -> [status : Statuses, owner : Users]]
          /\ count \in [Counters -> Nat]
      BY CommunityAssumption, CounterTypes DEF Items, Well, Documents
    <2>4. Starred(j) = {}
      BY <2>1, <2>3 DEF Starred, Well, Documents, Born
    <2>5. Actual(<<"stars", j>>)' = 0
      <3>1. Starred(j)' = {} /\ Cardinality({}) = 0
        BY <2>2, <2>4, FS_EmptySet DEF Starred
      <3> QED BY <3>1 DEF Actual
    <2>6. \A i \in Jobs : i # j => job'[i] = job[i]
      BY <2>1, <2>3
    <2> SUFFICES ASSUME NEW c \in Counters PROVE CounterInv(c)'
      BY DEF CountInv
    <2>7. Carried(c)' => (Carried(c) /\ count'[c] = count[c]) \/ count'[c] = Actual(c)'
      <3>1. CASE c = <<"stars", j>>
        BY <2>1, <2>3, <2>5, <3>1
      <3>2. CASE c # <<"stars", j>>
        <4>1. count'[c] = count[c]
          BY <2>1, <2>3, <3>2
        <4>2. Carried(c)' => Carried(c)
          BY <2>2, <2>6, <3>2 DEF Carried, Live, Counters, Items
        <4> QED BY <4>1, <4>2
      <3> QED BY <3>1, <3>2
    <2>8. \A t \in Sessions : Pending(t)' = Pending(t) /\ Next1(t)' = Next1(t)
      BY <2>2 DEF Pending, OwedBy, Owed, CountersOf, Next1
    <2>9. Actual(c)' = Actual(c)
      BY <2>2, ActualSame
    <2> QED BY <2>2, <2>7, <2>8, <2>9, CounterKept DEF CountInv
  <1>6. CASE RemoveApp(s) \/ JobsRemove(s) \/ RemoveUserAccount(s)
    <2>1. PICK w : Continue(s, w)
      BY <1>6 DEF RemoveApp, JobsRemove, RemoveUserAccount
    <2>2. UNCHANGED <<users, app, job, stars, count, raced, stale>>
      BY <1>6 DEF RemoveApp, JobsRemove, RemoveUserAccount, db, history
    <2>3. Pending(s) = {}
      BY <1>6, IdlePending DEF RemoveApp, JobsRemove, RemoveUserAccount, MayCall
    <2>4. \A c \in Counters : Actual(c)' = Actual(c) /\ (Carried(c)' => Carried(c))
      BY <2>2, ActualSame, CarriedShrinks
    <2> QED BY <2>1, <2>2, <2>3, <2>4, CountByContinue
  <1> QED BY <1>1, <1>2, <1>3, <1>4, <1>5, <1>6
          DEF Start, Call, ToggleStarApplication, ToggleStarJob, Items

LEMMA CountFindStar ==
  ASSUME Well, CountInv, NEW s \in Sessions, FindStar(s)
  PROVE  CountInv'
  <1>1. UNCHANGED <<users, app, job, stars, count, raced, stale>> /\ Pending(s) = {}
    BY IdlePending DEF FindStar, db
  <1>2. \A d \in Counters : Actual(d)' = Actual(d) /\ (Carried(d)' => Carried(d))
    BY <1>1, ActualSame, CarriedShrinks
  <1>3. ASSUME NEW w, Continue(s, w) PROVE CountInv'
    BY <1>1, <1>2, <1>3, CountByContinue
  <1>4. CASE Goto(s, "star", arg[s]) /\ UNCHANGED todo
    BY <1>1, <1>4, CountByGoto
  <1> QED BY <1>3, <1>4 DEF FindStar

LEMMA CountInsertStar ==
  ASSUME Well, CountInv, NEW s \in Sessions, InsertStar(s)
  PROVE  CountInv'
  <1> DEFINE x == [id |-> nextStar, by |-> UserOf[s], item |-> arg[s]]
             c == <<"stars", arg[s]>>
  <1>1. stars' = stars \cup {x} /\ Change(s, {c}, <<c>>) /\ Continue(s, <<c>>)
        /\ UNCHANGED <<users, app, job, count>> /\ Pending(s) = {}
    BY IdlePending DEF InsertStar
  <1>2. {c} \in SUBSET Counters
    BY CounterTypes DEF InsertStar, Well, FibersOK, FiberOK
  <1>3. {<<"stars", y.item>> : y \in {x}} = {c}
    OBVIOUS
  <1>4. \A d \in Counters \ {c} : Actual(d)' = Actual(d) /\ (Carried(d)' => Carried(d))
    BY <1>1, <1>3, ActualStars, CarriedShrinks
  <1> HIDE DEF c
  <1> QED BY <1>1, <1>2, <1>4, CountByChange

LEMMA CountInsertApp ==
  ASSUME Well, CountInv, NEW s \in Sessions, InsertApp(s)
  PROVE  CountInv'
  <1> DEFINE d == arg[s]
  <1>1. PICK a \in Apps :
         /\ app[a].status = "unborn"
         /\ app' = [app EXCEPT ![a] = d]
         /\ count' = [count EXCEPT ![<<"stars", a>>] = 0, ![<<"forks", a>>] = 0]
    BY DEF InsertApp
  <1>2. Change(s, CountersOf(d), Recounts(d)) /\ Continue(s, Recounts(d)) /\ UNCHANGED <<users, job, stars>>
        /\ Pending(s) = {}
    BY IdlePending DEF InsertApp
  <1>3. d \in AppDocs /\ d.status = "live" /\ (d.forkOf # NoApp => Born(d.forkOf))
    BY DEF InsertApp, Well, FibersOK, FiberOK
  <1>4. app \in [Apps -> AppDocs] /\ count \in [Counters -> Nat] /\ a \notin Jobs
        /\ <<"stars", a>> \in Counters /\ <<"forks", a>> \in Counters
    BY CommunityAssumption, CounterTypes DEF Well, Documents, Items
  <1>5. \A b \in Apps : app'[b] = IF b = a THEN d ELSE app[b]
    BY <1>1, <1>4
  <1>6. d.forkOf # a
    BY <1>1, <1>3, CommunityAssumption DEF Born
  <1>7. Starred(a) = {} /\ Forks(a) = {}
    <2>1. Starred(a) = {}
      BY <1>1 DEF Starred, Well, Documents, Born
    <2>2. Forks(a) = {}
      BY <1>1, CommunityAssumption DEF Forks, Well, Documents, Born
    <2> QED BY <2>1, <2>2
  <1>8. \A x : Starred(x)' = Starred(x)
    BY <1>2 DEF Starred
  <1>9. \A x \in Apps : d.forkOf # x => Forks(x)' = Forks(x)
    BY <1>1, <1>5 DEF Forks
  <1>10. \A u \in Users : d.owner # u => PublicApps(u)' = PublicApps(u)
    BY <1>1, <1>5 DEF PublicApps
  <1>11. ASSUME NEW c \in Counters, c \notin CountersOf(d) PROVE Actual(c)' = Actual(c)
    <2>1. \A x \in Apps : c = <<"forks", x>> => d.forkOf # x
      BY <1>11, CommunityAssumption DEF CountersOf
    <2>2. \A u \in Users : c = <<"public", u>> => d.owner # u
      BY <1>11 DEF CountersOf
    <2> QED BY <1>8, <1>9, <1>10, <2>1, <2>2 DEF Actual, Counters
  <1>12. ASSUME NEW c \in Counters, c \in {<<"stars", a>>, <<"forks", a>>}
         PROVE  count'[c] = Actual(c)'
    <2>1. count'[c] = 0
      BY <1>1, <1>4, <1>12
    <2>2. Starred(a)' = {} /\ Forks(a)' = {} /\ Cardinality({}) = 0
      BY <1>6, <1>7, <1>8, <1>9, FS_EmptySet
    <2>3. Actual(c)' = 0
      BY <1>12, <2>2 DEF Actual
    <2> QED BY <2>1, <2>3
  <1>13. ASSUME NEW c \in Counters, c \notin {<<"stars", a>>, <<"forks", a>>}
         PROVE  count'[c] = count[c] /\ (Carried(c)' => Carried(c))
    <2>1. count'[c] = count[c]
      BY <1>1, <1>4, <1>13
    <2>2. Carried(c)' => Carried(c)
      BY <1>2, <1>5, <1>13 DEF Carried, Live, Counters, Items
    <2> QED BY <2>1, <2>2
  <1>14. CountersOf(d) \in SUBSET Counters
    BY <1>3, DocTypes, CountersOfType
  <1> HIDE DEF d
  <1> QED BY <1>2, <1>11, <1>12, <1>13, <1>14, CountByChange

LEMMA CountFlip ==
  ASSUME Well, CountInv, NEW s \in Sessions, FlipPublic(s)
  PROVE  CountInv'
  <1> DEFINE a == arg[s].app
             p == <<"public", app[a].owner>>
  <1>1. a \in Apps /\ arg[s].public \in BOOLEAN /\ app[a] \in AppDocs /\ app \in [Apps -> AppDocs]
    BY DEF FlipPublic, Well, FibersOK, FiberOK, Documents
  <1>2. Continue(s, <<>>) /\ UNCHANGED <<users, job, stars, count>> /\ Pending(s) = {}
    BY IdlePending DEF FlipPublic
  <1>3. CASE app[a].status # "live"
    <2>1. UNCHANGED <<app, raced, stale>>
      BY <1>3 DEF FlipPublic
    <2>2. \A c \in Counters : Actual(c)' = Actual(c) /\ (Carried(c)' => Carried(c))
      BY <1>2, <2>1, ActualSame, CarriedShrinks
    <2> QED BY <1>2, <2>1, <2>2, OwedByEmpty, CountByContinue
  <1>4. CASE app[a].status = "live"
    <2>1. /\ app' = [app EXCEPT ![a] = [@ EXCEPT !.public = arg[s].public]]
          /\ Change(s, {p}, <<>>)
      BY <1>4 DEF FlipPublic
    <2>2. LET e == [app[a] EXCEPT !.public = arg[s].public]
          IN  e.status = app[a].status /\ e.forkOf = app[a].forkOf /\ e.owner = app[a].owner
      BY <1>1, PublicType
    <2>3. \A b \in Apps : /\ app'[b].status = app[b].status /\ app'[b].forkOf = app[b].forkOf
                          /\ app'[b].owner = app[b].owner
                          /\ b # a => app'[b] = app[b]
      BY <1>1, <2>1, <2>2
    <2>4. (\A x : Forks(x)' = Forks(x)) /\ (\A x : Starred(x)' = Starred(x))
      BY <1>2, <2>3 DEF Forks, Starred
    <2>5. \A u : u # app[a].owner => PublicApps(u)' = PublicApps(u)
      BY <2>3 DEF PublicApps
    <2>6. ASSUME NEW c \in Counters, c # p PROVE Actual(c)' = Actual(c)
      BY <2>4, <2>5, <2>6 DEF Actual, Counters
    <2>7. \A c \in Counters : Carried(c)' => Carried(c)
      BY <1>2, <2>3, CarriedShrinks
    <2>8. {p} \in SUBSET Counters
      BY <1>1, DocTypes, CounterTypes
    <2> HIDE DEF p
    <2> QED BY <1>2, <2>1, <2>6, <2>7, <2>8, CountByChange
  <1> QED BY <1>3, <1>4

LEMMA CountSetSlug ==
  ASSUME Well, CountInv, NEW s \in Sessions, SetSlug(s)
  PROVE  CountInv'
  <1> DEFINE a == arg[s].app
  <1>1. a \in Apps /\ arg[s].slug \in Slugs /\ app[a] \in AppDocs /\ app \in [Apps -> AppDocs]
    BY DEF SetSlug, Well, FibersOK, FiberOK, Documents
  <1>2. Continue(s, <<>>) /\ UNCHANGED <<users, job, stars, count, raced, stale>> /\ Pending(s) = {}
        /\ app' = (IF app[a].status = "live" THEN [app EXCEPT ![a] = [@ EXCEPT !.slug = arg[s].slug]]
                   ELSE app)
    BY IdlePending DEF SetSlug, history
  <1>3. LET e == [app[a] EXCEPT !.slug = arg[s].slug]
        IN  e.status = app[a].status /\ e.forkOf = app[a].forkOf /\ e.owner = app[a].owner
            /\ e.public = app[a].public
    BY <1>1, SlugType
  <1>4. \A b \in Apps : /\ app'[b].status = app[b].status /\ app'[b].forkOf = app[b].forkOf
                        /\ app'[b].owner = app[b].owner /\ app'[b].public = app[b].public
    BY <1>1, <1>2, <1>3
  <1>5. \A x : Forks(x)' = Forks(x) /\ Starred(x)' = Starred(x) /\ PublicApps(x)' = PublicApps(x)
    BY <1>2, <1>4 DEF Forks, Starred, PublicApps
  <1>6. \A c \in Counters : Actual(c)' = Actual(c)
    BY <1>5 DEF Actual, Counters
  <1>7. \A c \in Counters : Carried(c)' => Carried(c)
    BY <1>2, <1>4, CarriedShrinks
  <1> QED BY <1>2, <1>6, <1>7, OwedByEmpty, CountByContinue

LEMMA CountCount ==
  ASSUME Well, CountInv, NEW s \in Sessions, CountHook(s)
  PROVE  CountInv'
  <1>1. Goto(s, "store", Actual(Next1(s))) /\ pc[s] = "work"
        /\ UNCHANGED <<users, app, job, stars, count, todo, raced, stale>>
    BY DEF CountHook, db, history
  <1>2. pc'[s] = "store" /\ arg'[s] = Actual(Next1(s))
        /\ \A t \in Sessions \ {s} : pc'[t] = pc[t] /\ arg'[t] = arg[t]
    BY <1>1 DEF Goto, Well, FibersOK
  <1> SUFFICES ASSUME NEW c \in Counters PROVE CounterInv(c)'
    BY DEF CountInv
  <1>3. \A t \in Sessions : Pending(t)' = Pending(t) /\ Next1(t)' = Next1(t)
    BY <1>1 DEF Pending, OwedBy, Owed, CountersOf, Next1
  <1>4. Actual(c)' = Actual(c) /\ (Carried(c)' <=> Carried(c))
    BY <1>1, ActualSame DEF Carried, Live
  <1>5. CounterInv(c)
    BY DEF CountInv
  <1>6. c \notin raced' /\ Carried(c)' /\ (\A t \in Sessions : c \notin Pending(t)') => count'[c] = Actual(c)'
    BY <1>1, <1>3, <1>4, <1>5 DEF CounterInv
  <1>7. ASSUME NEW t \in Sessions \ stale', pc'[t] = "store", Next1(t)' = c
        PROVE  arg'[t] = Actual(c)'
    BY <1>1, <1>2, <1>3, <1>4, <1>5, <1>7 DEF CounterInv
  <1> QED BY <1>6, <1>7 DEF CounterInv

LEMMA CountStore ==
  ASSUME Well, CountInv, NEW s \in Sessions, StoreHook(s)
  PROVE  CountInv'
  <1> DEFINE c == Next1(s)
             left == OwedBy(Later(s))
  <1>1. /\ count' = IF Carried(c) THEN [count EXCEPT ![c] = arg[s]] ELSE count
        /\ raced' = IF s \in stale THEN raced \cup {c} ELSE raced \ {c}
        /\ stale' = stale \ {s}
        /\ Continue(s, Later(s)) /\ UNCHANGED <<users, app, job, stars>> /\ pc[s] = "store"
    BY DEF StoreHook
  <1>2. c \in Counters /\ count \in [Counters -> Nat]
    BY <1>1 DEF Well, FibersOK, FiberOK, Next1, Documents
  <1>3. Pending(s) = {c} \cup left /\ Pending(s)' = left
    BY <1>1, <1>2, HookPending, PendingContinue DEF Owed
  <1>4. /\ pc'[s] # "store"
        /\ \A t \in Sessions \ {s} : Pending(t)' = Pending(t) /\ pc'[t] = pc[t] /\ arg'[t] = arg[t]
                                     /\ Next1(t)' = Next1(t)
    BY <1>1, PendingContinue
  <1>5. CounterInv(c) /\ (s \notin stale => arg[s] = Actual(c))
    BY <1>1, <1>2 DEF CountInv, CounterInv
  <1> HIDE DEF c, left
  <1> SUFFICES ASSUME NEW d \in Counters PROVE CounterInv(d)'
    BY DEF CountInv
  <1>6. Actual(d)' = Actual(d) /\ (Carried(d)' <=> Carried(d))
    BY <1>1, ActualSame DEF Carried, Live
  <1>7. CounterInv(d)
    BY DEF CountInv
  <1>8. \A t \in Sessions \ stale' : pc'[t] = "store" /\ Next1(t)' = d =>
           t \notin stale /\ pc[t] = "store" /\ Next1(t) = d /\ arg'[t] = arg[t]
    BY <1>1, <1>4
  <1>9. CASE d # c
    <2>1. \A t \in Sessions : d \in Pending(t) => d \in Pending(t)'
      BY <1>3, <1>4, <1>9
    <2>2. count'[d] = count[d] /\ (d \notin raced' => d \notin raced)
      BY <1>1, <1>2, <1>9
    <2> QED BY <1>6, <1>7, <1>8, <2>1, <2>2, CounterKept
  <1>10. CASE d = c
    <2>1. \A t \in Sessions \ stale' : pc'[t] = "store" /\ Next1(t)' = d => arg'[t] = Actual(d)'
      BY <1>6, <1>7, <1>8 DEF CounterInv
    <2>2. d \notin raced' /\ Carried(d)' => count'[d] = Actual(d)'
      BY <1>1, <1>2, <1>5, <1>6, <1>10
    <2> QED BY <2>1, <2>2 DEF CounterInv
  <1> QED BY <1>9, <1>10

LEMMA CountAppRemoved ==
  ASSUME Well, CountInv, NEW s \in Sessions, AppRemovedHook(s)
  PROVE  CountInv'
  <1> DEFINE d == Next1(s)[2]
  <1>1. Continue(s, AfterAppRemove(d) \o Later(s)) /\ pc[s] = "work" /\ Next1(s)[1] = "appRemoved"
        /\ UNCHANGED <<users, app, job, stars, count, raced, stale>>
    BY DEF AppRemovedHook, db, history
  <1>2. d \in AppRefs /\ Later(s) \in Seq(Chores) /\ Next1(s) \notin Counters
    BY <1>1, HookTypes, ChoreType
  <1>3. Pending(s) = CountersOf(d) \cup OwedBy(Later(s))
    <2>1. Owed(Next1(s)) = CountersOf(d)
      BY <1>1, <1>2 DEF Owed
    <2> QED BY <1>1, <2>1, HookPending
  <1> HIDE DEF d
  <1>4. OwedBy(AfterAppRemove(d)) = CountersOf(d)
    <2>1. <<"starsOf", d.id>> \in StarSelectors
      BY <1>2, DocTypes, SelectorTypes DEF Items
    <2>2. OwedBy(<< <<"starsOf", d.id>> >>) = {} /\ << <<"starsOf", d.id>> >> \in Seq(Chores)
      BY <2>1, SelectorsOweNothing, OneOwed
    <2>3. OwedBy(AfterAppRemove(d)) = OwedBy(Recounts(d)) \cup OwedBy(<< <<"starsOf", d.id>> >>)
      BY <1>2, <2>2, DocTypes, RecountsType, OwedByConcat DEF AfterAppRemove
    <2> QED BY <1>2, <2>2, <2>3, DocTypes, OwedByRecounts
  <1>5. OwedBy(AfterAppRemove(d) \o Later(s)) = Pending(s)
    BY <1>2, <1>3, <1>4, AfterAppRemoveType, OwedByConcat
  <1>6. \A c \in Counters : Actual(c)' = Actual(c) /\ (Carried(c)' => Carried(c))
    BY <1>1, ActualSame, CarriedShrinks
  <1> QED BY <1>1, <1>5, <1>6, CountByContinue

\* A removal owes nothing itself: what the fiber owes is what comes later.
LEMMA RemovalPending ==
  ASSUME Well, NEW s \in Sessions, pc[s] = "remove",
         Next1(s) \in StarSelectors \cup AppSelectors \cup JobSelectors \cup UserSelectors,
         NEW w \in Seq(Chores)
  PROVE  Pending(s) \subseteq OwedBy(w \o Later(s))
  <1>1. Pending(s) = OwedBy(Later(s))
    BY HookPending, SelectorsOweNothing
  <1> QED BY <1>1, HookTypes, OwedByConcat

LEMMA CountFetch ==
  ASSUME Well, CountInv, NEW s \in Sessions, Fetch(s)
  PROVE  CountInv'
  <1>1. PICK v : Goto(s, "remove", v)
    BY DEF Fetch
  <1> QED BY <1>1, CountByGoto DEF Fetch, db, history

LEMMA CountRemoveStars ==
  ASSUME Well, CountInv, NEW s \in Sessions, RemoveStars(s)
  PROVE  CountInv'
  <1> DEFINE S == StarsMatching(Next1(s))
             C == {<<"stars", x.item>> : x \in S}
  <1>1. stars' = stars \ S /\ UNCHANGED <<users, app, job, count>>
        /\ pc[s] = "remove" /\ Next1(s) \in StarSelectors
    BY DEF RemoveStars
  <1> DEFINE w(q) == [i \in DOMAIN q |-> <<"stars", q[i].item>>]
  <1>2. PICK q \in Orders(arg[s]) : Change(s, C, w(q) \o Later(s)) /\ Continue(s, w(q) \o Later(s))
    BY DEF RemoveStars
  <1>3. w(q) \in Seq(Chores)
    <2>1. arg[s] \subseteq StarDocs /\ IsFiniteSet(arg[s])
      BY <1>1 DEF Well, FibersOK, FiberOK, Next1
    <2>2. PICK n \in Nat : DOMAIN q = 1 .. n /\ \A i \in 1 .. n : q[i] \in arg[s]
      BY <2>1, OrderType
    <2>3. \A i \in 1 .. n : <<"stars", q[i].item>> \in Chores
      BY <2>1, <2>2, CounterTypes DEF StarDocs
    <2> QED BY <2>2, <2>3
  <1>4. \A c \in Counters \ C : Actual(c)' = Actual(c) /\ (Carried(c)' => Carried(c))
    <2> HIDE DEF S
    <2> QED BY <1>1, ActualStars, CarriedShrinks
  <1>5. C \in SUBSET Counters
    BY CounterTypes DEF StarsMatching, StarDocs, Well, Documents
  <1> HIDE DEF C, w
  <1>6. Pending(s) \subseteq OwedBy(w(q) \o Later(s))
    BY <1>1, <1>3, RemovalPending
  <1> QED BY <1>1, <1>2, <1>4, <1>5, <1>6, CountByChange

LEMMA CountRemoveApps ==
  ASSUME Well, CountInv, NEW s \in Sessions, RemoveApps(s)
  PROVE  CountInv'
  <1> DEFINE M == AppsMatching(Next1(s))
             C == UNION {CountersOf(app[a]) : a \in M}
  <1>1. app' = [a \in Apps |-> IF a \in M THEN Gone ELSE app[a]] /\ UNCHANGED <<users, job, stars, count>>
        /\ pc[s] = "remove" /\ Next1(s) \in AppSelectors
    BY DEF RemoveApps
  <1> DEFINE w(q) == [i \in DOMAIN q |-> <<"appRemoved", q[i]>>]
  <1>2. PICK q \in Orders(arg[s]) : Change(s, C, w(q) \o Later(s)) /\ Continue(s, w(q) \o Later(s))
    BY DEF RemoveApps
  <1>3. w(q) \in Seq(Chores)
    <2>1. arg[s] \subseteq AppRefs /\ IsFiniteSet(arg[s])
      BY <1>1 DEF Well, FibersOK, FiberOK, Next1
    <2>2. PICK n \in Nat : DOMAIN q = 1 .. n /\ \A i \in 1 .. n : q[i] \in arg[s]
      BY <2>1, OrderType
    <2>3. \A i \in 1 .. n : <<"appRemoved", q[i]>> \in Chores
      BY <2>1, <2>2 DEF Chores
    <2> QED BY <2>2, <2>3
  <1>4. M \in SUBSET Apps
    BY DEF AppsMatching
  <1>5. C \in SUBSET Counters
    <2>1. \A a \in M : CountersOf(app[a]) \subseteq Counters
      BY DocTypes, CountersOfType DEF AppsMatching, Well, Documents
    <2> QED BY <2>1
  <1> HIDE DEF M
  <1>6. \A c \in Counters \ C : Actual(c)' = Actual(c)
    BY <1>1, <1>4, ActualAppsGone
  <1>7. \A c \in Counters : Carried(c)' => Carried(c)
    BY <1>1, BlankType, CarriedShrinks
  <1> HIDE DEF C, w
  <1>8. Pending(s) \subseteq OwedBy(w(q) \o Later(s))
    BY <1>1, <1>3, RemovalPending
  <1> QED BY <1>1, <1>2, <1>5, <1>6, <1>7, <1>8, CountByChange

LEMMA CountRemoveJobs ==
  ASSUME Well, CountInv, NEW s \in Sessions, RemoveJobs(s)
  PROVE  CountInv'
  <1> DEFINE M == JobsMatching(Next1(s))
  <1>1. job' = [j \in Jobs |-> IF j \in M THEN [job[j] EXCEPT !.status = "gone"] ELSE job[j]]
        /\ UNCHANGED <<users, app, stars, count, raced, stale>>
        /\ pc[s] = "remove" /\ Next1(s) \in JobSelectors
    BY DEF RemoveJobs, history
  <1> DEFINE w(q) == [i \in DOMAIN q |-> <<"starsOf", q[i]>>]
  <1>2. PICK q \in Orders(arg[s]) : Continue(s, w(q) \o Later(s))
    BY DEF RemoveJobs
  <1>3. w(q) \in Seq(Chores)
    <2>1. arg[s] \subseteq Jobs
      BY <1>1 DEF Well, FibersOK, FiberOK, Next1
    <2>2. IsFiniteSet(arg[s])
      BY <2>1, CommunityAssumption, FS_Subset
    <2>3. PICK n \in Nat : DOMAIN q = 1 .. n /\ \A i \in 1 .. n : q[i] \in arg[s]
      BY <2>2, OrderType
    <2>4. \A i \in 1 .. n : <<"starsOf", q[i]>> \in Chores
      BY <2>1, <2>3, SelectorTypes DEF Items
    <2> QED BY <2>3, <2>4
  <1>4. \A j \in Jobs : job'[j].status = "live" => job[j].status = "live"
    <2>1. \A j \in Jobs : [job[j] EXCEPT !.status = "gone"].status = "gone"
      BY DEF Well, Documents
    <2> QED BY <1>1, <2>1
  <1>5. \A c \in Counters : Actual(c)' = Actual(c) /\ (Carried(c)' => Carried(c))
    BY <1>1, <1>4, ActualSame, CarriedShrinks
  <1> HIDE DEF w
  <1>6. Pending(s) \subseteq OwedBy(w(q) \o Later(s))
    BY <1>1, <1>3, RemovalPending
  <1> QED BY <1>1, <1>2, <1>5, <1>6, CountByContinue

LEMMA CountRemoveUser ==
  ASSUME Well, CountInv, NEW s \in Sessions, RemoveUser(s)
  PROVE  CountInv'
  <1> DEFINE mine == << <<"appsBy", UserOf[s]>>, <<"jobsBy", UserOf[s]>>, <<"starsBy", UserOf[s]>> >>
             w == IF arg[s] = {} THEN <<>> ELSE mine
  <1>1. users' \subseteq users /\ Continue(s, w \o Later(s)) /\ UNCHANGED <<app, job, stars, count, raced, stale>>
        /\ pc[s] = "remove" /\ Next1(s) \in UserSelectors
    BY DEF RemoveUser
  <1>2. w \in Seq(Chores)
    <2>1. /\ <<"appsBy", UserOf[s]>> \in Chores /\ <<"jobsBy", UserOf[s]>> \in Chores
          /\ <<"starsBy", UserOf[s]>> \in Chores
      BY CommunityAssumption, SelectorTypes
    <2> QED BY <2>1
  <1>3. \A c \in Counters : Actual(c)' = Actual(c) /\ (Carried(c)' => Carried(c))
    BY <1>1, ActualSame, CarriedShrinks
  <1> HIDE DEF w
  <1>4. Pending(s) \subseteq OwedBy(w \o Later(s))
    BY <1>1, <1>2, RemovalPending
  <1> QED BY <1>1, <1>3, <1>4, CountByContinue

LEMMA CountWork ==
  ASSUME Well, CountInv, NEW s \in Sessions, Work(s)
  PROVE  CountInv'
  BY CountFindStar, CountInsertStar, CountInsertApp, CountFlip, CountSetSlug, CountFetch, CountRemoveStars,
     CountRemoveApps, CountRemoveJobs, CountRemoveUser, CountCount, CountStore, CountAppRemoved
  DEF Work, Proceed, Removal, Hook

LEMMA CountRestart ==
  ASSUME Well, CountInv, Restart
  PROVE  CountInv'
  <1> SUFFICES ASSUME NEW c \in Counters PROVE CounterInv(c)'
    BY DEF CountInv
  <1>1. \A s \in Sessions : Pending(s)' = {}
    BY OwedByEmpty DEF Restart, Pending
  <1>2. UNCHANGED <<users, app, job, stars, count>>
        /\ (c \notin raced' => c \notin raced /\ \A s \in Sessions : c \notin Pending(s))
    BY DEF Restart, db
  <1>3. \A s \in Sessions : pc'[s] # "store"
    BY DEF Restart
  <1>4. Actual(c)' = Actual(c) /\ (Carried(c)' => Carried(c))
    BY <1>2, ActualSame, CarriedShrinks
  <1> QED BY <1>1, <1>2, <1>3, <1>4 DEF CounterInv, CountInv

LEMMA CountStep == Well /\ CountInv /\ [Next]_vars => CountInv'
  <1>1. ASSUME Well, CountInv, UNCHANGED vars PROVE CountInv'
    <2> SUFFICES ASSUME NEW c \in Counters PROVE CounterInv(c)'
      BY DEF CountInv
    <2>1. \A s \in Sessions : Pending(s)' = Pending(s) /\ Next1(s)' = Next1(s)
      BY <1>1 DEF vars, Pending, OwedBy, Owed, CountersOf, Next1
    <2>2. UNCHANGED <<users, app, job, stars, count, pc, arg, raced, stale>>
      BY <1>1 DEF vars
    <2>3. Actual(c)' = Actual(c) /\ (Carried(c)' => Carried(c))
      BY <2>2, ActualSame, CarriedShrinks
    <2> QED BY <1>1, <2>1, <2>2, <2>3, CounterKept DEF CountInv
  <1> QED BY <1>1, CountCalls, CountWork, CountRestart DEF Next

(* A derived number is what it counts whenever no hook still owes it,      *)
(* unless the hook that wrote it last had counted before another call       *)
(* changed it and stored after, or nothing has recounted it since a change  *)
(* the code makes without a hook: a toggle of public, the removal of a      *)
(* document inserted after the removal had fetched, a restart before the    *)
(* hook.  For any number of users, documents, sessions, calls and restarts. *)
THEOREM CountsAreExact == Spec => []CountsExact
  <1>1. Spec => [](Well /\ CountInv)
    BY InitWell, StepWell, CountInit, CountStep, PTL DEF Spec
  <1>2. CountInv => CountsExact
    BY DEF CountInv, CounterInv, CountsExact
  <1> QED BY <1>1, <1>2, PTL

=============================================================================
