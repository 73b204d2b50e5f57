------------------------------ MODULE Community ------------------------------
(***************************************************************************)
(* The community side of kitchen-gui's server: applications, jobs, forks,  *)
(* stars, slugs and the removal of an account.  A Meteor method runs in a  *)
(* fiber that gives way at every database call, so the calls of different  *)
(* sessions interleave between their reads and their writes; the calls of  *)
(* one session run one after the other.  The collection hooks of           *)
(* server/collections run in the fiber of the call that triggered them.  A *)
(* removal fetches the documents that match, removes what matches then,    *)
(* and runs the after-hooks of the documents it has fetched.  What is left *)
(* of a call, removals and hooks, is the fiber's todo.                     *)
(***************************************************************************)
EXTENDS Integers, Sequences, FiniteSets

CONSTANTS Users, Admins, Apps, Jobs, Sessions, Slugs, NoApp,
          FirstSlug,     \* the slugs of the applications there are at first
          UserOf,        \* the user logged in to each session
          MaxCalls,      \* bound: method calls made
          MaxStars,      \* bound: stars ever inserted
          MaxRestarts    \* bound: restarts of the server

ASSUME CommunityAssumption ==
    /\ IsFiniteSet(Sessions) /\ IsFiniteSet(Apps) /\ IsFiniteSet(Jobs)
    /\ Users # {} /\ Slugs # {}
    /\ UserOf \in [Sessions -> Users]
    /\ Admins \subseteq Users
    /\ NoApp \notin Apps
    /\ Apps \cap Jobs = {}
    /\ DOMAIN FirstSlug \subseteq Apps
    /\ FirstSlug \in [DOMAIN FirstSlug -> Slugs]
    /\ \A a, b \in DOMAIN FirstSlug : FirstSlug[a] = FirstSlug[b] => a = b
    /\ MaxCalls \in Nat /\ MaxStars \in Nat /\ MaxRestarts \in Nat

Items == Apps \cup Jobs

\* The derived numbers: stars of an item, forks of an application, public
\* applications of a user.
Counters == ({"stars"} \X Items) \cup ({"forks"} \X Apps) \cup ({"public"} \X Users)

Statuses == {"unborn", "live", "gone"}
AppDocs == [status : Statuses, owner : Users, slug : Slugs, public : BOOLEAN,
            forkOf : Apps \cup {NoApp}]
Blank == [status |-> "unborn", owner |-> CHOOSE u \in Users : TRUE,
          slug |-> CHOOSE g \in Slugs : TRUE, public |-> FALSE, forkOf |-> NoApp]
Gone == [Blank EXCEPT !.status = "gone"]
\* What the hook of a removal needs of the application it has fetched.
AppRefs == [id : Apps, owner : Users, forkOf : Apps \cup {NoApp}]
StarDocs == [id : Nat, by : Users, item : Items]

\* What a fiber can still have to do: to recount a counter, to remove what
\* matches a selector, or the hook of an application that was removed.
StarSelectors == ({"star"} \X StarDocs) \cup ({"starsOf"} \X Items) \cup ({"starsBy"} \X Users)
AppSelectors == ({"app"} \X Apps) \cup ({"appsBy"} \X Users)
JobSelectors == ({"job"} \X Jobs) \cup ({"jobsBy"} \X Users)
UserSelectors == {"user"} \X Users
Chores == Counters \cup ({"appRemoved"} \X AppRefs)
          \cup StarSelectors \cup AppSelectors \cup JobSelectors \cup UserSelectors

VARIABLES
    users,      \* the accounts
    app,        \* collection Applications
    job,        \* collection Jobs
    stars,      \* collection Stars
    count,      \* starCount, forkCount, profile.publicProjectCount
    nextStar,   \* the next star id
    pc, arg,    \* where a fiber is, and the values it has read
    todo,       \* the removals and hooks a fiber has still to run
    calls, restarts,
    \* history
    stale,      \* fibers about to store a number that has changed since they counted
    raced,      \* counters last written by such a fiber, or left without a recount
    starRace,   \* <<user, item>>: two of the user's calls found no star at once
    slugRace,   \* slugs two fibers found free at once
    cleanRemovals \* users who removed their account while doing nothing else

db == <<users, app, job, stars, count, nextStar>>
history == <<stale, raced, starRace, slugRace, cleanRemovals>>
vars == <<users, app, job, stars, count, nextStar, pc, arg, todo, calls, restarts,
          stale, raced, starRace, slugRace, cleanRemovals>>

Fibers == {"idle", "findStar", "star", "insertApp", "setSlug", "flipPublic",
           "work", "remove", "store"}

TypeOK ==
    /\ users \subseteq Users
    /\ app \in [Apps -> AppDocs]
    /\ job \in [Jobs -> [status : Statuses, owner : Users]]
    /\ stars \subseteq StarDocs
    /\ count \in [Counters -> Nat]
    /\ nextStar \in 1 .. MaxStars + 1
    /\ pc \in [Sessions -> Fibers]
    /\ todo \in [Sessions -> Seq(Chores)]
    /\ calls \in 0 .. MaxCalls
    /\ restarts \in 0 .. MaxRestarts
    /\ stale \subseteq Sessions
    /\ raced \subseteq Counters
    /\ starRace \subseteq Users \X Items
    /\ slugRace \subseteq Slugs
    /\ cleanRemovals \subseteq Users

-----------------------------------------------------------------------------
(* What the database holds.                                                *)

Live(i) == IF i \in Apps THEN app[i].status = "live" ELSE job[i].status = "live"
Starred(i) == {x \in stars : x.item = i}
Forks(a) == {b \in Apps : app[b].status = "live" /\ app[b].forkOf = a}
PublicApps(u) == {b \in Apps : /\ app[b].status = "live"
                               /\ app[b].owner = u
                               /\ app[b].public}

\* The number a hook counts for counter c.
Actual(c) == CASE c[1] = "stars"  -> Cardinality(Starred(c[2]))
               [] c[1] = "forks"  -> Cardinality(Forks(c[2]))
               [] c[1] = "public" -> Cardinality(PublicApps(c[2]))

\* The document that carries counter c is still there.
Carried(c) == IF c[1] = "public" THEN c[2] \in users ELSE Live(c[2])

SlugIsFree(a, g) == \A b \in Apps \ {a} : ~(app[b].status = "live" /\ app[b].slug = g)

-----------------------------------------------------------------------------
(* Hooks.                                                                  *)

\* Applications.after.insert and the first half of after.remove, of an
\* application or of what was fetched of it.
Recounts(d) == (IF d.forkOf = NoApp THEN <<>> ELSE << <<"forks", d.forkOf>> >>)
               \o << <<"public", d.owner>> >>
AfterAppRemove(d) == Recounts(d) \o << <<"starsOf", d.id>> >>

\* Counters that a piece of work will recount, and those a fiber still owes.
CountersOf(d) == ({"forks"} \X ({d.forkOf} \ {NoApp})) \cup {<<"public", d.owner>>}
Owed(w) == IF w \in Counters THEN {w}
           ELSE IF w[1] = "appRemoved" THEN CountersOf(w[2]) ELSE {}
OwedBy(q) == UNION {Owed(q[i]) : i \in DOMAIN q}
Pending(s) == OwedBy(todo[s])

Next1(s) == Head(todo[s])
Later(s) == Tail(todo[s])

\* Fiber s changes what the counters C count, and goes on with w.  A number
\* another fiber has counted and not stored is stale; what w does not recount
\* is left as it is.
Change(s, C, w) ==
    /\ stale' = stale \cup {t \in Sessions \ {s} : pc[t] = "store" /\ Next1(t) \in C}
    /\ raced' = raced \cup (C \ OwedBy(w))

\* The orders in which the after-hooks of a multi-document removal can run.
Orders(S) == {q \in [1 .. Cardinality(S) -> S] : \A x \in S : \E i \in DOMAIN q : q[i] = x}

\* Continue with the work w, or end the call.
Continue(s, w) ==
    /\ todo' = [todo EXCEPT ![s] = w]
    /\ pc' = [pc EXCEPT ![s] = IF w = <<>> THEN "idle" ELSE "work"]
    /\ arg' = [arg EXCEPT ![s] = NoApp]

Goto(s, label, v) ==
    /\ pc' = [pc EXCEPT ![s] = label]
    /\ arg' = [arg EXCEPT ![s] = v]

\* A logged-in session may call; the accounts package closes the sessions of
\* a user who is gone.
MayCall(s) == pc[s] = "idle" /\ UserOf[s] \in users

-----------------------------------------------------------------------------
(* toggleStarApplication, toggleStarJob.                                   *)

\* The call finds the item.
ToggleStar(s, i) ==
    /\ MayCall(s)
    /\ Live(i)
    /\ nextStar + Cardinality({r \in Sessions : pc[r] \in {"findStar", "star"}}) <= MaxStars
    /\ Goto(s, "findStar", i)
    /\ UNCHANGED <<db, todo, restarts, history>>

ToggleStarApplication(s) == \E a \in Apps : ToggleStar(s, a)
ToggleStarJob(s) == \E j \in Jobs : ToggleStar(s, j)

\* Another call of the user has found no star on item i and not inserted one yet.
Starring(s, i) == \E r \in Sessions \ {s} :
    pc[r] = "star" /\ arg[r] = i /\ UserOf[r] = UserOf[s]

\* Mutant: any star of the item counts as the user's.
FindStarAnyones(s) ==
    /\ pc[s] = "findStar"
    /\ LET mine == {x \in Starred(arg[s]) : x.by # UserOf[s]}
       IN  IF mine = {} THEN Goto(s, "star", arg[s]) /\ UNCHANGED todo
                        ELSE \E x \in mine : Continue(s, << <<"star", x>> >>)
    /\ UNCHANGED <<db, restarts, history>>

\* It looks for a star of the user's, which it will remove; or it will insert one.
FindStar(s) ==
    /\ pc[s] = "findStar"
    /\ LET mine == {x \in Starred(arg[s]) : x.by = UserOf[s]}
       IN  \/ \E x \in mine : Continue(s, << <<"star", x>> >>) /\ UNCHANGED starRace
           \/ /\ mine = {}
              /\ Goto(s, "star", arg[s])
              /\ starRace' = IF Starring(s, arg[s]) THEN starRace \cup {<<UserOf[s], arg[s]>>}
                             ELSE starRace
              /\ UNCHANGED todo
    /\ UNCHANGED <<db, restarts, stale, raced, slugRace, cleanRemovals>>

\* Stars.insert and its hooks.
InsertStar(s) ==
    /\ pc[s] = "star"
    /\ stars' = stars \cup {[id |-> nextStar, by |-> UserOf[s], item |-> arg[s]]}
    /\ nextStar' = nextStar + 1
    /\ Change(s, {<<"stars", arg[s]>>}, << <<"stars", arg[s]>> >>)
    /\ Continue(s, << <<"stars", arg[s]>> >>)
    /\ UNCHANGED <<users, app, job, count, restarts, starRace, slugRace, cleanRemovals>>

-----------------------------------------------------------------------------
(* Applications: insert (create or fork), change of the slug, of public.   *)

\* Another fiber has found slug g free and not written it yet.
SlugWanted(s, g) == \E r \in Sessions \ {s} :
    pc[r] \in {"insertApp", "setSlug"} /\ arg[r].slug = g

\* before.insert: the slug asked for must be free.
BeforeInsertApp(s) ==
    /\ MayCall(s)
    /\ Cardinality({a \in Apps : app[a].status = "unborn"})
          > Cardinality({r \in Sessions : pc[r] = "insertApp"})     \* bound
    /\ \E g \in Slugs, p \in BOOLEAN,
          f \in {NoApp} \cup {a \in Apps : app[a].status # "unborn"} :
         /\ SlugIsFree(NoApp, g)
         /\ Goto(s, "insertApp", [status |-> "live", owner |-> UserOf[s], slug |-> g,
                                  public |-> p, forkOf |-> f])
         /\ slugRace' = IF SlugWanted(s, g) THEN slugRace \cup {g} ELSE slugRace
    /\ UNCHANGED <<db, todo, restarts, stale, raced, starRace, cleanRemovals>>

\* The insert, with fresh counters, and after.insert.
InsertApp(s) ==
    /\ pc[s] = "insertApp"
    /\ \E a \in Apps :
         /\ app[a].status = "unborn"
         /\ a = CHOOSE b \in Apps : app[b].status = "unborn"      \* a new id
         /\ app' = [app EXCEPT ![a] = arg[s]]
         /\ count' = [count EXCEPT ![<<"stars", a>>] = 0, ![<<"forks", a>>] = 0]
    /\ Change(s, CountersOf(arg[s]), Recounts(arg[s]))
    /\ Continue(s, Recounts(arg[s]))
    /\ UNCHANGED <<users, job, stars, nextStar, restarts, starRace, slugRace, cleanRemovals>>

\* Mutant: a change of the slug is not checked.
BeforeSetSlugUnchecked(s) ==
    /\ MayCall(s)
    /\ \E a \in Apps, g \in Slugs :
         /\ app[a].status = "live" /\ app[a].owner = UserOf[s]
         /\ Goto(s, "setSlug", [app |-> a, slug |-> g])
         /\ slugRace' = IF SlugWanted(s, g) THEN slugRace \cup {g} ELSE slugRace
    /\ UNCHANGED <<db, todo, restarts, stale, raced, starRace, cleanRemovals>>

\* before.update of a change of the slug, by the owner.
BeforeSetSlug(s) ==
    /\ MayCall(s)
    /\ \E a \in Apps, g \in Slugs :
         /\ app[a].status = "live" /\ app[a].owner = UserOf[s]
         /\ SlugIsFree(a, g)
         /\ Goto(s, "setSlug", [app |-> a, slug |-> g])
         /\ slugRace' = IF SlugWanted(s, g) THEN slugRace \cup {g} ELSE slugRace
    /\ UNCHANGED <<db, todo, restarts, stale, raced, starRace, cleanRemovals>>

SetSlug(s) ==
    /\ pc[s] = "setSlug"
    /\ app' = IF app[arg[s].app].status = "live"
              THEN [app EXCEPT ![arg[s].app].slug = arg[s].slug] ELSE app
    /\ Continue(s, <<>>)
    /\ UNCHANGED <<users, job, stars, count, nextStar, restarts, history>>

\* toggleAppPublic reads the flag and then writes its opposite.  Nothing
\* recounts the owner's public applications.
ToggleAppPublic(s) ==
    /\ MayCall(s)
    /\ \E a \in Apps :
         /\ app[a].status = "live" /\ app[a].owner = UserOf[s]
         /\ Goto(s, "flipPublic", [app |-> a, public |-> ~app[a].public])
    /\ UNCHANGED <<db, todo, restarts, history>>

FlipPublic(s) ==
    /\ pc[s] = "flipPublic"
    /\ LET a == arg[s].app
       IN  IF app[a].status = "live"
           THEN /\ app' = [app EXCEPT ![a].public = arg[s].public]
                /\ Change(s, {<<"public", app[a].owner>>}, <<>>)
           ELSE UNCHANGED <<app, stale, raced>>
    /\ Continue(s, <<>>)
    /\ UNCHANGED <<users, job, stars, count, nextStar, restarts, starRace, slugRace,
                   cleanRemovals>>

-----------------------------------------------------------------------------
(* Removals, and jobs.                                                     *)

\* The owner removes an application.
RemoveApp(s) ==
    /\ MayCall(s)
    /\ \E a \in Apps :
         /\ app[a].status = "live" /\ app[a].owner = UserOf[s]
         /\ Continue(s, << <<"app", a>> >>)
    /\ UNCHANGED <<db, restarts, history>>

JobsInsert(s) ==
    /\ MayCall(s)
    /\ \E j \in Jobs :
         /\ job[j].status = "unborn"
         /\ job' = [job EXCEPT ![j] = [status |-> "live", owner |-> UserOf[s]]]
         /\ count' = [count EXCEPT ![<<"stars", j>>] = 0]
    /\ UNCHANGED <<users, app, stars, nextStar, pc, arg, todo, restarts, history>>

JobsRemove(s) ==
    /\ MayCall(s)
    /\ \E j \in Jobs :
         /\ job[j].status = "live" /\ job[j].owner = UserOf[s]
         /\ Continue(s, << <<"job", j>> >>)
    /\ UNCHANGED <<db, restarts, history>>

\* removeUserAccount: by the user or by an admin.
RemoveUserAccount(s) ==
    /\ MayCall(s)
    /\ \E u \in users :
         /\ u = UserOf[s] \/ UserOf[s] \in Admins
         /\ Continue(s, << <<"user", u>> >>)
    /\ UNCHANGED <<db, restarts, history>>

-----------------------------------------------------------------------------
(* The steps of a removal.                                                 *)

\* The documents that match the selector w now.
StarsMatching(w) == {x \in stars : \/ w[1] = "star" /\ x = w[2]
                                   \/ w[1] = "starsOf" /\ x.item = w[2]
                                   \/ w[1] = "starsBy" /\ x.by = w[2]}
AppsMatching(w) == {a \in Apps : /\ app[a].status = "live"
                                 /\ \/ w[1] = "app" /\ a = w[2]
                                    \/ w[1] = "appsBy" /\ app[a].owner = w[2]}
JobsMatching(w) == {j \in Jobs : /\ job[j].status = "live"
                                 /\ \/ w[1] = "job" /\ j = w[2]
                                    \/ w[1] = "jobsBy" /\ job[j].owner = w[2]}
AppRef(a) == [id |-> a, owner |-> app[a].owner, forkOf |-> app[a].forkOf]

\* The documents are fetched, for the hooks.
Fetch(s) ==
    /\ pc[s] = "work"
    /\ LET w == Next1(s)
       IN  \/ w \in StarSelectors /\ Goto(s, "remove", StarsMatching(w))
           \/ w \in AppSelectors /\ Goto(s, "remove", {AppRef(a) : a \in AppsMatching(w)})
           \/ w \in JobSelectors /\ Goto(s, "remove", JobsMatching(w))
           \/ w \in UserSelectors /\ Goto(s, "remove", users \cap {w[2]})
    /\ UNCHANGED <<db, todo, restarts, history>>

\* Mutant: the after.remove hook does not recount.
RemoveStarsNoHook(s) ==
    /\ pc[s] = "remove" /\ Next1(s) \in StarSelectors
    /\ stars' = stars \ StarsMatching(Next1(s))
    /\ Continue(s, Later(s))
    /\ UNCHANGED <<users, app, job, count, nextStar, restarts, history>>

\* Stars that match are removed, also those that were not fetched; the hook of
\* each that was fetched recounts the stars of its item.
RemoveStars(s) ==
    /\ pc[s] = "remove" /\ Next1(s) \in StarSelectors
    /\ stars' = stars \ StarsMatching(Next1(s))
    /\ \E q \in Orders(arg[s]) :
         LET w == [i \in DOMAIN q |-> <<"stars", q[i].item>>] \o Later(s)
         IN  /\ Change(s, {<<"stars", x.item>> : x \in StarsMatching(Next1(s))}, w)
             /\ Continue(s, w)
    /\ UNCHANGED <<users, app, job, count, nextStar, restarts, starRace, slugRace,
                   cleanRemovals>>

RemoveApps(s) ==
    /\ pc[s] = "remove" /\ Next1(s) \in AppSelectors
    /\ app' = [a \in Apps |-> IF a \in AppsMatching(Next1(s)) THEN Gone ELSE app[a]]
    /\ \E q \in Orders(arg[s]) :
         LET w == [i \in DOMAIN q |-> <<"appRemoved", q[i]>>] \o Later(s)
         IN  /\ Change(s, UNION {CountersOf(app[a]) : a \in AppsMatching(Next1(s))}, w)
             /\ Continue(s, w)
    /\ UNCHANGED <<users, job, stars, count, nextStar, restarts, starRace, slugRace,
                   cleanRemovals>>

RemoveJobs(s) ==
    /\ pc[s] = "remove" /\ Next1(s) \in JobSelectors
    /\ job' = [j \in Jobs |-> IF j \in JobsMatching(Next1(s)) THEN [job[j] EXCEPT !.status = "gone"]
                              ELSE job[j]]
    /\ \E q \in Orders(arg[s]) :
         Continue(s, [i \in DOMAIN q |-> <<"starsOf", q[i]>>] \o Later(s))
    /\ UNCHANGED <<users, app, stars, count, nextStar, restarts, history>>

\* Mutant: the hook leaves the user's stars.
RemoveUserKeepStars(s) ==
    /\ pc[s] = "remove" /\ Next1(s) \in UserSelectors
    /\ LET u == Next1(s)[2]
           mine == << <<"appsBy", UserOf[s]>>, <<"jobsBy", UserOf[s]>> >>
       IN  /\ users' = users \ {u}
           /\ Continue(s, (IF arg[s] = {} THEN <<>> ELSE mine) \o Later(s))
           /\ cleanRemovals' = IF /\ arg[s] # {} /\ u = UserOf[s]
                                  /\ \A r \in Sessions \ {s} : UserOf[r] = u => pc[r] = "idle"
                               THEN cleanRemovals \cup {u} ELSE cleanRemovals
    /\ UNCHANGED <<app, job, stars, count, nextStar, restarts, stale, raced, starRace, slugRace>>

\* The hook removes what belongs to the user who called, whose account need
\* not be the one removed.
RemoveUser(s) ==
    /\ pc[s] = "remove" /\ Next1(s) \in UserSelectors
    /\ LET u == Next1(s)[2]
           mine == << <<"appsBy", UserOf[s]>>, <<"jobsBy", UserOf[s]>>, <<"starsBy", UserOf[s]>> >>
       IN  /\ users' = users \ {u}
           /\ Continue(s, (IF arg[s] = {} THEN <<>> ELSE mine) \o Later(s))
           /\ cleanRemovals' = IF /\ arg[s] # {} /\ u = UserOf[s]
                                  /\ \A r \in Sessions \ {s} : UserOf[r] = u => pc[r] = "idle"
                               THEN cleanRemovals \cup {u} ELSE cleanRemovals
    /\ UNCHANGED <<app, job, stars, count, nextStar, restarts, stale, raced, starRace, slugRace>>

-----------------------------------------------------------------------------
(* The steps of the other hooks.                                           *)

\* A recount: the hook counts, and in a later step stores the number.
CountHook(s) ==
    /\ pc[s] = "work" /\ Next1(s) \in Counters
    /\ Goto(s, "store", Actual(Next1(s)))
    /\ UNCHANGED <<db, todo, restarts, history>>

\* Mutant: the hook of a removal takes the removed document off once more.
StoreHookLessOne(s) ==
    /\ pc[s] = "store"
    /\ count' = IF Carried(Next1(s)) THEN [count EXCEPT ![Next1(s)] = arg[s] - 1] ELSE count
    /\ Continue(s, Later(s))
    /\ UNCHANGED <<users, app, job, stars, nextStar, restarts, history>>

StoreHook(s) ==
    /\ pc[s] = "store"
    /\ LET c == Next1(s)
       IN  /\ count' = IF Carried(c) THEN [count EXCEPT ![c] = arg[s]] ELSE count
           /\ raced' = IF s \in stale THEN raced \cup {c} ELSE raced \ {c}
    /\ stale' = stale \ {s}
    /\ Continue(s, Later(s))
    /\ UNCHANGED <<users, app, job, stars, nextStar, restarts, starRace, slugRace,
                   cleanRemovals>>

\* Applications.after.remove starts.
AppRemovedHook(s) ==
    /\ pc[s] = "work" /\ Next1(s)[1] = "appRemoved"
    /\ Continue(s, AfterAppRemove(Next1(s)[2]) \o Later(s))
    /\ UNCHANGED <<db, restarts, history>>

-----------------------------------------------------------------------------
\* The server restarts: every call in progress ends where it is.
Restart ==
    /\ restarts < MaxRestarts
    /\ restarts' = restarts + 1
    /\ raced' = raced \cup UNION {Pending(s) : s \in Sessions}
    /\ pc' = [s \in Sessions |-> "idle"]
    /\ todo' = [s \in Sessions |-> <<>>]
    /\ stale' = {}
    /\ cleanRemovals' = {}
    /\ arg' = [s \in Sessions |-> NoApp]
    /\ UNCHANGED <<db, calls, starRace, slugRace>>

Init ==
    /\ users = Users
    /\ app = [a \in Apps |-> IF a \in DOMAIN FirstSlug
                             THEN [Blank EXCEPT !.status = "live", !.slug = FirstSlug[a]]
                             ELSE Blank]
    /\ job = [j \in Jobs |-> [status |-> "unborn", owner |-> Blank.owner]]
    /\ stars = {}
    /\ count = [c \in Counters |-> 0]
    /\ nextStar = 1
    /\ pc = [s \in Sessions |-> "idle"]
    /\ arg = [s \in Sessions |-> NoApp]
    /\ todo = [s \in Sessions |-> <<>>]
    /\ calls = 0 /\ restarts = 0
    /\ stale = {} /\ raced = {} /\ starRace = {} /\ slugRace = {} /\ cleanRemovals = {}

Call(s) == ToggleStarApplication(s) \/ ToggleStarJob(s) \/ BeforeInsertApp(s)
           \/ BeforeSetSlug(s) \/ ToggleAppPublic(s) \/ RemoveApp(s) \/ JobsInsert(s)
           \/ JobsRemove(s) \/ RemoveUserAccount(s)
Proceed(s) == FindStar(s) \/ InsertStar(s) \/ InsertApp(s) \/ SetSlug(s) \/ FlipPublic(s)
Removal(s) == Fetch(s) \/ RemoveStars(s) \/ RemoveApps(s) \/ RemoveJobs(s) \/ RemoveUser(s)
Hook(s) == CountHook(s) \/ StoreHook(s) \/ AppRemovedHook(s)

Start(s) == calls < MaxCalls /\ calls' = calls + 1 /\ Call(s)
Work(s) == UNCHANGED calls /\ (Proceed(s) \/ Removal(s) \/ Hook(s))

Next == Restart \/ \E s \in Sessions : Start(s) \/ Work(s)

\* The event loop resumes a fiber whose database call has returned.
Fairness == \A s \in Sessions : WF_vars(Work(s))

Spec == Init /\ [][Next]_vars /\ Fairness

-----------------------------------------------------------------------------
\* A derived number (starCount, forkCount, publicProjectCount) equals what it
\* counts whenever no hook still owes it, unless the last hook that wrote it
\* had counted before another call changed it and stored after; or nothing has
\* recounted it since a change the code makes without a hook: toggleAppPublic,
\* the removal of a document inserted after the removal had fetched, a restart
\* between the change and the hook.  However calls overlap otherwise the hooks
\* leave the right number, and the next recount of any call heals a wrong one.
CountsExact ==
    \A c \in Counters \ raced :
        (Carried(c) /\ \A s \in Sessions : c \notin Pending(s)) => count[c] = Actual(c)

\* A user has at most one star on an item, unless one of the user's calls found
\* none while another one had found none and not inserted its own yet.
OneStarPerUser ==
    \A u \in Users, i \in Items :
        <<u, i>> \notin starRace => Cardinality({x \in Starred(i) : x.by = u}) <= 1

\* Two applications have the same slug only if two calls had found it free
\* before either wrote it: the check of the hooks is the only one there is.
SlugsUnique ==
    \A a, b \in Apps :
        (a # b /\ Live(a) /\ Live(b) /\ app[a].slug = app[b].slug)
            => app[a].slug \in slugRace

Nothing(u) == /\ \A a \in Apps : Live(a) => app[a].owner # u
              /\ \A j \in Jobs : Live(j) => job[j].owner # u
              /\ \A x \in stars : x.by # u

\* After a user has removed the own account, with no other call of the user in
\* progress, the user's projects, jobs and stars are eventually gone, unless
\* the server restarts before the hook of the removal has run.
RemovedUserLeavesNothing ==
    \A u \in Users : (u \in cleanRemovals) ~> (u \notin cleanRemovals \/ Nothing(u))

=============================================================================
