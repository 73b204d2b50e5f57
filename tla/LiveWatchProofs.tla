---------------------------- MODULE LiveWatchProofs ----------------------------
(* Theorems about LiveWatch, for every value of its constants. *)
EXTENDS LiveWatch, TLAPS

LEMMA InitType == Init => TypeOK
  BY LiveAssumption DEF Init, TypeOK, Whole, Session

LEMMA UserStepType ==
  ASSUME TypeOK,
         \/ Tick \/ RemoveApp \/ BeginFileSave \/ EndFileSave
         \/ \E s \in Session : Stop(s)
  PROVE  TypeOK'
  <1> USE LiveAssumption DEF TypeOK, appVars, cliVars
  <1>1. CASE Tick
    BY <1>1 DEF Tick
  <1>2. CASE RemoveApp
    BY <1>2 DEF RemoveApp
  <1>3. CASE BeginFileSave
    BY <1>3 DEF BeginFileSave
  <1>4. CASE EndFileSave
    BY <1>4 DEF EndFileSave, Whole
  <1>5. CASE \E s \in Session : Stop(s)
    BY <1>5 DEF Stop
  <1> QED BY <1>1, <1>2, <1>3, <1>4, <1>5

LEMMA WriterStepType ==
  ASSUME TypeOK, NEW w \in Writer, StampUpdate(w) \/ SaveApp(w) \/ StarApp(w)
  PROVE  TypeOK'
  <1> USE LiveAssumption DEF TypeOK, cliVars
  <1>1. CASE StampUpdate(w)
    <2>1. PICK saves \in BOOLEAN :
            update' = [update EXCEPT ![w] = [stamp |-> clock, saves |-> saves]]
      BY <1>1 DEF StampUpdate
    <2>2. [stamp |-> clock, saves |-> saves] \in Update
      BY DEF Update
    <2> QED BY <1>1, <2>1, <2>2 DEF StampUpdate
  <1>2. CASE SaveApp(w)
    <2>1. update[w].stamp \in 0..MaxTime
      BY <1>2 DEF SaveApp, Update
    <2>2. CASE app = Missing
      BY <1>2, <2>2 DEF SaveApp
    <2>3. CASE app # Missing
      <3>1. app.version + 1 \in 1..MaxVersion
        BY <1>2, <2>3 DEF SaveApp
      <3>2. app' \in [version : 1..MaxVersion, stamp : 0..MaxTime]
        BY <1>2, <2>1, <2>3, <3>1 DEF SaveApp
      <3> QED BY <1>2, <3>2 DEF SaveApp
    <2> QED BY <2>2, <2>3
  <1>3. CASE StarApp(w)
    <2>1. update[w].stamp \in 0..MaxTime
      BY <1>3 DEF StarApp, Update
    <2>2. app' \in [version : 1..MaxVersion, stamp : 0..MaxTime] \cup {Missing}
      BY <1>3, <2>1 DEF StarApp
    <2> QED BY <1>3, <2>2 DEF StarApp
  <1> QED BY <1>1, <1>2, <1>3

LEMMA UrlStepType ==
  ASSUME TypeOK, NEW s \in UrlSession, UrlStep(s) \/ ServerStep(s)
  PROVE  TypeOK'
  <1> USE LiveAssumption DEF TypeOK, appVars
  <1>1. CASE UrlGenerate(s)
    BY <1>1 DEF UrlGenerate, Session
  <1>2. CASE Request(s)
    <2>1. app.stamp \in 0..MaxTime
      BY <1>2 DEF Request
    <2> QED BY <1>2, <2>1 DEF Request, Session
  <1>3. CASE RequestNotFound(s)
    BY <1>3 DEF RequestNotFound
  <1>4. CASE Poll(s)
    BY <1>4 DEF Poll
  <1>5. CASE PollRemoved(s)
    BY <1>5 DEF PollRemoved
  <1>6. CASE Answer(s)
    <2>1. (IF app = Missing THEN Missing ELSE app.version) \in 1..MaxVersion \cup {Missing}
      OBVIOUS
    <2>2. download' \in [UrlSession -> 1..MaxVersion \cup {Missing}]
      <3>1. CASE cli[s] = "waiting"
        BY <1>6, <2>1, <3>1 DEF Answer
      <3>2. CASE cli[s] # "waiting"
        BY <1>6, <3>2 DEF Answer
      <3> QED BY <3>1, <3>2
    <2>3. cli' \in [Session -> {"generate", "request", "waiting", "baseline", "watch", "stopped"}]
      <3>1. CASE cli[s] = "waiting"
        BY <1>6, <3>1 DEF Answer, Session
      <3>2. CASE cli[s] # "waiting"
        BY <1>6, <3>2 DEF Answer
      <3> QED BY <3>1, <3>2
    <2> QED BY <1>6, <2>2, <2>3 DEF Answer
  <1> QED BY <1>1, <1>2, <1>3, <1>4, <1>5, <1>6 DEF UrlStep, ServerStep

LEMMA FileStepType ==
  ASSUME TypeOK, NEW s \in FileSession, FileStep(s)
  PROVE  TypeOK'
  <1> USE LiveAssumption DEF TypeOK, appVars
  <1>1. CASE FileGenerate(s)
    BY <1>1 DEF FileGenerate, Session
  <1>2. CASE Baseline(s)
    <2>1. CASE file.look = "missing"
      BY <1>2, <2>1 DEF Baseline, Session
    <2>2. CASE file.look # "missing"
      BY <1>2, <2>2 DEF Baseline, Session
    <2> QED BY <2>1, <2>2
  <1>3. CASE Watch(s)
    BY <1>3 DEF Watch, Session
  <1> QED BY <1>1, <1>2, <1>3 DEF FileStep

LEMMA StepType == TypeOK /\ [Next]_vars => TypeOK'
  <1>1. ASSUME TypeOK, UNCHANGED vars PROVE TypeOK'
    BY <1>1 DEF vars, TypeOK
  <1> QED BY <1>1, UserStepType, WriterStepType, UrlStepType, FileStepType DEF Next

(* Every state of every behaviour is well-formed. *)
THEOREM TypeCorrect == Spec => []TypeOK
  BY InitType, StepType, PTL DEF Spec

-----------------------------------------------------------------------------

(* No step takes the server's interval away from a waiting session, except  *)
(* that of a removed application; and what is removed stays so.             *)
LEMMA ServedStep ==
  ASSUME TypeOK, WaitersAreServed, [Next]_vars
  PROVE  WaitersAreServed'
  <1> USE DEF WaitersAreServed, appVars
  <1>1. CASE \/ Tick \/ RemoveApp \/ BeginFileSave \/ EndFileSave \/ UNCHANGED vars
             \/ \E w \in Writer : StampUpdate(w) \/ SaveApp(w) \/ StarApp(w)
    <2>1. UNCHANGED <<cli, poller>> /\ (app = Missing => app' = Missing)
      BY <1>1 DEF Tick, RemoveApp, BeginFileSave, EndFileSave, StampUpdate, SaveApp, StarApp,
                  vars, appVars, cliVars
    <2> QED BY <2>1
  <1>2. ASSUME NEW s \in Session, Stop(s) PROVE WaitersAreServed'
    BY <1>2 DEF Stop, TypeOK
  <1>3. ASSUME NEW s \in UrlSession, UrlStep(s) PROVE WaitersAreServed'
    BY <1>3 DEF UrlStep, UrlGenerate, Request, RequestNotFound, TypeOK, Session
  <1>4. ASSUME NEW s \in UrlSession, ServerStep(s) PROVE WaitersAreServed'
    <2>1. CASE Poll(s)
      BY <2>1 DEF Poll, TypeOK
    <2>2. CASE PollRemoved(s)
      BY <2>2 DEF PollRemoved, TypeOK
    <2>3. CASE Answer(s)
      <3>1. cli'[s] # "waiting"
        BY <2>3 DEF Answer, TypeOK, Session
      <3>2. \A x \in UrlSession \ {s} : cli'[x] = cli[x] /\ poller'[x] = poller[x]
        BY <2>3 DEF Answer, TypeOK, Session
      <3> QED BY <2>3, <3>1, <3>2 DEF Answer
    <2> QED BY <1>4, <2>1, <2>2, <2>3 DEF ServerStep
  <1>5. ASSUME NEW s \in FileSession, FileStep(s) PROVE WaitersAreServed'
    BY <1>5 DEF FileStep, FileGenerate, Baseline, Watch, TypeOK, Session
  <1> QED BY <1>1, <1>2, <1>3, <1>4, <1>5 DEF Next

(* For any number of sessions, saves and moments of the clock, a session    *)
(* never waits for an answer nobody is going to give, unless the            *)
(* application it waits for was removed.                                    *)
THEOREM Served == Spec => []WaitersAreServed
  <1>1. Init => WaitersAreServed
    BY DEF Init, WaitersAreServed, Session
  <1>2. TypeOK /\ WaitersAreServed /\ [Next]_vars => WaitersAreServed'
    BY ServedStep
  <1> QED BY <1>1, <1>2, TypeCorrect, PTL DEF Spec

=============================================================================
