---------------------------- MODULE MessengerProofs ----------------------------
(* Theorems about Messenger, for every value of its constants. *)
EXTENDS Messenger, FiniteSetTheorems, TLAPS

\* What a call in progress works on.
WhereOK ==
    /\ where \in [Sessions -> Users \cup Contacts \cup {NoContact}]
    /\ \A s \in Sessions : /\ call[s] = "insertContact" => where[s] \in Users
                           /\ call[s] = "sweep" => where[s] \in Contacts

Well == TypeOK /\ WhereOK

LEMMA CountType ==
  ASSUME Well, NEW S \in SUBSET (1 .. sent)
  PROVE  IsFiniteSet(S) /\ Cardinality(S) \in Nat
  <1>1. IsFiniteSet(1 .. sent)
    BY FS_Interval DEF Well, TypeOK
  <1> QED BY <1>1, FS_Subset, FS_CardinalityType

LEMMA SideType ==
  ASSUME Well, NEW m \in 1 .. sent
  PROVE  SideOf(m) \in Sides /\ m \in Messages
  BY MessengerAssumption DEF Well, TypeOK, SideOf, Sides, MessageDocs, Messages

LEMMA MessageType ==
  ASSUME NEW d \in MessageDocs, NEW r \in Unread
  PROVE  [d EXCEPT !.unread = r] \in MessageDocs /\ [d EXCEPT !.notified = TRUE] \in MessageDocs
  BY DEF MessageDocs

LEMMA OnSideType ==
  ASSUME Well, NEW k
  PROVE  OnSide(k) \subseteq Messages /\ OnSide(k) \subseteq 1 .. sent
  BY MessengerAssumption DEF Well, TypeOK, OnSide, Messages

LEMMA SweepType ==
  ASSUME Well, NEW k \in Sides, Sweep(k)
  PROVE  msg' \in [1 .. sent -> MessageDocs]
  <1>1. msg \in [1 .. sent -> MessageDocs]
    BY DEF Well, TypeOK
  <1>2. \A m \in 1 .. sent : [msg[m] EXCEPT !.unread = "false"] \in MessageDocs
    BY <1>1, MessageType DEF Unread
  <1> QED BY <1>1, <1>2 DEF Sweep

LEMMA EnterType ==
  ASSUME Well, NEW k \in Sides, NEW f \in Sessions \cup Messages, Enter(f, k)
  PROVE  disturbed' \subseteq (Messages \cup Sessions)
  <1>1. Marking(k) \subseteq Sessions /\ Ringing(k) \subseteq Messages
    BY MessengerAssumption DEF Well, TypeOK, Marking, Ringing, OnSide, Sides, Messages
  <1> QED BY <1>1 DEF Enter, Well, TypeOK

LEMMA LeaveType ==
  ASSUME Well, NEW k \in Sides, NEW f, Leave(f, k)
  PROVE  disturbed' \subseteq (Messages \cup Sessions) /\ raced' \subseteq Sides
  BY DEF Leave, Well, TypeOK

LEMMA InitWell == Init => Well
  <1> SUFFICES ASSUME Init PROVE Well
    OBVIOUS
  <1>1. msg \in [1 .. sent -> MessageDocs] /\ listed \subseteq 1 .. sent /\ sent \in 0 .. MaxMessages
    BY MessengerAssumption DEF Init
  <1>2. badge \in [Sides -> Nat] /\ counted \in [Messages -> Nat] /\ mails \in [Messages -> Nat]
        /\ timer \in [Messages -> Timers]
    BY DEF Init, Timers
  <1>3. contact \in [Contacts -> [from : Users, to : Users] \cup {NoContact}]
    BY DEF Init
  <1>4. calls \in 0 .. MaxCalls /\ jobs \in 0 .. MaxJobs /\ restarts \in 0 .. MaxRestarts
    BY MessengerAssumption DEF Init
  <1> QED BY <1>1, <1>2, <1>3, <1>4 DEF Init, Well, TypeOK, WhereOK

LEMMA SessionStepWell ==
  ASSUME Well, NEW s \in Sessions, SessionStep(s)
  PROVE  Well'
  <1> USE MessengerAssumption DEF Well, TypeOK, WhereOK, db, bounds, jobVars, race, mail
  <1>1. CASE CreateContact(s)
    <2>1. PICK v \in Users \ {UserOf[s]} :
             /\ call' = [call EXCEPT ![s] = "insertContact"]
             /\ where' = [where EXCEPT ![s] = v]
             /\ pairRace' \in {pairRace, pairRace \cup {{UserOf[s], v}}}
      BY <1>1 DEF CreateContact
    <2>2. call' \in [Sessions -> {"idle", "insertContact", "sweep"}] /\ WhereOK'
      BY <2>1
    <2>3. pairRace' \subseteq SUBSET Users
      <3>1. {UserOf[s], v} \in SUBSET Users
        BY MessengerAssumption
      <3> QED BY <2>1, <3>1, Zenon
    <2>4. /\ UNCHANGED <<db, timer, counted, jobVars, jobs, restarts>>
          /\ UNCHANGED <<disturbed, raced, marked, mail>>
      BY <1>1 DEF CreateContact
    <2>5. calls' \in 0 .. MaxCalls
      BY <1>1 DEF CreateContact
    <2> QED BY <2>2, <2>3, <2>4, <2>5
  <1>2. CASE InsertContact(s)
    <2>1. contact' \in [Contacts -> [from : Users, to : Users] \cup {NoContact}]
      BY <1>2 DEF InsertContact
    <2> QED BY <1>2, <2>1 DEF InsertContact
  <1>3. CASE SendMessage(s)
    <2>1. sent \in Nat /\ sent + 1 \in Messages /\ sent' = sent + 1 /\ sent' \in 0 .. MaxMessages
      BY <1>3 DEF SendMessage, Messages
    <2>2. msg' \in [1 .. sent' -> MessageDocs]
      BY <1>3, <2>1 DEF SendMessage, MessageDocs, Unread
    <2>3. marked' \subseteq Messages
      BY <1>3, <2>1 DEF SendMessage
    <2>4. timer' \in [Messages -> Timers]
      BY <1>3, <2>1 DEF SendMessage, Timers
    <2>5. listed' \subseteq 1 .. sent'
      BY <1>3, <2>1 DEF SendMessage
    <2> QED BY <1>3, <2>1, <2>2, <2>3, <2>4, <2>5 DEF SendMessage
  <1>4. CASE MarkMessagesAsRead(s)
    <2>1. PICK c \in Contacts : /\ badge' = [badge EXCEPT ![<<c, UserOf[s]>>] = 0]
                                /\ call' = [call EXCEPT ![s] = "sweep"]
                                /\ where' = [where EXCEPT ![s] = c]
                                /\ Enter(s, <<c, UserOf[s]>>)
                                /\ marked' = marked \cup OnSide(<<c, UserOf[s]>>)
      BY <1>4 DEF MarkMessagesAsRead
    <2>2. <<c, UserOf[s]>> \in Sides
      BY DEF Sides
    <2>3. disturbed' \subseteq (Messages \cup Sessions)
      BY <2>1, <2>2, EnterType
    <2>4. badge' \in [Sides -> Nat]
      BY <2>1
    <2>5. marked' \subseteq Messages
      BY <2>1, OnSideType
    <2>6. calls' \in 0 .. MaxCalls
      BY <1>4 DEF MarkMessagesAsRead
    <2>7. call' \in [Sessions -> {"idle", "insertContact", "sweep"}]
      BY <2>1
    <2>8. WhereOK'
      BY <2>1
    <2>9. UNCHANGED <<contact, msg, sent, subscribed, timer, counted, jobVars, jobs, restarts,
                      raced, pairRace, mail>>
      BY <1>4 DEF MarkMessagesAsRead
    <2> QED BY <2>3, <2>4, <2>5, <2>6, <2>7, <2>8, <2>9
  <1>5. CASE MarkSweeps(s)
    <2>1. <<where[s], UserOf[s]>> \in Sides
      BY <1>5 DEF MarkSweeps, Sides
    <2>2. msg' \in [1 .. sent -> MessageDocs]
      BY <1>5, <2>1, SweepType DEF MarkSweeps
    <2>3. disturbed' \subseteq (Messages \cup Sessions) /\ raced' \subseteq Sides
      BY <1>5, <2>1, LeaveType DEF MarkSweeps
    <2> QED BY <1>5, <2>2, <2>3 DEF MarkSweeps
  <1>6. CASE SubscribeUserToUnreadMessages(s)
    BY <1>6 DEF SubscribeUserToUnreadMessages
  <1>7. CASE UnsubscribeUserToUnreadMessages(s)
    BY <1>7 DEF UnsubscribeUserToUnreadMessages
  <1> QED BY <1>1, <1>2, <1>3, <1>4, <1>5, <1>6, <1>7 DEF SessionStep

LEMMA TimerStepWell ==
  ASSUME Well, NEW m \in 1 .. sent, TimerStep(m)
  PROVE  Well'
  <1>a. SideOf(m) \in Sides /\ m \in Messages
    BY SideType
  <1> USE <1>a, MessengerAssumption DEF Well, TypeOK, WhereOK, db, bounds, jobVars, race, mail, Timers
  <1>1. CASE TimerRings(m)
    BY <1>1 DEF TimerRings
  <1>2. CASE TimerWrites(m)
    <2>1. msg' \in [1 .. sent -> MessageDocs]
      <3>1. msg' = [msg EXCEPT ![m] = [@ EXCEPT !.unread = "true"]]
        BY <1>2 DEF TimerWrites
      <3> QED BY <3>1, MessageType DEF Unread
    <2>2. disturbed' \subseteq (Messages \cup Sessions)
      BY <1>2, EnterType DEF TimerWrites
    <2> QED BY <1>2, <2>1, <2>2 DEF TimerWrites
  <1>3. CASE TimerCounts(m)
    <2>1. Cardinality(UnreadOn(SideOf(m))) \in Nat
      BY CountType DEF UnreadOn, OnSide
    <2> QED BY <1>3, <2>1 DEF TimerCounts
  <1>4. CASE TimerStores(m)
    <2>1. disturbed' \subseteq (Messages \cup Sessions) /\ raced' \subseteq Sides
      BY <1>4, LeaveType DEF TimerStores
    <2> QED BY <1>4, <2>1 DEF TimerStores
  <1>5. CASE TimerSweeps(m)
    <2>1. msg' \in [1 .. sent -> MessageDocs]
      BY <1>5, SweepType DEF TimerSweeps
    <2>2. disturbed' \subseteq (Messages \cup Sessions) /\ raced' \subseteq Sides
      BY <1>5, LeaveType DEF TimerSweeps
    <2> QED BY <1>5, <2>1, <2>2 DEF TimerSweeps
  <1> QED BY <1>1, <1>2, <1>3, <1>4, <1>5 DEF TimerStep

LEMMA NextUserType ==
  ASSUME Well, JobNextUser
  PROVE  /\ listed' \subseteq listed /\ doomed' \subseteq Users /\ mute' \in BOOLEAN
         /\ job' \in {"idle", "next", "mark", "send"}
  <1>1. PICK u \in {msg[m].to : m \in listed} :
          IF u \in HasEmail
          THEN /\ doomed' = {u}
               /\ mute' = (u \notin subscribed)
               /\ job' = "mark"
               /\ UNCHANGED listed
          ELSE /\ listed' = {m \in listed : msg[m].to # u}
               /\ job' = IF listed' = {} THEN "idle" ELSE "next"
               /\ UNCHANGED <<doomed, mute>>
    BY Zenon DEF JobNextUser
  <1>2. \A m \in listed : msg[m].to \in Users
    BY DEF Well, TypeOK, MessageDocs
  <1>3. u \in Users
    BY <1>2
  <1>4. mute \in BOOLEAN /\ doomed \subseteq Users
    BY DEF Well, TypeOK
  <1>5. CASE u \in HasEmail
    BY <1>1, <1>3, <1>5, Zenon
  <1>6. CASE u \notin HasEmail
    BY <1>1, <1>4, <1>6
  <1> QED BY <1>5, <1>6

LEMMA JobStepWell ==
  ASSUME Well, JobStep
  PROVE  Well'
  <1> USE MessengerAssumption DEF Well, TypeOK, WhereOK, db, bounds, jobVars, race, mail
  <1>1. CASE JobCollects
    BY <1>1 DEF JobCollects
  <1>2. CASE JobNextUser
    <2>1. /\ listed' \subseteq listed /\ doomed' \subseteq Users /\ mute' \in BOOLEAN
          /\ job' \in {"idle", "next", "mark", "send"}
      BY <1>2, NextUserType
    <2>2. UNCHANGED <<db, call, where, timer, counted, bounds, race, mail>>
      BY <1>2 DEF JobNextUser
    <2> QED BY <2>1, <2>2
  <1>3. CASE JobMarks
    <2>1. msg' \in [1 .. sent -> MessageDocs]
      <3>1. \A m \in 1 .. sent : [msg[m] EXCEPT !.notified = TRUE] \in MessageDocs
        BY MessageType DEF Unread
      <3> QED BY <1>3, <3>1 DEF JobMarks
    <2>2. excused' \subseteq Messages
      BY <1>3 DEF JobMarks, Messages
    <2> QED BY <1>3, <2>1, <2>2 DEF JobMarks
  <1>4. CASE JobSends
    <2>1. mails' \in [Messages -> Nat] /\ told' \subseteq Messages
      <3>1. CASE mute
        <4>1. UNCHANGED <<mails, told>>
          BY <1>4, <3>1, Zenon DEF JobSends
        <4> QED BY <4>1
      <3>2. CASE ~mute
        <4> DEFINE mine == {m \in listed : msg[m].to \in doomed}
        <4>1. /\ mails' = [m \in Messages |-> IF m \in mine THEN mails[m] + 1 ELSE mails[m]]
              /\ told' = told \cup {m \in 1 .. sent : msg[m].to \in doomed /\ msg[m].notified}
          BY <1>4, <3>2, Zenon DEF JobSends
        <4>2. 1 .. sent \subseteq Messages
          BY DEF Messages
        <4> QED BY <4>1, <4>2
      <3> QED BY <3>1, <3>2
    <2>2. listed' \subseteq 1 .. sent /\ job' \in {"idle", "next"} /\ doomed' = {} /\ mute' = FALSE
      BY <1>4 DEF JobSends
    <2>3. UNCHANGED <<db, call, where, timer, counted, bounds, race, excused>>
      BY <1>4 DEF JobSends
    <2> QED BY <2>1, <2>2, <2>3
  <1> QED BY <1>1, <1>2, <1>3, <1>4 DEF JobStep

LEMMA RestartWell ==
  ASSUME Well, Restart
  PROVE  Well'
  <1> USE MessengerAssumption DEF Well, TypeOK, WhereOK
  <1>1. timer' \in [Messages -> Timers] /\ counted' \in [Messages -> Nat]
    BY DEF Restart, Timers
  <1>2. raced' \subseteq Sides /\ restarts' \in 0 .. MaxRestarts
    BY DEF Restart
  <1>3. excused' \subseteq Messages
    <2>1. 1 .. sent \subseteq Messages
      BY DEF Messages
    <2> QED BY <2>1 DEF Restart
  <1>4. /\ call' \in [Sessions -> {"idle", "insertContact", "sweep"}]
        /\ WhereOK'
        /\ job' = "idle" /\ listed' = {} /\ doomed' = {} /\ mute' = FALSE /\ disturbed' = {}
        /\ UNCHANGED <<db, calls, jobs, pairRace, marked, mails, told>>
    BY DEF Restart
  <1> QED BY <1>1, <1>2, <1>3, <1>4 DEF db

LEMMA StepWell == Well /\ [Next]_vars => Well'
  <1>1. ASSUME Well, UNCHANGED vars PROVE Well'
    BY <1>1 DEF vars, Well, TypeOK, WhereOK
  <1> QED BY <1>1, SessionStepWell, TimerStepWell, JobStepWell, RestartWell DEF Next

(* The collections, the sessions, the timers and the job are well-formed in *)
(* every state, for any users, contacts and number of messages, calls, runs *)
(* of the job and restarts of the server.                                   *)
THEOREM TypeCorrect == Spec => []TypeOK
  <1>1. Spec => []Well
    BY InitWell, StepWell, PTL DEF Spec
  <1>2. Well => TypeOK
    BY DEF Well
  <1> QED BY <1>1, <1>2, PTL

-----------------------------------------------------------------------------
(* Contacts.                                                               *)

\* A session about to insert a contact is the only one for its pair of users,
\* who still have none.
PairInv ==
    /\ \A s \in Sessions :
           call[s] = "insertContact" /\ {UserOf[s], where[s]} \notin pairRace =>
               /\ \A c \in Contacts : ~Between(c, UserOf[s], where[s])
               /\ \A t \in Creating(UserOf[s], where[s]) : t = s
    /\ \A u, v \in Users, c, d \in Contacts :
           {u, v} \notin pairRace /\ Between(c, u, v) /\ Between(d, u, v) => c = d

LEMMA PairInit == Init => PairInv
  BY MessengerAssumption DEF Init, PairInv, Between

LEMMA PairKept ==
  ASSUME PairInv, contact' = contact, pairRace' = pairRace,
         \A s \in Sessions : call'[s] = "insertContact" =>
             call[s] = "insertContact" /\ where'[s] = where[s]
  PROVE  PairInv'
  <1>1. \A c, x, y : Between(c, x, y)' = Between(c, x, y)
    BY DEF Between
  <1>2. \A x, y : Creating(x, y)' \subseteq Creating(x, y)
    BY DEF Creating
  <1>3. ASSUME NEW s \in Sessions, call'[s] = "insertContact", {UserOf[s], where'[s]} \notin pairRace
        PROVE  /\ \A c \in Contacts : ~Between(c, UserOf[s], where[s])'
               /\ \A t \in Creating(UserOf[s], where[s])' : t = s
    <2>1. call[s] = "insertContact" /\ where'[s] = where[s]
      BY <1>3
    <2>2. /\ \A c \in Contacts : ~Between(c, UserOf[s], where[s])
          /\ \A t \in Creating(UserOf[s], where[s]) : t = s
      BY <1>3, <2>1 DEF PairInv
    <2>3. Creating(UserOf[s], where[s])' \subseteq Creating(UserOf[s], where[s])
      BY <1>2, <2>1 DEF Creating
    <2> QED BY <2>1, <2>2, <2>3 DEF Between
  <1>4. ASSUME NEW u \in Users, NEW v \in Users, NEW c \in Contacts, NEW d \in Contacts,
               {u, v} \notin pairRace', Between(c, u, v)', Between(d, u, v)'
        PROVE  c = d
    BY <1>1, <1>4 DEF PairInv
  <1> QED BY <1>3, <1>4 DEF PairInv

LEMMA PairCreate ==
  ASSUME Well, PairInv, NEW s \in Sessions, CreateContact(s)
  PROVE  PairInv'
  <1>1. PICK v \in Users \ {UserOf[s]} :
           /\ ~ \E c \in Contacts : Between(c, UserOf[s], v)
           /\ call' = [call EXCEPT ![s] = "insertContact"]
           /\ where' = [where EXCEPT ![s] = v]
           /\ pairRace' = IF Creating(UserOf[s], v) = {} THEN pairRace
                          ELSE pairRace \cup {{UserOf[s], v}}
    BY DEF CreateContact
  <1>2. contact' = contact
    BY DEF CreateContact, db
  <1>3. call'[s] = "insertContact" /\ where'[s] = v
        /\ \A t \in Sessions \ {s} : call'[t] = call[t] /\ where'[t] = where[t]
    BY <1>1 DEF Well, TypeOK, WhereOK
  <1>4. pairRace \subseteq pairRace'
    BY <1>1
  <1>5. ASSUME NEW x \in Sessions, call'[x] = "insertContact",
               {UserOf[x], where'[x]} \notin pairRace'
        PROVE  /\ \A c \in Contacts : ~Between(c, UserOf[x], where[x])'
               /\ \A t \in Creating(UserOf[x], where[x])' : t = x
    <2>1. CASE x = s
      <3>1. Creating(UserOf[s], v) = {}
        BY <1>1, <1>3, <1>5, <2>1
      <3>2. \A c \in Contacts : ~Between(c, UserOf[s], where[s])'
        BY <1>1, <1>2, <1>3 DEF Between
      <3>3. \A t \in Creating(UserOf[s], where[s])' : t = s
        <4>1. SUFFICES ASSUME NEW t \in Sessions \ {s}, call'[t] = "insertContact",
                              {UserOf[t], where'[t]} = {UserOf[s], where'[s]}
                       PROVE  FALSE
          BY DEF Creating
        <4>2. t \in Creating(UserOf[s], v)
          BY <1>3, <4>1 DEF Creating
        <4> QED BY <3>1, <4>2
      <3> QED BY <2>1, <3>2, <3>3
    <2>2. CASE x # s
      <3>1. call[x] = "insertContact" /\ where'[x] = where[x]
            /\ {UserOf[x], where[x]} \notin pairRace
        BY <1>3, <1>4, <1>5, <2>2
      <3>2. /\ \A c \in Contacts : ~Between(c, UserOf[x], where[x])
            /\ \A t \in Creating(UserOf[x], where[x]) : t = x
        BY <3>1 DEF PairInv
      <3>3. {UserOf[s], v} # {UserOf[x], where[x]}
        <4>1. SUFFICES ASSUME {UserOf[s], v} = {UserOf[x], where[x]} PROVE FALSE
          OBVIOUS
        <4>2. x \in Creating(UserOf[s], v)
          BY <3>1, <4>1 DEF Creating
        <4> QED BY <1>1, <1>5, <3>1, <4>1, <4>2
      <3>4. \A t \in Creating(UserOf[x], where[x])' : t \in Creating(UserOf[x], where[x])
        BY <1>3, <3>1, <3>3 DEF Creating
      <3>5. \A c \in Contacts : ~Between(c, UserOf[x], where[x])'
        BY <1>2, <3>1, <3>2 DEF Between
      <3> QED BY <3>2, <3>4, <3>5
    <2> QED BY <2>1, <2>2
  <1>6. \A x, y \in Users, c, d \in Contacts :
           {x, y} \notin pairRace' /\ Between(c, x, y)' /\ Between(d, x, y)' => c = d
    BY <1>2, <1>4 DEF PairInv, Between
  <1> QED BY <1>5, <1>6 DEF PairInv

LEMMA PairInsert ==
  ASSUME Well, PairInv, NEW s \in Sessions, InsertContact(s)
  PROVE  PairInv'
  <1> DEFINE w == where[s]
  <1>0. UserOf[s] \in Users
    BY MessengerAssumption
  <1>1. PICK e \in Contacts :
           /\ contact[e] = NoContact
           /\ contact' = [contact EXCEPT ![e] = [from |-> UserOf[s], to |-> w]]
    BY DEF InsertContact
  <1>2. call[s] = "insertContact" /\ pairRace' = pairRace /\ w \in Users
    BY DEF InsertContact, race, Well, WhereOK
  <1>3. call'[s] = "idle" /\ \A t \in Sessions \ {s} : call'[t] = call[t] /\ where'[t] = where[t]
    BY DEF InsertContact, Well, TypeOK, WhereOK
  <1>4. \A c \in Contacts, x, y \in Users :
           Between(c, x, y)' => IF c = e THEN {UserOf[s], w} = {x, y} ELSE Between(c, x, y)
    BY <1>0, <1>1, <1>2 DEF Between, Well, TypeOK
  <1>5. {UserOf[s], w} \notin pairRace => \A g \in Contacts : ~Between(g, UserOf[s], w)
    BY <1>2 DEF PairInv
  <1>6. ASSUME NEW x \in Sessions, call'[x] = "insertContact",
               {UserOf[x], where'[x]} \notin pairRace'
        PROVE  /\ \A c \in Contacts : ~Between(c, UserOf[x], where[x])'
               /\ \A t \in Creating(UserOf[x], where[x])' : t = x
    <2>1. x # s /\ call[x] = "insertContact" /\ where[x] \in Users /\ where'[x] = where[x]
          /\ UserOf[x] \in Users
      BY <1>3, <1>6, MessengerAssumption DEF Well, WhereOK
    <2>2. /\ \A c \in Contacts : ~Between(c, UserOf[x], where[x])
          /\ \A t \in Creating(UserOf[x], where[x]) : t = x
      BY <1>2, <1>6, <2>1 DEF PairInv
    <2>3. {UserOf[s], w} # {UserOf[x], where[x]}
      <3>1. SUFFICES ASSUME {UserOf[s], w} = {UserOf[x], where[x]} PROVE FALSE
        OBVIOUS
      <3>2. s \in Creating(UserOf[x], where[x])
        BY <1>2, <3>1 DEF Creating
      <3> QED BY <2>1, <2>2, <3>2
    <2>4. ASSUME NEW y \in Users, y = where[x], NEW c \in Contacts
          PROVE  ~Between(c, UserOf[x], y)'
      BY <1>4, <2>1, <2>2, <2>3, <2>4
    <2>5. \A c \in Contacts : ~Between(c, UserOf[x], where[x])'
      BY <2>1, <2>4 DEF Between
    <2>6. \A t \in Creating(UserOf[x], where[x])' : t \in Creating(UserOf[x], where[x])
      BY <1>3, <2>1 DEF Creating
    <2> QED BY <2>2, <2>5, <2>6
  <1>7. ASSUME NEW x \in Users, NEW y \in Users, NEW c \in Contacts, NEW d \in Contacts,
               {x, y} \notin pairRace, Between(c, x, y)', Between(d, x, y)'
        PROVE  c = d
    <2>1. {UserOf[s], w} = {x, y} => \A g \in Contacts : ~Between(g, x, y)
      BY <1>5, <1>7 DEF Between
    <2>2. Between(c, x, y) /\ Between(d, x, y) => c = d
      BY <1>7 DEF PairInv
    <2> QED BY <1>4, <1>7, <2>1, <2>2
  <1> QED BY <1>2, <1>6, <1>7 DEF PairInv

LEMMA PairStep ==
  ASSUME Well, PairInv, [Next]_vars
  PROVE  PairInv'
  <1>1. ASSUME UNCHANGED <<contact, call, where, pairRace>> PROVE PairInv'
    BY <1>1, PairKept DEF Well, WhereOK
  <1>2. ASSUME NEW s \in Sessions, MarkMessagesAsRead(s) \/ MarkSweeps(s) PROVE PairInv'
    <2>1. contact' = contact /\ pairRace' = pairRace
      BY <1>2 DEF MarkMessagesAsRead, MarkSweeps
    <2>2. call'[s] # "insertContact"
          /\ \A x \in Sessions \ {s} : call'[x] = call[x] /\ where'[x] = where[x]
      BY <1>2 DEF MarkMessagesAsRead, MarkSweeps, Well, TypeOK, WhereOK
    <2> QED BY <2>1, <2>2, PairKept DEF Well, WhereOK
  <1>3. ASSUME NEW s \in Sessions,
               SendMessage(s) \/ SubscribeUserToUnreadMessages(s) \/ UnsubscribeUserToUnreadMessages(s)
        PROVE  UNCHANGED <<contact, call, where, pairRace>>
    BY <1>3 DEF SendMessage, SubscribeUserToUnreadMessages, UnsubscribeUserToUnreadMessages, race
  <1>4. ASSUME NEW m \in 1 .. sent, TimerStep(m)
        PROVE  UNCHANGED <<contact, call, where, pairRace>>
    BY <1>4 DEF TimerStep, TimerRings, TimerWrites, TimerCounts, TimerStores, TimerSweeps, db, race
  <1>5. ASSUME JobStep PROVE UNCHANGED <<contact, call, where, pairRace>>
    BY <1>5 DEF JobStep, JobCollects, JobNextUser, JobMarks, JobSends, db, race
  <1>6. CASE Restart
    <2>1. contact' = contact /\ pairRace' = pairRace /\ \A s \in Sessions : call'[s] = "idle"
      BY <1>6 DEF Restart, db
    <2> QED BY <2>1, PairKept
  <1>7. CASE UNCHANGED vars
    BY <1>1, <1>7 DEF vars
  <1> QED
    BY <1>1, <1>2, <1>3, <1>4, <1>5, <1>6, <1>7, PairCreate, PairInsert DEF Next, SessionStep

LEMMA AtMostOne ==
  ASSUME NEW S, \A c, d \in S : c = d
  PROVE  Cardinality(S) <= 1
  <1>1. CASE S = {}
    BY <1>1, FS_EmptySet
  <1>2. CASE S # {}
    <2>1. PICK c : S = {c}
      BY <1>2
    <2>2. Cardinality({c}) = 1
      BY FS_Singleton
    <2> QED BY <2>1, <2>2
  <1> QED BY <1>1, <1>2

(* For any number of sessions of each user, two users get a second contact  *)
(* with each other only if two of their sessions create one at the same     *)
(* time, whatever other users do.                                           *)
THEOREM OneContact == Spec => []OneContactPerPair
  <1>1. PairInv => OneContactPerPair
    <2> SUFFICES ASSUME PairInv, NEW u \in Users, NEW v \in Users, {u, v} \notin pairRace
                 PROVE  Cardinality({c \in Contacts : Between(c, u, v)}) <= 1
      BY DEF OneContactPerPair
    <2> DEFINE S == {c \in Contacts : Between(c, u, v)}
    <2>1. \A c, d \in S : c = d
      BY DEF PairInv
    <2> QED BY <2>1, AtMostOne
  <1>2. Spec => [](Well /\ PairInv)
    BY InitWell, StepWell, PairInit, PairStep, PTL DEF Spec
  <1> QED BY <1>1, <1>2, PTL


-----------------------------------------------------------------------------
(* Mails.                                                                  *)

\* The timer of a message has marked it, or has left it as it was.
Past(m) == timer[m] \notin {"none", "armed", "write"}

MailInv ==
    /\ \A m \in Messages : mails[m] <= 1
    /\ \A m \in Messages : mails[m] > 0 =>
           m <= sent /\ Past(m) /\ (msg[m].notified \/ msg[m].unread = "false")
    /\ \A m \in 1 .. sent : msg[m].unread = "true" => Past(m)
    /\ \A m \in listed : mails[m] = 0 /\ Past(m) /\ msg[m].unread # "undefined"
    /\ job = "send" => \A m \in listed :
           msg[m].to \in doomed => msg[m].notified \/ msg[m].unread = "false"

LEMMA MailInit == Init => MailInv
  BY MessengerAssumption DEF Init, MailInv, Past

\* A step that sends no message and leaves the job alone.
LEMMA MailKept ==
  ASSUME Well, MailInv, UNCHANGED <<sent, mails, listed, job, doomed>>,
         \A m \in 1 .. sent :
             /\ msg'[m].to = msg[m].to
             /\ msg'[m].notified = msg[m].notified
             /\ Past(m) => Past(m)'
             /\ Past(m) /\ msg[m].unread = "false" => msg'[m].unread = "false"
             /\ msg'[m].unread = "true" => msg[m].unread = "true" \/ Past(m)'
             /\ msg[m].unread # "undefined" => msg'[m].unread # "undefined"
  PROVE  MailInv'
  <1>1. \A m \in Messages : m <= sent => m \in 1 .. sent
    BY MessengerAssumption DEF Well, TypeOK, Messages
  <1>2. \A m \in listed : m \in 1 .. sent
    BY DEF Well, TypeOK
  <1> QED BY <1>1, <1>2 DEF MailInv

LEMMA SweepKeeps ==
  ASSUME Well, MailInv, NEW k, Sweep(k),
         UNCHANGED <<sent, mails, listed, job, doomed>>,
         \A m \in 1 .. sent : Past(m) => Past(m)'
  PROVE  MailInv'
  <1>1. \A m \in 1 .. sent : /\ msg'[m].to = msg[m].to /\ msg'[m].notified = msg[m].notified
                             /\ msg'[m].unread = msg[m].unread \/ msg'[m].unread = "false"
    BY DEF Sweep, Well, TypeOK, MessageDocs
  <1>2. \A m \in 1 .. sent : msg[m].unread = "true" => Past(m)
    BY DEF MailInv
  <1> QED BY <1>1, <1>2, MailKept

LEMMA MailSession ==
  ASSUME Well, MailInv, NEW s \in Sessions, SessionStep(s)
  PROVE  MailInv'
  <1>1. CASE \/ CreateContact(s) \/ InsertContact(s) \/ MarkMessagesAsRead(s)
             \/ SubscribeUserToUnreadMessages(s) \/ UnsubscribeUserToUnreadMessages(s)
    <2>1. UNCHANGED <<msg, timer, sent, mails, listed, job, doomed>>
      BY <1>1 DEF CreateContact, InsertContact, MarkMessagesAsRead, SubscribeUserToUnreadMessages,
                  UnsubscribeUserToUnreadMessages, db, jobVars, mail
    <2>2. \A m \in 1 .. sent : msg[m].unread = "true" => Past(m)
      BY DEF MailInv
    <2> QED BY <2>1, <2>2, MailKept DEF Past
  <1>2. CASE SendMessage(s)
    <2>1. /\ sent' = sent + 1 /\ sent \in Nat /\ sent + 1 \in Messages
          /\ timer' = [timer EXCEPT ![sent + 1] = "armed"]
          /\ UNCHANGED <<mails, listed, job, doomed>>
          /\ msg'[sent + 1].unread = "undefined"
          /\ \A m \in 1 .. sent : msg'[m] = msg[m]
      <3>1. sent \in Nat /\ sent < MaxMessages /\ sent' = sent + 1 /\ sent + 1 \in Messages
        BY <1>2, MessengerAssumption DEF SendMessage, Well, TypeOK, Messages
      <3>2. PICK d : /\ d.unread = "undefined"
                     /\ msg' = [m \in 1 .. sent + 1 |-> IF m <= sent THEN msg[m] ELSE d]
        BY <1>2 DEF SendMessage
      <3>3. timer' = [timer EXCEPT ![sent + 1] = "armed"] /\ UNCHANGED <<mails, listed, job, doomed>>
        BY <1>2 DEF SendMessage, jobVars, mail
      <3> QED BY <3>1, <3>2, <3>3
    <2>2. \A m \in Messages : m <= sent => m \in 1 .. sent
      BY <2>1 DEF Messages
    <2>3. \A m \in 1 .. sent : timer'[m] = timer[m]
      BY <2>1, MessengerAssumption DEF Well, TypeOK, Messages
    <2>4. \A m \in Messages : mails[m] > 0 => m \in 1 .. sent /\ m <= sent + 1
      BY <2>1, <2>2 DEF MailInv, Messages
    <2>5. \A m \in listed : m \in 1 .. sent
      BY DEF Well, TypeOK
    <2>6. 1 .. sent' = (1 .. sent) \cup {sent + 1}
      BY <2>1
    <2> QED BY <2>1, <2>3, <2>4, <2>5, <2>6 DEF MailInv, Past
  <1>3. CASE MarkSweeps(s)
    <2>1. UNCHANGED <<timer, sent, mails, listed, job, doomed>> /\ Sweep(<<where[s], UserOf[s]>>)
      BY <1>3 DEF MarkSweeps, jobVars, mail
    <2> QED BY <2>1, SweepKeeps DEF Past
  <1> QED BY <1>1, <1>2, <1>3 DEF SessionStep

LEMMA MailTimer ==
  ASSUME Well, MailInv, NEW m \in 1 .. sent, TimerStep(m)
  PROVE  MailInv'
  <1>1. UNCHANGED <<sent, mails, listed, job, doomed>>
    BY DEF TimerStep, TimerRings, TimerWrites, TimerCounts, TimerStores, TimerSweeps, db, jobVars, mail
  <1>2. m \in Messages /\ 1 .. sent \subseteq Messages
    BY MessengerAssumption DEF Well, TypeOK, Messages
  <1>3. \A n \in 1 .. sent : msg[n].unread = "true" => Past(n)
    BY DEF MailInv
  <1>4. CASE TimerRings(m) \/ TimerCounts(m) \/ TimerStores(m)
    <2>1. msg' = msg
      BY <1>4 DEF TimerRings, TimerCounts, TimerStores, db
    <2>2. \A n \in 1 .. sent : Past(n) => Past(n)'
      BY <1>2, <1>4 DEF TimerRings, TimerCounts, TimerStores, Past, Well, TypeOK
    <2> QED BY <1>1, <1>3, <2>1, <2>2, MailKept
  <1>5. CASE TimerWrites(m)
    <2>1. timer[m] = "write" /\ ~Past(m) /\ Past(m)'
          /\ \A n \in 1 .. sent : n # m => timer'[n] = timer[n]
      BY <1>2, <1>5 DEF TimerWrites, Past, Well, TypeOK
    <2>2. /\ msg'[m].to = msg[m].to /\ msg'[m].notified = msg[m].notified /\ msg'[m].unread = "true"
          /\ \A n \in 1 .. sent : n # m => msg'[n] = msg[n]
      BY <1>5 DEF TimerWrites, Well, TypeOK, MessageDocs
    <2> QED BY <1>1, <1>3, <2>1, <2>2, MailKept DEF Past
  <1>6. CASE TimerSweeps(m)
    <2>1. Sweep(SideOf(m)) /\ \A n \in 1 .. sent : Past(n) => Past(n)'
      BY <1>2, <1>6 DEF TimerSweeps, Past, Well, TypeOK
    <2> QED BY <1>1, <2>1, SweepKeeps
  <1> QED BY <1>4, <1>5, <1>6 DEF TimerStep

LEMMA MailJob ==
  ASSUME Well, MailInv, JobStep
  PROVE  MailInv'
  <1>1. \A m \in Messages : m <= sent => m \in 1 .. sent
    BY MessengerAssumption DEF Well, TypeOK, Messages
  <1>2. listed \subseteq 1 .. sent /\ 1 .. sent \subseteq Messages
    BY MessengerAssumption DEF Well, TypeOK, Messages
  <1>3. CASE JobCollects
    <2>1. /\ UNCHANGED <<msg, sent, timer, mails>> /\ job' # "send"
          /\ listed' = {m \in 1 .. sent : Unnotified(m)}
      BY <1>3 DEF JobCollects, db, mail
    <2>2. ASSUME NEW m \in listed'
          PROVE  mails[m] = 0 /\ Past(m) /\ msg[m].unread # "undefined"
      <3>1. m \in 1 .. sent /\ msg[m].unread = "true" /\ ~msg[m].notified
        BY <2>1, <2>2 DEF Unnotified
      <3>2. ~(mails[m] > 0)
        BY <1>2, <3>1 DEF MailInv
      <3> QED BY <1>2, <3>1, <3>2 DEF MailInv, Well, TypeOK
    <2> QED BY <2>1, <2>2 DEF MailInv, Past
  <1>4. CASE JobNextUser
    <2>1. UNCHANGED <<msg, sent, timer, mails>> /\ job' # "send" /\ listed' \subseteq listed
      BY <1>4 DEF JobNextUser, db, mail
    <2> QED BY <2>1 DEF MailInv, Past
  <1>5. CASE JobMarks
    <2> DEFINE now == {m \in 1 .. sent : msg[m].to \in doomed /\ Unnotified(m)}
    <2>1. /\ UNCHANGED <<sent, timer, mails, listed, doomed>> /\ job' = "send"
          /\ msg' = [m \in 1 .. sent |-> IF m \in now THEN [msg[m] EXCEPT !.notified = TRUE] ELSE msg[m]]
      BY <1>5 DEF JobMarks
    <2>2. \A m \in 1 .. sent : /\ msg'[m].unread = msg[m].unread /\ msg'[m].to = msg[m].to
                               /\ msg[m].notified => msg'[m].notified
                               /\ m \in now => msg'[m].notified
      BY <2>1, Zenon DEF Well, TypeOK, MessageDocs
    <2>3. ASSUME NEW m \in listed, msg[m].to \in doomed
          PROVE  msg'[m].notified \/ msg'[m].unread = "false"
      <3>1. m \in 1 .. sent /\ msg[m].unread \in {"true", "false"}
        BY <1>2 DEF MailInv, Well, TypeOK, MessageDocs, Unread
      <3> QED BY <2>2, <2>3, <3>1 DEF Unnotified
    <2> QED BY <1>1, <1>2, <2>1, <2>2, <2>3 DEF MailInv, Past
  <1>6. CASE JobSends
    <2> DEFINE mine == {m \in listed : msg[m].to \in doomed}
    <2>1. UNCHANGED <<msg, sent, timer>> /\ job = "send" /\ job' # "send" /\ listed' = listed \ mine
      BY <1>6 DEF JobSends, db
    <2>2. \A m \in Messages : mails'[m] = mails[m] \/ (m \in mine /\ mails'[m] = mails[m] + 1)
      BY <1>6, Zenon DEF JobSends, mail
    <2>3. \A m \in Messages \ mine : mails'[m] = mails[m]
      BY <2>2
    <2>4. ASSUME NEW m \in mine
          PROVE  m <= sent /\ mails[m] = 0 /\ Past(m) /\ (msg[m].notified \/ msg[m].unread = "false")
      BY <1>2, <2>1 DEF MailInv
    <2>5. \A m \in Messages : mails'[m] <= 1
      BY <2>2, <2>4 DEF MailInv
    <2>6. \A m \in Messages : mails'[m] > 0 =>
             m <= sent /\ Past(m) /\ (msg[m].notified \/ msg[m].unread = "false")
      BY <2>2, <2>4 DEF MailInv
    <2>7. \A m \in listed' : mails'[m] = 0 /\ Past(m) /\ msg[m].unread # "undefined"
      BY <1>2, <2>1, <2>3 DEF MailInv
    <2> QED BY <2>1, <2>5, <2>6, <2>7 DEF MailInv, Past
  <1> QED BY <1>3, <1>4, <1>5, <1>6 DEF JobStep

LEMMA MailRestart ==
  ASSUME Well, MailInv, Restart
  PROVE  MailInv'
  <1>1. /\ UNCHANGED <<msg, sent, mails>> /\ job' = "idle" /\ listed' = {}
        /\ \A m \in Messages : Past(m) => Past(m)'
    BY DEF Restart, db, Past
  <1>2. 1 .. sent \subseteq Messages
    BY MessengerAssumption DEF Well, TypeOK, Messages
  <1> QED BY <1>1, <1>2 DEF MailInv

LEMMA MailStep == Well /\ MailInv /\ [Next]_vars => MailInv'
  <1>1. ASSUME MailInv, UNCHANGED vars PROVE MailInv'
    BY <1>1 DEF vars, MailInv, Past
  <1> QED BY <1>1, MailSession, MailTimer, MailJob, MailRestart DEF Next

(* However messages are sent, read, marked by their timers and restarts     *)
(* fall between the steps of the job, no message is counted in two mails.   *)
THEOREM NeverMailedTwice == Spec => []MailedAtMostOnce
  <1>1. Spec => [](Well /\ MailInv)
    BY InitWell, StepWell, MailInit, MailStep, PTL DEF Spec
  <1>2. MailInv => MailedAtMostOnce
    BY DEF MailInv, MailedAtMostOnce
  <1> QED BY <1>1, <1>2, PTL


ToldInv ==
    /\ NotifiedIsTold
    /\ job = "send" /\ mute =>
           \A m \in 1 .. sent : msg[m].notified => m \in told \cup excused

LEMMA ToldInit == Init => ToldInv
  BY DEF Init, ToldInv, NotifiedIsTold

\* A step that notifies nobody.
LEMMA ToldKept ==
  ASSUME ToldInv, UNCHANGED <<sent, told, excused, job, doomed, mute>>,
         \A m \in 1 .. sent : msg'[m].to = msg[m].to /\ msg'[m].notified = msg[m].notified
  PROVE  ToldInv'
  BY DEF ToldInv, NotifiedIsTold

LEMMA ToldSession ==
  ASSUME Well, ToldInv, NEW s \in Sessions, SessionStep(s)
  PROVE  ToldInv'
  <1>1. CASE \/ CreateContact(s) \/ InsertContact(s) \/ MarkMessagesAsRead(s)
             \/ SubscribeUserToUnreadMessages(s) \/ UnsubscribeUserToUnreadMessages(s)
    <2>1. UNCHANGED <<msg, sent, told, excused, job, doomed, mute>>
      BY <1>1 DEF CreateContact, InsertContact, MarkMessagesAsRead, SubscribeUserToUnreadMessages,
                  UnsubscribeUserToUnreadMessages, db, jobVars, mail
    <2> QED BY <2>1, ToldKept
  <1>2. CASE SendMessage(s)
    <2>1. sent \in Nat /\ sent' = sent + 1 /\ UNCHANGED <<told, excused, job, doomed, mute>>
      BY <1>2, MessengerAssumption DEF SendMessage, Well, TypeOK, jobVars, mail
    <2>2. PICK d : /\ d.notified = FALSE
                   /\ msg' = [m \in 1 .. sent + 1 |-> IF m <= sent THEN msg[m] ELSE d]
      BY <1>2 DEF SendMessage
    <2>3. \A m \in 1 .. sent' : m \in 1 .. sent \/ m = sent + 1
      BY <2>1
    <2>4. msg'[sent + 1] = d /\ \A m \in 1 .. sent : msg'[m] = msg[m]
      BY <2>1, <2>2
    <2> QED BY <2>1, <2>2, <2>3, <2>4 DEF ToldInv, NotifiedIsTold
  <1>3. CASE MarkSweeps(s)
    <2>1. UNCHANGED <<sent, told, excused, job, doomed, mute>> /\ Sweep(<<where[s], UserOf[s]>>)
      BY <1>3 DEF MarkSweeps, jobVars, mail
    <2> QED BY <2>1, ToldKept DEF Sweep, Well, TypeOK, MessageDocs
  <1> QED BY <1>1, <1>2, <1>3 DEF SessionStep

LEMMA ToldTimer ==
  ASSUME Well, ToldInv, NEW m \in 1 .. sent, TimerStep(m)
  PROVE  ToldInv'
  <1>1. UNCHANGED <<sent, told, excused, job, doomed, mute>>
    BY DEF TimerStep, TimerRings, TimerWrites, TimerCounts, TimerStores, TimerSweeps, db, jobVars, mail
  <1>2. CASE TimerRings(m) \/ TimerCounts(m) \/ TimerStores(m)
    BY <1>1, <1>2, ToldKept DEF TimerRings, TimerCounts, TimerStores, db
  <1>3. CASE TimerWrites(m)
    <2>1. \A n \in 1 .. sent : msg'[n].to = msg[n].to /\ msg'[n].notified = msg[n].notified
      BY <1>3 DEF TimerWrites, Well, TypeOK, MessageDocs
    <2> QED BY <1>1, <2>1, ToldKept
  <1>4. CASE TimerSweeps(m)
    BY <1>1, <1>4, ToldKept DEF TimerSweeps, Sweep, Well, TypeOK, MessageDocs
  <1> QED BY <1>2, <1>3, <1>4 DEF TimerStep

LEMMA ToldJob ==
  ASSUME Well, ToldInv, JobStep
  PROVE  ToldInv'
  <1>1. CASE JobCollects \/ JobNextUser
    <2>1. job \in {"idle", "next"} /\ job' # "send" /\ UNCHANGED <<msg, sent, told, excused>>
      BY <1>1 DEF JobCollects, JobNextUser, db, mail
    <2> QED BY <2>1 DEF ToldInv, NotifiedIsTold
  <1>2. CASE JobMarks
    <2> DEFINE now == {m \in 1 .. sent : msg[m].to \in doomed /\ Unnotified(m)}
    <2>1. /\ UNCHANGED <<sent, doomed, mute, told>> /\ job = "mark" /\ job' = "send"
          /\ msg' = [m \in 1 .. sent |-> IF m \in now THEN [msg[m] EXCEPT !.notified = TRUE] ELSE msg[m]]
      BY <1>2 DEF JobMarks
    <2>2. excused \subseteq excused' /\ (mute => now \subseteq excused')
      BY <1>2, Zenon DEF JobMarks
    <2>3. \A m \in 1 .. sent : msg'[m].to = msg[m].to /\ (m \notin now => msg'[m] = msg[m])
      BY <2>1 DEF Well, TypeOK, MessageDocs
    <2>4. \A m \in 1 .. sent : msg[m].notified => m \in told \cup excused
      BY <2>1 DEF ToldInv, NotifiedIsTold
    <2> QED BY <2>1, <2>2, <2>3, <2>4 DEF ToldInv, NotifiedIsTold
  <1>3. CASE JobSends
    <2>1. job = "send" /\ job' # "send" /\ UNCHANGED <<msg, sent, excused>>
      BY <1>3 DEF JobSends, db
    <2>2. CASE mute
      <3>1. told' = told
        BY <1>3, <2>2, Zenon DEF JobSends
      <3> QED BY <2>1, <2>2, <3>1 DEF ToldInv, NotifiedIsTold
    <2>3. CASE ~mute
      <3>1. told' = told \cup {m \in 1 .. sent : msg[m].to \in doomed /\ msg[m].notified}
        BY <1>3, <2>3, Zenon DEF JobSends
      <3> QED BY <2>1, <3>1 DEF ToldInv, NotifiedIsTold
    <2> QED BY <2>2, <2>3
  <1> QED BY <1>1, <1>2, <1>3 DEF JobStep

LEMMA ToldStep == Well /\ ToldInv /\ [Next]_vars => ToldInv'
  <1>1. ASSUME ToldInv, UNCHANGED vars PROVE ToldInv'
    BY <1>1 DEF vars, ToldInv, NotifiedIsTold
  <1>2. ASSUME ToldInv, Restart PROVE ToldInv'
    <2>1. /\ UNCHANGED <<msg, sent, told>> /\ job' = "idle" /\ excused \subseteq excused'
          /\ job = "send" => {m \in 1 .. sent : msg[m].to \in doomed /\ msg[m].notified} \subseteq excused'
      BY <1>2 DEF Restart, db
    <2> QED BY <1>2, <2>1 DEF ToldInv, NotifiedIsTold
  <1> QED BY <1>1, <1>2, ToldSession, ToldTimer, ToldJob DEF Next

(* The job marks no message as notified without mailing its recipient after *)
(* that, except one who has unsubscribed, or when the server restarts.      *)
THEOREM NotifiedAreTold == Spec => []NotifiedIsTold
  <1>1. Spec => [](Well /\ ToldInv)
    BY InitWell, StepWell, ToldInit, ToldStep, PTL DEF Spec
  <1>2. ToldInv => NotifiedIsTold
    BY DEF ToldInv
  <1> QED BY <1>1, <1>2, PTL

-----------------------------------------------------------------------------
(* The badge.                                                              *)

Busy(k) == Marking(k) \cup Ringing(k)

\* A fiber between a change and its badge that nothing has disturbed is alone
\* on its side, and what it has read or stored still holds.
SideInv(k) ==
    /\ k \notin raced /\ Busy(k) = {} => badge[k] = Cardinality(UnreadOn(k))
    /\ \A f \in Busy(k) \ disturbed :
           /\ Busy(k) = {f}
           /\ f \in Marking(k) => badge[k] = 0
           /\ f \in Ringing(k) => /\ timer[f] = "sweep" => badge[k] = 0
                                  /\ timer[f] = "store" => counted[f] = Cardinality(UnreadOn(k))

BadgeInv == \A k \in Sides : SideInv(k)

LEMMA BadgeInit == Init => BadgeInv
  <1> SUFFICES ASSUME Init, NEW k \in Sides PROVE SideInv(k)
    BY DEF BadgeInv
  <1>1. UnreadOn(k) = {} /\ Marking(k) = {} /\ Ringing(k) = {}
    BY MessengerAssumption DEF Init, UnreadOn, OnSide, Marking, Ringing, Sides
  <1>2. Cardinality({}) = 0
    BY FS_EmptySet
  <1> QED BY <1>1, <1>2 DEF Init, SideInv, Busy

\* A step that leaves side k alone.
LEMMA SideKept ==
  ASSUME NEW k, SideInv(k), Marking(k)' = Marking(k), Ringing(k)' = Ringing(k),
         UnreadOn(k)' = UnreadOn(k), badge'[k] = badge[k], k \notin raced' => k \notin raced,
         \A f \in Busy(k) : f \notin disturbed' => f \notin disturbed,
         \A f \in Ringing(k) : timer'[f] = timer[f] /\ counted'[f] = counted[f]
  PROVE  SideInv(k)'
  BY DEF SideInv, Busy

\* A step that changes neither messages, timers nor calls.
LEMMA BadgeKept ==
  ASSUME BadgeInv, UNCHANGED <<badge, msg, sent, timer, counted, disturbed, raced>>,
         \A s \in Sessions : call'[s] = "sweep" <=> call[s] = "sweep",
         \A s \in Sessions : call[s] = "sweep" => where'[s] = where[s]
  PROVE  BadgeInv'
  <1> SUFFICES ASSUME NEW k \in Sides PROVE SideInv(k)'
    BY DEF BadgeInv
  <1>1. Marking(k)' = Marking(k)
    BY DEF Marking, Sides
  <1>2. Ringing(k)' = Ringing(k) /\ UnreadOn(k)' = UnreadOn(k)
    BY DEF Ringing, UnreadOn, OnSide, SideOf
  <1> QED BY <1>1, <1>2, SideKept DEF BadgeInv

\* A fiber enters side k.
LEMMA BadgeEnter ==
  ASSUME NEW k, NEW f, SideInv(k), f \notin Busy(k), Enter(f, k), Busy(k)' = Busy(k) \cup {f},
         f \in Marking(k)' => badge'[k] = 0,
         f \in Ringing(k)' => timer'[f] = "count"
  PROVE  SideInv(k)'
  <1>1. CASE Busy(k) = {}
    BY <1>1 DEF SideInv, Busy
  <1>2. CASE Busy(k) # {}
    <2>1. disturbed' = disturbed \cup Busy(k) \cup {f}
      BY <1>2 DEF Enter, Busy
    <2> QED BY <2>1 DEF SideInv
  <1> QED BY <1>1, <1>2

\* A fiber leaves side k, with the badge exact if nothing has disturbed it.
LEMMA BadgeLeave ==
  ASSUME NEW k, NEW f, SideInv(k), f \in Busy(k), Leave(f, k), Busy(k)' = Busy(k) \ {f},
         f \notin disturbed => badge'[k] = Cardinality(UnreadOn(k)')
  PROVE  SideInv(k)'
  <1>1. CASE f \in disturbed
    BY <1>1 DEF SideInv, Leave
  <1>2. CASE f \notin disturbed
    BY <1>2 DEF SideInv, Leave
  <1> QED BY <1>1, <1>2

LEMMA FibersDiffer ==
  ASSUME Well, NEW k \in Sides
  PROVE  Marking(k) \subseteq Sessions /\ Ringing(k) \subseteq Messages
         /\ Marking(k) \cap Messages = {} /\ Ringing(k) \cap Sessions = {}
  BY MessengerAssumption, OnSideType DEF Marking, Ringing, Sides

LEMMA BadgeMark ==
  ASSUME Well, BadgeInv, NEW s \in Sessions, MarkMessagesAsRead(s)
  PROVE  BadgeInv'
  <1>1. PICK c \in Contacts : /\ badge' = [badge EXCEPT ![<<c, UserOf[s]>>] = 0]
                              /\ call' = [call EXCEPT ![s] = "sweep"]
                              /\ where' = [where EXCEPT ![s] = c]
                              /\ Enter(s, <<c, UserOf[s]>>)
    BY DEF MarkMessagesAsRead
  <1>2. call[s] = "idle" /\ UNCHANGED <<msg, sent, timer, counted, raced>>
    BY DEF MarkMessagesAsRead
  <1>3. call'[s] = "sweep" /\ where'[s] = c
        /\ \A t \in Sessions \ {s} : call'[t] = call[t] /\ where'[t] = where[t]
    BY <1>1 DEF Well, TypeOK, WhereOK
  <1> SUFFICES ASSUME NEW k \in Sides PROVE SideInv(k)'
    BY DEF BadgeInv
  <1>4. Ringing(k)' = Ringing(k) /\ UnreadOn(k)' = UnreadOn(k)
    BY <1>2 DEF Ringing, UnreadOn, OnSide, SideOf
  <1>5. PICK d \in Contacts, v \in Users : k = <<d, v>>
    BY DEF Sides
  <1>6. CASE k = <<c, UserOf[s]>>
    <2>1. Marking(k)' = Marking(k) \cup {s} /\ s \notin Marking(k)
      BY <1>2, <1>3, <1>6 DEF Marking
    <2>2. s \notin Ringing(k)
      BY FibersDiffer
    <2>3. badge'[k] = 0
      BY <1>1, <1>6 DEF Well, TypeOK
    <2> QED BY <1>1, <1>4, <1>6, <2>1, <2>2, <2>3, BadgeEnter DEF Busy, BadgeInv
  <1>7. CASE k # <<c, UserOf[s]>>
    <2>1. Marking(k)' = Marking(k)
      BY <1>2, <1>3, <1>5, <1>7 DEF Marking
    <2>2. badge'[k] = badge[k]
      BY <1>1, <1>7 DEF Well, TypeOK
    <2>3. disturbed \subseteq disturbed'
      BY <1>1 DEF Enter
    <2> QED BY <1>2, <1>4, <2>1, <2>2, <2>3, SideKept DEF BadgeInv
  <1> QED BY <1>6, <1>7

\* What a sweep of one side does to a side.
LEMMA SweepOn ==
  ASSUME Well, NEW j \in Sides, NEW k \in Sides, Sweep(j), sent' = sent
  PROVE  /\ OnSide(k)' = OnSide(k)
         /\ UnreadOn(k)' = IF k = j THEN {} ELSE UnreadOn(k)
  <1>1. \A m \in 1 .. sent : msg'[m].contact = msg[m].contact /\ msg'[m].to = msg[m].to
    BY DEF Sweep, Well, TypeOK, MessageDocs
  <1>2. \A m \in 1 .. sent : msg'[m].unread = IF SideOf(m) = j THEN "false" ELSE msg[m].unread
    BY DEF Sweep, Well, TypeOK, MessageDocs
  <1>3. OnSide(k)' = OnSide(k)
    BY <1>1 DEF OnSide, SideOf
  <1> QED BY <1>2, <1>3 DEF UnreadOn, OnSide

LEMMA BadgeMarkSweeps ==
  ASSUME Well, BadgeInv, NEW s \in Sessions, MarkSweeps(s)
  PROVE  BadgeInv'
  <1> DEFINE j == <<where[s], UserOf[s]>>
  <1>1. j \in Sides /\ call[s] = "sweep"
    BY MessengerAssumption DEF MarkSweeps, Sides, Well, WhereOK
  <1>2. Sweep(j) /\ Leave(s, j) /\ UNCHANGED <<badge, sent, timer, counted>>
    BY DEF MarkSweeps
  <1>3. call'[s] = "idle" /\ \A t \in Sessions \ {s} : call'[t] = call[t] /\ where'[t] = where[t]
    BY DEF MarkSweeps, Well, TypeOK, WhereOK
  <1> SUFFICES ASSUME NEW k \in Sides PROVE SideInv(k)'
    BY DEF BadgeInv
  <1>4. OnSide(k)' = OnSide(k) /\ UnreadOn(k)' = IF k = j THEN {} ELSE UnreadOn(k)
    BY <1>1, <1>2, SweepOn
  <1>5. Ringing(k)' = Ringing(k)
    BY <1>2, <1>4 DEF Ringing
  <1>6. PICK d \in Contacts, v \in Users : k = <<d, v>>
    BY DEF Sides
  <1>7. CASE k = j
    <2>1. Marking(k)' = Marking(k) \ {s} /\ s \in Marking(k)
      BY <1>1, <1>3, <1>7 DEF Marking
    <2>2. s \notin Ringing(k)
      BY FibersDiffer
    <2>3. s \notin disturbed => badge'[k] = Cardinality(UnreadOn(k)')
      <3>1. Cardinality({}) = 0
        BY FS_EmptySet
      <3> QED BY <1>2, <1>4, <1>7, <2>1, <3>1 DEF BadgeInv, SideInv, Busy
    <2>4. Busy(k)' = Busy(k) \ {s} /\ s \in Busy(k)
      BY <1>5, <2>1, <2>2 DEF Busy
    <2> QED BY <1>2, <1>7, <2>3, <2>4, BadgeLeave DEF BadgeInv
  <1>8. CASE k # j
    <2>1. Marking(k)' = Marking(k) /\ s \notin Marking(k)
      BY <1>1, <1>3, <1>6, <1>8 DEF Marking
    <2>2. s \notin Busy(k)
      BY <2>1, FibersDiffer DEF Busy
    <2>3. (k \notin raced' => k \notin raced) /\ \A f \in Busy(k) : f \notin disturbed' => f \notin disturbed
      BY <1>2, <1>8, <2>2 DEF Leave
    <2> QED BY <1>2, <1>4, <1>5, <1>8, <2>1, <2>3, SideKept DEF BadgeInv
  <1> QED BY <1>7, <1>8

LEMMA BadgeSend ==
  ASSUME Well, BadgeInv, NEW s \in Sessions, SendMessage(s)
  PROVE  BadgeInv'
  <1>1. sent' = sent + 1 /\ sent \in Nat /\ timer' = [timer EXCEPT ![sent + 1] = "armed"]
        /\ sent + 1 \in Messages
        /\ UNCHANGED <<badge, call, where, counted, disturbed, raced>>
    BY MessengerAssumption DEF SendMessage, Well, TypeOK, Messages
  <1>2. PICK c \in Contacts, v \in Users \ {UserOf[s]} :
           msg' = [m \in 1 .. sent + 1 |-> IF m <= sent THEN msg[m]
                       ELSE [contact |-> c, to |-> v, unread |-> "undefined",
                             notified |-> FALSE]]
    BY DEF SendMessage
  <1>3. \A m \in 1 .. sent : msg'[m] = msg[m] /\ timer'[m] = timer[m]
    BY <1>1, <1>2 DEF Well, TypeOK
  <1>4. msg'[sent + 1].unread = "undefined" /\ timer'[sent + 1] = "armed"
    BY <1>1, <1>2 DEF Well, TypeOK
  <1> SUFFICES ASSUME NEW k \in Sides PROVE SideInv(k)'
    BY DEF BadgeInv
  <1>5. OnSide(k) \subseteq OnSide(k)' /\ OnSide(k)' \subseteq OnSide(k) \cup {sent + 1}
    BY <1>1, <1>3 DEF OnSide, SideOf
  <1>6. OnSide(k) \subseteq 1 .. sent
    BY DEF OnSide
  <1>7. UnreadOn(k)' = UnreadOn(k) /\ Ringing(k)' = Ringing(k)
    BY <1>3, <1>4, <1>5, <1>6 DEF UnreadOn, Ringing
  <1>8. Marking(k)' = Marking(k)
    BY <1>1 DEF Marking
  <1>9. \A f \in Ringing(k) : timer'[f] = timer[f] /\ counted'[f] = counted[f]
    BY <1>1, <1>3, <1>6 DEF Ringing
  <1> QED BY <1>1, <1>7, <1>8, <1>9, SideKept DEF BadgeInv

LEMMA BadgeSession ==
  ASSUME Well, BadgeInv, NEW s \in Sessions, SessionStep(s)
  PROVE  BadgeInv'
  <1>1. CASE CreateContact(s)
    BY <1>1, BadgeKept DEF CreateContact, db, Well, TypeOK, WhereOK
  <1>2. CASE InsertContact(s)
    BY <1>2, BadgeKept DEF InsertContact, race, Well, TypeOK, WhereOK
  <1>3. CASE SubscribeUserToUnreadMessages(s)
    BY <1>3, BadgeKept DEF SubscribeUserToUnreadMessages, race
  <1>4. CASE UnsubscribeUserToUnreadMessages(s)
    BY <1>4, BadgeKept DEF UnsubscribeUserToUnreadMessages, race
  <1> QED BY <1>1, <1>2, <1>3, <1>4, BadgeSend, BadgeMark, BadgeMarkSweeps DEF SessionStep

\* What a step of the timer of m leaves alone.
LEMMA BadgeOtherSide ==
  ASSUME Well, BadgeInv, NEW m \in 1 .. sent, NEW k \in Sides, k # SideOf(m),
         UNCHANGED <<sent, call, where>>, OnSide(k)' = OnSide(k), UnreadOn(k)' = UnreadOn(k),
         badge'[k] = badge[k], k \notin raced' => k \notin raced,
         \A f \in Messages \cup Sessions : f # m /\ f \notin disturbed' => f \notin disturbed,
         \A n \in Messages : n # m => timer'[n] = timer[n] /\ counted'[n] = counted[n]
  PROVE  SideInv(k)'
  <1>1. m \notin OnSide(k) /\ OnSide(k) \subseteq Messages
    BY OnSideType DEF OnSide
  <1>2. Ringing(k)' = Ringing(k) /\ m \notin Ringing(k)
    BY <1>1 DEF Ringing
  <1>3. Marking(k)' = Marking(k)
    BY DEF Marking
  <1>4. m \notin Busy(k) /\ Busy(k) \subseteq Messages \cup Sessions
    BY <1>2, FibersDiffer, SideType DEF Busy
  <1>5. \A f \in Busy(k) : f \notin disturbed' => f \notin disturbed
    BY <1>4
  <1>6. \A f \in Ringing(k) : timer'[f] = timer[f] /\ counted'[f] = counted[f]
    BY <1>1, <1>2 DEF Ringing
  <1> QED BY <1>2, <1>3, <1>5, <1>6, SideKept DEF BadgeInv

LEMMA BadgeTimer ==
  ASSUME Well, BadgeInv, NEW m \in 1 .. sent, TimerStep(m)
  PROVE  BadgeInv'
  <1> DEFINE j == SideOf(m)
  <1>a. j \in Sides /\ m \in Messages /\ m \notin Sessions /\ m \in OnSide(j)
    BY SideType, MessengerAssumption DEF OnSide
  <1>b. sent' = sent /\ UNCHANGED <<call, where>>
    BY DEF TimerStep, TimerRings, TimerWrites, TimerCounts, TimerStores, TimerSweeps, db
  <1> SUFFICES ASSUME NEW k \in Sides PROVE SideInv(k)'
    BY DEF BadgeInv
  <1>m. Marking(k)' = Marking(k) /\ m \notin Marking(k)
    BY <1>b, <1>a, FibersDiffer DEF Marking
  <1>t. timer \in [Messages -> Timers] /\ counted \in [Messages -> Nat] /\ badge \in [Sides -> Nat]
        /\ OnSide(k) \subseteq Messages
    BY OnSideType DEF Well, TypeOK
  <1>1. CASE TimerRings(m)
    <2>1. timer[m] = "armed" /\ timer'[m] \in {"write", "done"}
          /\ (\A n \in Messages : n # m => timer'[n] = timer[n])
          /\ UNCHANGED <<badge, msg, counted, disturbed, raced>>
      BY <1>1, <1>a, <1>t DEF TimerRings, db, race
    <2>2. UnreadOn(k)' = UnreadOn(k) /\ OnSide(k)' = OnSide(k)
      BY <1>b, <2>1 DEF UnreadOn, OnSide, SideOf
    <2>3. Ringing(k)' = Ringing(k) /\ m \notin Ringing(k)
      BY <1>t, <2>1, <2>2 DEF Ringing
    <2> QED BY <1>m, <1>t, <2>1, <2>2, <2>3, SideKept DEF BadgeInv, Ringing
  <1>2. CASE TimerWrites(m)
    <2>1. timer[m] = "write" /\ timer' = [timer EXCEPT ![m] = "count"] /\ Enter(m, j)
          /\ msg' = [msg EXCEPT ![m].unread = "true"]
          /\ UNCHANGED <<badge, counted, raced>>
      BY <1>2 DEF TimerWrites
    <2>2. \A n \in 1 .. sent : /\ msg'[n].contact = msg[n].contact /\ msg'[n].to = msg[n].to
                               /\ n # m => msg'[n].unread = msg[n].unread
      BY <2>1 DEF Well, TypeOK, MessageDocs
    <2>3. OnSide(k)' = OnSide(k)
      BY <1>b, <2>2 DEF OnSide, SideOf
    <2>4. CASE k = j
      <3>1. Ringing(k)' = Ringing(k) \cup {m} /\ m \notin Ringing(k) /\ timer'[m] = "count"
        BY <1>a, <1>t, <2>1, <2>3, <2>4 DEF Ringing
      <3> QED BY <1>m, <2>1, <2>4, <3>1, BadgeEnter DEF BadgeInv, Busy
    <2>5. CASE k # j
      <3>1. UnreadOn(k)' = UnreadOn(k)
        BY <2>2, <2>3, <2>5 DEF UnreadOn, OnSide
      <3>2. disturbed \subseteq disturbed'
        BY <2>1 DEF Enter
      <3>3. \A n \in Messages : n # m => timer'[n] = timer[n]
        BY <1>t, <2>1
      <3> QED BY <1>b, <2>1, <2>3, <2>5, <3>1, <3>2, <3>3, BadgeOtherSide
    <2> QED BY <2>4, <2>5
  <1>3. CASE TimerCounts(m)
    <2>1. timer[m] = "count" /\ timer' = [timer EXCEPT ![m] = "store"]
          /\ counted' = [counted EXCEPT ![m] = Cardinality(UnreadOn(j))]
          /\ UNCHANGED <<badge, msg, disturbed, raced>>
      BY <1>3 DEF TimerCounts, db, race
    <2>2. UnreadOn(k)' = UnreadOn(k) /\ OnSide(k)' = OnSide(k)
      BY <1>b, <2>1 DEF UnreadOn, OnSide, SideOf
    <2>3. timer'[m] = "store" /\ counted'[m] = Cardinality(UnreadOn(j))
          /\ \A n \in Messages : n # m => timer'[n] = timer[n] /\ counted'[n] = counted[n]
      BY <1>a, <1>t, <2>1
    <2>4. CASE k = j
      <3>1. Ringing(k)' = Ringing(k) /\ m \in Ringing(k)
        BY <1>a, <1>t, <2>1, <2>2, <2>3, <2>4 DEF Ringing
      <3> QED BY <1>m, <2>1, <2>2, <2>3, <2>4, <3>1 DEF BadgeInv, SideInv, Busy
    <2>5. CASE k # j
      BY <1>b, <2>1, <2>2, <2>3, <2>5, BadgeOtherSide
    <2> QED BY <2>4, <2>5
  <1>4. CASE TimerStores(m)
    <2>1. timer[m] = "store" /\ badge' = [badge EXCEPT ![j] = counted[m]]
          /\ timer' = [timer EXCEPT ![m] = IF counted[m] = 0 THEN "sweep" ELSE "done"]
          /\ counted' = [counted EXCEPT ![m] = 0]
          /\ (counted[m] = 0 => UNCHANGED <<disturbed, raced>>)
          /\ (counted[m] # 0 => Leave(m, j))
          /\ msg' = msg
      BY <1>4 DEF TimerStores
    <2>2. UnreadOn(k)' = UnreadOn(k) /\ OnSide(k)' = OnSide(k)
      BY <1>b, <2>1 DEF UnreadOn, OnSide, SideOf
    <2>3. timer'[m] = IF counted[m] = 0 THEN "sweep" ELSE "done"
      BY <1>a, <1>t, <2>1
    <2>4. \A n \in Messages : n # m => timer'[n] = timer[n] /\ counted'[n] = counted[n]
      BY <1>t, <2>1
    <2>5. CASE k = j /\ counted[m] = 0
      <3>1. Ringing(k)' = Ringing(k) /\ m \in Ringing(k)
        BY <1>a, <1>t, <2>1, <2>2, <2>3, <2>4, <2>5 DEF Ringing
      <3>2. badge'[k] = 0
        BY <1>t, <2>1, <2>5
      <3> QED BY <1>m, <2>1, <2>2, <2>3, <2>5, <3>1, <3>2 DEF BadgeInv, SideInv, Busy
    <2>6. CASE k = j /\ counted[m] # 0
      <3>1. Ringing(k)' = Ringing(k) \ {m} /\ m \in Ringing(k)
        BY <1>a, <1>t, <2>1, <2>2, <2>3, <2>4, <2>6 DEF Ringing
      <3>2. Busy(k)' = Busy(k) \ {m} /\ m \in Busy(k)
        BY <1>m, <3>1 DEF Busy
      <3>3. badge'[k] = counted[m]
        BY <1>t, <2>1, <2>6
      <3>4. m \notin disturbed => counted[m] = Cardinality(UnreadOn(k))
        BY <2>1, <3>1, <3>2 DEF BadgeInv, SideInv
      <3> QED BY <2>1, <2>2, <2>6, <3>2, <3>3, <3>4, BadgeLeave DEF BadgeInv
    <2>7. CASE k # j
      <3>1. (k \notin raced' => k \notin raced)
            /\ \A f \in Messages \cup Sessions : f # m /\ f \notin disturbed' => f \notin disturbed
        BY <2>1, <2>7 DEF Leave
      <3>2. badge'[k] = badge[k]
        BY <1>t, <2>1, <2>7
      <3> QED BY <1>b, <2>2, <2>4, <2>7, <3>1, <3>2, BadgeOtherSide
    <2> QED BY <2>5, <2>6, <2>7
  <1>5. CASE TimerSweeps(m)
    <2>1. timer[m] = "sweep" /\ Sweep(j) /\ Leave(m, j)
          /\ timer' = [timer EXCEPT ![m] = "done"]
          /\ UNCHANGED <<badge, counted>>
      BY <1>5 DEF TimerSweeps
    <2>2. OnSide(k)' = OnSide(k) /\ UnreadOn(k)' = IF k = j THEN {} ELSE UnreadOn(k)
      BY <1>a, <1>b, <2>1, SweepOn
    <2>3. timer'[m] = "done" /\ \A n \in Messages : n # m => timer'[n] = timer[n]
      BY <1>a, <1>t, <2>1
    <2>4. CASE k = j
      <3>1. Ringing(k)' = Ringing(k) \ {m} /\ m \in Ringing(k)
        BY <1>a, <1>t, <2>1, <2>2, <2>3, <2>4 DEF Ringing
      <3>2. Busy(k)' = Busy(k) \ {m} /\ m \in Busy(k)
        BY <1>m, <3>1 DEF Busy
      <3>3. m \notin disturbed => badge[k] = 0
        BY <2>1, <3>1, <3>2 DEF BadgeInv, SideInv
      <3>4. Cardinality({}) = 0
        BY FS_EmptySet
      <3> QED BY <2>1, <2>2, <2>4, <3>2, <3>3, <3>4, BadgeLeave DEF BadgeInv
    <2>5. CASE k # j
      <3>1. (k \notin raced' => k \notin raced)
            /\ \A f \in Messages \cup Sessions : f # m /\ f \notin disturbed' => f \notin disturbed
        BY <2>1, <2>5 DEF Leave
      <3> QED BY <1>b, <2>1, <2>2, <2>3, <2>5, <3>1, BadgeOtherSide
    <2> QED BY <2>4, <2>5
  <1> QED BY <1>1, <1>2, <1>3, <1>4, <1>5 DEF TimerStep

LEMMA BadgeJob ==
  ASSUME Well, BadgeInv, JobStep
  PROVE  BadgeInv'
  <1>1. UNCHANGED <<badge, sent, call, where, timer, counted, disturbed, raced>>
    BY DEF JobStep, JobCollects, JobNextUser, JobMarks, JobSends, db, race
  <1>2. \A m \in 1 .. sent : /\ msg'[m].contact = msg[m].contact /\ msg'[m].to = msg[m].to
                             /\ msg'[m].unread = msg[m].unread
    <2>1. CASE JobMarks
      BY <2>1 DEF JobMarks, Well, TypeOK, MessageDocs
    <2>2. CASE ~JobMarks
      BY <2>2 DEF JobStep, JobCollects, JobNextUser, JobSends, db
    <2> QED BY <2>1, <2>2
  <1> SUFFICES ASSUME NEW k \in Sides PROVE SideInv(k)'
    BY DEF BadgeInv
  <1>3. OnSide(k)' = OnSide(k)
    BY <1>1, <1>2 DEF OnSide, SideOf
  <1>4. UnreadOn(k)' = UnreadOn(k) /\ Ringing(k)' = Ringing(k) /\ Marking(k)' = Marking(k)
    BY <1>1, <1>2, <1>3 DEF UnreadOn, Ringing, Marking, OnSide
  <1> QED BY <1>1, <1>4, SideKept DEF BadgeInv

LEMMA BadgeRestart ==
  ASSUME Well, BadgeInv, Restart
  PROVE  BadgeInv'
  <1> SUFFICES ASSUME NEW k \in Sides PROVE SideInv(k)'
    BY DEF BadgeInv
  <1>1. UNCHANGED <<badge, msg, sent>> /\ call' = [s \in Sessions |-> "idle"]
        /\ timer' = [m \in Messages |-> IF timer[m] \in {"none", "done"} THEN timer[m] ELSE "lost"]
        /\ raced' = raced \cup {h \in Sides : Marking(h) \cup Ringing(h) # {}}
    BY DEF Restart, db
  <1>2. OnSide(k)' = OnSide(k) /\ UnreadOn(k)' = UnreadOn(k) /\ OnSide(k) \subseteq Messages
    BY <1>1, OnSideType DEF OnSide, UnreadOn, SideOf
  <1>3. Ringing(k)' = {} /\ Marking(k)' = {}
    BY <1>1, <1>2 DEF Ringing, Marking, Sides
  <1>4. k \notin raced' => k \notin raced /\ Busy(k) = {}
    BY <1>1 DEF Busy
  <1> QED BY <1>1, <1>2, <1>3, <1>4 DEF SideInv, Busy, BadgeInv

LEMMA BadgeStep == Well /\ BadgeInv /\ [Next]_vars => BadgeInv'
  <1>1. ASSUME BadgeInv, UNCHANGED vars PROVE BadgeInv'
    BY <1>1, BadgeKept DEF vars
  <1> QED BY <1>1, BadgeSession, BadgeTimer, BadgeJob, BadgeRestart DEF Next

(* The badge of a side is the number of its unread messages whenever no     *)
(* timer and no markMessagesAsRead is between the two and the last of them  *)
(* overlapped with no other: the hooks lose a message only to an overlap.   *)
THEOREM BadgeCounts == Spec => []BadgeExact
  <1>1. Spec => [](Well /\ BadgeInv)
    BY InitWell, StepWell, BadgeInit, BadgeStep, PTL DEF Spec
  <1>2. BadgeInv => BadgeExact
    BY DEF BadgeInv, SideInv, BadgeExact, Busy
  <1> QED BY <1>1, <1>2, PTL

=============================================================================
