------------------------------ MODULE Messenger ------------------------------
(***************************************************************************)
(* The messenger of kitchen-gui: contacts, messages, the unread badge of   *)
(* each side of a contact, and the job that mails users about unread       *)
(* messages.  A session is a tab of a user's browser, with its connection: *)
(* its calls run one after the other, those of two tabs do not.  The calls *)
(* of the sessions, the timer each message arms and the job are fibers of  *)
(* one server that give way at every database call.                        *)
(***************************************************************************)
EXTENDS Integers, Sequences, FiniteSets

CONSTANTS Users, Contacts, NoContact,
          Sessions,      \* open connections
          UserOf,        \* UserOf[s]: the user of session s
          HasEmail,      \* users with an e-mail address
          MaxMessages,   \* bound: messages sent
          MaxCalls,      \* bound: calls of createContact that insert, of
                         \* markMessagesAsRead and of (un)subscribe
          MaxJobs,       \* bound: runs of the job that find messages
          MaxRestarts,   \* bound: restarts of the server
          MaxEvents      \* bound: all of these calls, runs and restarts

Messages == 1 .. MaxMessages

ASSUME MessengerAssumption ==
    /\ HasEmail \subseteq Users
    /\ NoContact \notin Contacts
    /\ UserOf \in [Sessions -> Users]
    /\ Sessions \cap Messages = {}
    /\ {MaxMessages, MaxCalls, MaxJobs, MaxRestarts, MaxEvents} \subseteq Nat

Sides == Contacts \X Users      \* a contact, as one of its two users sees it

VARIABLES
    contact,    \* collection Contacts
    badge,      \* unreadMessagesFrom / unreadMessagesTo of a contact
    msg,        \* collection Messenger
    sent,       \* messages inserted so far
    subscribed, \* users with profile.subscribedToUnreadMessages
    call, where,    \* a session: where its call is, and on what
    timer, counted, \* the timer of a message, and the number its hook counted
    job, listed, doomed, mute, \* the job: where it is, what it has collected
    calls, jobs, restarts,
    \* history
    disturbed,  \* fibers that overlapped with another one on their side
    raced,      \* sides last written by a disturbed fiber
    pairRace,   \* pairs of users for whom two sessions created a contact at once
    marked,     \* messages whose recipient has marked them while they existed
    mails,      \* how many mails counted a message
    told,       \* messages marked as notified before a mail to their recipient
    excused     \* ... or without one: not subscribed, or the server restarted

db == <<contact, badge, msg, sent, subscribed>>
bounds == <<calls, jobs, restarts>>
jobVars == <<job, listed, doomed, mute>>
race == <<disturbed, raced, pairRace, marked>>
mail == <<mails, told, excused>>
vars == <<contact, badge, msg, sent, subscribed, call, where, timer, counted, job, listed,
          doomed, mute, calls, jobs, restarts, disturbed, raced, pairRace, marked, mails,
          told, excused>>

Unread == {"undefined", "true", "false"}
MessageDocs == [contact : Contacts, to : Users, unread : Unread, notified : BOOLEAN]
Timers == {"none", "armed", "write", "count", "store", "sweep", "done", "lost"}

TypeOK ==
    /\ contact \in [Contacts -> [from : Users, to : Users] \cup {NoContact}]
    /\ badge \in [Sides -> Nat]
    /\ sent \in 0 .. MaxMessages
    /\ msg \in [1 .. sent -> MessageDocs]
    /\ subscribed \subseteq Users
    /\ call \in [Sessions -> {"idle", "insertContact", "sweep"}]
    /\ timer \in [Messages -> Timers]
    /\ counted \in [Messages -> Nat]
    /\ job \in {"idle", "next", "mark", "send"}
    /\ listed \subseteq 1 .. sent
    /\ doomed \subseteq Users
    /\ mute \in BOOLEAN
    /\ calls \in 0 .. MaxCalls /\ jobs \in 0 .. MaxJobs /\ restarts \in 0 .. MaxRestarts
    /\ disturbed \subseteq (Messages \cup Sessions)
    /\ raced \subseteq Sides
    /\ pairRace \subseteq SUBSET Users
    /\ marked \subseteq Messages
    /\ mails \in [Messages -> Nat]
    /\ told \subseteq Messages /\ excused \subseteq Messages

-----------------------------------------------------------------------------
Between(c, u, v) == contact[c] # NoContact /\ {contact[c].from, contact[c].to} = {u, v}
SideOf(m) == <<msg[m].contact, msg[m].to>>
OnSide(k) == {m \in 1 .. sent : SideOf(m) = k}
UnreadOn(k) == {m \in OnSide(k) : msg[m].unread = "true"}

\* The fibers that are between a change of the messages of side k and the
\* change of its badge, or the reverse.  Sessions and messages never coincide.
Marking(k) == {s \in Sessions : call[s] = "sweep" /\ <<where[s], UserOf[s]>> = k}
Ringing(k) == {m \in OnSide(k) : timer[m] \in {"count", "store", "sweep"}}
Enter(f, k) ==
    LET others == (Marking(k) \cup Ringing(k)) \ {f}
    IN  disturbed' = IF others = {} THEN disturbed ELSE disturbed \cup others \cup {f}
Leave(f, k) ==
    /\ raced' = IF f \in disturbed THEN raced \cup {k} ELSE raced \ {k}
    /\ disturbed' = disturbed \ {f}

\* Messenger.update of Contacts.after.update: unread or undecided becomes read.
Sweep(k) == msg' = [m \in 1 .. sent |->
                       IF SideOf(m) = k THEN [msg[m] EXCEPT !.unread = "false"] ELSE msg[m]]

\* Bound: there may be one more call, run of the job or restart.
HasRoom == calls + jobs + restarts < MaxEvents

-----------------------------------------------------------------------------
(* Contacts.                                                               *)

\* The sessions that are about to insert a contact between u and v.
Creating(u, v) == {s \in Sessions : call[s] = "insertContact" /\ {UserOf[s], where[s]} = {u, v}}

\* Mutant: only contacts that the user created are looked for.
CreateContactOneWay(s) ==
    /\ call[s] = "idle"
    /\ calls < MaxCalls /\ HasRoom
    /\ calls' = calls + 1
    /\ \E v \in Users \ {UserOf[s]} :
         /\ ~ \E c \in Contacts : contact[c] = [from |-> UserOf[s], to |-> v]
         /\ call' = [call EXCEPT ![s] = "insertContact"]
         /\ where' = [where EXCEPT ![s] = v]
         /\ pairRace' = IF Creating(UserOf[s], v) = {} THEN pairRace
                        ELSE pairRace \cup {{UserOf[s], v}}
    /\ UNCHANGED <<db, timer, counted, jobVars, jobs, restarts, disturbed, raced,
                   marked, mail>>

\* createContact finds no contact between the two; or an old one, and ends.
CreateContact(s) ==
    /\ call[s] = "idle"
    /\ calls < MaxCalls /\ HasRoom
    /\ calls' = calls + 1
    /\ \E v \in Users \ {UserOf[s]} :
         /\ ~ \E c \in Contacts : Between(c, UserOf[s], v)
         /\ call' = [call EXCEPT ![s] = "insertContact"]
         /\ where' = [where EXCEPT ![s] = v]
         /\ pairRace' = IF Creating(UserOf[s], v) = {} THEN pairRace
                        ELSE pairRace \cup {{UserOf[s], v}}
    /\ UNCHANGED <<db, timer, counted, jobVars, jobs, restarts, disturbed, raced,
                   marked, mail>>

InsertContact(s) ==
    /\ call[s] = "insertContact"
    /\ \E c \in Contacts :
         /\ contact[c] = NoContact                                  \* bound
         /\ c = CHOOSE d \in Contacts : contact[d] = NoContact      \* a new id
         /\ contact' = [contact EXCEPT ![c] = [from |-> UserOf[s], to |-> where[s]]]
    /\ call' = [call EXCEPT ![s] = "idle"]
    /\ where' = [where EXCEPT ![s] = NoContact]
    /\ UNCHANGED <<badge, msg, sent, subscribed, timer, counted, jobVars, bounds, race, mail>>

-----------------------------------------------------------------------------
(* Messages.                                                               *)

\* sendMessage inserts a message, read or unread undecided, and arms its timer.
SendMessage(s) ==
    /\ call[s] = "idle"
    /\ sent < MaxMessages
    /\ \E c \in Contacts, v \in Users \ {UserOf[s]} :
         /\ Between(c, UserOf[s], v)
         /\ msg' = [m \in 1 .. sent + 1 |-> IF m <= sent THEN msg[m]
                       ELSE [contact |-> c, to |-> v, unread |-> "undefined",
                             notified |-> FALSE]]
         /\ marked' = IF Marking(<<c, v>>) # {} THEN marked \cup {sent + 1} ELSE marked
    /\ sent' = sent + 1
    /\ timer' = [timer EXCEPT ![sent + 1] = "armed"]
    /\ UNCHANGED <<contact, badge, subscribed, call, where, counted, jobVars, bounds,
                   disturbed, raced, pairRace, mail>>

\* Mutant: the condition is inverted.
TimerRingsInverted(m) ==
    /\ timer[m] = "armed"
    /\ timer' = [timer EXCEPT ![m] = IF msg[m].unread = "undefined" THEN "done" ELSE "write"]
    /\ UNCHANGED <<db, call, where, counted, jobVars, bounds, race, mail>>

\* The timer rings: the message is still undecided, or it is left as it is.
TimerRings(m) ==
    /\ timer[m] = "armed"
    /\ timer' = [timer EXCEPT ![m] = IF msg[m].unread = "undefined" THEN "write" ELSE "done"]
    /\ UNCHANGED <<db, call, where, counted, jobVars, bounds, race, mail>>

\* It marks the message as unread.
TimerWrites(m) ==
    /\ timer[m] = "write"
    /\ msg' = [msg EXCEPT ![m].unread = "true"]
    /\ timer' = [timer EXCEPT ![m] = "count"]
    /\ Enter(m, SideOf(m))
    /\ UNCHANGED <<contact, badge, sent, subscribed, call, where, counted, jobVars, bounds,
                   raced, pairRace, marked, mail>>

\* Mutant: the count leaves out toUserId.
TimerCountsBothSides(m) ==
    /\ timer[m] = "count"
    /\ counted' = [counted EXCEPT ![m] = Cardinality({n \in 1 .. sent :
                      msg[n].contact = msg[m].contact /\ msg[n].unread = "true"})]
    /\ timer' = [timer EXCEPT ![m] = "store"]
    /\ UNCHANGED <<db, call, where, jobVars, bounds, race, mail>>

\* Messenger.after.update counts the unread messages of the side ...
TimerCounts(m) ==
    /\ timer[m] = "count"
    /\ counted' = [counted EXCEPT ![m] = Cardinality(UnreadOn(SideOf(m)))]
    /\ timer' = [timer EXCEPT ![m] = "store"]
    /\ UNCHANGED <<db, call, where, jobVars, bounds, race, mail>>

\* Mutant: the message itself is taken off the number.
TimerStoresLessOne(m) ==
    /\ timer[m] = "store"
    /\ badge' = [badge EXCEPT ![SideOf(m)] = counted[m] - 1]
    /\ timer' = [timer EXCEPT ![m] = IF counted[m] = 0 THEN "sweep" ELSE "done"]
    /\ counted' = [counted EXCEPT ![m] = 0]
    /\ IF counted[m] = 0 THEN UNCHANGED <<disturbed, raced>> ELSE Leave(m, SideOf(m))
    /\ UNCHANGED <<contact, msg, sent, subscribed, call, where, jobVars, bounds, pairRace,
                   marked, mail>>

\* ... and stores the number; a zero sets off Contacts.after.update.
TimerStores(m) ==
    /\ timer[m] = "store"
    /\ badge' = [badge EXCEPT ![SideOf(m)] = counted[m]]
    /\ timer' = [timer EXCEPT ![m] = IF counted[m] = 0 THEN "sweep" ELSE "done"]
    /\ counted' = [counted EXCEPT ![m] = 0]
    /\ IF counted[m] = 0 THEN UNCHANGED <<disturbed, raced>> ELSE Leave(m, SideOf(m))
    /\ UNCHANGED <<contact, msg, sent, subscribed, call, where, jobVars, bounds, pairRace,
                   marked, mail>>

TimerSweeps(m) ==
    /\ timer[m] = "sweep"
    /\ Sweep(SideOf(m))
    /\ timer' = [timer EXCEPT ![m] = "done"]
    /\ Leave(m, SideOf(m))
    /\ UNCHANGED <<contact, badge, sent, subscribed, call, where, counted, jobVars, bounds,
                   pairRace, marked, mail>>

\* markMessagesAsRead, which the client calls when it shows a conversation
\* that has messages: the badge becomes 0 ...
MarkMessagesAsRead(s) ==
    /\ call[s] = "idle"
    /\ calls < MaxCalls /\ HasRoom
    /\ \E c \in Contacts, v \in Users \ {UserOf[s]} :
         /\ Between(c, UserOf[s], v)
         /\ \E m \in 1 .. sent : msg[m].contact = c
         /\ badge' = [badge EXCEPT ![<<c, UserOf[s]>>] = 0]
         /\ call' = [call EXCEPT ![s] = "sweep"]
         /\ where' = [where EXCEPT ![s] = c]
         /\ Enter(s, <<c, UserOf[s]>>)
         /\ marked' = marked \cup OnSide(<<c, UserOf[s]>>)
    /\ calls' = calls + 1
    /\ UNCHANGED <<contact, msg, sent, subscribed, timer, counted, jobVars, jobs, restarts,
                   raced, pairRace, mail>>

\* ... and Contacts.after.update marks the messages as read.
MarkSweeps(s) ==
    /\ call[s] = "sweep"
    /\ Sweep(<<where[s], UserOf[s]>>)
    /\ call' = [call EXCEPT ![s] = "idle"]
    /\ where' = [where EXCEPT ![s] = NoContact]
    /\ Leave(s, <<where[s], UserOf[s]>>)
    /\ UNCHANGED <<contact, badge, sent, subscribed, timer, counted, jobVars, bounds,
                   pairRace, marked, mail>>

\* subscribeUserToUnreadMessages, unsubscribeUserToUnreadMessages.
SubscribeUserToUnreadMessages(s) ==
    /\ call[s] = "idle"
    /\ calls < MaxCalls /\ HasRoom
    /\ calls' = calls + 1
    /\ subscribed' = subscribed \cup {UserOf[s]}
    /\ UNCHANGED <<contact, badge, msg, sent, call, where, timer, counted, jobVars, jobs,
                   restarts, race, mail>>

UnsubscribeUserToUnreadMessages(s) ==
    /\ call[s] = "idle"
    /\ calls < MaxCalls /\ HasRoom
    /\ calls' = calls + 1
    /\ subscribed' = subscribed \ {UserOf[s]}
    /\ UNCHANGED <<contact, badge, msg, sent, call, where, timer, counted, jobVars, jobs,
                   restarts, race, mail>>

-----------------------------------------------------------------------------
(* sendUnreadMessagesEmails, run by the cron job.                          *)

\* Unread messages nobody was mailed about.
Unnotified(m) == msg[m].unread = "true" /\ ~msg[m].notified

\* It collects the users to notify, and the number of messages of each.
JobCollects ==
    /\ job = "idle"
    /\ jobs < MaxJobs /\ HasRoom
    /\ listed' = {m \in 1 .. sent : Unnotified(m)}
    /\ IF listed' = {} THEN job' = "idle" /\ UNCHANGED jobs
                      ELSE job' = "next" /\ jobs' = jobs + 1
    /\ UNCHANGED <<db, call, where, timer, counted, doomed, mute, calls, restarts, race, mail>>

\* It takes the next user and reads the user's document.  One without an
\* address is passed over.
JobNextUser ==
    /\ job = "next"
    /\ \E u \in {msg[m].to : m \in listed} :
         IF u \in HasEmail
         THEN /\ doomed' = {u}
              /\ mute' = (u \notin subscribed)
              /\ job' = "mark"
              /\ UNCHANGED listed
         ELSE /\ listed' = {m \in listed : msg[m].to # u}
              /\ job' = IF listed' = {} THEN "idle" ELSE "next"
              /\ UNCHANGED <<doomed, mute>>
    /\ UNCHANGED <<db, call, where, timer, counted, bounds, race, mail>>

\* Mutant: the update is not multi, and marks one message.
JobMarksOne ==
    /\ job = "mark"
    /\ LET some == {m \in 1 .. sent : msg[m].to \in doomed /\ Unnotified(m)}
           now == {m \in some : \A n \in some : m <= n}
       IN  /\ msg' = [m \in 1 .. sent |-> IF m \in now THEN [msg[m] EXCEPT !.notified = TRUE]
                                          ELSE msg[m]]
           /\ excused' = IF mute THEN excused \cup now ELSE excused
    /\ job' = "send"
    /\ UNCHANGED <<contact, badge, sent, subscribed, call, where, timer, counted, listed,
                   doomed, mute, bounds, race, mails, told>>

\* Mutant: the update marks the messages of every user.
JobMarksAll ==
    /\ job = "mark"
    /\ LET now == {m \in 1 .. sent : Unnotified(m)}
       IN  /\ msg' = [m \in 1 .. sent |-> IF m \in now THEN [msg[m] EXCEPT !.notified = TRUE]
                                          ELSE msg[m]]
           /\ excused' = IF mute THEN excused \cup now ELSE excused
    /\ job' = "send"
    /\ UNCHANGED <<contact, badge, sent, subscribed, call, where, timer, counted, listed,
                   doomed, mute, bounds, race, mails, told>>

\* It marks all messages of the user that are unread now as notified.
JobMarks ==
    /\ job = "mark"
    /\ LET now == {m \in 1 .. sent : msg[m].to \in doomed /\ Unnotified(m)}
       IN  /\ msg' = [m \in 1 .. sent |-> IF m \in now THEN [msg[m] EXCEPT !.notified = TRUE]
                                          ELSE msg[m]]
           /\ excused' = IF mute THEN excused \cup now ELSE excused
    /\ job' = "send"
    /\ UNCHANGED <<contact, badge, sent, subscribed, call, where, timer, counted, listed,
                   doomed, mute, bounds, race, mails, told>>

\* It mails the user, if subscribed, the number collected at the beginning.
JobSends ==
    /\ job = "send"
    /\ LET mine == {m \in listed : msg[m].to \in doomed}
       IN  /\ listed' = listed \ mine
           /\ IF mute THEN UNCHANGED <<mails, told>>
              ELSE /\ mails' = [m \in Messages |-> IF m \in mine THEN mails[m] + 1 ELSE mails[m]]
                   /\ told' = told \cup {m \in 1 .. sent : msg[m].to \in doomed /\ msg[m].notified}
    /\ job' = IF listed' = {} THEN "idle" ELSE "next"
    /\ doomed' = {}
    /\ mute' = FALSE
    /\ UNCHANGED <<db, call, where, timer, counted, bounds, race, excused>>

-----------------------------------------------------------------------------
\* The server restarts: timers, calls and the job are lost.
Restart ==
    /\ restarts < MaxRestarts /\ HasRoom
    /\ restarts' = restarts + 1
    /\ raced' = raced \cup {k \in Sides : Marking(k) \cup Ringing(k) # {}}
    /\ excused' = IF job = "send"
                  THEN excused \cup {m \in 1 .. sent : msg[m].to \in doomed /\ msg[m].notified}
                  ELSE excused
    /\ disturbed' = {}
    /\ call' = [s \in Sessions |-> "idle"]
    /\ where' = [s \in Sessions |-> NoContact]
    /\ timer' = [m \in Messages |-> IF timer[m] \in {"none", "done"} THEN timer[m] ELSE "lost"]
    /\ counted' = [m \in Messages |-> 0]
    /\ job' = "idle" /\ listed' = {} /\ doomed' = {} /\ mute' = FALSE
    /\ UNCHANGED <<db, calls, jobs, pairRace, marked, mails, told>>

Init ==
    /\ contact = [c \in Contacts |-> NoContact]
    /\ badge = [k \in Sides |-> 0]
    /\ msg = <<>> /\ sent = 0
    /\ subscribed = Users
    /\ call = [s \in Sessions |-> "idle"]
    /\ where = [s \in Sessions |-> NoContact]
    /\ timer = [m \in Messages |-> "none"]
    /\ counted = [m \in Messages |-> 0]
    /\ job = "idle" /\ listed = {} /\ doomed = {} /\ mute = FALSE
    /\ calls = 0 /\ jobs = 0 /\ restarts = 0
    /\ disturbed = {} /\ raced = {} /\ pairRace = {} /\ marked = {}
    /\ mails = [m \in Messages |-> 0] /\ told = {} /\ excused = {}

SessionStep(s) == CreateContact(s) \/ InsertContact(s) \/ SendMessage(s)
                  \/ MarkMessagesAsRead(s) \/ MarkSweeps(s)
                  \/ SubscribeUserToUnreadMessages(s) \/ UnsubscribeUserToUnreadMessages(s)
TimerStep(m) == TimerRings(m) \/ TimerWrites(m) \/ TimerCounts(m) \/ TimerStores(m)
                \/ TimerSweeps(m)
JobStep == JobCollects \/ JobNextUser \/ JobMarks \/ JobSends

Next == \/ \E s \in Sessions : SessionStep(s)
        \/ \E m \in 1 .. sent : TimerStep(m)
        \/ JobStep
        \/ Restart

\* Timers ring and finish what they began.  Nobody need call anything, and
\* neither a call in progress nor the job is relied on to go on.
Fairness == \A m \in Messages : WF_vars(m <= sent /\ TimerStep(m))

Spec == Init /\ [][Next]_vars /\ Fairness

-----------------------------------------------------------------------------
\* The badge of a side equals its number of unread messages whenever no timer
\* and no call of markMessagesAsRead is between the two, and the last of them
\* did not overlap with another one on the same side.
BadgeExact ==
    \A k \in Sides \ raced :
        Marking(k) \cup Ringing(k) = {} => badge[k] = Cardinality(UnreadOn(k))

\* Two users have at most one contact, unless a session of one of them looked
\* for it while another, of either, had looked and was about to insert it: no
\* other order of calls, and no overlap of other users, makes a second one.
OneContactPerPair ==
    \A u, v \in Users :
        {u, v} \notin pairRace => Cardinality({c \in Contacts : Between(c, u, v)}) <= 1

\* No message is counted in two mails, whatever is read, sent or restarted
\* between the collection of the messages, their marking and the mail.
MailedAtMostOnce == \A m \in Messages : mails[m] <= 1

\* A message is only marked as notified if a mail goes out to its recipient
\* after that; the recipient had unsubscribed, or the server restarted there.
NotifiedIsTold ==
    \A m \in 1 .. sent :
        msg[m].notified => m \in told \cup excused \/ (job = "send" /\ msg[m].to \in doomed)

\* Every message is in the end read or unread, unless its timer was lost.
EveryMessageDecided ==
    \A m \in Messages :
        (m <= sent) ~> (timer[m] = "lost" \/ (m <= sent /\ msg[m].unread # "undefined"))

\* methods/messenger.js:74: "if dest user did not mark message as "unread:
\* false" after 2 seconds, mark message as "unread: true"".
UnmarkedBecomesUnread ==
    \A m \in 1 .. sent :
        (timer[m] = "done" /\ m \notin marked) => msg[m].unread = "true"

=============================================================================
