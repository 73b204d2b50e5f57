------------------------------- MODULE LiveWatch -------------------------------
(***************************************************************************)
(* Live mode: how a running generator learns that its input was modified.  *)
(*                                                                         *)
(* A session whose input is a file compares checksums of the file every    *)
(* 100 ms (WaitForFileChange).  A session whose input is the URL of an     *)
(* application holds a long poll open (/waitapp): the web server looks at  *)
(* the application's modifiedAt every 333 ms and answers when it is later  *)
(* than it was when the request came.  Both take what they compare with    *)
(* when the wait begins, after the generator has run.                      *)
(*                                                                         *)
(* What a version of the input contains is left out, and so is what the    *)
(* generator does with it (KitchenGit).                                    *)
(***************************************************************************)
EXTENDS Integers

CONSTANTS
  UrlSession, FileSession,   \* generators running in live mode
  Writer,                    \* calls that update the application
  MaxVersion,                \* bound on the versions of the application
  MaxFileVersion,            \* bound on the versions of the input file
  MaxTime,                   \* bound on the clock, in milliseconds
  Missing                    \* there is no such application or file

ASSUME LiveAssumption ==
  /\ UrlSession \cap FileSession = {}
  /\ MaxVersion \in Nat \ {0} /\ MaxFileVersion \in Nat \ {0} /\ MaxTime \in Nat
  /\ Missing \notin [version : 1..MaxVersion, stamp : 0..MaxTime] \cup 1..MaxVersion
  /\ Missing \notin [stamp : 0..MaxTime, saves : BOOLEAN]

Session == UrlSession \cup FileSession

VARIABLES
  app,       \* the application on the server: its version and modifiedAt
  update,    \* update[w]: what w is about to write, with its modifiedAt
  clock,     \* the server's clock
  file,      \* the input file: the version last written, and how it looks now
  cli,       \* cli[s]: where session s is
  download,  \* download[s]: the version the temporary input file of s holds
  ran,       \* ran[s]: the last version a generation of s has started from
  base,      \* base[s]: the contents whose checksum WaitForFileChange keeps
  since,     \* since[s]: originalTime of the request of s
  poller     \* poller[s]: the server's interval for the request of s

vars == <<app, update, clock, file, cli, download, ran, base, since, poller>>
appVars == <<app, update>>
cliVars == <<cli, download, ran, base, since, poller>>

(* While an editor saves, the file is truncated or gone for a moment. *)
Whole(v) == [version |-> v, look |-> "whole"]

-----------------------------------------------------------------------------
(* The user. *)

Tick == clock < MaxTime /\ clock' = clock + 1 /\ UNCHANGED <<appVars, file, cliVars>>

Update == [stamp : 0..MaxTime, saves : BOOLEAN]

(* Applications.before.update sets modifiedAt, for a save of the editor and  *)
(* for the new counter of a star or fork ...                                 *)
StampUpdate(w) ==
  /\ update[w] = Missing /\ app # Missing
  /\ \E saves \in BOOLEAN :
       update' = [update EXCEPT ![w] = [stamp |-> clock, saves |-> saves]]
  /\ UNCHANGED <<app, clock, file, cliVars>>

(* ... and what it is set to is written later: other updates may come first, *)
(* and the application may be gone.                                          *)
SaveApp(w) ==
  /\ update[w] # Missing /\ update[w].saves
  /\ app # Missing => app.version < MaxVersion
  /\ app' = IF app = Missing THEN Missing
            ELSE [version |-> app.version + 1, stamp |-> update[w].stamp]
  /\ update' = [update EXCEPT ![w] = Missing]
  /\ UNCHANGED <<clock, file, cliVars>>

(* A star or fork leaves the data as it is. *)
StarApp(w) ==
  /\ update[w] # Missing /\ ~update[w].saves
  /\ app' = IF app = Missing THEN Missing ELSE [app EXCEPT !.stamp = update[w].stamp]
  /\ update' = [update EXCEPT ![w] = Missing]
  /\ UNCHANGED <<clock, file, cliVars>>

RemoveApp ==
  /\ app # Missing /\ app' = Missing
  /\ UNCHANGED <<update, clock, file, cliVars>>

BeginFileSave ==
  /\ file.look = "whole" /\ file.version < MaxFileVersion
  /\ \E look \in {"partial", "missing"} :
       file' = [version |-> file.version + 1, look |-> look]
  /\ UNCHANGED <<appVars, clock, cliVars>>

EndFileSave ==
  /\ file.look # "whole" /\ file' = Whole(file.version)
  /\ UNCHANGED <<appVars, clock, cliVars>>

(* The user interrupts the session, curl fails, or a step of git does. *)
Stop(s) ==
  /\ cli[s] # "stopped" /\ cli' = [cli EXCEPT ![s] = "stopped"]
  /\ UNCHANGED <<appVars, clock, file, download, ran, base, since, poller>>

-----------------------------------------------------------------------------
(* A session on a URL.  "Not found." is no JSON: a generation from it fails, *)
(* and as the result of a wait it only makes main() ask again.               *)

UrlGenerate(s) ==
  /\ cli[s] = "generate"
  /\ ran' = IF download[s] = Missing THEN ran ELSE [ran EXCEPT ![s] = download[s]]
  /\ cli' = [cli EXCEPT ![s] = "request"]
  /\ UNCHANGED <<appVars, clock, file, download, base, since, poller>>

(* Mutant of Request: originalTime is the time of the next millisecond. *)
RequestFromNow(s) ==
  /\ cli[s] = "request" /\ app # Missing
  /\ since' = [since EXCEPT ![s] = clock + 1]
  /\ poller' = [poller EXCEPT ![s] = "polling"]
  /\ cli' = [cli EXCEPT ![s] = "waiting"]
  /\ UNCHANGED <<appVars, clock, file, download, ran, base>>

Request(s) ==
  /\ cli[s] = "request" /\ app # Missing
  /\ since' = [since EXCEPT ![s] = app.stamp]
  /\ poller' = [poller EXCEPT ![s] = "polling"]
  /\ cli' = [cli EXCEPT ![s] = "waiting"]
  /\ UNCHANGED <<appVars, clock, file, download, ran, base>>

RequestNotFound(s) ==
  /\ cli[s] = "request" /\ app = Missing
  /\ download' = [download EXCEPT ![s] = Missing]
  /\ UNCHANGED <<appVars, clock, file, cli, ran, base, since, poller>>


(* The interval finds a later modifiedAt. *)
Poll(s) ==
  /\ poller[s] = "polling" /\ app # Missing
  /\ app.stamp > since[s]
  /\ poller' = [poller EXCEPT ![s] = "answering"]
  /\ UNCHANGED <<appVars, clock, file, cli, download, ran, base, since>>

(* Of a removed application findOne returns undefined: the exception leaves *)
(* intervalPaused set, and every later call of the interval returns at once. *)
PollRemoved(s) ==
  /\ poller[s] = "polling" /\ app = Missing
  /\ poller' = [poller EXCEPT ![s] = "dead"]
  /\ UNCHANGED <<appVars, clock, file, cli, download, ran, base, since>>

(* Mutant of Answer: the answer is lost. *)
AnswerLost(s) ==
  /\ poller[s] = "answering"
  /\ poller' = [poller EXCEPT ![s] = "off"]
  /\ UNCHANGED <<appVars, clock, file, cli, download, ran, base, since>>

(* The interval then reads the application again, and answers with what it finds now. *)
Answer(s) ==
  /\ poller[s] = "answering"
  /\ poller' = [poller EXCEPT ![s] = "off"]
  /\ IF cli[s] = "waiting"
     THEN /\ download' = [download EXCEPT ![s] = IF app = Missing THEN Missing ELSE app.version]
          /\ cli' = [cli EXCEPT ![s] = IF app = Missing THEN "request" ELSE "generate"]
     ELSE UNCHANGED <<cli, download>>
  /\ UNCHANGED <<appVars, clock, file, ran, base, since>>

-----------------------------------------------------------------------------
(* A session on a file. *)

FileGenerate(s) ==
  /\ cli[s] = "generate"
  /\ ran' = IF file.look = "whole" THEN [ran EXCEPT ![s] = file.version] ELSE ran
  /\ cli' = [cli EXCEPT ![s] = "baseline"]
  /\ UNCHANGED <<appVars, clock, file, download, base, since, poller>>

(* The first FileSHA1 of WaitForFileChange; a file that cannot be opened     *)
(* ends the session.                                                         *)
Baseline(s) ==
  /\ cli[s] = "baseline"
  /\ IF file.look = "missing"
     THEN cli' = [cli EXCEPT ![s] = "stopped"] /\ UNCHANGED base
     ELSE cli' = [cli EXCEPT ![s] = "watch"] /\ base' = [base EXCEPT ![s] = file]
  /\ UNCHANGED <<appVars, clock, file, download, ran, since, poller>>

(* Mutant of Watch: the file is compared with what it is now. *)
WatchItself(s) ==
  /\ cli[s] = "watch" /\ file.look = "missing"
  /\ cli' = [cli EXCEPT ![s] = "stopped"]
  /\ UNCHANGED <<appVars, clock, file, download, ran, base, since, poller>>

Watch(s) ==
  /\ cli[s] = "watch" /\ file # base[s]
  /\ cli' = [cli EXCEPT ![s] = IF file.look = "missing" THEN "stopped" ELSE "generate"]
  /\ UNCHANGED <<appVars, clock, file, download, ran, base, since, poller>>

-----------------------------------------------------------------------------

(* Each session has downloaded or found its input, and is about to generate. *)
Init ==
  /\ app = [version |-> 1, stamp |-> 0] /\ clock = 0
  /\ update = [w \in Writer |-> Missing]
  /\ file = Whole(1)
  /\ cli = [s \in Session |-> "generate"]
  /\ download = [s \in UrlSession |-> 1]
  /\ ran = [s \in Session |-> 0]
  /\ base = [s \in FileSession |-> file]
  /\ since = [s \in UrlSession |-> 0]
  /\ poller = [s \in UrlSession |-> "off"]

UrlStep(s) == UrlGenerate(s) \/ Request(s) \/ RequestNotFound(s)
ServerStep(s) == Poll(s) \/ PollRemoved(s) \/ Answer(s)
FileStep(s) == FileGenerate(s) \/ Baseline(s) \/ Watch(s)

Next ==
  \/ Tick \/ RemoveApp \/ BeginFileSave \/ EndFileSave
  \/ \E w \in Writer : StampUpdate(w) \/ SaveApp(w) \/ StarApp(w)
  \/ \E s \in Session : Stop(s)
  \/ \E s \in UrlSession : UrlStep(s) \/ ServerStep(s)
  \/ \E s \in FileSession : FileStep(s)

(* Programs and intervals that can take a step do, and a save comes to its  *)
(* end; nobody need save, star or stop anything.                            *)
Fairness ==
  /\ \A s \in UrlSession : WF_vars(UrlStep(s)) /\ WF_vars(ServerStep(s))
  /\ \A s \in FileSession : WF_vars(FileStep(s))
  /\ WF_vars(EndFileSave)

Spec == Init /\ [][Next]_vars /\ Fairness

-----------------------------------------------------------------------------
(* Properties. *)

TypeOK ==
  /\ app \in [version : 1..MaxVersion, stamp : 0..MaxTime] \cup {Missing}
  /\ update \in [Writer -> Update \cup {Missing}]
  /\ clock \in 0..MaxTime
  /\ file \in [version : 1..MaxFileVersion, look : {"whole", "partial", "missing"}]
  /\ cli \in [Session -> {"generate", "request", "waiting", "baseline", "watch", "stopped"}]
  /\ download \in [UrlSession -> 1..MaxVersion \cup {Missing}]
  /\ ran \in [Session -> 0..MaxVersion \cup 1..MaxFileVersion]
  /\ base \in [FileSession -> [version : 1..MaxFileVersion, look : {"whole", "partial", "missing"}]]
  /\ since \in [UrlSession -> 0..MaxTime]
  /\ poller \in [UrlSession -> {"off", "polling", "answering", "dead"}]

(* A session that waits for the server has someone to wait for, unless the  *)
(* application was removed: no answer is lost between the interval's two    *)
(* reads, and no interval stops while its client waits.                     *)
WaitersAreServed ==
  \A s \in UrlSession :
    cli[s] = "waiting" => poller[s] \in {"polling", "answering"} \/ app = Missing

(* An update with a modifiedAt no later than the one the request of s found *)
(* has taken the place of a later one: its hook ran before, its write after. *)
SetBack(s) == app # Missing /\ app.stamp <= since[s]


(* A save that is complete and differs from the contents the session        *)
(* compares with is generated from, if no other save follows it: even when  *)
(* the watch was woken by the save while the file was partly written.       *)
SaveReachesWatchingFile ==
  \A s \in FileSession, v \in 1..MaxFileVersion :
    [](cli[s] = "watch" /\ base[s] # file /\ [](file = Whole(v))
         => <>(ran[s] = v \/ cli[s] = "stopped"))

(* "Live mode (auto rerun when input file is modified)": each version of    *)
(* the input file is generated from, or a later one.                        *)
RerunWhenModified ==
  \A s \in FileSession, v \in 1..MaxFileVersion :
    file = Whole(v) ~> ran[s] >= v \/ cli[s] = "stopped"

=============================================================================
