------------------------------- MODULE Daemon -------------------------------
(***************************************************************************)
(* Starting, finding, replacing and stopping the daemon of one harness     *)
(* home: daemon processes (src/daemon/lifecycle.ts over the opening of     *)
(* State and of the Gateway), commands that need one (ensureDaemon in      *)
(* src/cli/ensure-daemon.ts), and launchd where it manages the home        *)
(* (src/daemon/ensure.ts). They share the discovery record, the loopback   *)
(* port, the agent socket, the schema and the run table.                   *)
(*                                                                         *)
(* A daemon's name stands for everything that identifies it: pid, start    *)
(* time, fingerprint, token and the inode of its socket.                   *)
(***************************************************************************)
EXTENDS Integers

CONSTANTS
  Daemons,     \* daemon processes; each runs once
  Clis,        \* commands that need the Gateway; each runs once
  None,
  Migrations,  \* how many migrations this build knows
  InodeReused, \* a new socket may get the inode number of a removed one
  MaxManual,   \* bound: foreground daemons the owner starts
  MaxFaults,   \* bound: crashes, hangs, failing launchctl calls, records removed by hand
  MaxStops,    \* bound: signals and edits of the checkout
  MaxEdits     \* bound: changes of the checkout

ASSUME DaemonAssumption ==
  /\ None \notin Daemons \cup Clis
  /\ Daemons \cap Clis = {}
  /\ Migrations \in Nat /\ InodeReused \in BOOLEAN
  /\ MaxManual \in Nat /\ MaxFaults \in Nat /\ MaxStops \in Nat /\ MaxEdits \in Nat

VARIABLES
  rec,      \* paths.daemonInfo: the daemon it names, or None
  port,     \* who listens on the loopback port
  sock,     \* whose socket is at paths.agentSocket
  schema,   \* applied migrations in the database
  runs,     \* per daemon, the row of a run its scheduler started
  marker,   \* the onboarding marker is complete
  code,     \* content of the checkout
  pc,       \* per daemon, where it is in startDaemon, serving, or close
  saw,      \* per daemon, the record it last read
  version,  \* per daemon, applied: the migrations it has read or applied
  print,    \* per daemon, fingerprint
  bound,    \* per daemon, whether it listens on the agent socket
  started,  \* per daemon, schedulerStarted
  hung,     \* daemons that run but answer nothing
  managed,  \* the LaunchAgent names this home
  job,      \* launchd's job: not loaded (None), or the process it last ran
  cpc,      \* per command, where it is in ensureDaemon
  probe,    \* per command, which probe it is at: first, confirm, or poll
  info,     \* per command, the record it read
  refused,  \* per command, whether its probe was refused
  held,     \* commands during which one recorded daemon has held the port all along
  answering,\* daemons during whose start a recorded daemon has answered all along
  manual, faults, stops

shared == <<rec, port, sock, schema, runs, marker, code>>
daemonVars == <<pc, saw, version, print, bound, started, hung>>
launchd == <<managed, job>>
cliVars == <<cpc, probe, info, refused>>
bounds == <<manual, faults, stops>>
vars == <<shared, daemonVars, launchd, cliVars, held, answering, bounds>>

Starting == {"probe", "ask", "open", "migrate", "listen", "look", "publish"}
Closing == {"stopping", "closing", "remove", "reread", "unlink"}
Alive(d) == pc[d] \in Starting \cup Closing \cup {"serving"}

At(d, place) == pc[d] = place /\ d \notin hung
Goto(d, place) == pc' = [pc EXCEPT ![d] = place]
CGoto(c, place) == cpc' = [cpc EXCEPT ![c] = place]

\* A request to the recorded daemon succeeds: another one would refuse its token.
Answers(d) == port = d /\ d \notin hung

Launch(d) == pc[d] = "unborn" /\ Goto(d, "probe")
NoneLeft == \A d \in Daemons : pc[d] # "unborn"

-----------------------------------------------------------------------------
(* A daemon starts.                                                        *)

\* liveDaemon reads the record ...
ReadRecord(d) ==
  /\ At(d, "probe")
  /\ saw' = [saw EXCEPT ![d] = rec]
  /\ Goto(d, IF rec = None THEN "open" ELSE "ask")
  /\ print' = [print EXCEPT ![d] = code]
  /\ UNCHANGED <<shared, version, bound, started, hung, launchd, cliVars, bounds>>

LiveDaemon(d) == Answers(saw[d])

\* ... and asks the daemon it names for its health.
AskRecorded(d) ==
  /\ At(d, "ask")
  /\ Goto(d, IF LiveDaemon(d) THEN "dead" ELSE "open")
  /\ saw' = [saw EXCEPT ![d] = None]
  /\ print' = [print EXCEPT ![d] = code]
  /\ UNCHANGED <<shared, version, bound, started, hung, launchd, cliVars, bounds>>

\* The constructor reads the applied versions outside any transaction.
OpenState(d) ==
  /\ At(d, "open")
  /\ version' = [version EXCEPT ![d] = schema]
  /\ Goto(d, IF schema > Migrations THEN "dead" ELSE "migrate")
  /\ UNCHANGED <<shared, saw, print, bound, started, hung, launchd, cliVars, bounds>>

\* A migration that somebody else has applied meanwhile ends the loop.
SlipMigrate(d) ==
  /\ At(d, "migrate") /\ version[d] < Migrations
  /\ IF schema = version[d]
     THEN schema' = schema + 1 /\ version' = [version EXCEPT ![d] = schema + 1]
     ELSE version' = [version EXCEPT ![d] = Migrations] /\ UNCHANGED schema
  /\ UNCHANGED <<rec, port, sock, runs, marker, code, pc, saw, print, bound, started, hung,
                 launchd, cliVars, bounds>>

\* One migration and its row commit together, so one that is applied already fails.
Migrate(d) ==
  /\ At(d, "migrate") /\ version[d] < Migrations
  /\ IF schema = version[d]
     THEN /\ schema' = schema + 1
          /\ version' = [version EXCEPT ![d] = schema + 1]
          /\ UNCHANGED pc
     ELSE Goto(d, "dead") /\ UNCHANGED <<schema, version>>
  /\ UNCHANGED <<rec, port, sock, runs, marker, code, saw, print, bound, started, hung,
                 launchd, cliVars, bounds>>

\* interruptRunningRuns: every running row, whoever's it is.
Recover(d) ==
  /\ At(d, "migrate") /\ version[d] = Migrations
  /\ runs' = [x \in Daemons |-> IF runs[x] = "running" THEN "interrupted" ELSE runs[x]]
  /\ Goto(d, "listen")
  /\ UNCHANGED <<rec, port, sock, schema, marker, code, saw, version, print, bound, started,
                 hung, launchd, cliVars, bounds>>

\* The cleanup of a failed start removes whatever record is there.
SlipListen(d) ==
  /\ At(d, "listen")
  /\ IF port = None
     THEN port' = d /\ Goto(d, "look") /\ UNCHANGED rec
     ELSE Goto(d, "dead") /\ rec' = None /\ UNCHANGED port
  /\ UNCHANGED <<sock, schema, runs, marker, code, saw, version, print, bound, started,
                 hung, launchd, cliVars, bounds>>

\* A port that is taken ends the start; the cleanup removes nothing, as this daemon has
\* not published a record.
Listen(d) ==
  /\ At(d, "listen")
  /\ IF port = None
     THEN port' = d /\ Goto(d, "look")
     ELSE Goto(d, "dead") /\ UNCHANGED port
  /\ UNCHANGED <<rec, sock, schema, runs, marker, code, saw, version, print, bound, started,
                 hung, launchd, cliVars, bounds>>

\* A socket somebody answers on, or accepts on and hangs, is left alone.
Listening(x) == x # None /\ bound[x]

ListenOnSocket(d) ==
  /\ At(d, "look")
  /\ IF Listening(sock) THEN UNCHANGED <<sock, bound>>
     ELSE sock' = d /\ bound' = [bound EXCEPT ![d] = TRUE]
  /\ Goto(d, "publish")
  /\ UNCHANGED <<rec, port, schema, runs, marker, code, saw, version, print, started, hung,
                 launchd, cliVars, bounds>>

StartSchedulerWhenAllowed(d) == started' = [started EXCEPT ![d] = @ \/ marker]

\* The record is written beside its path and renamed onto it.
Publish(d) ==
  /\ At(d, "publish")
  /\ rec' = d
  /\ StartSchedulerWhenAllowed(d)
  /\ Goto(d, "serving")
  /\ UNCHANGED <<port, sock, schema, runs, marker, code, saw, version, print, bound, hung,
                 launchd, cliVars, bounds>>

-----------------------------------------------------------------------------
(* It serves, and closes.                                                  *)

Fault == faults < MaxFaults /\ faults' = faults + 1

\* Publishing fails, before the rename or in the start of the scheduler after it: the
\* listeners close, and the record goes if this daemon wrote it.
PublishFails(d) ==
  /\ At(d, "publish") /\ Fault
  /\ rec' \in {rec, d}
  /\ Goto(d, "closing")
  /\ UNCHANGED <<port, sock, schema, runs, marker, code, saw, version, print, bound, started,
                 hung, launchd, cliVars, manual, stops>>

\* The fingerprint timer: a daemon whose checkout changed sends itself SIGTERM.
Tick(d) ==
  /\ At(d, "serving")
  /\ (marker /\ ~started[d]) \/ code # print[d]
  /\ StartSchedulerWhenAllowed(d)
  /\ Goto(d, IF code # print[d] THEN "stopping" ELSE "serving")
  /\ UNCHANGED <<shared, saw, version, print, bound, hung, launchd, cliVars, bounds>>

RunStarts(d) ==
  /\ At(d, "serving") /\ started[d] /\ runs[d] = "none"
  /\ runs' = [runs EXCEPT ![d] = "running"]
  /\ UNCHANGED <<rec, port, sock, schema, marker, code, daemonVars, launchd, cliVars, bounds>>

\* A row another daemon has interrupted stays so.
RunEnds(d) ==
  /\ At(d, "serving") \/ At(d, "stopping")
  /\ runs[d] = "running"
  /\ runs' = [runs EXCEPT ![d] = "done"]
  /\ UNCHANGED <<rec, port, sock, schema, marker, code, daemonVars, launchd, cliVars, bounds>>

Signal(d) ==
  /\ At(d, "serving") /\ stops < MaxStops
  /\ stops' = stops + 1
  /\ Goto(d, "stopping")
  /\ UNCHANGED <<shared, saw, version, print, bound, started, hung, launchd, cliVars, manual,
                 faults>>

\* chats.stop and scheduler.stop, which drains: the run ends before it returns, and the
\* Gateway goes on answering meanwhile.
StopWork(d) ==
  /\ At(d, "stopping") /\ runs[d] # "running"
  /\ started' = [started EXCEPT ![d] = FALSE]
  /\ Goto(d, "closing")
  /\ UNCHANGED <<shared, saw, version, print, bound, hung, launchd, cliVars, bounds>>

\* The agent socket's listener is left open.
SlipCloseListeners(d) ==
  /\ At(d, "closing")
  /\ port' = None
  /\ saw' = [saw EXCEPT ![d] = d]
  /\ Goto(d, "remove")
  /\ UNCHANGED <<rec, sock, schema, runs, marker, code, version, print, bound, started, hung,
                 launchd, cliVars, bounds>>

\* Both listeners stop; closing a pipe's server removes its path.
CloseListeners(d) ==
  /\ At(d, "closing")
  /\ port' = None
  /\ sock' = IF bound[d] THEN None ELSE sock
  /\ bound' = [bound EXCEPT ![d] = FALSE]
  /\ saw' = [saw EXCEPT ![d] = IF bound[d] THEN d ELSE None]
  /\ Goto(d, "remove")
  /\ UNCHANGED <<rec, schema, runs, marker, code, version, print, started, hung, launchd,
                 cliVars, bounds>>

\* The socket is removed without comparing inodes.
SlipStillOurs(d) == saw[d] = d /\ sock # None

StillOurs(d) == saw[d] = d /\ sock # None /\ (sock = d \/ InodeReused)

\* Once the last connection has ended: agent.remove, then state.close.
RemoveSocket(d) ==
  /\ At(d, "remove")
  /\ sock' = IF StillOurs(d) THEN None ELSE sock
  /\ Goto(d, "reread")
  /\ UNCHANGED <<rec, port, schema, runs, marker, code, saw, version, print, bound, started,
                 hung, launchd, cliVars, bounds>>

\* The record is removed whoever it names.
SlipOwnRecord(d) == TRUE

OwnRecord(d) == saw[d] = d

\* removeOwnDiscovery reads the record and then removes it by its path.
RereadRecord(d) ==
  /\ At(d, "reread")
  /\ saw' = [saw EXCEPT ![d] = rec]
  /\ Goto(d, "unlink")
  /\ UNCHANGED <<shared, version, print, bound, started, hung, launchd, cliVars, bounds>>

RemoveOwnDiscovery(d) ==
  /\ At(d, "unlink")
  /\ rec' = IF OwnRecord(d) THEN None ELSE rec
  /\ Goto(d, "dead")
  /\ saw' = [saw EXCEPT ![d] = None]
  /\ UNCHANGED <<port, sock, schema, runs, marker, code, version, print, bound, started,
                 hung, launchd, cliVars, bounds>>

-----------------------------------------------------------------------------
(* What happens to processes and files from outside.                       *)

\* A port and a socket's listener go with the process, the socket's path stays.
Crash(d) ==
  /\ Alive(d) /\ Fault
  /\ Goto(d, "dead")
  /\ port' = IF port = d THEN None ELSE port
  /\ bound' = [bound EXCEPT ![d] = FALSE]
  /\ hung' = hung \ {d}
  /\ UNCHANGED <<rec, sock, schema, runs, marker, code, saw, version, print, started, launchd,
                 cliVars, manual, stops>>

Hang(d) ==
  /\ pc[d] = "serving" /\ d \notin hung /\ Fault
  /\ hung' = hung \cup {d}
  /\ UNCHANGED <<shared, pc, saw, version, print, bound, started, launchd, cliVars, manual,
                 stops>>

Wake(d) ==
  /\ d \in hung /\ hung' = hung \ {d}
  /\ UNCHANGED <<shared, pc, saw, version, print, bound, started, launchd, cliVars, bounds>>

StartByHand(d) ==
  /\ manual < MaxManual /\ manual' = manual + 1
  /\ Launch(d)
  /\ UNCHANGED <<shared, saw, version, print, bound, started, hung, launchd, cliVars, faults,
                 stops>>

RecordRemoved ==
  /\ rec # None /\ Fault /\ rec' = None
  /\ UNCHANGED <<port, sock, schema, runs, marker, code, daemonVars, launchd, cliVars,
                 manual, stops>>

EditCheckout ==
  /\ code < MaxEdits /\ stops < MaxStops
  /\ code' = code + 1 /\ stops' = stops + 1
  /\ UNCHANGED <<rec, port, sock, schema, runs, marker, daemonVars, launchd, cliVars, manual,
                 faults>>

\* Onboarding ends (Onboarding is a module of its own).
FinishSetup ==
  /\ ~marker /\ marker' = TRUE
  /\ UNCHANGED <<rec, port, sock, schema, runs, code, daemonVars, launchd, cliVars, bounds>>

\* launchctl kickstart: a job that already runs is left alone.
Kickstart ==
  IF (job \in Daemons /\ Alive(job)) \/ NoneLeft
  THEN UNCHANGED <<pc, job>>
  ELSE \E d \in Daemons : Launch(d) /\ job' = d

\* KeepAlive.
Restart ==
  /\ job \in Daemons /\ ~Alive(job) /\ ~NoneLeft
  /\ Kickstart
  /\ UNCHANGED <<shared, saw, version, print, bound, started, hung, managed, cliVars, bounds>>

-----------------------------------------------------------------------------
(* A command ensures that there is a daemon.                               *)

CliOnly == UNCHANGED <<shared, daemonVars, launchd, bounds>>

Begin(c) ==
  /\ cpc[c] = "idle" /\ CGoto(c, "read")
  /\ CliOnly /\ UNCHANGED <<probe, info, refused>>

\* readDaemonInfo.
Read(c) ==
  /\ cpc[c] = "read"
  /\ info' = [info EXCEPT ![c] = rec]
  /\ CGoto(c, IF rec # None THEN "ask" ELSE IF probe[c] = "poll" THEN "wait" ELSE "start")
  /\ CliOnly /\ UNCHANGED <<probe, refused>>

\* probeGateway: /health and then /ready, which starts a scheduler that is now allowed.
Reached(c) ==
  /\ cpc[c] = "ask" /\ Answers(info[c])
  /\ IF probe[c] = "first"
     THEN CGoto(c, "read") /\ probe' = [probe EXCEPT ![c] = "confirm"]
     ELSE CGoto(c, "done") /\ UNCHANGED probe
  /\ info' = [info EXCEPT ![c] = None]
  /\ IF pc[info[c]] = "serving"
     THEN StartSchedulerWhenAllowed(info[c]) ELSE UNCHANGED started
  /\ UNCHANGED <<shared, pc, saw, version, print, bound, hung, launchd, refused, bounds>>

Unreached(c) ==
  /\ cpc[c] = "ask" /\ ~Answers(info[c])
  /\ IF probe[c] = "poll"
     THEN CGoto(c, "wait") /\ UNCHANGED refused
     ELSE CGoto(c, "classify") /\ refused' = [refused EXCEPT ![c] = port = None]
  /\ CliOnly /\ UNCHANGED <<probe, info>>

\* A daemon that does not answer counts as gone.
SlipDiscoveryIsStale(exists, wasRefused) == TRUE

DiscoveryIsStale(exists, wasRefused) == ~exists \/ wasRefused

\* discoveryIsStale: the pid of a dead daemon may be another process's by now.
Classify(c) ==
  /\ cpc[c] = "classify"
  /\ \E exists \in {TRUE, Alive(info[c])} :
       CGoto(c, IF DiscoveryIsStale(exists, refused[c]) THEN "start" ELSE "tryPort")
  /\ info' = [info EXCEPT ![c] = None] /\ refused' = [refused EXCEPT ![c] = FALSE]
  /\ CliOnly /\ UNCHANGED probe

\* loopbackPortIsFree listens on the port for a moment.
TryPort(c) ==
  /\ cpc[c] = "tryPort"
  /\ IF port = None THEN port' = c /\ CGoto(c, "free")
                    ELSE CGoto(c, "failed") /\ UNCHANGED port
  /\ UNCHANGED <<rec, sock, schema, runs, marker, code, daemonVars, launchd, probe, info,
                 refused, bounds>>

FreePort(c) ==
  /\ cpc[c] = "free"
  /\ port' = None /\ CGoto(c, "start")
  /\ UNCHANGED <<rec, sock, schema, runs, marker, code, daemonVars, launchd, probe, info,
                 refused, bounds>>

\* Without the LaunchAgent a detached daemon; one beyond the bound never comes up.
Start(c) ==
  /\ cpc[c] = "start"
  /\ probe' = [probe EXCEPT ![c] = "poll"]
  /\ IF managed THEN CGoto(c, "kick") /\ UNCHANGED pc
     ELSE /\ CGoto(c, "read")
          /\ IF NoneLeft THEN UNCHANGED pc ELSE \E d \in Daemons : Launch(d)
  /\ UNCHANGED <<shared, saw, version, print, bound, started, hung, launchd, info,
                 refused, bounds>>

\* startDaemonService; a job that is not loaded is bootstrapped first.
Kick(c) ==
  /\ cpc[c] = "kick"
  /\ IF job = None THEN CGoto(c, "boot") /\ UNCHANGED <<pc, job>>
                   ELSE CGoto(c, "read") /\ Kickstart
  /\ UNCHANGED <<shared, saw, version, print, bound, started, hung, managed, probe, info,
                 refused, bounds>>

\* A bootstrap that finds the job loaded by another command is accepted.
Bootstrap(c) ==
  /\ cpc[c] = "boot"
  /\ CGoto(c, "read") /\ Kickstart
  /\ UNCHANGED <<shared, saw, version, print, bound, started, hung, managed, probe, info,
                 refused, bounds>>

LaunchctlFails(c) ==
  /\ cpc[c] \in {"kick", "boot"} /\ Fault
  /\ CGoto(c, "failed")
  /\ UNCHANGED <<shared, daemonVars, launchd, probe, info, refused, manual, stops>>

Again(c) ==
  /\ cpc[c] = "wait" /\ CGoto(c, "read")
  /\ CliOnly /\ UNCHANGED <<probe, info, refused>>

\* The command polls without an end.
SlipDeadline(c) == FALSE /\ UNCHANGED vars

\* READY_DEADLINE_MS has passed when a probe ends.
Deadline(c) ==
  /\ cpc[c] = "wait" /\ CGoto(c, "failed")
  /\ CliOnly /\ UNCHANGED <<probe, info, refused>>

-----------------------------------------------------------------------------
Init ==
  /\ rec = None /\ port = None /\ sock = None
  /\ schema \in {0, Migrations, Migrations + 1}
  /\ runs = [d \in Daemons |-> "none"]
  /\ marker \in BOOLEAN /\ code = 0
  /\ pc = [d \in Daemons |-> "unborn"]
  /\ saw = [d \in Daemons |-> None]
  /\ version = [d \in Daemons |-> 0]
  /\ print = [d \in Daemons |-> 0]
  /\ bound = [d \in Daemons |-> FALSE]
  /\ started = [d \in Daemons |-> FALSE]
  /\ hung = {}
  /\ managed \in BOOLEAN /\ job = None
  /\ cpc = [c \in Clis |-> "idle"]
  /\ probe = [c \in Clis |-> "first"]
  /\ info = [c \in Clis |-> None]
  /\ refused = [c \in Clis |-> FALSE]
  /\ held = {} /\ answering = {}
  /\ manual = 0 /\ faults = 0 /\ stops = 0

DaemonSteps(d) ==
  \/ ReadRecord(d) \/ AskRecorded(d) \/ OpenState(d) \/ Migrate(d) \/ Recover(d)
  \/ Listen(d) \/ ListenOnSocket(d) \/ Publish(d)
  \/ Tick(d) \/ RunEnds(d) \/ StopWork(d) \/ CloseListeners(d) \/ RemoveSocket(d)
  \/ RereadRecord(d) \/ RemoveOwnDiscovery(d)

CliSteps(c) ==
  \/ Read(c) \/ Reached(c) \/ Unreached(c) \/ Classify(c) \/ TryPort(c) \/ FreePort(c)
  \/ Start(c) \/ Kick(c) \/ Bootstrap(c) \/ Again(c)

Act ==
  \/ \E d \in Daemons : \/ DaemonSteps(d) \/ RunStarts(d) \/ Signal(d) \/ Crash(d)
                        \/ Hang(d) \/ Wake(d) \/ StartByHand(d) \/ PublishFails(d)
  \/ RecordRemoved \/ EditCheckout \/ FinishSetup \/ Restart
  \/ \E c \in Clis : Begin(c) \/ CliSteps(c) \/ LaunchctlFails(c) \/ Deadline(c)

\* The recorded daemon holds the port; it also answers.
Holding(r, p) == r \in Daemons /\ p = r

\* No variables of the code: which commands and starting daemons have had a recorded
\* daemon before them at every moment since they began.
Watch ==
  /\ held' = IF Holding(rec', port')
             THEN held \cup {c \in Clis : cpc[c] = "idle" /\ cpc'[c] # "idle"} ELSE {}
  /\ answering' = IF Holding(rec', port') /\ rec' \notin hung'
                  THEN answering \cup {d \in Daemons : pc[d] = "unborn" /\ pc'[d] = "probe"}
                  ELSE {}

Next == Act /\ Watch

Spec == Init /\ [][Next]_vars

\* Processes run, a deadline passes, and a poll does not put it off.
FairSpec ==
  /\ Spec
  /\ \A d \in Daemons : WF_vars(DaemonSteps(d) /\ Watch)
  /\ \A c \in Clis : WF_vars(CliSteps(c) /\ Watch) /\ SF_vars(Deadline(c) /\ Watch)

-----------------------------------------------------------------------------
TypeOK ==
  /\ rec \in Daemons \cup {None}
  /\ port \in Daemons \cup Clis \cup {None}
  /\ sock \in Daemons \cup {None}
  /\ schema \in 0 .. Migrations + 1
  /\ runs \in [Daemons -> {"none", "running", "done", "interrupted"}]
  /\ marker \in BOOLEAN /\ code \in 0 .. MaxEdits
  /\ pc \in [Daemons -> Starting \cup Closing \cup {"unborn", "serving", "dead"}]
  /\ saw \in [Daemons -> Daemons \cup {None}]
  /\ version \in [Daemons -> 0 .. Migrations + 1]
  /\ print \in [Daemons -> 0 .. MaxEdits]
  /\ bound \in [Daemons -> BOOLEAN] /\ \A d \in Daemons : bound[d] => port = d
  /\ started \in [Daemons -> BOOLEAN]
  /\ hung \subseteq Daemons
  /\ managed \in BOOLEAN /\ job \in Daemons \cup {None}
  /\ cpc \in [Clis -> {"idle", "read", "ask", "classify", "tryPort", "free", "start", "kick",
                       "boot", "wait", "done", "failed"}]
  /\ probe \in [Clis -> {"first", "confirm", "poll"}]
  /\ info \in [Clis -> Daemons \cup {None}]
  /\ refused \in [Clis -> BOOLEAN]
  /\ held \subseteq Clis /\ answering \subseteq Daemons
  /\ manual \in 0 .. MaxManual /\ faults \in 0 .. MaxFaults /\ stops \in 0 .. MaxStops

\* While the recorded daemon holds its port, answering or hung, no command that began
\* meanwhile starts another; and while it answers, no daemon that began meanwhile opens the
\* database, where it would interrupt the running runs of the first.
RecordedDaemonIsKept ==
  /\ \A c \in held : cpc[c] \in {"read", "ask", "classify", "tryPort", "done", "failed"}
                     /\ probe[c] # "poll"
  /\ \A d \in answering : pc[d] \in {"probe", "ask", "dead"}

\* However many daemons start at once on an idle home, once nobody is starting exactly one
\* serves, and discovery names it: losing the port, a migration or the probe never takes
\* the winner down with the loser.
RaceLeavesOne ==
  /\ faults = 0 /\ stops = 0 /\ code = 0 /\ schema <= Migrations
  /\ \E d \in Daemons : pc[d] # "unborn"
  /\ \A d \in Daemons : pc[d] \notin Starting
  => \E d \in Daemons : /\ pc[d] = "serving" /\ rec = d /\ port = d /\ sock = d
                        /\ \A x \in Daemons \ {d} : pc[x] \in {"unborn", "dead"}

\* A clean exit leaves no record and no socket of its own behind, and none of another
\* daemon's is taken away: a serving daemon keeps the socket it listens on.
CleanupIsExact ==
  /\ (faults = 0 /\ \A d \in Daemons : pc[d] \in {"unborn", "dead"})
       => (rec = None /\ sock = None)
  /\ \A d \in Daemons : pc[d] = "serving" /\ bound[d] => sock = d

\* Whoever listens or serves does so over a database that knows every migration of this
\* build, however many daemons migrated it together and wherever one of them crashed.
ServesMigrated ==
  \A d \in Daemons : pc[d] \in {"listen", "look", "publish", "serving"} \cup Closing
                        => schema = Migrations

\* docs/architecture.md:121-122 says of daemon.json that "a replacement's record
\* survives": but for hands and crashes, the record of a serving daemon stays.
ReplacementRecordSurvives ==
  [][\A d \in Daemons :
       rec = d /\ pc[d] = "serving" /\ pc'[d] = "serving" /\ rec' # d
         => faults' = faults + 1]_vars

\* It is removed in no other way than the window removeOwnDiscovery leaves: another
\* daemon has read its own record and removes by path what has replaced it.
RecordLostOnlyInTheWindow ==
  [][\A d \in Daemons : rec = d /\ pc[d] = "serving" /\ pc'[d] = "serving" /\ rec' # d =>
       \/ faults' = faults + 1
       \/ \E x \in Daemons \ {d} : pc[x] = "unlink" /\ pc'[x] = "dead" /\ saw[x] = x]_vars

\* Every command comes to an end, with a daemon or with an error, whatever daemons do.
EnsureSettles == \A c \in Clis : cpc[c] # "idle" ~> cpc[c] \in {"done", "failed"}
=============================================================================
