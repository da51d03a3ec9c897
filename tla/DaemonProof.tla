---------------------------- MODULE DaemonProof ----------------------------
(***************************************************************************)
(* Theorems about Daemon, for any number of daemons and commands, and any  *)
(* bounds on what happens to them.                                         *)
(***************************************************************************)
EXTENDS Daemon, TLAPS

-----------------------------------------------------------------------------
(* The loopback port is the lock that everything else relies on.           *)

Holders == {"look", "publish", "serving", "stopping", "closing"}

\* Who has the port is exactly who has come to listen on it and not yet closed.
PortIsLock ==
  /\ \A d \in Daemons : pc[d] \in Holders <=> port = d
  /\ \A c \in Clis : cpc[c] = "free" <=> port = c

DaemonInvariant == TypeOK /\ PortIsLock

\* What Watch keeps are commands and daemons.
LEMMA WatchTypes ==
  ASSUME TypeOK, Watch
  PROVE  held' \subseteq Clis /\ answering' \subseteq Daemons
  BY DEF Watch, TypeOK

\* A step of a daemon on its way from the probe of the record to its exit.
LEMMA DaemonStepsKeep ==
  ASSUME DaemonInvariant, NEW d \in Daemons, DaemonSteps(d),
         held' \subseteq Clis, answering' \subseteq Daemons
  PROVE  DaemonInvariant'
<1> USE DaemonAssumption
    DEF DaemonInvariant, TypeOK, PortIsLock, Holders, Starting, Closing, At, shared, daemonVars,
        launchd, cliVars, bounds
<1>1. CASE ReadRecord(d)
  BY <1>1 DEF ReadRecord, Goto
<1>2. CASE AskRecorded(d)
  BY <1>2 DEF AskRecorded, Goto, LiveDaemon, Answers
<1>3. CASE OpenState(d)
  BY <1>3 DEF OpenState, Goto
<1>4. CASE Migrate(d)
  BY <1>4 DEF Migrate, Goto
<1>5. CASE Recover(d)
  BY <1>5 DEF Recover, Goto
<1>6. CASE Listen(d)
  BY <1>6 DEF Listen, Goto
<1>7. CASE ListenOnSocket(d)
  <2>1. pc[d] = "look" /\ port = d
    BY <1>7 DEF ListenOnSocket
  <2>2. CASE Listening(sock)
    BY <1>7, <2>1, <2>2 DEF ListenOnSocket, Goto
  <2>3. CASE ~Listening(sock)
    <3>1. sock' = d /\ bound' = [bound EXCEPT ![d] = TRUE]
      BY <1>7, <2>3 DEF ListenOnSocket
    <3>2. bound' \in [Daemons -> BOOLEAN] /\ \A x \in Daemons : bound'[x] => x = d \/ bound[x]
      BY <3>1 DEF TypeOK
    <3> QED
      BY <1>7, <2>1, <3>1, <3>2 DEF ListenOnSocket, Goto
  <2> QED
    BY <2>2, <2>3
<1>8. CASE Publish(d)
  BY <1>8 DEF Publish, Goto, StartSchedulerWhenAllowed
<1>9. CASE Tick(d)
  BY <1>9 DEF Tick, Goto, StartSchedulerWhenAllowed
<1>10. CASE RunEnds(d)
  BY <1>10 DEF RunEnds
<1>11. CASE StopWork(d)
  BY <1>11 DEF StopWork, Goto
<1>12. CASE CloseListeners(d)
  BY <1>12 DEF CloseListeners, Goto
<1>13. CASE RemoveSocket(d)
  BY <1>13 DEF RemoveSocket, Goto, StillOurs
<1>14. CASE RereadRecord(d)
  BY <1>14 DEF RereadRecord, Goto
<1>15. CASE RemoveOwnDiscovery(d)
  BY <1>15 DEF RemoveOwnDiscovery, Goto, OwnRecord
<1> QED
  BY <1>1, <1>2, <1>3, <1>4, <1>5, <1>6, <1>7, <1>8, <1>9, <1>10, <1>11, <1>12, <1>13, <1>14,
     <1>15 DEF DaemonSteps

\* A signal, a fault or the owner, and the runs of a daemon's scheduler.
LEMMA DaemonEventsKeep ==
  ASSUME DaemonInvariant, NEW d \in Daemons,
         \/ RunStarts(d) \/ Signal(d) \/ Crash(d) \/ Hang(d) \/ Wake(d) \/ StartByHand(d)
         \/ PublishFails(d),
         held' \subseteq Clis, answering' \subseteq Daemons
  PROVE  DaemonInvariant'
<1> USE DaemonAssumption
    DEF DaemonInvariant, TypeOK, PortIsLock, Holders, Starting, Closing, At, shared, daemonVars,
        launchd, cliVars, bounds
<1>1. CASE RunStarts(d)
  BY <1>1 DEF RunStarts
<1>2. CASE Signal(d)
  BY <1>2 DEF Signal, Goto
<1>3. CASE Crash(d)
  BY <1>3 DEF Crash, Goto, Fault, Alive
<1>4. CASE Hang(d)
  BY <1>4 DEF Hang, Fault
<1>5. CASE Wake(d)
  BY <1>5 DEF Wake
<1>6. CASE StartByHand(d)
  BY <1>6 DEF StartByHand, Launch, Goto
<1>7. CASE PublishFails(d)
  BY <1>7 DEF PublishFails, Goto, Fault
<1> QED
  BY <1>1, <1>2, <1>3, <1>4, <1>5, <1>6, <1>7

\* The files, the checkout, the setup and launchd's restarts.
LEMMA OutsideKeeps ==
  ASSUME DaemonInvariant, RecordRemoved \/ EditCheckout \/ FinishSetup \/ Restart,
         held' \subseteq Clis, answering' \subseteq Daemons
  PROVE  DaemonInvariant'
<1> USE DaemonAssumption
    DEF DaemonInvariant, TypeOK, PortIsLock, Holders, Starting, Closing, At, shared, daemonVars,
        launchd, cliVars, bounds
<1>1. CASE RecordRemoved
  BY <1>1 DEF RecordRemoved, Fault
<1>2. CASE EditCheckout
  BY <1>2 DEF EditCheckout
<1>3. CASE FinishSetup
  BY <1>3 DEF FinishSetup
<1>4. CASE Restart
  BY <1>4 DEF Restart, Kickstart, Launch, Goto, NoneLeft, Alive
<1> QED
  BY <1>1, <1>2, <1>3, <1>4

\* A step of a command.
LEMMA CliStepsKeep ==
  ASSUME DaemonInvariant, NEW c \in Clis,
         Begin(c) \/ CliSteps(c) \/ LaunchctlFails(c) \/ Deadline(c),
         held' \subseteq Clis, answering' \subseteq Daemons
  PROVE  DaemonInvariant'
<1> USE DaemonAssumption
    DEF DaemonInvariant, TypeOK, PortIsLock, Holders, Starting, Closing, At, shared, daemonVars,
        launchd, cliVars, bounds
<1>1. CASE Begin(c)
  BY <1>1 DEF Begin, CGoto, CliOnly
<1>2. CASE Read(c)
  BY <1>2 DEF Read, CGoto, CliOnly
<1>3. CASE Reached(c)
  BY <1>3 DEF Reached, CGoto, Answers, StartSchedulerWhenAllowed
<1>4. CASE Unreached(c)
  <2>1. refused' \in [Clis -> BOOLEAN]
    <3>1. CASE probe[c] = "poll"
      BY <1>4, <3>1 DEF Unreached, TypeOK
    <3>2. CASE probe[c] # "poll"
      <4>1. (port = None) \in BOOLEAN
        OBVIOUS
      <4>2. refused' = [refused EXCEPT ![c] = (port = None)]
        BY <1>4, <3>2 DEF Unreached
      <4> QED
        BY <4>1, <4>2, Zenon DEF TypeOK
    <3> QED
      BY <3>1, <3>2
  <2> DEFINE place == IF probe[c] = "poll" THEN "wait" ELSE "classify"
  <2>2. cpc' = [cpc EXCEPT ![c] = place] /\ place \in {"wait", "classify"}
    BY <1>4 DEF Unreached, CGoto
  <2> HIDE DEF place
  <2>3. cpc[c] = "ask" /\ UNCHANGED <<shared, daemonVars, launchd, bounds, probe, info>>
    BY <1>4 DEF Unreached, CliOnly
  <2> QED
    BY <2>1, <2>2, <2>3
<1>5. CASE Classify(c)
  BY <1>5 DEF Classify, CGoto, CliOnly
<1>6. CASE TryPort(c)
  BY <1>6 DEF TryPort, CGoto
<1>7. CASE FreePort(c)
  BY <1>7 DEF FreePort, CGoto
<1>8. CASE Start(c)
  BY <1>8 DEF Start, CGoto, Launch, Goto, NoneLeft
<1>9. CASE Kick(c)
  BY <1>9 DEF Kick, CGoto, Kickstart, Launch, Goto, NoneLeft
<1>10. CASE Bootstrap(c)
  BY <1>10 DEF Bootstrap, CGoto, Kickstart, Launch, Goto, NoneLeft
<1>11. CASE Again(c)
  BY <1>11 DEF Again, CGoto, CliOnly
<1>12. CASE LaunchctlFails(c)
  BY <1>12 DEF LaunchctlFails, CGoto, Fault
<1>13. CASE Deadline(c)
  BY <1>13 DEF Deadline, CGoto, CliOnly
<1> QED
  BY <1>1, <1>2, <1>3, <1>4, <1>5, <1>6, <1>7, <1>8, <1>9, <1>10, <1>11, <1>12, <1>13 DEF CliSteps

\* The port is exclusive and every step keeps the types.
LEMMA InvariantKept ==
  ASSUME DaemonInvariant, [Next]_vars
  PROVE  DaemonInvariant'
<1>1. CASE Next
  <2>1. held' \subseteq Clis /\ answering' \subseteq Daemons
    BY <1>1, WatchTypes DEF Next, DaemonInvariant
  <2> QED
    BY <1>1, <2>1, DaemonStepsKeep, DaemonEventsKeep, OutsideKeeps, CliStepsKeep DEF Next, Act
<1>2. CASE UNCHANGED vars
  BY <1>2 DEF vars, DaemonInvariant, TypeOK, PortIsLock, shared, daemonVars, launchd, cliVars,
              bounds, Holders, Starting, Closing
<1> QED
  BY <1>1, <1>2

\* Nobody listens at first.
LEMMA InvariantAtFirst == Init => DaemonInvariant
  BY DaemonAssumption DEF Init, DaemonInvariant, TypeOK, PortIsLock, Holders, Starting, Closing

\* Files, processes and commands keep their types, for any number of each, and the port is
\* listened on by exactly the daemon whose start has come that far.
THEOREM DaemonTypeCorrect == Spec => [](TypeOK /\ PortIsLock)
<1>1. Init => DaemonInvariant
  BY InvariantAtFirst
<1>2. DaemonInvariant /\ [Next]_vars => DaemonInvariant'
  BY InvariantKept
<1> QED
  BY <1>1, <1>2, PTL DEF Spec, DaemonInvariant

-----------------------------------------------------------------------------
(* Who loses the record.                                                   *)

\* The record of a serving daemon goes by hand, or in the one window that removeOwnDiscovery
\* leaves: it reads the record and removes by path what may have replaced it.
RecordStep ==
  \A d \in Daemons : rec = d /\ pc[d] = "serving" /\ pc'[d] = "serving" /\ rec' # d =>
    \/ faults' = faults + 1
    \/ \E x \in Daemons \ {d} : pc[x] = "unlink" /\ pc'[x] = "dead" /\ saw[x] = x

\* Only publishing, unlinking and the owner's hand change the record at all.
LEMMA RecordChanges ==
  ASSUME Act
  PROVE  \/ rec' = rec
         \/ RecordRemoved
         \/ \E d \in Daemons : Publish(d) \/ PublishFails(d) \/ RemoveOwnDiscovery(d)
<1>1. ASSUME NEW d \in Daemons,
             \/ DaemonSteps(d) \/ RunStarts(d) \/ Signal(d) \/ Crash(d)
             \/ Hang(d) \/ Wake(d) \/ StartByHand(d) \/ PublishFails(d)
      PROVE  rec' = rec \/ Publish(d) \/ PublishFails(d) \/ RemoveOwnDiscovery(d)
  <2>1. CASE ReadRecord(d)
    BY <2>1 DEF ReadRecord, shared
  <2>2. CASE AskRecorded(d)
    BY <2>2 DEF AskRecorded, shared
  <2>3. CASE OpenState(d)
    BY <2>3 DEF OpenState, shared
  <2>4. CASE Migrate(d)
    BY <2>4 DEF Migrate, shared
  <2>5. CASE Recover(d)
    BY <2>5 DEF Recover, shared
  <2>6. CASE Listen(d)
    BY <2>6 DEF Listen, shared
  <2>7. CASE ListenOnSocket(d)
    BY <2>7 DEF ListenOnSocket, shared
  <2>8. CASE Tick(d)
    BY <2>8 DEF Tick, shared
  <2>9. CASE RunEnds(d)
    BY <2>9 DEF RunEnds, shared
  <2>10. CASE StopWork(d)
    BY <2>10 DEF StopWork, shared
  <2>11. CASE CloseListeners(d)
    BY <2>11 DEF CloseListeners, shared
  <2>12. CASE RemoveSocket(d)
    BY <2>12 DEF RemoveSocket, shared
  <2>13. CASE RereadRecord(d)
    BY <2>13 DEF RereadRecord, shared
  <2>14. CASE RunStarts(d)
    BY <2>14 DEF RunStarts, shared
  <2>15. CASE Signal(d)
    BY <2>15 DEF Signal, shared
  <2>16. CASE Crash(d)
    BY <2>16 DEF Crash, shared
  <2>17. CASE Hang(d)
    BY <2>17 DEF Hang, shared
  <2>18. CASE Wake(d)
    BY <2>18 DEF Wake, shared
  <2>19. CASE StartByHand(d)
    BY <2>19 DEF StartByHand, shared
  <2> QED
    BY <1>1, <2>1, <2>2, <2>3, <2>4, <2>5, <2>6, <2>7, <2>8, <2>9, <2>10, <2>11, <2>12, <2>13,
       <2>14, <2>15, <2>16, <2>17, <2>18, <2>19 DEF DaemonSteps
<1>2. CASE EditCheckout \/ FinishSetup \/ Restart
  BY <1>2 DEF EditCheckout, FinishSetup, Restart, shared
<1>3. ASSUME NEW c \in Clis, Begin(c) \/ CliSteps(c) \/ LaunchctlFails(c) \/ Deadline(c)
      PROVE  rec' = rec
  <2>1. CASE Begin(c)
    BY <2>1 DEF Begin, CliOnly, shared
  <2>2. CASE Read(c)
    BY <2>2 DEF Read, CliOnly, shared
  <2>3. CASE Reached(c)
    BY <2>3 DEF Reached, CliOnly, shared
  <2>4. CASE Unreached(c)
    BY <2>4 DEF Unreached, CliOnly, shared
  <2>5. CASE Classify(c)
    BY <2>5 DEF Classify, CliOnly, shared
  <2>6. CASE TryPort(c)
    BY <2>6 DEF TryPort, CliOnly, shared
  <2>7. CASE FreePort(c)
    BY <2>7 DEF FreePort, CliOnly, shared
  <2>8. CASE Start(c)
    BY <2>8 DEF Start, CliOnly, shared
  <2>9. CASE Kick(c)
    BY <2>9 DEF Kick, CliOnly, shared
  <2>10. CASE Bootstrap(c)
    BY <2>10 DEF Bootstrap, CliOnly, shared
  <2>11. CASE Again(c)
    BY <2>11 DEF Again, CliOnly, shared
  <2>12. CASE LaunchctlFails(c)
    BY <2>12 DEF LaunchctlFails, CliOnly, shared
  <2>13. CASE Deadline(c)
    BY <2>13 DEF Deadline, CliOnly, shared
  <2> QED
    BY <1>3, <2>1, <2>2, <2>3, <2>4, <2>5, <2>6, <2>7, <2>8, <2>9, <2>10, <2>11, <2>12, <2>13
       DEF CliSteps
<1> QED
  BY <1>1, <1>2, <1>3 DEF Act

\* A daemon that publishes has the port, so that no recorded daemon serves beside it.
LEMMA RecordStepHolds ==
  ASSUME DaemonInvariant, [Next]_vars
  PROVE  RecordStep
<1> SUFFICES ASSUME NEW d \in Daemons, rec = d, pc[d] = "serving", pc'[d] = "serving", rec' # d
             PROVE  \/ faults' = faults + 1
                    \/ \E x \in Daemons \ {d} : pc[x] = "unlink" /\ pc'[x] = "dead" /\ saw[x] = x
  BY DEF RecordStep
<1>1. Act
  BY DEF Next, vars, shared
<1>2. CASE RecordRemoved
  BY <1>2 DEF RecordRemoved, Fault
<1>3. ASSUME NEW x \in Daemons, Publish(x)
      PROVE  FALSE
  <2>1. pc[x] = "publish" /\ rec' = x
    BY <1>3 DEF Publish, At
  <2>2. port = x /\ port = d
    BY <2>1 DEF DaemonInvariant, PortIsLock, Holders
  <2> QED
    BY <2>1, <2>2
<1>4. ASSUME NEW x \in Daemons, RemoveOwnDiscovery(x)
      PROVE  \E y \in Daemons \ {d} : pc[y] = "unlink" /\ pc'[y] = "dead" /\ saw[y] = y
  <2>1. pc[x] = "unlink" /\ pc'[x] = "dead" /\ saw[x] = x
    BY <1>4 DEF RemoveOwnDiscovery, At, Goto, OwnRecord, DaemonInvariant, TypeOK
  <2> QED
    BY <2>1
<1>5. ASSUME NEW x \in Daemons, PublishFails(x)
      PROVE  faults' = faults + 1
  BY <1>5 DEF PublishFails, Fault
<1> QED
  BY <1>1, <1>2, <1>3, <1>4, <1>5, RecordChanges

\* removeOwnDiscovery: only that window, or a hand, ever takes a serving daemon's record away.
THEOREM RecordLossIsBounded == Spec => RecordLostOnlyInTheWindow
<1>1. Init => DaemonInvariant
  BY InvariantAtFirst
<1>2. DaemonInvariant /\ [Next]_vars => DaemonInvariant'
  BY InvariantKept
<1>3. DaemonInvariant /\ [Next]_vars => [RecordStep]_vars
  BY RecordStepHolds
<1> QED
  BY <1>1, <1>2, <1>3, PTL DEF Spec, RecordLostOnlyInTheWindow, RecordStep

-----------------------------------------------------------------------------
(* A recorded daemon that has its port is left alone.                      *)

\* A command before a recorded daemon: it asks that one, and is not refused.
Kept(c) ==
  /\ cpc[c] \in {"read", "ask", "classify", "tryPort", "done", "failed"}
  /\ probe[c] # "poll"
  /\ cpc[c] \in {"ask", "classify"} => info[c] = rec
  /\ cpc[c] = "classify" => ~refused[c]

\* A starting daemon before a recorded one that answers: it asks that one.
Spared(d) ==
  /\ pc[d] \in {"probe", "ask", "dead"}
  /\ pc[d] = "ask" => saw[d] = rec

\* The inductive form of RecordedDaemonIsKept.
KeptInvariant ==
  /\ \A c \in Clis : cpc[c] = "idle" => probe[c] = "first"
  /\ \A c \in held : Holding(rec, port) /\ Kept(c)
  /\ \A d \in answering : Holding(rec, port) /\ rec \notin hung /\ Spared(d)

\* The record and the port do not pass to another daemon in one step.
LEMMA SameHolder ==
  ASSUME DaemonInvariant, Act, Holding(rec, port), Holding(rec', port')
  PROVE  rec' = rec
<1>1. CASE RecordRemoved
  BY <1>1, DaemonAssumption DEF RecordRemoved, Holding
<1>2. ASSUME NEW d \in Daemons, Publish(d)
      PROVE  rec' = rec
  <2>1. port' = port /\ rec' = d
    BY <1>2 DEF Publish
  <2> QED
    BY <2>1 DEF Holding
<1>3. ASSUME NEW d \in Daemons, RemoveOwnDiscovery(d)
      PROVE  rec' = rec
  BY <1>3, DaemonAssumption DEF RemoveOwnDiscovery, Holding
<1>4. ASSUME NEW d \in Daemons, PublishFails(d)
      PROVE  rec' = rec
  <2>1. port' = port
    BY <1>4 DEF PublishFails
  <2> QED
    BY <2>1 DEF Holding
<1> QED
  BY <1>1, <1>2, <1>3, <1>4, RecordChanges

\* Daemons and the owner leave a command where it is.
LEMMA CommandsUntouched ==
  ASSUME NEW d \in Daemons,
         \/ DaemonSteps(d) \/ RunStarts(d) \/ Signal(d) \/ Crash(d) \/ Hang(d) \/ Wake(d)
         \/ StartByHand(d) \/ PublishFails(d)
  PROVE  UNCHANGED cliVars
<1>1. CASE ReadRecord(d)
  BY <1>1 DEF ReadRecord
<1>2. CASE AskRecorded(d)
  BY <1>2 DEF AskRecorded
<1>3. CASE OpenState(d)
  BY <1>3 DEF OpenState
<1>4. CASE Migrate(d)
  BY <1>4 DEF Migrate
<1>5. CASE Recover(d)
  BY <1>5 DEF Recover
<1>6. CASE Listen(d)
  BY <1>6 DEF Listen
<1>7. CASE ListenOnSocket(d)
  BY <1>7 DEF ListenOnSocket
<1>8. CASE Publish(d)
  BY <1>8 DEF Publish
<1>9. CASE Tick(d)
  BY <1>9 DEF Tick
<1>10. CASE RunEnds(d)
  BY <1>10 DEF RunEnds
<1>11. CASE StopWork(d)
  BY <1>11 DEF StopWork
<1>12. CASE CloseListeners(d)
  BY <1>12 DEF CloseListeners
<1>13. CASE RemoveSocket(d)
  BY <1>13 DEF RemoveSocket
<1>14. CASE RereadRecord(d)
  BY <1>14 DEF RereadRecord
<1>15. CASE RemoveOwnDiscovery(d)
  BY <1>15 DEF RemoveOwnDiscovery
<1>16. CASE RunStarts(d)
  BY <1>16 DEF RunStarts
<1>17. CASE Signal(d)
  BY <1>17 DEF Signal
<1>18. CASE Crash(d)
  BY <1>18 DEF Crash
<1>19. CASE Hang(d)
  BY <1>19 DEF Hang
<1>20. CASE Wake(d)
  BY <1>20 DEF Wake
<1>21. CASE StartByHand(d)
  BY <1>21 DEF StartByHand
<1>22. CASE PublishFails(d)
  BY <1>22 DEF PublishFails, cliVars
<1> QED
  BY <1>1, <1>2, <1>3, <1>4, <1>5, <1>6, <1>7, <1>8, <1>9, <1>10, <1>11, <1>12, <1>13, <1>14,
     <1>15, <1>16, <1>17, <1>18, <1>19, <1>20, <1>21, <1>22 DEF DaemonSteps

\* A step of a command keeps it before the recorded daemon: with the port taken its probe is not
\* refused, and the port it tries is not free.
LEMMA OwnStepKeeps ==
  ASSUME DaemonInvariant, NEW c \in Clis, Kept(c), Holding(rec, port), rec' = rec,
         Begin(c) \/ CliSteps(c) \/ LaunchctlFails(c) \/ Deadline(c)
  PROVE  Kept(c)'
<1> USE DaemonAssumption DEF DaemonInvariant
<1>0. rec \in Daemons /\ port = rec /\ rec # None /\ Alive(rec)
  BY DEF Holding, PortIsLock, Holders, Alive, Starting, Closing
<1>1. CASE Begin(c)
  BY <1>0, <1>1 DEF Begin, CGoto, CliOnly, Kept, TypeOK
<1>2. CASE Read(c)
  BY <1>0, <1>2 DEF Read, CGoto, CliOnly, Kept, TypeOK
<1>3. CASE Reached(c)
  BY <1>0, <1>3 DEF Reached, CGoto, Answers, StartSchedulerWhenAllowed, Kept, TypeOK
<1>4. CASE Unreached(c)
  <2>1. /\ cpc[c] = "ask" /\ probe[c] # "poll" /\ ~Answers(info[c])
        /\ cpc' = [cpc EXCEPT ![c] = "classify"] /\ UNCHANGED <<probe, info>>
    BY <1>4 DEF Unreached, CGoto, Kept
  <2>2. ~refused'[c]
    BY <1>0, <1>4, <2>1 DEF Unreached, TypeOK
  <2> QED
    BY <2>1, <2>2 DEF Kept, TypeOK
<1>5. CASE Classify(c)
  BY <1>0, <1>5 DEF Classify, DiscoveryIsStale, CGoto, CliOnly, Kept, TypeOK
<1>6. CASE TryPort(c)
  BY <1>0, <1>6 DEF TryPort, CGoto, Kept, TypeOK
<1>7. CASE FreePort(c)
  BY <1>0, <1>7 DEF FreePort, CGoto, Kept, TypeOK
<1>8. CASE Start(c)
  BY <1>0, <1>8 DEF Start, CGoto, Launch, Goto, NoneLeft, Kept, TypeOK
<1>9. CASE Kick(c)
  BY <1>0, <1>9 DEF Kick, CGoto, Kickstart, Launch, Goto, NoneLeft, Kept, TypeOK
<1>10. CASE Bootstrap(c)
  BY <1>0, <1>10 DEF Bootstrap, CGoto, Kickstart, Launch, Goto, NoneLeft, Kept, TypeOK
<1>11. CASE Again(c)
  BY <1>0, <1>11 DEF Again, CGoto, CliOnly, Kept, TypeOK
<1>12. CASE LaunchctlFails(c)
  BY <1>0, <1>12 DEF LaunchctlFails, CGoto, Fault, Kept, TypeOK
<1>13. CASE Deadline(c)
  BY <1>0, <1>13 DEF Deadline, CGoto, CliOnly, Kept, TypeOK
<1> QED
  BY <1>1, <1>2, <1>3, <1>4, <1>5, <1>6, <1>7, <1>8, <1>9, <1>10, <1>11, <1>12, <1>13 DEF CliSteps

\* Another command's step does not touch it.
LEMMA OtherStepKeeps ==
  ASSUME DaemonInvariant, NEW c \in Clis, NEW x \in Clis \ {c},
         Begin(x) \/ CliSteps(x) \/ LaunchctlFails(x) \/ Deadline(x)
  PROVE  /\ cpc'[c] = cpc[c] /\ probe'[c] = probe[c]
         /\ info'[c] = info[c] /\ refused'[c] = refused[c]
<1> USE DEF DaemonInvariant
<1>1. CASE Begin(x)
  BY <1>1 DEF Begin, CGoto, CliOnly, TypeOK
<1>2. CASE Read(x)
  BY <1>2 DEF Read, CGoto, CliOnly, TypeOK
<1>3. CASE Reached(x)
  BY <1>3 DEF Reached, CGoto, TypeOK
<1>4. CASE Unreached(x)
  BY <1>4 DEF Unreached, CGoto, CliOnly, TypeOK
<1>5. CASE Classify(x)
  BY <1>5 DEF Classify, CGoto, CliOnly, TypeOK
<1>6. CASE TryPort(x)
  BY <1>6 DEF TryPort, CGoto, TypeOK
<1>7. CASE FreePort(x)
  BY <1>7 DEF FreePort, CGoto, TypeOK
<1>8. CASE Start(x)
  BY <1>8 DEF Start, CGoto, TypeOK
<1>9. CASE Kick(x)
  BY <1>9 DEF Kick, CGoto, TypeOK
<1>10. CASE Bootstrap(x)
  BY <1>10 DEF Bootstrap, CGoto, TypeOK
<1>11. CASE Again(x)
  BY <1>11 DEF Again, CGoto, CliOnly, TypeOK
<1>12. CASE LaunchctlFails(x)
  BY <1>12 DEF LaunchctlFails, CGoto, TypeOK
<1>13. CASE Deadline(x)
  BY <1>13 DEF Deadline, CGoto, CliOnly, TypeOK
<1> QED
  BY <1>1, <1>2, <1>3, <1>4, <1>5, <1>6, <1>7, <1>8, <1>9, <1>10, <1>11, <1>12, <1>13 DEF CliSteps

\* What happens to files, checkout, setup and job does not touch it either.
LEMMA OutsideLeavesCommands ==
  ASSUME RecordRemoved \/ EditCheckout \/ FinishSetup \/ Restart
  PROVE  UNCHANGED cliVars
  BY DEF RecordRemoved, EditCheckout, FinishSetup, Restart

\* A command stays before the daemon it found.
LEMMA KeptStays ==
  ASSUME DaemonInvariant, Act, NEW c \in Clis, Kept(c), Holding(rec, port), Holding(rec', port')
  PROVE  Kept(c)'
<1>1. rec' = rec
  BY SameHolder
<1>2. CASE UNCHANGED cliVars
  BY <1>1, <1>2 DEF cliVars, Kept
<1>3. ASSUME NEW x \in Clis, Begin(x) \/ CliSteps(x) \/ LaunchctlFails(x) \/ Deadline(x)
      PROVE  Kept(c)'
  <2>1. CASE x = c
    BY <1>1, <1>3, <2>1, OwnStepKeeps
  <2>2. CASE x # c
    <3>1. /\ cpc'[c] = cpc[c] /\ probe'[c] = probe[c]
          /\ info'[c] = info[c] /\ refused'[c] = refused[c]
      BY <1>3, <2>2, OtherStepKeeps
    <3> QED
      BY <1>1, <3>1 DEF Kept
  <2> QED
    BY <2>1, <2>2
<1> QED
  BY <1>2, <1>3, CommandsUntouched, OutsideLeavesCommands DEF Act

\* A command begins by reading the record, at its first probe.
LEMMA KeptAtFirst ==
  ASSUME DaemonInvariant, Act, KeptInvariant, NEW c \in Clis, cpc[c] = "idle"
  PROVE  /\ cpc'[c] # "idle" => Kept(c)'
         /\ probe'[c] = "first"
<1>1. CASE UNCHANGED cliVars
  BY <1>1 DEF cliVars, KeptInvariant
<1>2. ASSUME NEW x \in Clis \ {c}, Begin(x) \/ CliSteps(x) \/ LaunchctlFails(x) \/ Deadline(x)
      PROVE  cpc'[c] = "idle" /\ probe'[c] = "first"
  BY <1>2, OtherStepKeeps DEF KeptInvariant
<1>3. ASSUME CliSteps(c) \/ LaunchctlFails(c) \/ Deadline(c)
      PROVE  FALSE
  BY <1>3 DEF CliSteps, Read, Reached, Unreached, Classify, TryPort, FreePort, Start, Kick,
              Bootstrap, Again, LaunchctlFails, Deadline
<1>4. CASE Begin(c)
  BY <1>4 DEF Begin, CGoto, Kept, KeptInvariant, DaemonInvariant, TypeOK
<1> QED
  BY <1>1, <1>2, <1>3, <1>4, CommandsUntouched, OutsideLeavesCommands DEF Act

\* Whatever starts a daemon leaves those that have started where they are.
LEMMA StartsLeaveOthers ==
  ASSUME DaemonInvariant, NEW d \in Daemons, pc[d] # "unborn",
         \/ Restart
         \/ \E c \in Clis : Begin(c) \/ CliSteps(c) \/ LaunchctlFails(c) \/ Deadline(c)
  PROVE  pc'[d] = pc[d] /\ saw'[d] = saw[d]
<1> USE DEF DaemonInvariant
<1>1. CASE Restart
  BY <1>1 DEF Restart, Kickstart, Launch, Goto, TypeOK
<1>2. ASSUME NEW c \in Clis, Begin(c) \/ CliSteps(c) \/ LaunchctlFails(c) \/ Deadline(c)
      PROVE  pc'[d] = pc[d] /\ saw'[d] = saw[d]
  <2>1. CASE Begin(c)
    BY <2>1 DEF Begin, CliOnly, daemonVars, TypeOK
  <2>2. CASE Read(c)
    BY <2>2 DEF Read, CliOnly, daemonVars, TypeOK
  <2>3. CASE Reached(c)
    BY <2>3 DEF Reached, daemonVars, TypeOK
  <2>4. CASE Unreached(c)
    BY <2>4 DEF Unreached, CliOnly, daemonVars, TypeOK
  <2>5. CASE Classify(c)
    BY <2>5 DEF Classify, CliOnly, daemonVars, TypeOK
  <2>6. CASE TryPort(c)
    BY <2>6 DEF TryPort, daemonVars, TypeOK
  <2>7. CASE FreePort(c)
    BY <2>7 DEF FreePort, daemonVars, TypeOK
  <2>8. CASE Start(c)
    BY <2>8 DEF Start, Launch, Goto, daemonVars, TypeOK
  <2>9. CASE Kick(c)
    BY <2>9 DEF Kick, Kickstart, Launch, Goto, daemonVars, TypeOK
  <2>10. CASE Bootstrap(c)
    BY <2>10 DEF Bootstrap, Kickstart, Launch, Goto, daemonVars, TypeOK
  <2>11. CASE Again(c)
    BY <2>11 DEF Again, CliOnly, daemonVars, TypeOK
  <2>12. CASE LaunchctlFails(c)
    BY <2>12 DEF LaunchctlFails, daemonVars, TypeOK
  <2>13. CASE Deadline(c)
    BY <2>13 DEF Deadline, CliOnly, daemonVars, TypeOK
  <2> QED
    BY <1>2, <2>1, <2>2, <2>3, <2>4, <2>5, <2>6, <2>7, <2>8, <2>9, <2>10, <2>11, <2>12, <2>13
       DEF CliSteps
<1> QED
  BY <1>1, <1>2

\* A command that has begun never begins again.
LEMMA NeverIdleAgain ==
  ASSUME DaemonInvariant, Act, NEW c \in Clis, cpc'[c] = "idle"
  PROVE  cpc[c] = "idle"
<1> USE DEF DaemonInvariant
<1>1. CASE UNCHANGED cliVars
  BY <1>1 DEF cliVars
<1>2. ASSUME NEW x \in Clis, Begin(x) \/ CliSteps(x) \/ LaunchctlFails(x) \/ Deadline(x)
      PROVE  cpc[c] = "idle"
  <2>1. CASE x # c
    BY <1>2, <2>1, OtherStepKeeps
  <2>2. CASE x = c
    <3>1. CASE Begin(c)
      BY <2>2, <3>1 DEF Begin, CGoto, TypeOK
    <3>2. CASE Read(c)
      BY <2>2, <3>2 DEF Read, CGoto, TypeOK
    <3>3. CASE Reached(c)
      BY <2>2, <3>3 DEF Reached, CGoto, TypeOK
    <3>4. CASE Unreached(c)
      BY <2>2, <3>4 DEF Unreached, CGoto, TypeOK
    <3>5. CASE Classify(c)
      BY <2>2, <3>5 DEF Classify, CGoto, TypeOK
    <3>6. CASE TryPort(c)
      BY <2>2, <3>6 DEF TryPort, CGoto, TypeOK
    <3>7. CASE FreePort(c)
      BY <2>2, <3>7 DEF FreePort, CGoto, TypeOK
    <3>8. CASE Start(c)
      BY <2>2, <3>8 DEF Start, CGoto, TypeOK
    <3>9. CASE Kick(c)
      BY <2>2, <3>9 DEF Kick, CGoto, TypeOK
    <3>10. CASE Bootstrap(c)
      BY <2>2, <3>10 DEF Bootstrap, CGoto, TypeOK
    <3>11. CASE Again(c)
      BY <2>2, <3>11 DEF Again, CGoto, TypeOK
    <3>12. CASE LaunchctlFails(c)
      BY <2>2, <3>12 DEF LaunchctlFails, CGoto, TypeOK
    <3>13. CASE Deadline(c)
      BY <2>2, <3>13 DEF Deadline, CGoto, TypeOK
    <3> QED
      BY <1>2, <2>2, <3>1, <3>2, <3>3, <3>4, <3>5, <3>6, <3>7, <3>8, <3>9, <3>10, <3>11, <3>12,
         <3>13 DEF CliSteps
  <2> QED
    BY <2>1, <2>2
<1> QED
  BY <1>1, <1>2, CommandsUntouched, OutsideLeavesCommands DEF Act

\* A starting daemon that found one which answers goes on to ask it, and leaves.
LEMMA SparedStays ==
  ASSUME DaemonInvariant, Act, NEW d \in Daemons, Spared(d), Holding(rec, port),
         rec \notin hung, Holding(rec', port')
  PROVE  Spared(d)'
<1>1. rec' = rec /\ rec \in Daemons /\ rec # None /\ Answers(rec)
  BY SameHolder, DaemonAssumption DEF Holding, Answers
<1>2. CASE pc'[d] = pc[d] /\ saw'[d] = saw[d]
  BY <1>1, <1>2 DEF Spared
<1>3. ASSUME NEW x \in Daemons,
             \/ DaemonSteps(x) \/ RunStarts(x) \/ Signal(x) \/ Crash(x) \/ Hang(x) \/ Wake(x)
             \/ StartByHand(x) \/ PublishFails(x)
      PROVE  Spared(d)'
  <2>1. CASE ReadRecord(x)
    BY <1>1, <2>1 DEF ReadRecord, At, Goto, Spared, Alive, Starting, Closing, DaemonInvariant,
       TypeOK, daemonVars
  <2>2. CASE AskRecorded(x)
    BY <1>1, <2>2 DEF AskRecorded, At, Goto, LiveDaemon, Answers, Spared, Alive, Starting,
       Closing, DaemonInvariant, TypeOK, daemonVars
  <2>3. CASE OpenState(x)
    BY <1>1, <2>3 DEF OpenState, At, Goto, Spared, Alive, Starting, Closing, DaemonInvariant,
       TypeOK, daemonVars
  <2>4. CASE Migrate(x)
    BY <1>1, <2>4 DEF Migrate, At, Goto, Spared, Alive, Starting, Closing, DaemonInvariant,
       TypeOK, daemonVars
  <2>5. CASE Recover(x)
    BY <1>1, <2>5 DEF Recover, At, Goto, Spared, Alive, Starting, Closing, DaemonInvariant,
       TypeOK, daemonVars
  <2>6. CASE Listen(x)
    BY <1>1, <2>6 DEF Listen, At, Goto, Spared, Alive, Starting, Closing, DaemonInvariant,
       TypeOK, daemonVars
  <2>7. CASE ListenOnSocket(x)
    BY <1>1, <2>7 DEF ListenOnSocket, At, Goto, Spared, Alive, Starting, Closing,
       DaemonInvariant, TypeOK, daemonVars
  <2>8. CASE Publish(x)
    BY <1>1, <2>8 DEF Publish, At, Goto, Spared, Alive, Starting, Closing, DaemonInvariant,
       TypeOK, daemonVars
  <2>9. CASE Tick(x)
    BY <1>1, <2>9 DEF Tick, At, Goto, Spared, Alive, Starting, Closing, DaemonInvariant, TypeOK,
       daemonVars
  <2>10. CASE RunEnds(x)
    BY <1>1, <2>10 DEF RunEnds, At, Spared, Alive, Starting, Closing, DaemonInvariant, TypeOK,
       daemonVars
  <2>11. CASE StopWork(x)
    BY <1>1, <2>11 DEF StopWork, At, Goto, Spared, Alive, Starting, Closing, DaemonInvariant,
       TypeOK, daemonVars
  <2>12. CASE CloseListeners(x)
    BY <1>1, <2>12 DEF CloseListeners, At, Goto, Spared, Alive, Starting, Closing,
       DaemonInvariant, TypeOK, daemonVars
  <2>13. CASE RemoveSocket(x)
    BY <1>1, <2>13 DEF RemoveSocket, At, Goto, Spared, Alive, Starting, Closing,
       DaemonInvariant, TypeOK, daemonVars
  <2>14. CASE RereadRecord(x)
    BY <1>1, <2>14 DEF RereadRecord, At, Goto, Spared, Alive, Starting, Closing,
       DaemonInvariant, TypeOK, daemonVars
  <2>15. CASE RemoveOwnDiscovery(x)
    BY <1>1, <2>15 DEF RemoveOwnDiscovery, At, Goto, Spared, Alive, Starting, Closing,
       DaemonInvariant, TypeOK, daemonVars
  <2>16. CASE RunStarts(x)
    BY <1>1, <2>16 DEF RunStarts, At, Spared, Alive, Starting, Closing, DaemonInvariant, TypeOK,
       daemonVars
  <2>17. CASE Signal(x)
    BY <1>1, <2>17 DEF Signal, At, Goto, Spared, Alive, Starting, Closing, DaemonInvariant,
       TypeOK, daemonVars
  <2>18. CASE Crash(x)
    BY <1>1, <2>18 DEF Crash, At, Goto, Spared, Alive, Starting, Closing, DaemonInvariant,
       TypeOK, daemonVars
  <2>19. CASE Hang(x)
    BY <1>1, <2>19 DEF Hang, At, Spared, Alive, Starting, Closing, DaemonInvariant, TypeOK,
       daemonVars
  <2>20. CASE Wake(x)
    BY <1>1, <2>20 DEF Wake, At, Spared, Alive, Starting, Closing, DaemonInvariant, TypeOK,
       daemonVars
  <2>21. CASE StartByHand(x)
    BY <1>1, <2>21 DEF StartByHand, At, Launch, Goto, Spared, Alive, Starting, Closing,
       DaemonInvariant, TypeOK, daemonVars
  <2>22. CASE PublishFails(x)
    BY <1>1, <2>22 DEF PublishFails, At, Goto, Spared, Alive, Starting, Closing, DaemonInvariant,
       TypeOK, daemonVars
  <2> QED
    BY <1>3, <2>1, <2>2, <2>3, <2>4, <2>5, <2>6, <2>7, <2>8, <2>9, <2>10, <2>11, <2>12, <2>13,
       <2>14, <2>15, <2>16, <2>17, <2>18, <2>19, <2>20, <2>21, <2>22 DEF DaemonSteps
<1>4. CASE RecordRemoved \/ EditCheckout \/ FinishSetup
  BY <1>2, <1>4 DEF RecordRemoved, EditCheckout, FinishSetup, daemonVars
<1>5. ASSUME \/ Restart
             \/ \E c \in Clis : Begin(c) \/ CliSteps(c) \/ LaunchctlFails(c) \/ Deadline(c)
      PROVE  pc'[d] = pc[d] /\ saw'[d] = saw[d]
  BY <1>5, StartsLeaveOthers DEF Spared
<1> QED
  BY <1>2, <1>3, <1>4, <1>5 DEF Act

\* The inductive form of RecordedDaemonIsKept is kept by every step.
LEMMA KeptInvariantKept ==
  ASSUME DaemonInvariant, KeptInvariant, [Next]_vars
  PROVE  KeptInvariant'
<1>1. CASE UNCHANGED vars
  BY <1>1 DEF vars, shared, daemonVars, launchd, cliVars, bounds, KeptInvariant, Kept, Spared,
              Holding
<1>2. CASE Next
  <2>1. Act /\ Watch
    BY <1>2 DEF Next
  <2>2. ASSUME NEW c \in Clis, cpc'[c] = "idle"
        PROVE  probe'[c] = "first"
    <3>1. cpc[c] = "idle"
      BY <2>1, <2>2, NeverIdleAgain
    <3> QED
      BY <2>1, <3>1, KeptAtFirst
  <2>3. ASSUME NEW c \in held'
        PROVE  Holding(rec', port') /\ Kept(c)'
    <3>1. /\ Holding(rec', port')
          /\ c \in held \/ (c \in Clis /\ cpc[c] = "idle" /\ cpc'[c] # "idle")
      BY <2>1, <2>3 DEF Watch
    <3>2. CASE c \in held
      <4>1. c \in Clis /\ Holding(rec, port) /\ Kept(c)
        BY <3>2 DEF KeptInvariant, DaemonInvariant, TypeOK
      <4> QED
        BY <2>1, <3>1, <4>1, KeptStays
    <3>3. CASE c \in Clis /\ cpc[c] = "idle" /\ cpc'[c] # "idle"
      BY <2>1, <3>1, <3>3, KeptAtFirst
    <3> QED
      BY <3>1, <3>2, <3>3
  <2>4. ASSUME NEW d \in answering'
        PROVE  Holding(rec', port') /\ rec' \notin hung' /\ Spared(d)'
    <3>1. /\ Holding(rec', port') /\ rec' \notin hung'
          /\ d \in answering \/ (d \in Daemons /\ pc[d] = "unborn" /\ pc'[d] = "probe")
      BY <2>1, <2>4 DEF Watch
    <3>2. CASE d \in answering
      <4>1. d \in Daemons /\ Holding(rec, port) /\ rec \notin hung /\ Spared(d)
        BY <3>2 DEF KeptInvariant, DaemonInvariant, TypeOK
      <4> QED
        BY <2>1, <3>1, <4>1, SparedStays
    <3>3. CASE pc'[d] = "probe"
      BY <3>1, <3>3 DEF Spared
    <3> QED
      BY <3>1, <3>2, <3>3
  <2> QED
    BY <2>2, <2>3, <2>4 DEF KeptInvariant
<1> QED
  BY <1>1, <1>2

\* ensureDaemon and daemonAlreadyRunning: while a recorded daemon holds its port, answering or
\* hung, no command starts another, and while it answers, no daemon that starts opens its State.
THEOREM RecordedIsKept == Spec => []RecordedDaemonIsKept
<1>1. Init => DaemonInvariant /\ KeptInvariant
  BY InvariantAtFirst DEF Init, KeptInvariant
<1>2. DaemonInvariant /\ KeptInvariant /\ [Next]_vars => (DaemonInvariant /\ KeptInvariant)'
  BY InvariantKept, KeptInvariantKept
<1>3. DaemonInvariant /\ KeptInvariant => RecordedDaemonIsKept
  BY DEF KeptInvariant, Kept, Spared, RecordedDaemonIsKept
<1> QED
  BY <1>1, <1>2, <1>3, PTL DEF Spec


-----------------------------------------------------------------------------
(* What a clean exit leaves behind.                                        *)

\* Commands and launchd only let a daemon begin.
LEMMA StartsBegin ==
  ASSUME DaemonInvariant,
         \/ Restart
         \/ \E c \in Clis : Begin(c) \/ CliSteps(c) \/ LaunchctlFails(c) \/ Deadline(c)
  PROVE  /\ UNCHANGED <<rec, sock, schema, code, saw, version, print, bound, hung, stops>>
         /\ faults' \in {faults, faults + 1}
         /\ \A d \in Daemons : pc'[d] = pc[d] \/ (pc[d] = "unborn" /\ pc'[d] = "probe")
<1> USE DEF DaemonInvariant, shared, bounds
<1>1. CASE Restart
  BY <1>1 DEF Restart, Kickstart, Launch, Goto, TypeOK
<1>2. ASSUME NEW c \in Clis, Begin(c) \/ CliSteps(c) \/ LaunchctlFails(c) \/ Deadline(c)
      PROVE  /\ UNCHANGED <<rec, sock, schema, code, saw, version, print, bound, hung, stops>>
             /\ faults' \in {faults, faults + 1}
             /\ \A d \in Daemons : pc'[d] = pc[d] \/ (pc[d] = "unborn" /\ pc'[d] = "probe")
  <2>1. CASE Begin(c)
    BY <2>1 DEF Begin, CliOnly, daemonVars
  <2>2. CASE Read(c)
    BY <2>2 DEF Read, CliOnly, daemonVars
  <2>3. CASE Reached(c)
    BY <2>3 DEF Reached
  <2>4. CASE Unreached(c)
    BY <2>4 DEF Unreached, CliOnly, daemonVars
  <2>5. CASE Classify(c)
    BY <2>5 DEF Classify, CliOnly, daemonVars
  <2>6. CASE TryPort(c)
    BY <2>6 DEF TryPort, daemonVars
  <2>7. CASE FreePort(c)
    BY <2>7 DEF FreePort, daemonVars
  <2>8. CASE Start(c)
    BY <2>8 DEF Start, Launch, Goto, TypeOK
  <2>9. CASE Kick(c)
    BY <2>9 DEF Kick, Kickstart, Launch, Goto, TypeOK
  <2>10. CASE Bootstrap(c)
    BY <2>10 DEF Bootstrap, Kickstart, Launch, Goto, TypeOK
  <2>11. CASE Again(c)
    BY <2>11 DEF Again, CliOnly, daemonVars
  <2>12. CASE LaunchctlFails(c)
    BY <2>12 DEF LaunchctlFails, Fault, daemonVars
  <2>13. CASE Deadline(c)
    BY <2>13 DEF Deadline, CliOnly, daemonVars
  <2> QED
    BY <1>2, <2>1, <2>2, <2>3, <2>4, <2>5, <2>6, <2>7, <2>8, <2>9, <2>10, <2>11, <2>12, <2>13
       DEF CliSteps
<1> QED
  BY <1>1, <1>2

Published == {"publish", "serving", "stopping", "closing"}

\* From its publication to its close a daemon listens on the socket that is at the path.
SocketIsListened ==
  \A d \in Daemons : /\ bound[d] <=> pc[d] \in Published
                     /\ bound[d] => sock = d

\* A daemon that will still take its own record away.
Recorded(d) ==
  /\ pc[d] \in {"serving", "stopping", "closing", "remove", "reread", "unlink"}
  /\ pc[d] = "unlink" => saw[d] = d

\* Without faults a socket has its listener, and a record somebody who will remove it.
TracesAreOwned ==
  faults = 0 => /\ sock # None => sock \in Daemons /\ bound[sock]
                /\ rec # None => rec \in Daemons /\ Recorded(rec)

TraceInvariant == SocketIsListened /\ TracesAreOwned

\* A daemon on its way keeps the traces of all.
LEMMA DaemonStepsKeepTraces ==
  ASSUME DaemonInvariant, TraceInvariant, ~InodeReused, NEW d \in Daemons, DaemonSteps(d)
  PROVE  TraceInvariant'
<1> USE DaemonAssumption
    DEF DaemonInvariant, TypeOK, TraceInvariant, SocketIsListened, TracesAreOwned, Recorded,
        Published, At, shared, bounds
<1>1. CASE ReadRecord(d)
  BY <1>1 DEF ReadRecord, Goto
<1>2. CASE AskRecorded(d)
  BY <1>2 DEF AskRecorded, Goto
<1>3. CASE OpenState(d)
  BY <1>3 DEF OpenState, Goto
<1>4. CASE Migrate(d)
  BY <1>4 DEF Migrate, Goto
<1>5. CASE Recover(d)
  BY <1>5 DEF Recover, Goto
<1>6. CASE Listen(d)
  BY <1>6 DEF Listen, Goto
<1>7. CASE ListenOnSocket(d)
  <2>1. pc[d] = "look" /\ port = d
    BY <1>7 DEF ListenOnSocket, PortIsLock, Holders
  <2>2. \A x \in Daemons : ~bound[x]
    BY <2>1
  <2>3. ~Listening(sock)
    BY <2>2 DEF Listening
  <2>4. /\ sock' = d /\ bound' = [bound EXCEPT ![d] = TRUE] /\ pc' = [pc EXCEPT ![d] = "publish"]
        /\ UNCHANGED <<rec, saw, faults>>
    BY <1>7, <2>3 DEF ListenOnSocket, Goto
  <2> QED
    BY <2>1, <2>2, <2>4
<1>8. CASE Publish(d)
  BY <1>8 DEF Publish, Goto
<1>9. CASE Tick(d)
  BY <1>9 DEF Tick, Goto
<1>10. CASE RunEnds(d)
  BY <1>10 DEF RunEnds, daemonVars
<1>11. CASE StopWork(d)
  BY <1>11 DEF StopWork, Goto
<1>12. CASE CloseListeners(d)
  <2>1. bound[d] /\ sock = d /\ \A x \in Daemons \ {d} : ~bound[x]
    BY <1>12 DEF CloseListeners
  <2> QED
    BY <1>12, <2>1 DEF CloseListeners, Goto
<1>13. CASE RemoveSocket(d)
  <2>1. ~bound[d] /\ sock' \in {sock, None} /\ (sock' # sock => sock = d)
    BY <1>13 DEF RemoveSocket, StillOurs
  <2> QED
    BY <1>13, <2>1 DEF RemoveSocket, Goto
<1>14. CASE RereadRecord(d)
  BY <1>14 DEF RereadRecord, Goto
<1>15. CASE RemoveOwnDiscovery(d)
  BY <1>15 DEF RemoveOwnDiscovery, Goto, OwnRecord
<1> QED
  BY <1>1, <1>2, <1>3, <1>4, <1>5, <1>6, <1>7, <1>8, <1>9, <1>10, <1>11, <1>12, <1>13, <1>14,
     <1>15 DEF DaemonSteps

\* So do signals, faults, the owner and the runs; after a crash only the listeners count.
LEMMA EventsKeepTraces ==
  ASSUME DaemonInvariant, TraceInvariant, NEW d \in Daemons,
         \/ RunStarts(d) \/ Signal(d) \/ Crash(d) \/ Hang(d) \/ Wake(d) \/ StartByHand(d)
         \/ PublishFails(d)
  PROVE  TraceInvariant'
<1> USE DaemonAssumption
    DEF DaemonInvariant, TypeOK, TraceInvariant, SocketIsListened, TracesAreOwned, Recorded,
        Published, At, shared, bounds, Fault
<1>1. CASE RunStarts(d)
  BY <1>1 DEF RunStarts, daemonVars
<1>2. CASE Signal(d)
  BY <1>2 DEF Signal, Goto
<1>3. CASE Crash(d)
  BY <1>3 DEF Crash, Goto
<1>4. CASE Hang(d)
  BY <1>4 DEF Hang
<1>5. CASE Wake(d)
  BY <1>5 DEF Wake
<1>6. CASE StartByHand(d)
  BY <1>6 DEF StartByHand, Launch, Goto
<1>7. CASE PublishFails(d)
  BY <1>7 DEF PublishFails, Goto, Fault
<1> QED
  BY <1>1, <1>2, <1>3, <1>4, <1>5, <1>6, <1>7

\* And every other step.
LEMMA TracesKept ==
  ASSUME DaemonInvariant, TraceInvariant, ~InodeReused, [Next]_vars
  PROVE  TraceInvariant'
<1> USE DEF TraceInvariant, SocketIsListened, TracesAreOwned, Recorded, Published
<1>1. CASE RecordRemoved
  BY <1>1 DEF RecordRemoved, Fault, daemonVars, DaemonInvariant, TypeOK
<1>2. CASE EditCheckout
  BY <1>2 DEF EditCheckout, daemonVars
<1>3. CASE FinishSetup
  BY <1>3 DEF FinishSetup, daemonVars, bounds
<1>4. CASE \/ Restart
           \/ \E c \in Clis : Begin(c) \/ CliSteps(c) \/ LaunchctlFails(c) \/ Deadline(c)
  <2>1. /\ UNCHANGED <<rec, sock, saw, bound>>
        /\ faults' = 0 => faults = 0
        /\ \A d \in Daemons : pc'[d] = pc[d] \/ (pc[d] = "unborn" /\ pc'[d] = "probe")
    BY <1>4, StartsBegin DEF DaemonInvariant, TypeOK
  <2> QED
    BY <2>1
<1>5. CASE UNCHANGED vars
  BY <1>5 DEF vars, shared, daemonVars, bounds
<1> QED
  BY <1>1, <1>2, <1>3, <1>4, <1>5, DaemonStepsKeepTraces, EventsKeepTraces DEF Next, Act

\* CleanupIsExact: where no inode number is used again, a clean exit takes away the record and
\* the socket of the daemon that exits and never those of another.
THEOREM CleanupIsRight ==
  ASSUME ~InodeReused
  PROVE  Spec => []CleanupIsExact
<1>1. Init => DaemonInvariant /\ TraceInvariant
  BY InvariantAtFirst DEF Init, TraceInvariant, SocketIsListened, TracesAreOwned, Published
<1>2. DaemonInvariant /\ TraceInvariant /\ [Next]_vars => DaemonInvariant' /\ TraceInvariant'
  BY InvariantKept, TracesKept
<1>3. TraceInvariant => CleanupIsExact
  BY DEF TraceInvariant, SocketIsListened, TracesAreOwned, Published, Recorded, CleanupIsExact
<1> QED
  BY <1>1, <1>2, <1>3, PTL DEF Spec

-----------------------------------------------------------------------------
(* Who is left of a race.                                                  *)

\* Nothing went wrong, nobody was told to stop, and this build knows the schema.
Calm == faults = 0 /\ stops = 0 /\ code = 0 /\ schema <= Migrations

Migrated == {"listen", "look", "publish", "serving"}

\* A daemon only gets on: nobody closes, and who serves is on record.
Advancing(d) ==
  /\ pc[d] \notin Closing /\ print[d] = 0
  /\ pc[d] = "ask" => saw[d] # None
  /\ version[d] <= schema
  /\ pc[d] \in Migrated => version[d] = Migrations
  /\ pc[d] = "serving" => rec = d

\* Whom the schema has left behind was overtaken by a daemon that is still there.
Overtaken(d) ==
  pc[d] = "migrate" /\ version[d] # schema =>
    \E x \in Daemons : pc[x] \in {"migrate"} \cup Migrated /\ version[x] = schema

\* A command finds the daemon it reads of serving.
Finds(c) ==
  /\ cpc[c] \notin {"classify", "tryPort", "free"}
  /\ cpc[c] = "ask" => info[c] \in Daemons /\ pc[info[c]] = "serving"

\* Once somebody began, somebody is left.
SomebodyIsLeft ==
  (\E d \in Daemons : pc[d] # "unborn") =>
    \E d \in Daemons : pc[d] \in Starting \cup {"serving"}

Racing ==
  /\ hung = {}
  /\ \A d \in Daemons : Advancing(d) /\ Overtaken(d)
  /\ \A c \in Clis : Finds(c)
  /\ SomebodyIsLeft

\* A race that was disturbed stays so.
LEMMA CalmBefore ==
  ASSUME DaemonInvariant, [Next]_vars, Calm'
  PROVE  Calm
<1> DEFINE Later == faults <= faults' /\ stops <= stops' /\ code <= code' /\ schema <= schema'
<1>0. faults \in Nat /\ stops \in Nat /\ code \in Nat /\ schema \in Nat /\ Migrations \in Nat
  BY DaemonAssumption DEF DaemonInvariant, TypeOK
<1> USE DEF shared, bounds
<1>1. ASSUME NEW d \in Daemons, DaemonSteps(d)
      PROVE  Later
  <2>1. CASE Migrate(d)
    BY <1>0, <2>1 DEF Migrate
  <2>2. CASE ~Migrate(d)
    BY <1>0, <1>1, <2>2 DEF DaemonSteps, ReadRecord, AskRecorded, OpenState, Recover, Listen,
       ListenOnSocket, Publish, Tick, RunEnds, StopWork, CloseListeners, RemoveSocket,
       RereadRecord, RemoveOwnDiscovery
  <2> QED
    BY <2>1, <2>2
<1>2. ASSUME NEW d \in Daemons,
             \/ RunStarts(d) \/ Signal(d) \/ Crash(d) \/ Hang(d) \/ Wake(d) \/ StartByHand(d)
             \/ PublishFails(d)
      PROVE  Later
  BY <1>0, <1>2 DEF RunStarts, Signal, Crash, Hang, Wake, StartByHand, PublishFails, Fault
<1>3. ASSUME RecordRemoved \/ EditCheckout \/ FinishSetup
      PROVE  Later
  BY <1>0, <1>3 DEF RecordRemoved, EditCheckout, FinishSetup, Fault
<1>4. ASSUME \/ Restart
             \/ \E c \in Clis : Begin(c) \/ CliSteps(c) \/ LaunchctlFails(c) \/ Deadline(c)
      PROVE  Later
  <2>1. UNCHANGED <<schema, code, stops>> /\ faults' \in {faults, faults + 1}
    BY <1>4, StartsBegin
  <2> QED
    BY <1>0, <2>1
<1>5. ASSUME UNCHANGED vars
      PROVE  Later
  BY <1>0, <1>5 DEF vars
<1>6. Later
  <2> HIDE DEF Later
  <2> QED
    BY <1>1, <1>2, <1>3, <1>4, <1>5 DEF Next, Act
<1>7. faults' = 0 /\ stops' = 0 /\ code' = 0 /\ schema' <= Migrations
  BY DEF Calm
<1>8. schema' \in Nat
  BY DaemonAssumption, InvariantKept DEF DaemonInvariant, TypeOK
<1> QED
  BY <1>0, <1>6, <1>7, <1>8 DEF Calm

\* The port is a starting or serving daemon's in a calm race.
LEMMA PortIsRacers ==
  ASSUME DaemonInvariant, Racing, port # None
  PROVE  port \in Daemons /\ pc[port] \in {"look", "publish", "serving"}
  BY DEF DaemonInvariant, TypeOK, PortIsLock, Holders, Racing, Advancing, Finds, Closing

\* A command's daemon goes on serving.
LEMMA StillFinds ==
  ASSUME Racing, UNCHANGED cliVars,
         \A d \in Daemons : pc[d] = "serving" => pc'[d] = "serving"
  PROVE  \A c \in Clis : Finds(c)'
  BY DEF Racing, Finds, cliVars

\* A daemon on its way keeps the race going.
LEMMA DaemonStepsKeepRace ==
  ASSUME DaemonInvariant, Racing, Calm, Calm', NEW d \in Daemons, DaemonSteps(d)
  PROVE  Racing'
<1> USE DaemonAssumption
    DEF DaemonInvariant, TypeOK, Racing, Advancing, Overtaken, SomebodyIsLeft, Calm, Migrated,
        At, shared, Starting, Closing
<1>0. UNCHANGED cliVars
  BY CommandsUntouched
<1>1. CASE ReadRecord(d)
  BY <1>0, <1>1, StillFinds DEF ReadRecord, Goto
<1>2. CASE AskRecorded(d)
  <2>1. CASE LiveDaemon(d)
    BY <1>0, <1>2, <2>1, StillFinds, PortIsRacers DEF AskRecorded, Goto, LiveDaemon, Answers
  <2>2. CASE ~LiveDaemon(d)
    BY <1>0, <1>2, <2>2, StillFinds DEF AskRecorded, Goto
  <2> QED
    BY <2>1, <2>2
<1>3. CASE OpenState(d)
  BY <1>0, <1>3, StillFinds DEF OpenState, Goto
<1>4. CASE Migrate(d)
  <2>1. CASE schema = version[d]
    BY <1>0, <1>4, <2>1, StillFinds DEF Migrate, Goto
  <2>2. CASE schema # version[d]
    BY <1>0, <1>4, <2>2, StillFinds DEF Migrate, Goto
  <2> QED
    BY <2>1, <2>2
<1>5. CASE Recover(d)
  BY <1>0, <1>5, StillFinds DEF Recover, Goto
<1>6. CASE Listen(d)
  <2>1. CASE port = None
    BY <1>0, <1>6, <2>1, StillFinds DEF Listen, Goto
  <2>2. CASE port # None
    BY <1>0, <1>6, <2>2, StillFinds, PortIsRacers DEF Listen, Goto
  <2> QED
    BY <2>1, <2>2
<1>7. CASE ListenOnSocket(d)
  BY <1>0, <1>7, StillFinds DEF ListenOnSocket, Goto
<1>8. CASE Publish(d)
  <2>1. port = d /\ \A x \in Daemons \ {d} : pc[x] # "serving"
    BY <1>8 DEF Publish, PortIsLock, Holders
  <2> QED
    BY <1>0, <1>8, <2>1, StillFinds DEF Publish, Goto
<1>9. CASE Tick(d)
  BY <1>0, <1>9, StillFinds DEF Tick, Goto
<1>10. CASE RunEnds(d)
  BY <1>0, <1>10, StillFinds DEF RunEnds, daemonVars
<1>11. CASE \/ StopWork(d) \/ CloseListeners(d) \/ RemoveSocket(d) \/ RereadRecord(d)
            \/ RemoveOwnDiscovery(d)
  BY <1>11 DEF StopWork, CloseListeners, RemoveSocket, RereadRecord, RemoveOwnDiscovery
<1> QED
  BY <1>1, <1>2, <1>3, <1>4, <1>5, <1>6, <1>7, <1>8, <1>9, <1>10, <1>11 DEF DaemonSteps

\* A command's own step: the daemon it asks answers, so it starts no other and tries no port.
LEMMA CommandStillFinds ==
  ASSUME DaemonInvariant, Racing, Calm, Calm', NEW c \in Clis,
         Begin(c) \/ CliSteps(c) \/ LaunchctlFails(c) \/ Deadline(c),
         \A d \in Daemons : rec = d => pc[d] = "serving"
  PROVE  \A x \in Clis : Finds(x)'
<1>1. \A d \in Daemons : pc[d] = "serving" => pc'[d] = "serving" /\ port = d /\ d \notin hung
  BY StartsBegin DEF DaemonInvariant, PortIsLock, Holders, Racing
<1>2. \A x \in Clis \ {c} : Finds(x)'
  <2> SUFFICES ASSUME NEW x \in Clis \ {c}
               PROVE  Finds(x)'
    OBVIOUS
  <2>1. cpc'[x] = cpc[x] /\ info'[x] = info[x]
    BY OtherStepKeeps
  <2> QED
    BY <1>1, <2>1 DEF Racing, Finds
<1>3. Finds(c)'
  <2> USE <1>1 DEF DaemonInvariant, TypeOK, Racing, Finds
  <2>1. CASE Begin(c)
    BY <2>1 DEF Begin, CGoto, CliOnly
  <2>2. CASE Read(c)
    BY <2>2 DEF Read, CGoto
  <2>3. CASE Reached(c)
    BY <2>3 DEF Reached, CGoto
  <2>4. CASE Unreached(c)
    BY <2>4 DEF Unreached, Answers
  <2>5. CASE Classify(c) \/ TryPort(c) \/ FreePort(c)
    BY <2>5 DEF Classify, TryPort, FreePort
  <2>6. CASE Start(c)
    BY <2>6 DEF Start, CGoto
  <2>7. CASE Kick(c)
    BY <2>7 DEF Kick, CGoto
  <2>8. CASE Bootstrap(c)
    BY <2>8 DEF Bootstrap, CGoto
  <2>9. CASE Again(c)
    BY <2>9 DEF Again, CGoto
  <2>10. CASE LaunchctlFails(c)
    BY <2>10 DEF LaunchctlFails, CGoto
  <2>11. CASE Deadline(c)
    BY <2>11 DEF Deadline, CGoto
  <2> QED
    BY <2>1, <2>2, <2>3, <2>4, <2>5, <2>6, <2>7, <2>8, <2>9, <2>10, <2>11 DEF CliSteps
<1> QED
  BY <1>2, <1>3

\* Daemons that begin, and what happens beside the daemons, leave the race as it is.
LEMMA BeginningsKeepRace ==
  ASSUME DaemonInvariant, Racing,
         UNCHANGED <<rec, schema, saw, version, print, hung>>,
         \A d \in Daemons : pc'[d] = pc[d] \/ (pc[d] = "unborn" /\ pc'[d] = "probe"),
         \A c \in Clis : Finds(c)'
  PROVE  Racing'
  BY DEF DaemonInvariant, TypeOK, Racing, Advancing, Overtaken, SomebodyIsLeft, Migrated,
         Starting, Closing

\* Every step does.
LEMMA RaceKept ==
  ASSUME DaemonInvariant, TraceInvariant, Calm => Racing, [Next]_vars, Calm'
  PROVE  Racing'
<1>0. Calm /\ Racing
  BY CalmBefore
<1>1. \A d \in Daemons : rec = d => pc[d] = "serving"
  BY <1>0, DaemonAssumption DEF Calm, TraceInvariant, TracesAreOwned, Recorded, Racing,
     Advancing, Closing
<1>2. CASE \E d \in Daemons : DaemonSteps(d)
  BY <1>0, <1>2, DaemonStepsKeepRace
<1>3. ASSUME NEW d \in Daemons,
             \/ RunStarts(d) \/ Signal(d) \/ Crash(d) \/ Hang(d) \/ Wake(d) \/ StartByHand(d)
             \/ PublishFails(d)
      PROVE  Racing'
  <2>1. UNCHANGED <<rec, schema, saw, version, print, hung, cliVars>>
    BY <1>0, <1>3, CommandsUntouched
       DEF Calm, Racing, RunStarts, Signal, Crash, Hang, Wake, StartByHand, PublishFails, Fault,
           daemonVars,
           shared, bounds, DaemonInvariant, TypeOK
  <2>2. \A x \in Daemons : pc'[x] = pc[x] \/ (pc[x] = "unborn" /\ pc'[x] = "probe")
    BY <1>0, <1>3
       DEF Calm, Racing, RunStarts, Signal, Crash, Hang, Wake, StartByHand, PublishFails, Fault,
           daemonVars,
           Launch, Goto, DaemonInvariant, TypeOK
  <2> QED
    BY <1>0, <2>1, <2>2, StillFinds, BeginningsKeepRace
<1>4. CASE RecordRemoved \/ EditCheckout \/ FinishSetup
  <2>1. UNCHANGED <<rec, schema, cliVars, daemonVars>>
    BY <1>0, <1>4 DEF Calm, RecordRemoved, EditCheckout, FinishSetup, Fault
  <2> QED
    BY <1>0, <2>1, StillFinds, BeginningsKeepRace DEF daemonVars
<1>5. CASE Restart
  <2>1. UNCHANGED cliVars
    BY <1>5 DEF Restart
  <2> QED
    BY <1>0, <1>5, <2>1, StillFinds, StartsBegin, BeginningsKeepRace
<1>6. CASE \E c \in Clis : Begin(c) \/ CliSteps(c) \/ LaunchctlFails(c) \/ Deadline(c)
  BY <1>0, <1>1, <1>6, CommandStillFinds, StartsBegin, BeginningsKeepRace
<1>7. CASE UNCHANGED vars
  BY <1>0, <1>7, StillFinds, BeginningsKeepRace DEF vars, shared, daemonVars
<1> QED
  BY <1>2, <1>3, <1>4, <1>5, <1>6, <1>7 DEF Next, Act

\* RaceLeavesOne: a loser never takes the winner along. Any number of daemons may start at
\* once; when none is starting any more exactly one serves, on record, on the port and the socket.
THEOREM RaceIsDecided ==
  ASSUME ~InodeReused
  PROVE  Spec => []RaceLeavesOne
<1>1. Init => DaemonInvariant /\ TraceInvariant /\ (Calm => Racing)
  <2>1. Init => TraceInvariant
    BY DEF Init, TraceInvariant, SocketIsListened, TracesAreOwned, Published
  <2>2. Init => (Calm => Racing)
    BY DaemonAssumption DEF Init, Calm, Racing, Advancing, Overtaken, Finds, SomebodyIsLeft,
       Migrated, Closing
  <2> QED
    BY <2>1, <2>2, InvariantAtFirst
<1>2. DaemonInvariant /\ TraceInvariant /\ (Calm => Racing) /\ [Next]_vars
        => (DaemonInvariant /\ TraceInvariant /\ (Calm => Racing))'
  BY InvariantKept, TracesKept, RaceKept
<1>3. DaemonInvariant /\ TraceInvariant /\ (Calm => Racing) => RaceLeavesOne
  <2> SUFFICES ASSUME DaemonInvariant, TraceInvariant, Calm => Racing, Calm,
                      \E d \in Daemons : pc[d] # "unborn",
                      \A d \in Daemons : pc[d] \notin Starting
               PROVE  \E d \in Daemons : /\ pc[d] = "serving" /\ rec = d /\ port = d /\ sock = d
                                         /\ \A x \in Daemons \ {d} : pc[x] \in {"unborn", "dead"}
    BY DEF RaceLeavesOne, Calm
  <2>1. PICK d \in Daemons : pc[d] = "serving"
    BY DEF Racing, SomebodyIsLeft
  <2>2. rec = d /\ port = d /\ sock = d
    BY <2>1 DEF Racing, Advancing, DaemonInvariant, PortIsLock, Holders, TraceInvariant,
                SocketIsListened, Published
  <2>3. \A x \in Daemons \ {d} : pc[x] \in {"unborn", "dead"}
    BY <2>2 DEF Racing, Advancing, DaemonInvariant, TypeOK, Starting, Closing
  <2> QED
    BY <2>1, <2>2, <2>3
<1> QED
  BY <1>1, <1>2, <1>3, PTL DEF Spec

-----------------------------------------------------------------------------
(* A daemon serves a migrated database only.                               *)

\* Where a daemon is in its migrations. A version that is known is never unlearned, so what one
\* of them has reached the others have too.
MigratedFar(v, place) ==
  /\ place = "migrate" => v <= schema /\ schema <= Migrations
  /\ place \in {"listen", "look", "publish", "serving"} \cup Closing => schema = Migrations

MigratedInvariant == \A d \in Daemons : MigratedFar(version[d], pc[d])

\* Where nothing moves into a later place and no migration is made nothing is lost.
LEMMA StillMigrated ==
  ASSUME MigratedInvariant, UNCHANGED <<schema, version>>,
         \A d \in Daemons : \/ pc'[d] = pc[d] \/ pc'[d] \in {"unborn", "probe", "dead"}
                            \/ pc'[d] \in {"ask", "open"}
                            \/ /\ pc[d] \in {"listen", "look", "publish", "serving"} \cup Closing
                               /\ pc'[d] \in {"look", "publish", "serving"} \cup Closing
  PROVE  MigratedInvariant'
BY DEF MigratedInvariant, MigratedFar, Closing

\* Only the steps before the port is taken are about migrations.
LEMMA DaemonStepsKeepMigrated ==
  ASSUME DaemonInvariant, MigratedInvariant, NEW d \in Daemons, DaemonSteps(d)
  PROVE  MigratedInvariant'
<1> USE DaemonAssumption DEF DaemonInvariant, TypeOK, At, Goto, shared
<1>1. CASE OpenState(d)
  <2>1. /\ UNCHANGED schema
        /\ version' = [version EXCEPT ![d] = schema]
        /\ pc' = [pc EXCEPT ![d] = IF schema > Migrations THEN "dead" ELSE "migrate"]
    BY <1>1 DEF OpenState
  <2> QED
    BY <2>1 DEF MigratedInvariant, MigratedFar, Closing
<1>2. CASE Migrate(d)
  BY <1>2 DEF Migrate, MigratedInvariant, MigratedFar, Closing
<1>3. CASE Recover(d)
  BY <1>3 DEF Recover, MigratedInvariant, MigratedFar, Closing
<1>4. CASE ReadRecord(d) \/ AskRecorded(d)
  BY <1>4, StillMigrated DEF ReadRecord, AskRecorded
<1>5. CASE Listen(d) \/ ListenOnSocket(d) \/ Publish(d) \/ Tick(d)
  BY <1>5, StillMigrated DEF Listen, ListenOnSocket, Publish, Tick, Closing
<1>6. CASE RunEnds(d)
  BY <1>6, StillMigrated DEF RunEnds, daemonVars
<1>7. CASE StopWork(d) \/ CloseListeners(d) \/ RemoveSocket(d)
  BY <1>7, StillMigrated DEF StopWork, CloseListeners, RemoveSocket, Closing
<1>8. CASE RereadRecord(d) \/ RemoveOwnDiscovery(d)
  BY <1>8, StillMigrated DEF RereadRecord, RemoveOwnDiscovery, Closing
<1> QED
  BY <1>1, <1>2, <1>3, <1>4, <1>5, <1>6, <1>7, <1>8 DEF DaemonSteps

\* No other step migrates.
LEMMA MigratedKept ==
  ASSUME DaemonInvariant, MigratedInvariant, [Next]_vars
  PROVE  MigratedInvariant'
<1> USE DEF DaemonInvariant, TypeOK
<1>1. ASSUME NEW d \in Daemons, DaemonSteps(d)
      PROVE  MigratedInvariant'
  BY <1>1, DaemonStepsKeepMigrated
<1>2. ASSUME NEW d \in Daemons,
             \/ RunStarts(d) \/ Signal(d) \/ Crash(d) \/ Hang(d) \/ Wake(d) \/ StartByHand(d)
             \/ PublishFails(d)
      PROVE  MigratedInvariant'
  <2>1. UNCHANGED <<schema, version>>
    BY <1>2 DEF RunStarts, Signal, Crash, Hang, Wake, StartByHand, PublishFails, daemonVars, shared
  <2>2. \A x \in Daemons : x # d => pc'[x] = pc[x]
    BY <1>2 DEF RunStarts, Signal, Crash, Hang, Wake, StartByHand, PublishFails, daemonVars,
       Launch, Goto
  <2>3. \/ pc'[d] = pc[d] \/ pc'[d] \in {"probe", "dead"}
        \/ pc[d] \in {"publish", "serving"} /\ pc'[d] \in Closing
    BY <1>2 DEF RunStarts, Signal, Crash, Hang, Wake, StartByHand, PublishFails, daemonVars,
       Launch, Goto, At, Closing
  <2> QED
    BY <2>1, <2>2, <2>3, StillMigrated
<1>3. CASE RecordRemoved \/ EditCheckout \/ FinishSetup
  BY <1>3, StillMigrated DEF RecordRemoved, EditCheckout, FinishSetup, daemonVars
<1>4. CASE \/ Restart
           \/ \E c \in Clis : Begin(c) \/ CliSteps(c) \/ LaunchctlFails(c) \/ Deadline(c)
  BY <1>4, StartsBegin, StillMigrated
<1>5. CASE UNCHANGED vars
  BY <1>5, StillMigrated DEF vars, shared, daemonVars
<1> QED
  BY <1>1, <1>2, <1>3, <1>4, <1>5 DEF Next, Act

\* ServesMigrated: any number of daemons may migrate one database at once and crash at any point;
\* none listens or serves before the database knows every migration of its build.
THEOREM OnlyMigratedServe == Spec => []ServesMigrated
<1>1. Init => DaemonInvariant /\ MigratedInvariant
  BY InvariantAtFirst DEF Init, MigratedInvariant, MigratedFar, Closing
<1>2. DaemonInvariant /\ MigratedInvariant /\ [Next]_vars => DaemonInvariant' /\ MigratedInvariant'
  BY InvariantKept, MigratedKept
<1>3. MigratedInvariant => ServesMigrated
  BY DEF MigratedInvariant, MigratedFar, ServesMigrated
<1> QED
  BY <1>1, <1>2, <1>3, PTL DEF Spec
=============================================================================
