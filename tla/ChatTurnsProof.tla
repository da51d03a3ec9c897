--------------------------- MODULE ChatTurnsProof ---------------------------
(***************************************************************************)
(* Theorems about ChatTurns, for any number of turns, loads and requests.  *)
(***************************************************************************)
EXTENDS ChatTurns, TLAPS

-----------------------------------------------------------------------------
(* Types.                                                                  *)

\* What TypeOK says of the turn and of the ids given out.
TurnTyped ==
  /\ turn \in TurnStates
  /\ (turn.id = NoTurn) <=> (turn.stage = "none")
  /\ used \in 0 .. MaxTurns /\ turn.id <= used

\* A reader ends in one of its states whatever comes.
LEMMA ReaderType ==
  ASSUME NEW r, NEW e
  PROVE  ReaderAfter(r, e) \in {"first", "middle", "terminal", "broken"}
  BY DEF ReaderAfter

\* A turn that begins is the next one.
LEMMA SendTypes ==
  ASSUME TypeOK, Send
  PROVE  TurnTyped'
<1>1. /\ turn' = [id |-> used + 1, stage |-> "creating", session |-> FALSE, cancel |-> FALSE,
               abort |-> FALSE, outcome |-> "none"]
      /\ used' = used + 1 /\ used < MaxTurns
  BY DEF Send, Idle
<1>2. used + 1 \in 1 .. MaxTurns
  BY <1>1, ChatAssumption DEF TypeOK
<1> QED
  BY <1>1, <1>2 DEF TurnTyped, TurnStates, Turns, NoTurn

\* Steps of the chat service keep the types.
LEMMA ServiceTypes ==
  ASSUME TypeOK, OtherSends \/ CreateSession \/ RefuseSession \/ RefusePrompt \/ Refused \/
         Accept \/ UserMessage \/ Delta \/ Release \/ OtherCancels \/ Rename \/ Archive \/ Stop
         \/ Stopped
  PROVE  TypeOK'
<1> USE ChatAssumption
    DEF Turns, NoTurn, serviceVars, sandboxVars, pageVars, bounds
<1>1. CASE OtherSends
  <2>1. TurnTyped'
    BY <1>1, SendTypes DEF OtherSends
  <2> QED
    BY <1>1, <2>1 DEF OtherSends, Send, TypeOK, TurnTyped
<1>2. CASE CreateSession
  <2>1. TurnTyped'
    BY <1>2 DEF CreateSession, At, TypeOK, Running, TurnTyped, TurnStates
  <2> QED
    BY <1>2, <2>1 DEF CreateSession, At, TypeOK, TurnTyped
<1>3. CASE RefuseSession
  <2>1. CASE turn' = Idle
    BY <1>3, <2>1 DEF RefuseSession, TypeOK, TurnStates, Idle
  <2>2. CASE Stage("refusing")
    <3>1. TurnTyped'
      BY <1>3, <2>2 DEF RefuseSession, At, Stage, TypeOK, TurnTyped, TurnStates
    <3> QED
      BY <1>3, <3>1 DEF RefuseSession, TypeOK, TurnTyped
  <2> QED
    BY <1>3, <2>1, <2>2 DEF RefuseSession
<1>4. CASE RefusePrompt
  <2>1. TurnTyped'
    BY <1>4 DEF RefusePrompt, At, Stage, TypeOK, Running, TurnTyped, TurnStates
  <2> QED
    BY <1>4, <2>1 DEF RefusePrompt, At, Stage, TypeOK, TurnTyped
<1>5. CASE Refused
  <2>1. TurnTyped'
    BY <1>5 DEF Refused, At, Idle, TypeOK, Running, TurnTyped, TurnStates
  <2> QED
    BY <1>5, <2>1 DEF Refused, At, Idle, TypeOK, TurnTyped
<1>6. CASE Accept
  <2>1. TurnTyped'
    BY <1>6 DEF Accept, At, Emit, TypeOK, Running, TurnTyped, TurnStates
  <2>2. reply' \in [Turns -> Readers]
    BY <1>6, ReaderType DEF Accept, At, Emit, TypeOK, Running, Readers
  <2> QED
    BY <1>6, <2>1, <2>2 DEF Accept, At, Emit, TypeOK, TurnTyped
<1>7. CASE UserMessage
  <2>1. announced' \in 0 .. MaxEvents
    BY <1>7 DEF UserMessage, Changed, TypeOK
  <2>2. stored' \in [Turns -> StoredEnds]
    BY <1>7 DEF UserMessage, TypeOK, StoredEnds
  <2> QED
    BY <1>7, <2>1, <2>2 DEF UserMessage, TypeOK
<1>8. CASE Delta
  <2>1. reply' \in [Turns -> Readers]
    BY <1>8, ReaderType DEF Delta, At, Emit, TypeOK, Running, Readers
  <2> QED
    BY <1>8, <2>1 DEF Delta, At, Emit, TypeOK
<1>9. CASE Release
  <2>1. turn.id \in Turns /\ turn.outcome \in {"none", "completed", "cancelled", "failed"}
    BY <1>9 DEF Release, At, TypeOK, TurnStates
  <2>2. TurnTyped'
    BY <1>9 DEF Release, Idle, TypeOK, TurnTyped, TurnStates
  <2>3. reply' \in [Turns -> Readers]
    BY <1>9, <2>1, ReaderType DEF Release, TypeOK, Readers
  <2>4. announced' \in 0 .. MaxEvents
    BY <1>9 DEF Release, Changed, TypeOK
  <2>5. status' \in [Turns -> {"none", "completed", "cancelled", "failed"}]
    BY <1>9, <2>1 DEF Release, TypeOK
  <2> QED
    BY <1>9, <2>2, <2>3, <2>4, <2>5 DEF Release, TypeOK, TurnTyped
<1>10. CASE OtherCancels
  <2>1. TurnTyped'
    BY <1>10 DEF OtherCancels, Cancel, CancelTurn, TypeOK, Running, TurnTyped, TurnStates
  <2> QED
    BY <1>10, <2>1 DEF OtherCancels, Cancel, CancelTurn, TypeOK, TurnTyped
<1>11. CASE Rename
  BY <1>11 DEF Rename, Changed, PageOpen, TypeOK
<1>12. CASE Archive
  <2>1. announced' \in 0 .. MaxEvents
    BY <1>12 DEF Archive, Changed, TypeOK
  <2>2. stored' \in [Turns -> StoredEnds]
    BY <1>12 DEF Archive, TypeOK, StoredEnds
  <2> QED
    BY <1>12, <2>1, <2>2 DEF Archive, TypeOK
<1>13. CASE Stop
  <2>1. TurnTyped'
    BY <1>13 DEF Stop, CancelTurn, TypeOK, Running, TurnTyped, TurnStates
  <2>2. run' \in RunStates
    <3>1. OtherChatRuns \in BOOLEAN
      BY DEF OtherChatRuns
    <3> QED
      BY <1>13, <3>1 DEF Stop, TypeOK, RunStates
  <2> QED
    BY <1>13, <2>1, <2>2 DEF Stop, CancelTurn, TypeOK, TurnTyped
<1>14. CASE Stopped
  BY <1>14 DEF Stopped, TypeOK
<1> QED
  BY <1>1, <1>2, <1>3, <1>4, <1>5, <1>6, <1>7, <1>8, <1>9, <1>10, <1>11, <1>12, <1>13, <1>14

\* Steps of the scheduled run do.
LEMMA RunTypes ==
  ASSUME TypeOK, RunStarts \/ RunPrompts \/ RunGivesUp \/ RunSettles \/ RunDisposed \/ RunAborted
  PROVE  TypeOK'
<1> USE ChatAssumption
    DEF Turns, NoTurn, serviceVars, sandboxVars, pageVars, bounds
<1>1. CASE RunStarts
  <2>1. run' \in RunStates
    BY <1>1 DEF RunStarts, RunStep, TypeOK, Running, RunStates
  <2> QED
    BY <1>1, <2>1 DEF RunStarts, RunStep, TypeOK
<1>2. CASE RunPrompts
  <2>1. run' \in RunStates
    BY <1>2 DEF RunPrompts, RunStep, TypeOK, Running, RunStates
  <2> QED
    BY <1>2, <2>1 DEF RunPrompts, RunStep, TypeOK
<1>3. CASE RunGivesUp
  <2>1. run' \in RunStates
    BY <1>3 DEF RunGivesUp, RunStep, TypeOK, Running, RunStates
  <2> QED
    BY <1>3, <2>1 DEF RunGivesUp, RunStep, TypeOK
<1>4. CASE RunSettles
  <2>1. run' \in RunStates
    BY <1>4 DEF RunSettles, RunStep, TypeOK, Running, RunStates
  <2> QED
    BY <1>4, <2>1 DEF RunSettles, RunStep, TypeOK
<1>5. CASE RunDisposed
  <2>1. run' \in RunStates
    BY <1>5 DEF RunDisposed, RunStep, TypeOK, Running, RunStates
  <2> QED
    BY <1>5, <2>1 DEF RunDisposed, RunStep, TypeOK
<1>6. CASE RunAborted
  <2>1. run' \in RunStates
    BY <1>6 DEF RunAborted, TypeOK, Running, RunStates
  <2> QED
    BY <1>6, <2>1 DEF RunAborted, TypeOK
<1> QED
  BY <1>1, <1>2, <1>3, <1>4, <1>5, <1>6

\* Steps of the page do.
LEMMA PageTypes ==
  ASSUME TypeOK, Submit \/ MessageArrives \/ MessageRefused \/ ReplyStarts \/ ReplyEnds \/
         ReplyCut \/ EventArrives \/ Resync \/ PageStops \/ PageStopFails
  PROVE  TypeOK'
<1> USE ChatAssumption
    DEF Turns, NoTurn, serviceVars, sandboxVars, pageVars, bounds
<1>1. CASE Submit
  <2>1. page' \in PageStates
    BY <1>1 DEF Submit, PageOnly, TypeOK, Running, PageStates
  <2> QED
    BY <1>1, <2>1 DEF Submit, PageOnly, TypeOK
<1>2. CASE MessageArrives
  <2>1. TurnTyped'
    BY <1>2, SendTypes DEF MessageArrives, TypeOK, TurnTyped
  <2>2. page' \in PageStates
    <3>0. page \in PageStates
      BY DEF TypeOK
    <3>1. CASE MayStart /\ used < MaxTurns
      <4>1. used + 1 \in 1 .. MaxTurns
        BY <3>1 DEF TypeOK
      <4>2. page' = [page EXCEPT !.own = used + 1]
        BY <1>2, <3>1 DEF MessageArrives
      <4> QED
        BY <3>0, <4>1, <4>2 DEF PageStates
    <3>2. CASE ~(MayStart /\ used < MaxTurns)
      <4>1. page' = [page EXCEPT !.status = "ready"]
        BY <1>2, <3>2 DEF MessageArrives
      <4> QED
        BY <3>0, <4>1 DEF PageStates
    <3> QED
      BY <3>1, <3>2
  <2> QED
    BY <1>2, <2>1, <2>2 DEF MessageArrives, Send, TypeOK, TurnTyped
<1>3. CASE MessageRefused
  <2>1. page' \in PageStates
    BY <1>3 DEF MessageRefused, OwnOver, PageOnly, TypeOK, Running, PageStates
  <2> QED
    BY <1>3, <2>1 DEF MessageRefused, OwnOver, PageOnly, TypeOK
<1>4. CASE ReplyStarts
  <2>1. page' \in PageStates
    BY <1>4 DEF ReplyStarts, PageOnly, TypeOK, Running, PageStates
  <2> QED
    BY <1>4, <2>1 DEF ReplyStarts, PageOnly, TypeOK
<1>5. CASE ReplyEnds
  <2>1. page' \in PageStates
    BY <1>5 DEF ReplyEnds, OwnOver, PageOnly, TypeOK, Running, PageStates
  <2> QED
    BY <1>5, <2>1 DEF ReplyEnds, OwnOver, PageOnly, TypeOK
<1>6. CASE ReplyCut
  <2>1. page' \in PageStates
    BY <1>6 DEF ReplyCut, OwnOver, PageOnly, TypeOK, Running, PageStates
  <2> QED
    BY <1>6, <2>1 DEF ReplyCut, OwnOver, PageOnly, TypeOK
<1>7. CASE EventArrives
  <2>1. announced' \in 0 .. MaxEvents
    BY <1>7 DEF EventArrives, Delivered, TypeOK
  <2>2. loads' = loads \/ \E s \in Slots : Fetch(s)
    BY <1>7 DEF EventArrives
  <2>3. loads \in [Slots -> LoadStates]
    BY DEF TypeOK
  <2>4. loads' \in [Slots -> LoadStates]
    BY <2>2, <2>3 DEF Fetch, LoadStates
  <2> QED
    BY <1>7, <2>1, <2>4 DEF EventArrives, PageOnly, TypeOK
<1>8. CASE Resync
  <2>1. loads' \in [Slots -> LoadStates]
    BY <1>8 DEF Resync, Fetch, PageOnly, TypeOK, Running, LoadStates, NoLoad
  <2> QED
    BY <1>8, <2>1 DEF Resync, Fetch, PageOnly, TypeOK
<1>9. CASE PageStops
  <2>1. TurnTyped'
    BY <1>9 DEF PageStops, Cancel, CancelTurn, TypeOK, Running, TurnTyped, TurnStates
  <2> QED
    BY <1>9, <2>1 DEF PageStops, Cancel, CancelTurn, TypeOK, TurnTyped
<1>10. CASE PageStopFails
  <2>1. TurnTyped'
    BY <1>10 DEF PageStopFails, Cancel, CancelTurn, TypeOK, Running, TurnTyped, TurnStates
  <2>2. page' \in PageStates
    <3>1. page \in PageStates /\ page' \in {OwnOver, page}
      BY <1>10 DEF PageStopFails, TypeOK
    <3> QED
      BY <3>1 DEF OwnOver, PageStates
  <2>3. loads' \in [Slots -> LoadStates]
    <3>1. loads \in [Slots -> LoadStates] /\ \E s \in Slots : Fetch(s)
      BY <1>10 DEF PageStopFails, TypeOK
    <3> QED
      BY <3>1 DEF Fetch, LoadStates
  <2> QED
    BY <1>10, <2>1, <2>2, <2>3 DEF PageStopFails, TypeOK, TurnTyped
<1> QED
  BY <1>1, <1>2, <1>3, <1>4, <1>5, <1>6, <1>7, <1>8, <1>9, <1>10

\* What Pi stores of an end.
LEMMA StoreEndTypes ==
  ASSUME TypeOK, NEW end \in Ends, StoreEnd(end)
  PROVE  stored' \in [Turns -> StoredEnds] /\ filed' \in BOOLEAN
  BY DEF StoreEnd, Ends, TypeOK, StoredEnds

\* The end of the process does.
LEMMA DeathTypes ==
  ASSUME TypeOK, Dies
  PROVE  TypeOK'
<1> USE ChatAssumption DEF Turns, NoTurn
<1>1. TurnTyped'
  BY DEF Dies, Idle, TypeOK, TurnTyped, TurnStates
<1>2. stored' \in [Turns -> StoredEnds] /\ filed' \in BOOLEAN
  BY StoreEndTypes DEF Dies, Throws, TypeOK
<1>3. run' \in RunStates
  BY DEF Dies, TypeOK, RunStates
<1>4. page' \in PageStates
  BY DEF Dies, OwnOver, TypeOK, PageStates
<1>5. loads' \in [Slots -> LoadStates]
  <2>1. NoLoad \in LoadStates /\ [NoLoad EXCEPT !.stage = "asked"] \in LoadStates
    BY DEF NoLoad, LoadStates
  <2> QED
    BY <2>1 DEF Dies
<1>6. queue' \in Seq(Actors) /\ cmd' \in [Actors -> {"none", "queued", "spawned", "killing"}]
  BY DEF Dies
<1>7. announced' \in 0 .. MaxEvents /\ other' \in 0 .. MaxOther /\ deaths' \in 0 .. other'
  BY DEF Dies, TypeOK
<1> QED
  BY <1>1, <1>2, <1>3, <1>4, <1>5, <1>6, <1>7 DEF Dies, TypeOK, TurnTyped

\* The end of a prompt does, and what a load of the page or a command does.
LEMMA OtherTypes ==
  ASSUME TypeOK,
         \/ \E end \in Ends : Settle(end)
         \/ \E s \in Slots : LoadReads(s) \/ LoadSummary(s) \/ Adopt(s)
         \/ \E a \in Actors : RunCommand(a) \/ Spawn(a) \/ Kill(a)
                             \/ (queue # <<>> /\ CommandEnds(a))
  PROVE  TypeOK'
<1> USE ChatAssumption
    DEF Turns, NoTurn, serviceVars, sandboxVars, pageVars, bounds
<1>1. ASSUME NEW end \in Ends, Settle(end)
      PROVE  TypeOK'
  <2>1. Outcome(end, turn.cancel) \in {"completed", "cancelled", "failed"}
    BY <1>1 DEF Outcome, Finished
  <2>2. TurnTyped'
    BY <1>1, <2>1 DEF Settle, At, TypeOK, TurnTyped, TurnStates
  <2>3. turn.id \in Turns
    BY <1>1 DEF Settle, At, TypeOK, TurnStates
  <2>4. /\ stored' \in [Turns -> StoredEnds] /\ filed' \in BOOLEAN
        /\ marked' \subseteq Turns
    BY <1>1, <2>3, StoreEndTypes DEF Settle, TypeOK
  <2> QED
    BY <1>1, <2>2, <2>4 DEF Settle, TypeOK, TurnTyped
<1>2. ASSUME NEW s \in Slots, LoadReads(s)
      PROVE  TypeOK'
  <2>1. loads' \in [Slots -> LoadStates]
    BY <1>2 DEF LoadReads, TypeOK, LoadStates, TurnStates
  <2> QED
    BY <1>2, <2>1 DEF LoadReads, PageOnly, TypeOK
<1>3. ASSUME NEW s \in Slots, LoadSummary(s)
      PROVE  TypeOK'
  <2>1. loads' \in [Slots -> LoadStates]
    BY <1>3 DEF LoadSummary, TypeOK, LoadStates, NoLoad, Running
  <2> QED
    BY <1>3, <2>1 DEF LoadSummary, PageOnly, TypeOK
<1>4. ASSUME NEW s \in Slots, Adopt(s)
      PROVE  TypeOK'
  <2>1. loads' \in [Slots -> LoadStates]
    BY <1>4 DEF Adopt, TypeOK, LoadStates, NoLoad
  <2>2. page' \in PageStates
    BY <1>4 DEF Adopt, TypeOK, PageStates, LoadStates
  <2> QED
    BY <1>4, <2>1, <2>2 DEF Adopt, PageOnly, TypeOK
<1>5. ASSUME NEW a \in Actors, RunCommand(a)
      PROVE  TypeOK'
  BY <1>5 DEF RunCommand, TypeOK
<1>6. ASSUME NEW a \in Actors, Spawn(a) \/ Kill(a)
      PROVE  TypeOK'
  BY <1>6 DEF Spawn, Kill, TypeOK
<1>7. ASSUME NEW a \in Actors, CommandEnds(a), queue # <<>>
      PROVE  TypeOK'
  <2>1. Tail(queue) \in Seq(Actors)
    BY <1>7 DEF TypeOK
  <2> QED
    BY <1>7, <2>1 DEF CommandEnds, TypeOK
<1> QED
  BY <1>1, <1>2, <1>3, <1>4, <1>5, <1>6, <1>7

-----------------------------------------------------------------------------
(* The sandbox's queue.                                                    *)

\* serialized: an actor is queued once while it has a command, and a command that runs is the
\* first of the queue.
QueueIsSerial ==
  /\ \A a \in Actors : cmd[a] # "none" <=> \E i \in 1 .. Len(queue) : queue[i] = a
  /\ \A i, j \in 1 .. Len(queue) : queue[i] = queue[j] => i = j
  /\ \A a \in Actors : cmd[a] \in {"spawned", "killing"} => queue # <<>> /\ queue[1] = a

\* A command that is asked for joins the end of the queue.
LEMMA RunCommandKeepsSerial ==
  ASSUME TypeOK, QueueIsSerial, NEW a \in Actors, RunCommand(a)
  PROVE  QueueIsSerial'
<1>1. /\ Len(queue') = Len(queue) + 1 /\ queue'[Len(queue) + 1] = a
      /\ \A i \in 1 .. Len(queue) : queue'[i] = queue[i]
      /\ Len(queue) \in Nat /\ queue' # <<>>
  <2>1. queue' = Append(queue, a) /\ queue \in Seq(Actors)
    BY DEF RunCommand, TypeOK
  <2> QED
    BY <2>1
<1>2. /\ cmd[a] = "none" /\ cmd'[a] = "queued"
      /\ \A b \in Actors : b # a => cmd'[b] = cmd[b]
  BY DEF RunCommand, TypeOK
<1>3. \A i \in 1 .. Len(queue) : queue[i] # a
  BY <1>2 DEF QueueIsSerial
<1>4. ASSUME NEW b \in Actors
      PROVE  cmd'[b] # "none" <=> \E i \in 1 .. Len(queue') : queue'[i] = b
  <2>1. CASE b = a
    BY <1>1, <1>2, <2>1
  <2>2. CASE b # a
    BY <1>1, <1>2, <2>2 DEF QueueIsSerial
  <2> QED
    BY <2>1, <2>2
<1>5. ASSUME NEW i \in 1 .. Len(queue'), NEW j \in 1 .. Len(queue'), queue'[i] = queue'[j]
      PROVE  i = j
  BY <1>1, <1>3, <1>5 DEF QueueIsSerial
<1>6. ASSUME NEW b \in Actors, cmd'[b] \in {"spawned", "killing"}
      PROVE  queue'[1] = b
  <2>1. b # a /\ queue # <<>> /\ queue[1] = b
    BY <1>2, <1>6 DEF QueueIsSerial
  <2>2. 1 \in 1 .. Len(queue)
    BY <2>1 DEF TypeOK
  <2> QED
    BY <1>1, <2>1, <2>2
<1> QED
  BY <1>1, <1>4, <1>5, <1>6 DEF QueueIsSerial

\* The first of the queue runs, and is killed, where it stands.
LEMMA SpawnKeepsSerial ==
  ASSUME TypeOK, QueueIsSerial, NEW a \in Actors, Spawn(a) \/ Kill(a)
  PROVE  QueueIsSerial'
<1>1. /\ queue' = queue /\ queue # <<>> /\ queue[1] = a
      /\ cmd[a] # "none" /\ cmd'[a] # "none"
      /\ \A b \in Actors : b # a => cmd'[b] = cmd[b]
  BY DEF Spawn, Kill, TypeOK, QueueIsSerial
<1> QED
  BY <1>1 DEF QueueIsSerial

\* A command that ends leaves the queue to the next one.
LEMMA CommandEndsKeepsSerial ==
  ASSUME TypeOK, QueueIsSerial, NEW a \in Actors, GraceOver(a) \/ CommandExits(a)
  PROVE  QueueIsSerial' /\ queue # <<>> /\ CommandEnds(a)
<1>1. CommandEnds(a) /\ cmd[a] \in {"spawned", "killing"}
  BY DEF GraceOver, CommandExits
<1>2. queue # <<>> /\ queue[1] = a
  BY <1>1 DEF QueueIsSerial
<1>3. /\ Len(queue) \in Nat /\ Len(queue) > 0 /\ Len(queue') = Len(queue) - 1
      /\ \A i \in 1 .. Len(queue') : queue'[i] = queue[i + 1]
  BY <1>1, <1>2 DEF CommandEnds, TypeOK
<1>4. cmd'[a] = "none" /\ \A b \in Actors : b # a => cmd'[b] = cmd[b]
  BY <1>1 DEF CommandEnds, TypeOK
<1>5. \A i \in 2 .. Len(queue) : queue[i] # a
  BY <1>2, <1>3 DEF QueueIsSerial
<1>6. ASSUME NEW b \in Actors
      PROVE  cmd'[b] # "none" <=> \E i \in 1 .. Len(queue') : queue'[i] = b
  <2>1. CASE b = a
    <3>1. \A i \in 1 .. Len(queue') : i + 1 \in 2 .. Len(queue)
      BY <1>3
    <3> QED
      BY <1>3, <1>4, <1>5, <2>1, <3>1
  <2>2. CASE b # a /\ cmd[b] # "none"
    <3>1. PICK i \in 1 .. Len(queue) : queue[i] = b
      BY <2>2 DEF QueueIsSerial
    <3>2. i - 1 \in 1 .. Len(queue') /\ (i - 1) + 1 = i
      BY <1>2, <1>3, <2>2, <3>1
    <3>3. queue'[i - 1] = b
      BY <1>3, <3>1, <3>2
    <3> QED
      BY <1>4, <2>2, <3>2, <3>3
  <2>3. CASE b # a /\ cmd[b] = "none"
    <3>1. \A i \in 1 .. Len(queue) : queue[i] # b
      BY <2>3 DEF QueueIsSerial
    <3>2. \A i \in 1 .. Len(queue') : i + 1 \in 1 .. Len(queue)
      BY <1>3
    <3> QED
      BY <1>3, <1>4, <2>3, <3>1, <3>2
  <2> QED
    BY <2>1, <2>2, <2>3
<1>7. ASSUME NEW i \in 1 .. Len(queue'), NEW j \in 1 .. Len(queue'), queue'[i] = queue'[j]
      PROVE  i = j
  <2>1. i + 1 \in 1 .. Len(queue) /\ j + 1 \in 1 .. Len(queue) /\ queue[i + 1] = queue[j + 1]
    BY <1>3, <1>7
  <2>2. i + 1 = j + 1
    BY <2>1 DEF QueueIsSerial
  <2> QED
    BY <1>3, <2>2
<1>8. ASSUME NEW b \in Actors
      PROVE  cmd'[b] \notin {"spawned", "killing"}
  BY <1>2, <1>4 DEF QueueIsSerial
<1> QED
  BY <1>1, <1>2, <1>6, <1>7, <1>8 DEF QueueIsSerial

-----------------------------------------------------------------------------
(* A turn, its stream and its transcript.                                  *)

\* What has not been sent has left no trace.
UnsentIsFresh ==
  \A t \in Turns : t > used =>
    reply[t].reader = "first" /\ status[t] = "none" /\ t \notin marked

\* The reader of a turn's stream is where the turn is.
ReaderKeepsUp ==
  Running => reply[turn.id].reader =
               IF turn.stage \in {"running", "releasing"} THEN "middle" ELSE "first"

\* A turn that runs has told nothing of its end, which its transcript already holds once it is
\* being released.
EndIsTold ==
  Running =>
    /\ status[turn.id] = "none"
    /\ turn.stage # "releasing" => turn.id \notin marked
    /\ turn.stage = "releasing" =>
         /\ turn.outcome # "none"
         /\ stored[turn.id] \notin Unspoken => Projected(turn.id) = turn.outcome

TurnInvariant ==
  UnsentIsFresh /\ RepliesAreWhole /\ ReaderKeepsUp /\ TranscriptAgrees /\ EndIsTold

\* Commands belong to a turn that Pi runs, and a stopped service has no turn.
StopInvariant ==
  /\ cmd["chat"] # "none" => turn.stage = "running"
  /\ cmd["run"] # "none" => run.stage = "prompting"
  /\ stopping = "done" => ~Running /\ ~OtherChatRuns

ChatInvariant == TypeOK /\ QueueIsSerial /\ TurnInvariant /\ StopInvariant

\* The order of events the parser asks for.
LEMMA ReaderOrder ==
  /\ ReaderAfter("first", "started") = "middle"
  /\ ReaderAfter("middle", "delta") = "middle"
  /\ ReaderAfter("middle", "finished") = "terminal"
  BY DEF ReaderAfter

\* Only where a turn is, its stream and its transcript count.
LEMMA TurnFrame ==
  ASSUME TypeOK, TurnInvariant, UNCHANGED <<used, stored, marked, reply, status>>,
         turn'.id = turn.id, turn'.stage = turn.stage, turn'.outcome = turn.outcome
  PROVE  TurnInvariant'
<1>1. \A t \in Turns : Projected(t)' = Projected(t)
  BY DEF Projected
<1>2. (UnsentIsFresh /\ RepliesAreWhole /\ ReaderKeepsUp)'
  BY DEF TurnInvariant, UnsentIsFresh, RepliesAreWhole, ReaderKeepsUp, Running
<1>3. TranscriptAgrees'
  BY <1>1 DEF TurnInvariant, TranscriptAgrees
<1>4. turn.id # NoTurn => turn.id \in Turns
  BY DEF TypeOK, TurnStates
<1>5. EndIsTold'
  BY <1>1, <1>4 DEF TurnInvariant, EndIsTold, Running
<1> QED
  BY <1>2, <1>3, <1>5 DEF TurnInvariant

\* A stage of a turn before Pi runs it, or the turn's end before that.
LEMMA EarlyStages ==
  ASSUME TypeOK, TurnInvariant, UNCHANGED <<used, stored, marked, reply, status>>,
         turn.stage \in {"creating", "preflight", "refusing"},
         \/ turn' = Idle
         \/ turn'.id = turn.id /\ turn'.stage \in {"creating", "preflight", "refusing"}
  PROVE  TurnInvariant'
<1>1. \A t \in Turns : Projected(t)' = Projected(t)
  BY DEF Projected
<1>2. (UnsentIsFresh /\ RepliesAreWhole /\ ReaderKeepsUp)'
  BY DEF TurnInvariant, UnsentIsFresh, RepliesAreWhole, ReaderKeepsUp, Running, Idle
<1>3. TranscriptAgrees'
  BY <1>1 DEF TurnInvariant, TranscriptAgrees
<1>4. EndIsTold'
  BY DEF TurnInvariant, EndIsTold, Running, Idle
<1> QED
  BY <1>2, <1>3, <1>4 DEF TurnInvariant

\* A message that is taken begins a turn without a trace.
LEMMA SendKeepsTurns ==
  ASSUME TypeOK, TurnInvariant, Send
  PROVE  TurnInvariant'
<1>1. /\ turn'.id = used + 1 /\ turn'.stage = "creating" /\ used' = used + 1
      /\ used < MaxTurns /\ UNCHANGED <<stored, marked, reply, status>>
  BY DEF Send, Idle
<1>2. used + 1 \in Turns /\ used + 1 > used
  BY <1>1, ChatAssumption DEF TypeOK, Turns
<1>3. reply[used + 1].reader = "first" /\ status[used + 1] = "none" /\ used + 1 \notin marked
  BY <1>2 DEF TurnInvariant, UnsentIsFresh
<1>4. \A t \in Turns : Projected(t)' = Projected(t)
  BY <1>1 DEF Projected
<1>5. (UnsentIsFresh /\ RepliesAreWhole)'
  BY <1>1 DEF TurnInvariant, UnsentIsFresh, RepliesAreWhole, TypeOK, Turns
<1>6. (ReaderKeepsUp /\ EndIsTold)'
  BY <1>1, <1>3 DEF ReaderKeepsUp, EndIsTold
<1>7. TranscriptAgrees'
  BY <1>1, <1>4 DEF TurnInvariant, TranscriptAgrees
<1> QED
  BY <1>5, <1>6, <1>7 DEF TurnInvariant

\* The turn that runs is one of those sent.
LEMMA RunningTurn ==
  ASSUME TypeOK, turn.stage # "none"
  PROVE  turn.id \in Turns /\ turn.id <= used /\ Running
  BY DEF TypeOK, TurnStates, Running

\* turn.started and the events after it come in their order.
LEMMA EventsKeepTurns ==
  ASSUME TypeOK, TurnInvariant, Accept \/ Delta
  PROVE  TurnInvariant'
<1>1. /\ turn.id \in Turns /\ turn.id <= used /\ Running
      /\ turn.stage \in {"preflight", "running"}
  BY RunningTurn DEF Accept, Delta, At
<1>2. /\ UNCHANGED <<used, stored, marked, status>>
      /\ turn'.id = turn.id /\ turn'.stage = "running"
  BY DEF Accept, Delta, At, TypeOK, TurnStates
<1>3. /\ reply'[turn.id].reader = "middle" /\ reply'[turn.id].ended = reply[turn.id].ended
      /\ \A t \in Turns : t # turn.id => reply'[t] = reply[t]
  <2>1. CASE Accept
    BY <1>1, <2>1, ReaderOrder DEF Accept, At, Emit, TurnInvariant, ReaderKeepsUp, TypeOK, Readers
  <2>2. CASE Delta
    BY <1>1, <2>2, ReaderOrder DEF Delta, At, Emit, TurnInvariant, ReaderKeepsUp, TypeOK, Readers
  <2> QED
    BY <2>1, <2>2
<1>4. ~reply[turn.id].ended /\ status[turn.id] = "none" /\ turn.id \notin marked
  BY <1>1 DEF TurnInvariant, ReaderKeepsUp, RepliesAreWhole, EndIsTold
<1>5. \A t \in Turns : Projected(t)' = Projected(t)
  BY <1>2 DEF Projected
<1>6. UnsentIsFresh'
  BY <1>1, <1>2, <1>3 DEF TurnInvariant, UnsentIsFresh, TypeOK, Turns
<1>7. RepliesAreWhole'
  BY <1>2, <1>3, <1>4 DEF TurnInvariant, RepliesAreWhole
<1>8. (ReaderKeepsUp /\ EndIsTold)'
  BY <1>2, <1>3, <1>4 DEF ReaderKeepsUp, EndIsTold
<1>9. TranscriptAgrees'
  BY <1>2, <1>5 DEF TurnInvariant, TranscriptAgrees
<1> QED
  BY <1>6, <1>7, <1>8, <1>9 DEF TurnInvariant

\* A user message is stored for a turn of which nothing has been told.
LEMMA UserMessageKeepsTurns ==
  ASSUME TypeOK, TurnInvariant, UserMessage
  PROVE  TurnInvariant'
<1>1. turn.id \in Turns /\ Running /\ turn.stage = "running"
  BY RunningTurn DEF UserMessage, At
<1>2. /\ UNCHANGED <<turn, used, marked, reply, status>>
      /\ \A t \in Turns : t # turn.id => stored'[t] = stored[t]
  BY DEF UserMessage, TypeOK
<1>3. (UnsentIsFresh /\ RepliesAreWhole /\ ReaderKeepsUp)'
  BY <1>2 DEF TurnInvariant, UnsentIsFresh, RepliesAreWhole, ReaderKeepsUp, Running
<1>4. EndIsTold'
  BY <1>1, <1>2 DEF TurnInvariant, EndIsTold, Running
<1>5. \A t \in Turns : t # turn.id => Projected(t)' = Projected(t)
  BY <1>2 DEF Projected
<1>6. TranscriptAgrees'
  BY <1>1, <1>2, <1>5 DEF TurnInvariant, TranscriptAgrees, EndIsTold
<1> QED
  BY <1>3, <1>4, <1>6 DEF TurnInvariant

\* What the transcript holds of an end reads as the outcome of the turn.
LEMMA SettledEnd ==
  ASSUME TypeOK, TurnInvariant, NEW end \in Ends, Settle(end)
  PROVE  /\ turn'.outcome # "none"
         /\ stored'[turn.id] \notin Unspoken => Projected(turn.id)' = turn'.outcome
<1>1. turn.id \in Turns /\ Running /\ turn.stage = "running" /\ turn.id \notin marked
  BY RunningTurn DEF Settle, At, TurnInvariant, EndIsTold
<1>2. /\ turn'.outcome = Outcome(end, turn.cancel) /\ turn'.id = turn.id
      /\ IF stored[turn.id] = "nothing" THEN stored'[turn.id] = "nothing"
                                        ELSE stored'[turn.id] = end
      /\ marked' = IF Marks(end, turn.cancel) THEN marked \cup {turn.id} ELSE marked
  BY <1>1 DEF Settle, StoreEnd, TypeOK, TurnStates
<1>3. /\ end \in {"completed", "toolUse", "aborted", "error", "rejected"}
      /\ turn.cancel \in BOOLEAN
  BY DEF Ends, TypeOK, TurnStates
<1>4. CASE stored[turn.id] = "nothing" \/ end \in {"toolUse", "rejected"}
  BY <1>2, <1>4 DEF Outcome, Finished, Unspoken
<1>5. CASE stored[turn.id] # "nothing" /\ end = "completed"
  BY <1>1, <1>2, <1>5 DEF Outcome, Finished, Marks, Projected
<1>6. CASE stored[turn.id] # "nothing" /\ end = "aborted"
  BY <1>1, <1>2, <1>6 DEF Outcome, Finished, Marks, Projected
<1>7. CASE stored[turn.id] # "nothing" /\ end = "error" /\ turn.cancel
  BY <1>1, <1>2, <1>7 DEF Outcome, Finished, Marks, Projected
<1>8. CASE stored[turn.id] # "nothing" /\ end = "error" /\ ~turn.cancel
  BY <1>1, <1>2, <1>8 DEF Outcome, Finished, Marks, Projected
<1> QED
  BY <1>3, <1>4, <1>5, <1>6, <1>7, <1>8

\* The end of a prompt is told by nobody yet.
LEMMA SettleKeepsTurns ==
  ASSUME TypeOK, TurnInvariant, NEW end \in Ends, Settle(end)
  PROVE  TurnInvariant'
<1>1. /\ turn.id \in Turns /\ turn.id <= used /\ Running /\ turn.stage = "running"
      /\ status[turn.id] = "none"
  BY RunningTurn DEF Settle, At, TurnInvariant, EndIsTold
<1>2. /\ UNCHANGED <<used, reply, status>>
      /\ turn'.id = turn.id /\ turn'.stage = "releasing"
      /\ \A t \in Turns : t # turn.id => stored'[t] = stored[t] /\ (t \in marked' <=> t \in marked)
  BY DEF Settle, StoreEnd, TypeOK, TurnStates
<1>3. UnsentIsFresh'
  BY <1>1, <1>2 DEF TurnInvariant, UnsentIsFresh, TypeOK, Turns
<1>4. (RepliesAreWhole /\ ReaderKeepsUp)'
  BY <1>1, <1>2 DEF TurnInvariant, RepliesAreWhole, ReaderKeepsUp
<1>5. EndIsTold'
  BY <1>1, <1>2, SettledEnd DEF EndIsTold
<1>6. \A t \in Turns : t # turn.id => Projected(t)' = Projected(t)
  BY <1>2 DEF Projected
<1>7. TranscriptAgrees'
  BY <1>1, <1>2, <1>6 DEF TurnInvariant, TranscriptAgrees
<1> QED
  BY <1>3, <1>4, <1>5, <1>7 DEF TurnInvariant

\* The last event tells what the transcript holds.
LEMMA ReleaseKeepsTurns ==
  ASSUME TypeOK, TurnInvariant, Release
  PROVE  TurnInvariant'
<1>1. /\ turn.id \in Turns /\ turn.id <= used /\ Running /\ turn.stage = "releasing"
      /\ turn.outcome # "none" /\ reply[turn.id].reader = "middle"
      /\ stored[turn.id] \notin Unspoken => Projected(turn.id) = turn.outcome
  BY RunningTurn DEF Release, At, TurnInvariant, EndIsTold, ReaderKeepsUp
<1>2. /\ UNCHANGED <<used, stored, marked>> /\ turn'.id = NoTurn
      /\ status'[turn.id] = turn.outcome
      /\ reply'[turn.id].reader = "terminal"
      /\ \A t \in Turns : t # turn.id => status'[t] = status[t] /\ reply'[t] = reply[t]
  BY <1>1, ReaderOrder DEF Release, Idle, TypeOK, Readers
<1>3. UnsentIsFresh'
  BY <1>1, <1>2 DEF TurnInvariant, UnsentIsFresh, TypeOK, Turns
<1>4. RepliesAreWhole'
  BY <1>1, <1>2 DEF TurnInvariant, RepliesAreWhole
<1>5. (ReaderKeepsUp /\ EndIsTold)'
  BY <1>2 DEF ReaderKeepsUp, EndIsTold, Running
<1>6. \A t \in Turns : Projected(t)' = Projected(t)
  BY <1>2 DEF Projected
<1>7. TranscriptAgrees'
  BY <1>1, <1>2, <1>6 DEF TurnInvariant, TranscriptAgrees
<1> QED
  BY <1>3, <1>4, <1>5, <1>7 DEF TurnInvariant

\* A deleted chat has no transcript to disagree with.
LEMMA ArchiveKeepsTurns ==
  ASSUME TypeOK, TurnInvariant, Archive
  PROVE  TurnInvariant'
<1>1. /\ UNCHANGED <<turn, used, marked, reply, status>> /\ ~Running
      /\ \A t \in Turns : stored'[t] = IF stored[t] = "nothing" THEN "nothing" ELSE "archived"
  BY DEF Archive
<1>2. (UnsentIsFresh /\ RepliesAreWhole /\ ReaderKeepsUp /\ EndIsTold)'
  BY <1>1 DEF TurnInvariant, UnsentIsFresh, RepliesAreWhole, ReaderKeepsUp, EndIsTold, Running
<1>3. \A t \in Turns : stored[t] = "nothing" => Projected(t)' = Projected(t)
  BY <1>1 DEF Projected
<1>4. TranscriptAgrees'
  BY <1>1, <1>3 DEF TurnInvariant, TranscriptAgrees, Unspoken
<1> QED
  BY <1>2, <1>4 DEF TurnInvariant

\* A process that dies tells nothing of its turn's end, so that nothing disagrees with it.
LEMMA DeathKeepsTurns ==
  ASSUME TypeOK, TurnInvariant, Dies
  PROVE  TurnInvariant'
<1>1. turn.id \in Turns /\ Running /\ status[turn.id] = "none"
  BY RunningTurn DEF Dies, Throws, At, TurnInvariant, EndIsTold
<1>2. /\ UNCHANGED <<used, marked, reply, status>> /\ turn'.id = NoTurn
      /\ \A t \in Turns : t # turn.id => stored'[t] = stored[t]
  BY DEF Dies, Throws, StoreEnd, Idle, TypeOK
<1>3. (UnsentIsFresh /\ RepliesAreWhole /\ ReaderKeepsUp /\ EndIsTold)'
  BY <1>2 DEF TurnInvariant, UnsentIsFresh, RepliesAreWhole, ReaderKeepsUp, EndIsTold, Running
<1>4. \A t \in Turns : t # turn.id => Projected(t)' = Projected(t)
  BY <1>2 DEF Projected
<1>5. TranscriptAgrees'
  BY <1>1, <1>2, <1>4 DEF TurnInvariant, TranscriptAgrees
<1> QED
  BY <1>3, <1>5 DEF TurnInvariant

-----------------------------------------------------------------------------
(* Every step.                                                             *)

\* What the page, the scheduled run, commands and cancels do leaves a turn where it is.
QuietStep ==
  \/ OtherCancels \/ Rename \/ Stop \/ Stopped \/ RunStarts \/ RunPrompts
  \/ RunGivesUp \/ RunSettles \/ RunDisposed \/ RunAborted \/ Submit \/ MessageRefused
  \/ ReplyStarts \/ ReplyEnds \/ ReplyCut \/ EventArrives \/ Resync \/ PageStops
  \/ PageStopFails
  \/ \E a \in Actors : RunCommand(a) \/ CommandSteps(a) \/ CommandExits(a)
  \/ \E s \in Slots : LoadReads(s) \/ LoadSummary(s) \/ Adopt(s)

LEMMA QuietStepKeepsTurns ==
  ASSUME TypeOK, TurnInvariant, QuietStep
  PROVE  TurnInvariant'
<1> SUFFICES /\ UNCHANGED <<used, stored, marked, reply, status>>
             /\ turn'.id = turn.id /\ turn'.stage = turn.stage /\ turn'.outcome = turn.outcome
  BY TurnFrame
<1> USE DEF serviceVars, sandboxVars, pageVars, bounds, TypeOK, TurnStates
<1>1. CASE OtherCancels
  BY <1>1 DEF OtherCancels, Cancel, CancelTurn
<1>2. CASE Rename
  BY <1>2 DEF Rename
<1>3. CASE Stop
  BY <1>3 DEF Stop, CancelTurn
<1>4. CASE Stopped
  BY <1>4 DEF Stopped
<1>5. CASE RunStarts
  BY <1>5 DEF RunStarts, RunStep
<1>6. CASE RunPrompts
  BY <1>6 DEF RunPrompts, RunStep
<1>7. CASE RunGivesUp
  BY <1>7 DEF RunGivesUp, RunStep
<1>8. CASE RunSettles
  BY <1>8 DEF RunSettles, RunStep
<1>9. CASE RunDisposed
  BY <1>9 DEF RunDisposed, RunStep
<1>10. CASE RunAborted
  BY <1>10 DEF RunAborted
<1>11. CASE Submit
  BY <1>11 DEF Submit, PageOnly
<1>12. CASE MessageRefused
  BY <1>12 DEF MessageRefused, OwnOver, PageOnly
<1>13. CASE ReplyStarts
  BY <1>13 DEF ReplyStarts, PageOnly
<1>14. CASE ReplyEnds
  BY <1>14 DEF ReplyEnds, OwnOver, PageOnly
<1>15. CASE ReplyCut
  BY <1>15 DEF ReplyCut, OwnOver, PageOnly
<1>16. CASE EventArrives
  BY <1>16 DEF EventArrives, Delivered, Fetch, PageOnly
<1>17. CASE Resync
  BY <1>17 DEF Resync, Fetch, PageOnly
<1>18. CASE PageStops
  BY <1>18 DEF PageStops, Cancel, CancelTurn
<1>19. CASE \E a \in Actors : RunCommand(a) \/ CommandSteps(a) \/ CommandExits(a)
  BY <1>19 DEF RunCommand, CommandSteps, Spawn, Kill, GraceOver, CommandExits, CommandEnds
<1>20. CASE \E s \in Slots : LoadReads(s) \/ LoadSummary(s) \/ Adopt(s)
  BY <1>20 DEF LoadReads, LoadSummary, Adopt, PageOnly
<1>21. CASE PageStopFails
  BY <1>21 DEF PageStopFails, Cancel, CancelTurn
<1> QED
  BY <1>1, <1>2, <1>3, <1>4, <1>5, <1>6, <1>7, <1>8, <1>9, <1>10, <1>11, <1>12, <1>13, <1>14,
     <1>15, <1>16, <1>17, <1>18, <1>19, <1>20, <1>21 DEF QuietStep

\* No step loses an event, and none tells another end than the transcript.
LEMMA TurnsKept ==
  ASSUME TypeOK, TurnInvariant, Next
  PROVE  TurnInvariant'
<1>1. CASE OtherSends
  BY <1>1, SendKeepsTurns DEF OtherSends
<1>2. CASE CreateSession \/ RefuseSession \/ RefusePrompt \/ Refused
  <2>1. /\ UNCHANGED <<used, stored, marked, reply, status>>
        /\ turn.stage \in {"creating", "preflight", "refusing"}
        /\ \/ turn' = Idle
           \/ turn'.id = turn.id /\ turn'.stage \in {"creating", "preflight", "refusing"}
    BY <1>2 DEF CreateSession, RefuseSession, RefusePrompt, Refused, At, Stage, TypeOK, TurnStates
  <2> QED
    BY <2>1, EarlyStages
<1>3. CASE Accept \/ Delta
  BY <1>3, EventsKeepTurns
<1>4. CASE UserMessage
  BY <1>4, UserMessageKeepsTurns
<1>5. CASE \E end \in Ends : Settle(end)
  BY <1>5, SettleKeepsTurns
<1>6. CASE Release
  BY <1>6, ReleaseKeepsTurns
<1>7. CASE Archive
  BY <1>7, ArchiveKeepsTurns
<1>8. CASE MessageArrives
  <2>1. CASE Send
    BY <2>1, SendKeepsTurns
  <2>2. CASE UNCHANGED serviceVars
    BY <2>2, TurnFrame DEF serviceVars
  <2> QED
    BY <1>8, <2>1, <2>2 DEF MessageArrives
<1>9. CASE QuietStep
  BY <1>9, QuietStepKeepsTurns
<1>10. CASE Dies
  BY <1>10, DeathKeepsTurns
<1> QED
  BY <1>1, <1>2, <1>3, <1>4, <1>5, <1>6, <1>7, <1>8, <1>9, <1>10
     DEF Next, TurnSteps, RunSteps, AbortedSettles, QuietStep

\* Every step keeps the types.
LEMMA TypesKept ==
  ASSUME TypeOK, QueueIsSerial, Next
  PROVE  TypeOK'
<1>1. ASSUME NEW a \in Actors, RunCommand(a) \/ CommandSteps(a) \/ CommandExits(a)
      PROVE  TypeOK'
  BY <1>1, OtherTypes, CommandEndsKeepsSerial DEF CommandSteps
<1> QED
  BY <1>1, ServiceTypes, RunTypes, PageTypes, OtherTypes, DeathTypes
     DEF Next, TurnSteps, RunSteps, AbortedSettles

\* Every step keeps the queue serial: no other step touches the queue or a command.
LEMMA QueueKept ==
  ASSUME TypeOK, QueueIsSerial, Next
  PROVE  QueueIsSerial'
<1>1. ASSUME NEW a \in Actors, RunCommand(a) \/ CommandSteps(a) \/ CommandExits(a)
      PROVE  QueueIsSerial'
  BY <1>1, RunCommandKeepsSerial, SpawnKeepsSerial, CommandEndsKeepsSerial DEF CommandSteps
<1>2. CASE UNCHANGED <<queue, cmd>>
  BY <1>2 DEF QueueIsSerial
<1> USE DEF serviceVars, sandboxVars, pageVars, bounds
<1>3. CASE \/ OtherSends \/ CreateSession \/ RefuseSession \/ RefusePrompt \/ Refused \/ Accept
           \/ UserMessage \/ Delta \/ Release \/ OtherCancels \/ Rename \/ Archive
           \/ Stop \/ Stopped
  BY <1>3, <1>2 DEF OtherSends, CreateSession, RefuseSession, RefusePrompt, Refused, Accept,
     UserMessage, Delta, Release, OtherCancels, Rename, Archive, Stop, Stopped
<1>4. CASE \/ RunStarts \/ RunPrompts \/ RunGivesUp \/ RunSettles \/ RunDisposed \/ RunAborted
  BY <1>4, <1>2 DEF RunStarts, RunStep, RunPrompts, RunGivesUp, RunSettles, RunDisposed,
     RunAborted
<1>5. CASE \/ Submit \/ MessageArrives \/ MessageRefused \/ ReplyStarts \/ ReplyEnds \/ ReplyCut
           \/ EventArrives \/ Resync \/ PageStops \/ PageStopFails
  BY <1>5, <1>2 DEF Submit, PageOnly, MessageArrives, MessageRefused, ReplyStarts, ReplyEnds,
     ReplyCut, EventArrives, Resync, PageStops, PageStopFails
<1>6. CASE \E end \in Ends : Settle(end)
  BY <1>6, <1>2 DEF Settle
<1>7. CASE \E s \in Slots : LoadReads(s) \/ LoadSummary(s) \/ Adopt(s)
  BY <1>7, <1>2 DEF LoadReads, LoadSummary, Adopt, PageOnly
<1>8. CASE Dies
  BY <1>8 DEF Dies, QueueIsSerial
<1> HIDE DEF serviceVars, sandboxVars, pageVars, bounds
<1> QED
  BY <1>1, <1>3, <1>4, <1>5, <1>6, <1>7, <1>8
     DEF Next, TurnSteps, RunSteps, AbortedSettles

\* A turn ends only once its command has, and none begins when the service stops.
LEMMA StopKept ==
  ASSUME TypeOK, StopInvariant, Next
  PROVE  StopInvariant'
<1> USE DEF StopInvariant, Running, TypeOK, TurnStates, RunStates, OtherChatRuns, serviceVars,
        sandboxVars, pageVars, bounds
<1>1. CASE /\ UNCHANGED <<cmd, stopping, run>>
           /\ turn'.stage = turn.stage /\ turn'.id = turn.id
  BY <1>1
<1>2. CASE OtherSends
  BY <1>2 DEF OtherSends, Send, MayStart, Idle
<1>3. CASE CreateSession
  BY <1>3 DEF CreateSession, At
<1>4. CASE RefuseSession
  BY <1>4 DEF RefuseSession, At, Stage, Idle
<1>5. CASE RefusePrompt
  BY <1>5 DEF RefusePrompt, At, Stage
<1>6. CASE Refused
  BY <1>6 DEF Refused, At, Idle
<1>7. CASE Accept
  BY <1>7 DEF Accept, At, Emit
<1>8. CASE UserMessage
  BY <1>8 DEF UserMessage, At
<1>9. CASE Delta
  BY <1>9 DEF Delta, At, Emit
<1>10. CASE Release
  BY <1>10 DEF Release, At, Idle
<1>11. CASE OtherCancels
  BY <1>11 DEF OtherCancels, Cancel, CancelTurn
<1>12. CASE Rename
  BY <1>12 DEF Rename
<1>13. CASE Archive
  BY <1>13 DEF Archive
<1>14. CASE Stop
  BY <1>14 DEF Stop, CancelTurn
<1>15. CASE Stopped
  BY <1>15 DEF Stopped
<1>16. CASE RunStarts
  BY <1>16 DEF RunStarts, RunStep
<1>17. CASE RunPrompts
  BY <1>17 DEF RunPrompts, RunStep
<1>18. CASE RunGivesUp
  BY <1>18 DEF RunGivesUp, RunStep
<1>19. CASE RunSettles
  BY <1>19 DEF RunSettles, RunStep
<1>20. CASE RunDisposed
  BY <1>20 DEF RunDisposed, RunStep
<1>21. CASE RunAborted
  BY <1>21 DEF RunAborted
<1>22. CASE Submit
  BY <1>22 DEF Submit, PageOnly
<1>23. CASE MessageArrives
  BY <1>23 DEF MessageArrives, Send, MayStart, Idle
<1>24. CASE MessageRefused
  BY <1>24 DEF MessageRefused, OwnOver, PageOnly
<1>25. CASE ReplyStarts
  BY <1>25 DEF ReplyStarts, PageOnly
<1>26. CASE ReplyEnds
  BY <1>26 DEF ReplyEnds, OwnOver, PageOnly
<1>27. CASE ReplyCut
  BY <1>27 DEF ReplyCut, OwnOver, PageOnly
<1>28. CASE EventArrives
  BY <1>28 DEF EventArrives, Delivered, Fetch, PageOnly
<1>29. CASE Resync
  BY <1>29 DEF Resync, Fetch, PageOnly
<1>30. CASE PageStops
  BY <1>30 DEF PageStops, Cancel, CancelTurn
<1>31. CASE \E end \in Ends : Settle(end)
  BY <1>31 DEF Settle, At
<1>32. CASE \E s \in Slots : LoadReads(s) \/ LoadSummary(s) \/ Adopt(s)
  BY <1>32 DEF LoadReads, LoadSummary, Adopt, PageOnly
<1>33. CASE \E a \in Actors : RunCommand(a) \/ CommandSteps(a) \/ CommandExits(a)
  <2>1. PICK a \in Actors : RunCommand(a) \/ CommandSteps(a) \/ CommandExits(a)
    BY <1>33
  <2>2. UNCHANGED <<turn, stopping, run>>
    BY <2>1 DEF RunCommand, CommandSteps, Spawn, Kill, GraceOver, CommandExits, CommandEnds
  <2>3. CASE RunCommand(a)
    <3>1. cmd' = [cmd EXCEPT ![a] = "queued"] /\ Prompting(a) /\ a \in {"chat", "run"}
      BY <2>3 DEF RunCommand, Actors
    <3> QED
      BY <2>2, <3>1 DEF Prompting, At, Actors
  <2>4. CASE Spawn(a) \/ Kill(a)
    BY <2>2, <2>4 DEF Spawn, Kill, Actors
  <2>5. CASE CommandEnds(a)
    BY <2>2, <2>5 DEF CommandEnds, Actors
  <2> QED
    BY <2>1, <2>3, <2>4, <2>5 DEF CommandSteps, GraceOver, CommandExits
<1>34. CASE PageStopFails
  BY <1>34 DEF PageStopFails, Cancel, CancelTurn
<1>35. CASE Dies
  BY <1>35 DEF Dies, Idle, Actors
<1> QED
  BY <1>2, <1>3, <1>4, <1>5, <1>6, <1>7, <1>8, <1>9, <1>10, <1>11, <1>12, <1>13, <1>14, <1>15,
     <1>16, <1>17, <1>18, <1>19, <1>20, <1>21, <1>22, <1>23, <1>24, <1>25, <1>26, <1>27, <1>28,
     <1>29, <1>30, <1>31, <1>32, <1>33, <1>34, <1>35
     DEF Next, TurnSteps, RunSteps, AbortedSettles

\* The first state.
LEMMA ChatInit ==
  ASSUME Init
  PROVE  ChatInvariant
<1> USE ChatAssumption DEF Init, Idle, NoLoad, Turns, NoTurn, Running
<1>1. TypeOK
  <2>1. turn \in TurnStates /\ run \in RunStates /\ page \in PageStates
    BY DEF TurnStates, RunStates, PageStates
  <2>2. [stage |-> "asked", turn |-> 0, running |-> FALSE] \in LoadStates
        /\ [stage |-> "free", turn |-> 0, running |-> FALSE] \in LoadStates
    BY DEF LoadStates
  <2>3. PICK s \in Slots, beside \in {"page", "scheduled", "chat"} :
          loads = [x \in Slots |-> IF beside = "page" /\ x = s
                                   THEN [NoLoad EXCEPT !.stage = "asked"] ELSE NoLoad]
    OBVIOUS
  <2>4. loads \in [Slots -> LoadStates]
    BY <2>2, <2>3
  <2>5. reply \in [Turns -> Readers]
    BY DEF Readers
  <2>6. /\ used \in 0 .. MaxTurns /\ turn.id <= used /\ turn.id = NoTurn /\ turn.stage = "none"
        /\ cancels \in 0 .. MaxCancels /\ other \in 0 .. MaxOther /\ deaths \in 0 .. other
    OBVIOUS
  <2>7. queue \in Seq(Actors) /\ announced \in 0 .. MaxEvents /\ marked \subseteq Turns
    OBVIOUS
  <2>8. stored \in [Turns -> StoredEnds]
    BY DEF StoredEnds
  <2> QED
    BY <2>1, <2>4, <2>5, <2>6, <2>7, <2>8 DEF TypeOK
<1>2. QueueIsSerial
  BY DEF QueueIsSerial
<1>3. TurnInvariant
  BY DEF TurnInvariant, UnsentIsFresh, RepliesAreWhole, ReaderKeepsUp, TranscriptAgrees, EndIsTold
<1>4. StopInvariant
  BY DEF StopInvariant, Actors
<1> QED
  BY <1>1, <1>2, <1>3, <1>4 DEF ChatInvariant

\* The four parts of the invariant hold together: the types need the queue, the turns the types.
THEOREM ChatInvariantHolds == Spec => []ChatInvariant
<1>1. Init => ChatInvariant
  BY ChatInit
<1>2. ChatInvariant /\ [Next]_vars => ChatInvariant'
  <2>1. CASE Next
    BY <2>1, TypesKept, QueueKept, TurnsKept, StopKept DEF ChatInvariant
  <2>2. CASE UNCHANGED vars
    <3>1. UNCHANGED <<turn, used, stopping, filed, stored, marked, reply, status, queue, cmd, run,
                      announced, page, loads, deaths, cancels, other>>
      BY <2>2 DEF vars, serviceVars, sandboxVars, pageVars, bounds
    <3>2. (TypeOK => TypeOK') /\ (QueueIsSerial => QueueIsSerial')
      BY <3>1 DEF TypeOK, QueueIsSerial
    <3>3. TypeOK /\ TurnInvariant => TurnInvariant'
      BY <3>1, TurnFrame
    <3>4. StopInvariant => StopInvariant'
      BY <3>1 DEF StopInvariant, Running, OtherChatRuns
    <3> QED
      BY <3>2, <3>3, <3>4 DEF ChatInvariant
  <2> QED
    BY <2>1, <2>2
<1> QED
  BY <1>1, <1>2, PTL DEF Spec

\* TypeOK: the turn, its ids, streams, the queue, the run and the page keep their types.
THEOREM ChatTypeCorrect == Spec => []TypeOK
  BY ChatInvariantHolds, PTL DEF ChatInvariant

\* One command at a time in the sandbox, whichever session asked for it: the first of the queue.
OneCommandRuns ==
  \A a, b \in Actors :
    cmd[a] \in {"spawned", "killing"} /\ cmd[b] \in {"spawned", "killing"} => a = b

THEOREM SandboxIsSerial == Spec => []OneCommandRuns
<1>1. ChatInvariant => OneCommandRuns
  BY DEF ChatInvariant, QueueIsSerial, OneCommandRuns
<1> QED
  BY <1>1, ChatInvariantHolds, PTL

\* RepliesAreWhole: every stream is in the order its parser asks for and ends with its last event,
\* whatever interrupts the turn.
THEOREM WholeReplies == Spec => []RepliesAreWhole
<1>1. ChatInvariant => RepliesAreWhole
  BY DEF ChatInvariant, TurnInvariant
<1> QED
  BY <1>1, ChatInvariantHolds, PTL

\* TranscriptAgrees: what a stream said of the end is what the transcript says later.
THEOREM TranscriptTellsTheSame == Spec => []TranscriptAgrees
<1>1. ChatInvariant => TranscriptAgrees
  BY DEF ChatInvariant, TurnInvariant
<1> QED
  BY <1>1, ChatInvariantHolds, PTL

\* StopLeavesNothing: a stopped service has no turn of any chat and no command of one.
THEOREM StopIsClean == Spec => []StopLeavesNothing
<1>1. ChatInvariant => StopLeavesNothing
  BY DEF ChatInvariant, TypeOK, StopInvariant, StopLeavesNothing, Running, OtherChatRuns
<1> QED
  BY <1>1, ChatInvariantHolds, PTL

\* A page that streams a reply has the id its first event told.
PageKnowsItsTurn ==
  page.status = "streaming" => page.own # NoTurn /\ page.ref = page.own

\* StopHitsWhatIsShown: a Stop cancels the turn whose reply the page streams or its last load
\* named, unless the page has no id.
THEOREM StopsAreAimed == Spec => StopHitsWhatIsShown
<1>1. Init => PageKnowsItsTurn
  BY DEF Init, PageKnowsItsTurn
<1>2. TypeOK /\ PageKnowsItsTurn /\ [Next]_vars => PageKnowsItsTurn'
  <2> SUFFICES ASSUME TypeOK, PageKnowsItsTurn, [Next]_vars PROVE PageKnowsItsTurn'
    OBVIOUS
  <2>1. page \in PageStates
    BY DEF TypeOK
  <2>2. ASSUME UNCHANGED page PROVE PageKnowsItsTurn'
    BY <2>2 DEF PageKnowsItsTurn
  <2>3. ASSUME page'.status # "streaming" PROVE PageKnowsItsTurn'
    BY <2>3 DEF PageKnowsItsTurn
  <2>4. CASE ReplyStarts
    BY <2>1, <2>4 DEF ReplyStarts, PageStates, PageKnowsItsTurn
  <2>5. CASE \E s \in Slots : Adopt(s)
    BY <2>1, <2>5 DEF Adopt, PageStates, PageKnowsItsTurn
  <2>6. CASE Submit \/ MessageArrives
    BY <2>1, <2>3, <2>6 DEF Submit, MessageArrives, PageStates
  <2>7. CASE MessageRefused \/ ReplyEnds \/ ReplyCut
    BY <2>1, <2>3, <2>7 DEF MessageRefused, ReplyEnds, ReplyCut, OwnOver, PageStates
  <2>8. CASE PageStopFails \/ Dies
    BY <2>1, <2>2, <2>3, <2>8 DEF PageStopFails, Dies, OwnOver, PageStates
  <2>9. CASE OtherSends \/ TurnSteps \/ Delta \/ \E end \in Ends : Settle(end)
    BY <2>2, <2>9 DEF OtherSends, TurnSteps, CreateSession, RefuseSession, RefusePrompt, Refused,
       Accept, UserMessage, AbortedSettles, Release, Delta, Settle, pageVars
  <2>10. CASE OtherCancels \/ Rename \/ Archive \/ Stop \/ Stopped
    BY <2>2, <2>10 DEF OtherCancels, Rename, Archive, Stop, Stopped, pageVars
  <2>11. CASE \E a \in Actors : RunCommand(a) \/ CommandSteps(a) \/ CommandExits(a)
    BY <2>2, <2>11 DEF RunCommand, CommandSteps, Spawn, Kill, GraceOver, CommandExits,
       CommandEnds, pageVars
  <2>12. CASE RunStarts \/ RunSteps \/ RunSettles \/ RunAborted
    BY <2>2, <2>12 DEF RunStarts, RunSteps, RunPrompts, RunGivesUp, RunSettles, RunDisposed,
       RunStep, RunAborted, pageVars
  <2>13. CASE EventArrives \/ Resync \/ PageStops
    BY <2>2, <2>13 DEF EventArrives, Resync, PageStops, pageVars
  <2>14. CASE \E s \in Slots : LoadReads(s) \/ LoadSummary(s)
    BY <2>2, <2>14 DEF LoadReads, LoadSummary
  <2>15. CASE UNCHANGED vars
    BY <2>2, <2>15 DEF vars, pageVars
  <2> QED
    BY <2>4, <2>5, <2>6, <2>7, <2>8, <2>9, <2>10, <2>11, <2>12, <2>13, <2>14, <2>15 DEF Next
<1>3. ASSUME PageKnowsItsTurn, PageStops \/ PageStopFails, turn' # turn
      PROVE  /\ page.status = "streaming" => turn.id = page.own
             /\ ~Streaming => page.of \in {NoTurn, turn.id}
  <2>1. Cancel(Shown) /\ Shown \in {NoTurn, turn.id}
    BY <1>3 DEF PageStops, PageStopFails, Cancel
  <2> QED
    BY <1>3, <2>1 DEF PageKnowsItsTurn, Shown, Streaming
<1>4. PageKnowsItsTurn /\ [Next]_vars => [(PageStops \/ PageStopFails) /\ turn' # turn =>
        /\ page.status = "streaming" => turn.id = page.own
        /\ ~Streaming => page.of \in {NoTurn, turn.id}]_vars
  BY <1>3
<1> QED
  BY <1>1, <1>2, <1>4, ChatTypeCorrect, PTL DEF Spec, StopHitsWhatIsShown

-----------------------------------------------------------------------------
(* The ledger of turns.                                                    *)

\* An abort comes from a wish to cancel.
AbortIsWished == turn.abort => turn.cancel

\* What the page, the scheduled run and commands do leaves the service alone but for a cancel, and
\* a stop or its end.
LEMMA QuietStepsService ==
  ASSUME QuietStep
  PROVE  /\ UNCHANGED <<used, reply, status, deaths>>
         /\ \/ UNCHANGED <<turn, stopping>>
            \/ Running /\ CancelTurn /\ UNCHANGED stopping
            \/ /\ stopping = "no" /\ stopping' = "waiting"
               /\ IF Running THEN CancelTurn ELSE UNCHANGED turn
            \/ stopping = "waiting" /\ ~Running /\ stopping' = "done" /\ UNCHANGED turn
<1> USE DEF serviceVars, sandboxVars, pageVars, bounds
<1>1. CASE OtherCancels \/ PageStops \/ PageStopFails
  BY <1>1 DEF OtherCancels, PageStops, PageStopFails, Cancel
<1>2. CASE Stop \/ Stopped
  BY <1>2 DEF Stop, Stopped
<1>3. CASE Rename
  BY <1>3 DEF Rename
<1>4. CASE RunStarts \/ RunPrompts \/ RunGivesUp \/ RunSettles \/ RunDisposed \/ RunAborted
  BY <1>4 DEF RunStarts, RunPrompts, RunGivesUp, RunSettles, RunDisposed, RunAborted, RunStep
<1>5. CASE \/ Submit \/ MessageRefused \/ ReplyStarts \/ ReplyEnds \/ ReplyCut
           \/ EventArrives \/ Resync
  BY <1>5
     DEF Submit, MessageRefused, ReplyStarts, ReplyEnds, ReplyCut, EventArrives, Resync, PageOnly
<1>6. CASE \E a \in Actors : RunCommand(a) \/ CommandSteps(a) \/ CommandExits(a)
  BY <1>6 DEF RunCommand, CommandSteps, Spawn, Kill, GraceOver, CommandExits, CommandEnds
<1>7. CASE \E s \in Slots : LoadReads(s) \/ LoadSummary(s) \/ Adopt(s)
  BY <1>7 DEF LoadReads, LoadSummary, Adopt, PageOnly
<1> QED
  BY <1>1, <1>2, <1>3, <1>4, <1>5, <1>6, <1>7 DEF QuietStep

\* Pi is told to abort where the wish is set, and a wish is kept until the turn is over.
LEMMA WishKept ==
  ASSUME TypeOK, AbortIsWished, Next
  PROVE  AbortIsWished'
<1> USE DEF AbortIsWished, TypeOK, TurnStates
<1>1. CASE OtherSends
  BY <1>1 DEF OtherSends, Send, Idle
<1>2. CASE CreateSession \/ RefuseSession \/ RefusePrompt \/ Refused
  <2>1. (turn'.abort = turn.abort /\ turn'.cancel = turn.cancel) \/ turn' = Idle
    BY <1>2 DEF CreateSession, RefuseSession, RefusePrompt, Refused, Stage
  <2>2. CASE turn' = Idle
    BY <2>2 DEF Idle
  <2> QED
    BY <2>1, <2>2
<1>3. CASE Accept
  BY <1>3 DEF Accept
<1>4. CASE Delta \/ UserMessage \/ Archive
  BY <1>4 DEF Delta, UserMessage, Archive
<1>5. CASE \E end \in Ends : Settle(end)
  BY <1>5 DEF Settle
<1>6. CASE Release
  BY <1>6 DEF Release, Idle
<1>7. CASE MessageArrives
  BY <1>7 DEF MessageArrives, Send, Idle, serviceVars
<1>8. CASE QuietStep
  BY <1>8, QuietStepsService DEF CancelTurn
<1>9. CASE Dies
  BY <1>9 DEF Dies, Idle
<1> QED
  BY <1>1, <1>2, <1>3, <1>4, <1>5, <1>6, <1>7, <1>8, <1>9
     DEF Next, TurnSteps, RunSteps, AbortedSettles, QuietStep

\* Where a turn is in the ledger depends on its stream, on which turn is at work, and on whether
\* and how that one has ended.
LEMMA PlaceStays ==
  ASSUME UNCHANGED <<used, reply, status>>, turn'.id = turn.id, turn'.outcome = turn.outcome,
         At("releasing")' <=> At("releasing")
  PROVE  \A t \in Turns : PlaceOf(t)' = PlaceOf(t)
  BY DEF PlaceOf

\* A step that only the turn at work can see.
LEMMA PlacesOfOthers ==
  ASSUME TypeOK, used' = used, turn'.id \in {turn.id, NoTurn},
         \A t \in Turns : t # turn.id => reply'[t] = reply[t] /\ status'[t] = status[t]
  PROVE  \A t \in Turns : t # turn.id => PlaceOf(t)' = PlaceOf(t)
  BY DEF PlaceOf, Turns, NoTurn

\* The places of a turn, before a step and after it.
LEMMA PlaceCases ==
  ASSUME NEW t \in Turns, used \in Nat
  PROVE  /\ t > used => PlaceOf(t) = "unsent"
         /\ t <= used /\ reply[t].reader = "first" /\ t = turn.id => PlaceOf(t) = "taken"
         /\ t = turn.id /\ t <= used /\ reply[t].reader = "middle" =>
              PlaceOf(t) = IF turn.stage = "releasing" THEN turn.outcome ELSE "replying"
<1>1. t \in Nat /\ ~(t > used /\ t <= used)
  BY ChatAssumption DEF Turns
<1>2. t > used => PlaceOf(t) = "unsent"
  BY <1>1 DEF PlaceOf
<1>3. t <= used /\ reply[t].reader = "first" /\ t = turn.id => PlaceOf(t) = "taken"
  BY <1>1 DEF PlaceOf
<1>4. t = turn.id /\ t <= used /\ reply[t].reader = "middle" =>
        PlaceOf(t) = IF turn.stage = "releasing" THEN turn.outcome ELSE "replying"
  BY <1>1 DEF PlaceOf, At
<1> QED
  BY <1>2, <1>3, <1>4

LEMMA PlaceCasesAfter ==
  ASSUME NEW t \in Turns, used' \in Nat
  PROVE  /\ t <= used' /\ reply'[t].reader = "first" =>
              PlaceOf(t)' = IF t = turn'.id THEN "taken" ELSE "refused"
         /\ t = turn'.id /\ t <= used' /\ reply'[t].reader = "middle" =>
              PlaceOf(t)' = IF turn'.stage = "releasing" THEN turn'.outcome ELSE "replying"
         /\ t # turn'.id /\ t <= used' /\ reply'[t].reader = "terminal" /\ reply'[t].ended =>
              PlaceOf(t)' = status'[t]
         /\ t # turn'.id /\ t <= used' /\ reply'[t].reader = "middle" /\ ~reply'[t].ended =>
              PlaceOf(t)' = "cut"
  BY DEF PlaceOf, At, Turns

\* The turn at work: where the ledger has it.
LEMMA PlaceAtWork ==
  ASSUME TypeOK, TurnInvariant, Running
  PROVE  /\ turn.id \in Turns /\ turn.id <= used
         /\ turn.stage \in {"creating", "preflight", "refusing"} => PlaceOf(turn.id) = "taken"
         /\ turn.stage = "running" => PlaceOf(turn.id) = "replying"
         /\ turn.stage = "releasing" =>
              PlaceOf(turn.id) = turn.outcome /\ turn.outcome \in Ledger!Outcomes
<1>1. turn.id \in Turns /\ turn.id <= used /\ used \in Nat
  BY DEF TypeOK, TurnStates, Running, Turns, NoTurn
<1>2. reply[turn.id].reader = IF turn.stage \in {"running", "releasing"} THEN "middle" ELSE "first"
  BY DEF TurnInvariant, ReaderKeepsUp
<1>3. turn.stage = "releasing" => turn.outcome \in Ledger!Outcomes
  BY DEF TurnInvariant, EndIsTold, TypeOK, TurnStates, Ledger!Outcomes
<1> QED
  BY <1>1, <1>2, <1>3, PlaceCases

\* A message is taken when none is at work and the service does not stop.
LEMMA SendTakes ==
  ASSUME TypeOK, TurnInvariant, Send, UNCHANGED deaths
  PROVE  Ledger!Take(used + 1) /\ used + 1 \in Turns
<1>1. /\ turn'.id = used + 1 /\ turn'.cancel = FALSE /\ used' = used + 1
      /\ used < MaxTurns /\ UNCHANGED <<stopping, reply, status>>
      /\ turn.id = NoTurn /\ stopping = "no"
  BY DEF Send, Idle, MayStart, Running
<1>2. used + 1 \in Turns /\ used + 1 > used /\ used \in Nat
  BY <1>1, ChatAssumption DEF TypeOK, Turns
<1>3. reply[used + 1].reader = "first"
  BY <1>2 DEF TurnInvariant, UnsentIsFresh
<1>4. ASSUME NEW t \in Turns, t = used + 1
      PROVE  PlaceOf(t) = "unsent" /\ PlaceOf(t)' = "taken"
  BY <1>1, <1>2, <1>3, <1>4, PlaceCases, PlaceCasesAfter
<1>5. ASSUME NEW t \in Turns, t # used + 1
      PROVE  PlaceOf(t)' = PlaceOf(t)
  BY <1>1, <1>2, <1>5 DEF PlaceOf, Turns, NoTurn
<1> QED
  BY <1>1, <1>2, <1>4, <1>5 DEF Ledger!Take

\* The turn at work is refused before Pi has taken it.
LEMMA RefusalRefuses ==
  ASSUME TypeOK, TurnInvariant, RefuseSession \/ Refused, turn' = Idle
  PROVE  Ledger!Refuse
<1>1. /\ Running /\ turn.stage \in {"creating", "refusing"}
      /\ UNCHANGED <<used, stopping, reply, status, deaths>>
  BY DEF RefuseSession, Refused, At, TypeOK, Running, bounds
<1>2. /\ turn.id \in Turns /\ turn.id <= used /\ PlaceOf(turn.id) = "taken"
  BY <1>1, PlaceAtWork
<1>3. turn'.id = NoTurn /\ turn'.cancel = FALSE /\ turn.id # NoTurn
  BY <1>1 DEF Idle, Running
<1>4. reply[turn.id].reader = "first"
  BY <1>1 DEF TurnInvariant, ReaderKeepsUp
<1>5. ASSUME NEW t \in Turns, t = turn.id
      PROVE  PlaceOf(t)' = "refused"
  BY <1>1, <1>2, <1>3, <1>4, <1>5, PlaceCasesAfter DEF TypeOK
<1>6. \A t \in Turns : t # turn.id => PlaceOf(t)' = PlaceOf(t)
  BY <1>1, <1>3, PlacesOfOthers
<1> QED
  BY <1>1, <1>2, <1>3, <1>5, <1>6 DEF Ledger!Refuse, Ledger!AtWork, Ledger!Now

\* turn.started is the beginning of the reply.
LEMMA AcceptBegins ==
  ASSUME TypeOK, TurnInvariant, Accept
  PROVE  Ledger!Begin
<1>1. /\ Running /\ turn.stage = "preflight"
      /\ turn'.id = turn.id /\ turn'.stage = "running" /\ turn'.cancel = turn.cancel
      /\ UNCHANGED <<used, stopping, status, deaths>>
  BY DEF Accept, At, TypeOK, TurnStates, Running, bounds
<1>2. turn.id \in Turns /\ turn.id <= used /\ PlaceOf(turn.id) = "taken" /\ turn.id # NoTurn
  BY <1>1, PlaceAtWork DEF Running
<1>3. /\ reply'[turn.id].reader = "middle"
      /\ \A t \in Turns : t # turn.id => reply'[t] = reply[t]
  BY <1>1, <1>2, ReaderOrder DEF Accept, Emit, TurnInvariant, ReaderKeepsUp, TypeOK, Readers
<1>4. ASSUME NEW t \in Turns, t = turn.id
      PROVE  PlaceOf(t)' = "replying"
  BY <1>1, <1>2, <1>3, <1>4, PlaceCasesAfter DEF TypeOK
<1>5. \A t \in Turns : t # turn.id => PlaceOf(t)' = PlaceOf(t)
  BY <1>1, <1>3, PlacesOfOthers
<1> QED
  BY <1>1, <1>2, <1>4, <1>5 DEF Ledger!Begin, Ledger!AtWork, Ledger!Now

\* A reply that ends is called cancelled for a wish alone, and not failed with one.
LEMMA SettleFinishes ==
  ASSUME TypeOK, TurnInvariant, AbortIsWished, NEW end \in Ends, Settle(end)
  PROVE  \E how \in Ledger!Outcomes : Ledger!Finish(how)
<1> DEFINE how == Outcome(end, turn.cancel)
<1>1. /\ Running /\ turn.stage = "running"
      /\ turn'.id = turn.id /\ turn'.stage = "releasing" /\ turn'.cancel = turn.cancel
      /\ turn'.outcome = how
      /\ UNCHANGED <<used, stopping, status, reply, deaths>>
  BY DEF Settle, At, TypeOK, TurnStates, Running, bounds
<1>2. turn.id \in Turns /\ turn.id <= used /\ PlaceOf(turn.id) = "replying" /\ turn.id # NoTurn
  BY <1>1, PlaceAtWork DEF Running
<1>3. end \in {"completed", "toolUse", "aborted", "error", "rejected"}
      /\ (end = "aborted" => turn.abort)
  BY DEF Ends
<1>4. /\ how \in Ledger!Outcomes
      /\ how = "cancelled" => turn.cancel
      /\ how = "failed" => ~turn.cancel
  BY <1>3 DEF Outcome, Finished, AbortIsWished, Ledger!Outcomes
<1>5. ASSUME NEW t \in Turns, t = turn.id
      PROVE  PlaceOf(t)' = how
  BY <1>1, <1>2, <1>5, PlaceCasesAfter DEF TypeOK, TurnInvariant, ReaderKeepsUp
<1>6. \A t \in Turns : t # turn.id => PlaceOf(t)' = PlaceOf(t)
  BY <1>1, PlacesOfOthers
<1> HIDE DEF how
<1>7. Ledger!Finish(how)
  BY <1>1, <1>2, <1>4, <1>5, <1>6 DEF Ledger!Finish, Ledger!AtWork, Ledger!Now
<1> QED
  BY <1>4, <1>7

\* turn.finished tells the end.
LEMMA ReleaseTells ==
  ASSUME TypeOK, TurnInvariant, Release
  PROVE  Ledger!Tell
<1>1. /\ Running /\ turn.stage = "releasing"
      /\ turn'.id = NoTurn /\ turn'.cancel = FALSE
      /\ UNCHANGED <<used, stopping, deaths>>
  BY DEF Release, At, Idle, TypeOK, Running, bounds
<1>2. /\ turn.id \in Turns /\ turn.id <= used /\ turn.id # NoTurn
      /\ PlaceOf(turn.id) = turn.outcome /\ turn.outcome \in Ledger!Outcomes
  BY <1>1, PlaceAtWork DEF Running
<1>3. /\ reply'[turn.id].reader = "terminal" /\ reply'[turn.id].ended
      /\ status'[turn.id] = turn.outcome
      /\ \A t \in Turns : t # turn.id => reply'[t] = reply[t] /\ status'[t] = status[t]
  BY <1>1, <1>2, ReaderOrder DEF Release, TurnInvariant, ReaderKeepsUp, TypeOK, Readers
<1>4. ASSUME NEW t \in Turns, t = turn.id
      PROVE  PlaceOf(t)' = turn.outcome /\ PlaceOf(t) = turn.outcome
  BY <1>1, <1>2, <1>3, <1>4, PlaceCasesAfter DEF TypeOK
<1>5. \A t \in Turns : t # turn.id => PlaceOf(t)' = PlaceOf(t)
  BY <1>1, <1>3, PlacesOfOthers
<1>6. \A t \in Turns : PlaceOf(t)' = PlaceOf(t)
  BY <1>2, <1>4, <1>5
<1> QED
  BY <1>1, <1>2, <1>6 DEF Ledger!Tell, Ledger!AtWork

\* A reply the process takes with it is cut short, told or not.
LEMMA DeathCuts ==
  ASSUME TypeOK, TurnInvariant, Dies
  PROVE  Ledger!Die
<1>1. /\ Running /\ turn.stage \in {"running", "releasing"}
      /\ turn'.id = NoTurn /\ turn'.cancel = FALSE /\ stopping' = "no" /\ deaths' = deaths + 1
      /\ UNCHANGED <<used, reply, status>>
  BY DEF Dies, Throws, At, Idle, TypeOK, Running
<1>2. /\ turn.id \in Turns /\ turn.id <= used /\ turn.id # NoTurn
      /\ PlaceOf(turn.id) \in {"replying"} \cup Ledger!Outcomes
  BY <1>1, PlaceAtWork DEF Running
<1>3. reply[turn.id].reader = "middle" /\ ~reply[turn.id].ended
  BY <1>1, <1>2 DEF TurnInvariant, ReaderKeepsUp, RepliesAreWhole
<1>4. ASSUME NEW t \in Turns, t = turn.id
      PROVE  PlaceOf(t)' = "cut"
  BY <1>1, <1>2, <1>3, <1>4, PlaceCasesAfter DEF TypeOK
<1>5. \A t \in Turns : t # turn.id => PlaceOf(t)' = PlaceOf(t)
  BY <1>1, PlacesOfOthers
<1> QED
  BY <1>1, <1>2, <1>4, <1>5 DEF Ledger!Die, Ledger!AtWork, Ledger!Now

\* Every step is one of the ledger's, or leaves it as it is.
LEMMA StepsImplement ==
  ASSUME TypeOK, TurnInvariant, AbortIsWished, Next
  PROVE  \/ Ledger!LedgerNext
         \/ UNCHANGED <<[t \in Turns |-> PlaceOf(t)], turn.id, turn.cancel, stopping, deaths>>
<1>1. CASE OtherSends \/ (MessageArrives /\ Send)
  <2>1. Send /\ UNCHANGED deaths
    BY <1>1 DEF OtherSends, MessageArrives, bounds
  <2> QED
    BY <2>1, SendTakes DEF Ledger!LedgerNext
<1>2. CASE (RefuseSession \/ Refused) /\ turn' = Idle
  BY <1>2, RefusalRefuses DEF Ledger!LedgerNext
<1>3. CASE CreateSession \/ RefusePrompt \/ (RefuseSession /\ Stage("refusing"))
  <2>1. /\ UNCHANGED <<used, stopping, reply, status, deaths>>
        /\ turn'.id = turn.id /\ turn'.outcome = turn.outcome /\ turn'.cancel = turn.cancel
        /\ turn.stage # "releasing" /\ turn'.stage # "releasing"
    BY <1>3
       DEF CreateSession, RefusePrompt, RefuseSession, Stage, At, TypeOK, TurnStates, bounds
  <2>2. \A t \in Turns : PlaceOf(t)' = PlaceOf(t)
    BY <2>1, PlaceStays DEF At
  <2> QED
    BY <2>1, <2>2
<1>4. CASE Accept
  BY <1>4, AcceptBegins DEF Ledger!LedgerNext
<1>5. CASE Delta
  <2>1. /\ UNCHANGED <<turn, used, stopping, status, deaths>>
        /\ Running /\ turn.stage = "running"
    BY <1>5 DEF Delta, At, TypeOK, Running, bounds
  <2>2. /\ turn.id \in Turns /\ turn.id <= used /\ PlaceOf(turn.id) = "replying"
    BY <2>1, PlaceAtWork
  <2>3. /\ reply'[turn.id].reader = "middle"
        /\ \A t \in Turns : t # turn.id => reply'[t] = reply[t]
    BY <1>5, <2>1, <2>2, ReaderOrder
       DEF Delta, Emit, TurnInvariant, ReaderKeepsUp, TypeOK, Readers
  <2>4. ASSUME NEW t \in Turns, t = turn.id
        PROVE  PlaceOf(t)' = "replying" /\ PlaceOf(t) = "replying"
    BY <2>1, <2>2, <2>3, <2>4, PlaceCasesAfter DEF TypeOK
  <2>5. \A t \in Turns : t # turn.id => PlaceOf(t)' = PlaceOf(t)
    BY <2>1, <2>3, PlacesOfOthers
  <2>6. \A t \in Turns : PlaceOf(t)' = PlaceOf(t)
    BY <2>2, <2>4, <2>5
  <2> QED
    BY <2>1, <2>6
<1>6. CASE \E end \in Ends : Settle(end)
  BY <1>6, SettleFinishes DEF Ledger!LedgerNext
<1>7. CASE Release
  BY <1>7, ReleaseTells DEF Ledger!LedgerNext
<1>8. CASE UNCHANGED <<turn, used, stopping, reply, status, deaths>>
  BY <1>8, PlaceStays DEF At
<1>9. CASE QuietStep
  <2>1. /\ UNCHANGED <<used, reply, status, deaths>>
        /\ turn'.id = turn.id /\ turn'.outcome = turn.outcome /\ turn'.stage = turn.stage
    BY <1>9, QuietStepsService DEF CancelTurn, TypeOK, TurnStates
  <2>2. \A t \in Turns : PlaceOf(t)' = PlaceOf(t)
    BY <2>1, PlaceStays DEF At
  <2>3. CASE UNCHANGED <<turn, stopping>>
    BY <2>1, <2>2, <2>3
  <2>4. CASE Running /\ CancelTurn /\ UNCHANGED stopping
    <3>1. Ledger!Ask
      BY <2>1, <2>2, <2>4 DEF Ledger!Ask, CancelTurn, Running, TypeOK, TurnStates
    <3> QED
      BY <3>1 DEF Ledger!LedgerNext
  <2>5. CASE /\ stopping = "no" /\ stopping' = "waiting"
             /\ IF Running THEN CancelTurn ELSE UNCHANGED turn
    <3>1. turn'.cancel = (turn.cancel \/ turn.id # NoTurn)
      BY <2>5 DEF CancelTurn, Running, TypeOK, TurnStates
    <3>2. Ledger!Stop
      BY <2>1, <2>2, <2>5, <3>1 DEF Ledger!Stop
    <3> QED
      BY <3>2 DEF Ledger!LedgerNext
  <2>6. CASE stopping = "waiting" /\ ~Running /\ stopping' = "done" /\ UNCHANGED turn
    <3>1. Ledger!Stopped
      BY <2>1, <2>2, <2>6 DEF Ledger!Stopped, Running
    <3> QED
      BY <3>1 DEF Ledger!LedgerNext
  <2> QED
    BY <1>9, <2>3, <2>4, <2>5, <2>6, QuietStepsService
<1>10. UserMessage \/ Archive => UNCHANGED <<turn, used, stopping, reply, status, deaths>>
  BY DEF UserMessage, Archive, bounds
<1>11. MessageArrives => Send \/ UNCHANGED <<turn, used, stopping, reply, status, deaths>>
  BY DEF MessageArrives, serviceVars, bounds
<1>12. RefuseSession => turn' = Idle \/ Stage("refusing")
  BY DEF RefuseSession
<1>13. Refused => turn' = Idle
  BY DEF Refused
<1>14. CASE Dies
  BY <1>14, DeathCuts DEF Ledger!LedgerNext
<1> QED
  BY <1>1, <1>2, <1>3, <1>4, <1>5, <1>6, <1>7, <1>8, <1>9, <1>10, <1>11, <1>12, <1>13, <1>14
     DEF Next, TurnSteps, RunSteps, AbortedSettles, QuietStep

\* ImplementsLedger: one turn at a time, refused or ended once, its stream whole and its outcome
\* fixed, "cancelled" only on a wish, and cut short only by the end of the process; and a service
\* that stops takes no turn.
THEOREM TurnsAreKept == Spec => ImplementsLedger
<1>1. Init => Ledger!LedgerInit
  BY DEF Init, Ledger!LedgerInit, Idle, PlaceOf, Turns, NoTurn
<1>2. Init => AbortIsWished
  BY DEF Init, Idle, AbortIsWished
<1>3. ChatInvariant /\ AbortIsWished /\ [Next]_vars => AbortIsWished'
  <2>1. UNCHANGED vars /\ AbortIsWished => AbortIsWished'
    BY DEF AbortIsWished, vars, serviceVars
  <2> QED
    BY <2>1, WishKept DEF ChatInvariant
<1>4. ChatInvariant /\ AbortIsWished /\ [Next]_vars =>
        [Ledger!LedgerNext]_<<[t \in Turns |-> PlaceOf(t)], turn.id, turn.cancel, stopping, deaths>>
  <2>1. UNCHANGED vars =>
          UNCHANGED <<[t \in Turns |-> PlaceOf(t)], turn.id, turn.cancel, stopping, deaths>>
    BY DEF PlaceOf, At, vars, serviceVars, bounds
  <2> QED
    BY <2>1, StepsImplement DEF ChatInvariant
<1> QED
  BY <1>1, <1>2, <1>3, <1>4, ChatInvariantHolds, PTL
     DEF Spec, ImplementsLedger, Ledger!LedgerSpec
=============================================================================
