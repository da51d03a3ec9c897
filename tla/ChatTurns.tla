------------------------------ MODULE ChatTurns ------------------------------
(***************************************************************************)
(* One chat of the daemon (src/agent/chat-service.ts), from a message to   *)
(* the end of its reply: the session it is built on, the stream of events, *)
(* cancelling, renaming, deleting and the daemon's stop; beside it a       *)
(* scheduled prompt run (src/agent/prompt-runner.ts) or the turn of        *)
(* another chat, which shares the sandbox's queue                          *)
(* (src/agent/sandbox/anthropic-sandbox.ts); and one page of the web app   *)
(* that shows the chat (apps/web/src/components/chat-app.tsx).             *)
(*                                                                         *)
(* Pi, which runs the model and writes the transcript, is external.        *)
(***************************************************************************)
EXTENDS Naturals, Sequences

CONSTANTS
  MaxTurns,    \* bound: messages sent to the chat
  Slots,       \* bound: loads of the page that can be under way at once
  MaxCancels,  \* bound: cancel requests of the page and of other clients
  MaxOther,    \* bound: renames, resyncs, lost connections, failed stops and deaths
  MaxEvents    \* bound: events on the way to the page; one more joins the last of them

ASSUME ChatAssumption ==
  MaxTurns \in Nat \ {0} /\ MaxCancels \in Nat /\ MaxOther \in Nat /\ MaxEvents \in Nat \ {0}

Turns == 1 .. MaxTurns
NoTurn == 0
Actors == {"chat", "run"}

VARIABLES
  turn,     \* turns.get(id): the turn that runs, its stage, and what is asked of it
  used,     \* turns so far: the next turnId is used + 1
  stopping, \* chats.stop: not called, waiting, done
  filed,    \* transcriptOf(id) finds a file
  stored,   \* per turn, the stopReason of its last message in the transcript
  marked,   \* turns with a pi-template-turn-cancelled entry
  reply,    \* per turn, how far a reader of its stream has come, and whether it has ended
  status,   \* per turn, the status its turn.finished carried
  queue,    \* executionQueue: whose commands wait for the sandbox, the first one in it
  cmd,      \* per actor, its command: none, queued, spawned, or killing
  run,      \* the scheduled run or the other chat's turn: its stage, and whether it is aborted
  announced,\* chat.changed events on the way to the page
  page,     \* the page: what it streams, turnRef, foreignTurn
  loads,    \* per slot, a fetchChat under way and what it has read
  deaths,   \* daemon processes that ended of an error nobody handled
  cancels, other

serviceVars == <<turn, used, stopping, filed, stored, marked, reply, status>>
sandboxVars == <<queue, cmd, run>>
pageVars == <<page, loads>>
bounds == <<deaths, cancels, other>>
vars == <<serviceVars, sandboxVars, announced, pageVars, bounds>>

Idle == [id |-> NoTurn, stage |-> "none", session |-> FALSE, cancel |-> FALSE,
         abort |-> FALSE, outcome |-> "none"]
NoLoad == [stage |-> "free", turn |-> NoTurn, running |-> FALSE]

\* What the service keeps of a turn, and of a stream and its reader.
TurnStates ==
  [id : Turns \cup {NoTurn},
   stage : {"none", "creating", "preflight", "running", "releasing", "refusing"},
   session : BOOLEAN, cancel : BOOLEAN, abort : BOOLEAN,
   outcome : {"none", "completed", "cancelled", "failed"}]
StoredEnds == {"nothing", "user", "completed", "toolUse", "aborted", "error", "rejected",
               "archived"}
Readers == [reader : {"first", "middle", "terminal", "broken"}, ended : BOOLEAN]
RunStates == [kind : {"scheduled", "chat"}, aborted : BOOLEAN,
              stage : {"none", "creating", "prompting", "disposing", "done"}]

\* What the page keeps, and a load of it.
PageStates ==
  [status : {"closed", "ready", "submitted", "streaming"}, own : Turns \cup {NoTurn},
   ref : Turns \cup {NoTurn}, foreign : BOOLEAN, of : Turns \cup {NoTurn}, booting : BOOLEAN]
LoadStates ==
  [stage : {"free", "asked", "half", "answered"}, turn : Turns \cup {NoTurn}, running : BOOLEAN]

Running == turn.id # NoTurn
At(stage) == turn.stage = stage
Stage(stage) == turn' = [turn EXCEPT !.stage = stage]
PageOpen == page.status # "closed"
Changed == announced' = IF PageOpen /\ announced < MaxEvents THEN announced + 1 ELSE announced
Aborted(a) == IF a = "chat" THEN turn.abort ELSE run.aborted
OtherChatRuns == run.kind = "chat" /\ run.stage \in {"creating", "prompting", "disposing"}

-----------------------------------------------------------------------------
(* The reader of a reply stream: parseGatewayChatStream.                   *)

\* turn.started comes first and only there, turn.finished last.
ReaderAfter(reader, event) ==
  CASE reader = "first" /\ event = "started"    -> "middle"
    [] reader = "middle" /\ event = "delta"     -> "middle"
    [] reader = "middle" /\ event = "finished"  -> "terminal"
    [] OTHER                                    -> "broken"

Emit(event) == reply' = [reply EXCEPT ![turn.id].reader = ReaderAfter(@, event)]

-----------------------------------------------------------------------------
(* send.                                                                   *)

\* A daemon that stops still takes messages.
SlipMayStart == ~Running

MayStart == stopping = "no" /\ ~Running

\* Everything up to the first await.
Send ==
  /\ MayStart /\ used < MaxTurns
  /\ used' = used + 1
  /\ turn' = [Idle EXCEPT !.id = used + 1, !.stage = "creating"]
  /\ UNCHANGED <<stopping, filed, stored, marked, reply, status>>

\* createHarnessSession and bindExtensions, which run every session start check.
CreateSession ==
  /\ At("creating")
  /\ turn' = [turn EXCEPT !.stage = "preflight", !.session = TRUE]
  /\ UNCHANGED <<used, stopping, filed, stored, marked, reply, status, sandboxVars, announced,
                 pageVars, bounds>>

\* A check refuses, and there is nothing to release; or an extension fails to bind, and
\* the session that was made is.
RefuseSession ==
  /\ At("creating")
  /\ \/ turn' = Idle
     \/ Stage("refusing")
  /\ UNCHANGED <<used, stopping, filed, stored, marked, reply, status, sandboxVars, announced,
                 pageVars, bounds>>

\* prompt rejects, or returns without starting the turn.
RefusePrompt ==
  /\ At("preflight")
  /\ Stage("refusing")
  /\ UNCHANGED <<used, stopping, filed, stored, marked, reply, status, sandboxVars, announced,
                 pageVars, bounds>>

\* The refused turn stays in the map of turns.
SlipRefused ==
  /\ At("refusing")
  /\ turn' = [turn EXCEPT !.stage = "none"]
  /\ UNCHANGED <<used, stopping, filed, stored, marked, reply, status, sandboxVars, announced,
                 pageVars, bounds>>

\* A refused turn has been released: nothing of it was written.
Refused ==
  /\ At("refusing")
  /\ turn' = Idle
  /\ UNCHANGED <<used, stopping, filed, stored, marked, reply, status, sandboxVars, announced,
                 pageVars, bounds>>

\* A cancel that came before there was a session to abort is forgotten.
SlipAccept ==
  /\ At("preflight")
  /\ turn' = [turn EXCEPT !.stage = "running"]
  /\ Emit("started")
  /\ UNCHANGED <<used, stopping, filed, stored, marked, status, sandboxVars, announced,
                 pageVars, bounds>>

\* Pi starts the turn: provenance, turn.started, and the abort of an earlier cancel, which
\* had nothing to act on before.
Accept ==
  /\ At("preflight")
  /\ turn' = [turn EXCEPT !.stage = "running", !.abort = turn.cancel]
  /\ Emit("started")
  /\ UNCHANGED <<used, stopping, filed, stored, marked, status, sandboxVars, announced,
                 pageVars, bounds>>

\* The first user message is stored; text and tool events follow.
UserMessage ==
  /\ At("running") /\ stored[turn.id] = "nothing"
  /\ stored' = [stored EXCEPT ![turn.id] = "user"]
  /\ Changed
  /\ UNCHANGED <<turn, used, stopping, filed, marked, reply, status, sandboxVars, pageVars,
                 bounds>>

Delta ==
  /\ At("running") /\ stored[turn.id] = "user"
  /\ filed' = TRUE
  /\ Emit("delta")
  /\ UNCHANGED <<turn, used, stopping, stored, marked, status, sandboxVars, announced,
                 pageVars, bounds>>

-----------------------------------------------------------------------------
(* The end of a turn.                                                      *)

\* How Pi ends: with a last message, or by rejecting the prompt in the middle of it. A tool
\* that ends the turn leaves its call as the last message.
Ends == {"toolUse", "error", "rejected"} \cup IF turn.abort THEN {"aborted"} ELSE {"completed"}

\* finished and the catch of a rejected prompt.
Finished(end) == CASE end \in {"completed", "toolUse"} -> "completed"
                   [] end = "aborted"                  -> "cancelled"
                   [] OTHER                            -> "failed"

\* A cancelled turn that ends as an error is reported cancelled, the transcript not marked.
SlipMarks(end, cancelled) == FALSE

\* Whether the transcript gets the cancelled entry, without which it would read failed; the
\* entry names the user message, if there is one.
Marks(end, cancelled) ==
  cancelled /\ Finished(end) = "failed" /\ stored[turn.id] # "nothing"

Outcome(end, cancelled) ==
  IF cancelled /\ Finished(end) = "failed" THEN "cancelled" ELSE Finished(end)

\* Only a rejection ends a turn of which no message has been stored.
StoreEnd(end) ==
  IF stored[turn.id] = "nothing"
  THEN end = "rejected" /\ UNCHANGED <<stored, filed>>
  ELSE stored' = [stored EXCEPT ![turn.id] = end] /\ filed' = TRUE

\* The reply settles, and the owner's cancel so far decides what it is called.
Settle(end) ==
  /\ At("running") /\ cmd["chat"] = "none"
  /\ end \in Ends
  /\ StoreEnd(end)
  /\ turn' = [turn EXCEPT !.stage = "releasing", !.outcome = Outcome(end, turn.cancel)]
  /\ marked' = IF Marks(end, turn.cancel) THEN marked \cup {turn.id} ELSE marked
  /\ UNCHANGED <<used, stopping, reply, status, sandboxVars, announced, pageVars, bounds>>

\* The stream ends with the session's shutdown, before its last event.
SlipRelease ==
  /\ At("releasing")
  /\ reply' = [reply EXCEPT ![turn.id].ended = TRUE]
  /\ status' = [status EXCEPT ![turn.id] = turn.outcome]
  /\ turn' = Idle
  /\ Changed
  /\ UNCHANGED <<used, stopping, filed, stored, marked, sandboxVars, pageVars, bounds>>

\* session_shutdown has been emitted: the turn is gone, then its last event is sent.
Release ==
  /\ At("releasing")
  /\ reply' = [reply EXCEPT ![turn.id] = [reader |-> ReaderAfter(@.reader, "finished"),
                                          ended |-> TRUE]]
  /\ status' = [status EXCEPT ![turn.id] = turn.outcome]
  /\ turn' = Idle
  /\ Changed
  /\ UNCHANGED <<used, stopping, filed, stored, marked, sandboxVars, pageVars, bounds>>

\* projectChat: how a turn that is over reads in the transcript.
Projected(t) ==
  CASE stored[t] = "completed" -> "completed"
    [] stored[t] = "aborted"   -> "cancelled"
    [] stored[t] = "error"     -> IF t \in marked THEN "cancelled" ELSE "failed"
    [] OTHER                   -> "interrupted"

-----------------------------------------------------------------------------
(* What arrives while a turn runs.                                         *)

\* cancel: a turn without a session keeps the wish; session.abort does nothing before Pi
\* runs and once it has ended.
CancelTurn ==
  turn' = [turn EXCEPT !.cancel = TRUE, !.abort = @ \/ turn.stage = "running"]

Cancel(t) ==
  IF Running /\ t \in {NoTurn, turn.id} THEN CancelTurn ELSE UNCHANGED turn

OtherCancels ==
  /\ cancels < MaxCancels /\ Running
  /\ cancels' = cancels + 1
  /\ Cancel(NoTurn)
  /\ UNCHANGED <<used, stopping, filed, stored, marked, reply, status, sandboxVars, announced,
                 pageVars, deaths, other>>

OtherSends ==
  /\ Send
  /\ UNCHANGED <<sandboxVars, announced, pageVars, bounds>>

\* A turn that has no session yet, and a delete beside any turn, are refused as busy.
Rename ==
  /\ other < MaxOther /\ other' = other + 1
  /\ turn.session \/ (~Running /\ filed)
  /\ Changed
  /\ UNCHANGED <<serviceVars, sandboxVars, pageVars, deaths, cancels>>

Archive ==
  /\ ~Running /\ filed
  /\ filed' = FALSE
  /\ stored' = [t \in Turns |-> IF stored[t] = "nothing" THEN "nothing" ELSE "archived"]
  /\ Changed
  /\ UNCHANGED <<turn, used, stopping, marked, reply, status, sandboxVars, pageVars, bounds>>

\* chats.stop: every turn, whose chat it is, is cancelled as by cancel, and waited for.
Stop ==
  /\ stopping = "no"
  /\ stopping' = "waiting"
  /\ IF Running THEN CancelTurn ELSE UNCHANGED turn
  /\ run' = [run EXCEPT !.aborted = @ \/ OtherChatRuns]
  /\ UNCHANGED <<used, filed, stored, marked, reply, status, queue, cmd, announced, pageVars,
                 bounds>>

Stopped ==
  /\ stopping = "waiting" /\ ~Running /\ ~OtherChatRuns
  /\ stopping' = "done"
  /\ UNCHANGED <<turn, used, filed, stored, marked, reply, status, sandboxVars, announced,
                 pageVars, bounds>>

-----------------------------------------------------------------------------
(* Sandboxed commands: serialized and spawnSandboxed.                      *)

Prompting(a) == IF a = "chat" THEN At("running") ELSE run.stage = "prompting"

RunCommand(a) ==
  /\ Prompting(a) /\ ~Aborted(a) /\ cmd[a] = "none"
  /\ cmd' = [cmd EXCEPT ![a] = "queued"]
  /\ queue' = Append(queue, a)
  /\ UNCHANGED <<serviceVars, run, announced, pageVars, bounds>>

\* An aborted command is killed only once it is its turn in the queue.
Spawn(a) ==
  /\ queue # <<>> /\ Head(queue) = a /\ cmd[a] = "queued"
  /\ cmd' = [cmd EXCEPT ![a] = "spawned"]
  /\ UNCHANGED <<serviceVars, queue, run, announced, pageVars, bounds>>

\* SIGTERM to the group ...
Kill(a) ==
  /\ cmd[a] = "spawned" /\ Aborted(a)
  /\ cmd' = [cmd EXCEPT ![a] = "killing"]
  /\ UNCHANGED <<serviceVars, queue, run, announced, pageVars, bounds>>

\* ... and SIGKILL after the grace, which ends the wait for pipes a descendant may hold.
CommandEnds(a) ==
  /\ cmd' = [cmd EXCEPT ![a] = "none"]
  /\ queue' = Tail(queue)
  /\ UNCHANGED <<serviceVars, run, announced, pageVars, bounds>>

GraceOver(a) == cmd[a] = "killing" /\ CommandEnds(a)
CommandExits(a) == cmd[a] = "spawned" /\ CommandEnds(a)

\* Beside the chat: createScheduledPromptRunner, which the scheduler calls and whose signal it
\* aborts, or another chat's turn.
RunStep(from, to) ==
  /\ run.stage = from /\ run' = [run EXCEPT !.stage = to]
  /\ UNCHANGED <<serviceVars, queue, cmd, announced, pageVars, bounds>>

\* Not before onboarding is complete, nor once the signal is aborted or chats stop; a cancelled
\* chat begins its prompt and aborts it.
RunStarts == (run.kind = "chat" => stopping = "no") /\ RunStep("none", "creating")
RunPrompts == (run.aborted => run.kind = "chat") /\ RunStep("creating", "prompting")
RunGivesUp == run.aborted /\ run.kind = "scheduled" /\ RunStep("creating", "disposing")
RunSettles == cmd["run"] = "none" /\ RunStep("prompting", "disposing")
RunDisposed == RunStep("disposing", "done")

\* A timeout, which every schedule has, or the scheduler's stop; or a cancel of the other chat,
\* whose commands have no timeout unless the model asks for one.
RunAborted ==
  /\ run.stage \in {"creating", "prompting"} /\ ~run.aborted
  /\ run' = [run EXCEPT !.aborted = TRUE]
  /\ UNCHANGED <<serviceVars, queue, cmd, announced, pageVars, bounds>>

-----------------------------------------------------------------------------
(* The page.                                                               *)

Streaming == page.status \in {"submitted", "streaming"}
PageOnly == UNCHANGED <<serviceVars, sandboxVars>>

Submit ==
  /\ page.status = "ready" /\ ~page.foreign /\ ~page.booting /\ used < MaxTurns
  /\ page' = [page EXCEPT !.status = "submitted"]
  /\ PageOnly /\ UNCHANGED <<announced, loads, bounds>>

\* The message reaches send, or is refused as busy or because the daemon stops.
MessageArrives ==
  /\ page.status = "submitted" /\ page.own = NoTurn
  /\ IF MayStart /\ used < MaxTurns
     THEN Send /\ page' = [page EXCEPT !.own = used + 1]
     ELSE UNCHANGED serviceVars /\ page' = [page EXCEPT !.status = "ready"]
  /\ UNCHANGED <<sandboxVars, announced, loads, bounds>>

OwnOver == [page EXCEPT !.status = "ready", !.own = NoTurn, !.ref = NoTurn]

MessageRefused ==
  /\ page.status = "submitted" /\ page.own \notin {NoTurn, turn.id}
  /\ reply[page.own].reader = "first"
  /\ page' = OwnOver
  /\ PageOnly /\ UNCHANGED <<announced, loads, bounds>>

\* The id that comes with the first event is not kept.
SlipReplyStarts ==
  /\ page.status = "submitted" /\ page.own # NoTurn /\ reply[page.own].reader # "first"
  /\ page' = [page EXCEPT !.status = "streaming"]
  /\ PageOnly /\ UNCHANGED <<announced, loads, bounds>>

ReplyStarts ==
  /\ page.status = "submitted" /\ page.own # NoTurn /\ reply[page.own].reader # "first"
  /\ page' = [page EXCEPT !.status = "streaming", !.ref = page.own]
  /\ PageOnly /\ UNCHANGED <<announced, loads, bounds>>

ReplyEnds ==
  /\ page.status = "streaming" /\ reply[page.own].ended
  /\ page' = OwnOver
  /\ PageOnly /\ UNCHANGED <<announced, loads, bounds>>

\* The connection is lost; the turn goes on.
ReplyCut ==
  /\ other < MaxOther /\ other' = other + 1
  /\ Streaming /\ page.own # NoTurn
  /\ page' = OwnOver
  /\ PageOnly /\ UNCHANGED <<announced, loads, deaths, cancels>>

\* load(true): fetchChat, unless the page streams a reply of its own.
Fetch(s) == loads[s].stage = "free" /\ loads' = [loads EXCEPT ![s].stage = "asked"]

\* The gateway's event stream, piped to the page.
Delivered == announced > 0 /\ announced' = announced - 1

EventArrives ==
  /\ Delivered
  /\ IF Streaming THEN UNCHANGED loads ELSE \E s \in Slots : Fetch(s)
  /\ PageOnly /\ UNCHANGED <<page, bounds>>

\* A reconnect of the event source, or the window's focus.
Resync ==
  /\ other < MaxOther /\ other' = other + 1
  /\ page.status = "ready" /\ \E s \in Slots : Fetch(s)
  /\ PageOnly /\ UNCHANGED <<announced, page, deaths, cancels>>

\* get: the turn and its messages first; a chat without a file needs no summary, and one
\* that is not there at all opens empty.
LoadReads(s) ==
  /\ loads[s].stage = "asked"
  /\ loads' = [loads EXCEPT ![s] =
       [stage |-> IF filed THEN "half" ELSE "answered",
        turn |-> IF filed \/ turn.session THEN turn.id ELSE NoTurn,
        running |-> ~filed /\ turn.session]]
  /\ PageOnly /\ UNCHANGED <<announced, page, bounds>>

\* summary, after an await: whether a turn runs by then. The page keeps the turn only if one does.
LoadSummary(s) ==
  /\ loads[s].stage = "half"
  /\ loads' = [loads EXCEPT ![s] = IF filed /\ Running
                                   THEN [@ EXCEPT !.stage = "answered", !.running = TRUE]
                                   ELSE [NoLoad EXCEPT !.stage = "answered"]]
  /\ PageOnly /\ UNCHANGED <<announced, page, bounds>>

\* adopt.
Adopt(s) ==
  /\ loads[s].stage = "answered"
  /\ page' = [page EXCEPT !.foreign = loads[s].running, !.booting = FALSE,
                          !.of = IF loads[s].running THEN loads[s].turn ELSE NoTurn]
  /\ loads' = [loads EXCEPT ![s] = NoLoad]
  /\ PageOnly /\ UNCHANGED <<announced, bounds>>

\* stopReply: with the id of the turn it knows of, if it knows one.
Shown == IF Streaming THEN page.ref ELSE page.of

PageStops ==
  /\ cancels < MaxCancels /\ cancels' = cancels + 1
  /\ Streaming \/ page.foreign
  /\ Cancel(Shown)
  /\ UNCHANGED <<used, stopping, filed, stored, marked, reply, status, sandboxVars, announced,
                 pageVars, deaths, other>>

\* The request fails, on its way there or back: the page drops its stream and loads the chat.
PageStopFails ==
  /\ other < MaxOther /\ other' = other + 1
  /\ Streaming \/ page.foreign
  /\ Cancel(Shown) \/ UNCHANGED turn
  /\ page' = IF Streaming THEN OwnOver ELSE page
  /\ \E s \in Slots : Fetch(s)
  /\ UNCHANGED <<used, stopping, filed, stored, marked, reply, status, sandboxVars, announced,
                 deaths, cancels>>

-----------------------------------------------------------------------------
(* The daemon dies.                                                        *)

\* The cancelled entry cannot be appended, or an extension throws at the session's shutdown.
Throws ==
  \/ /\ At("running") /\ cmd["chat"] = "none"
     /\ \E end \in Ends : Marks(end, turn.cancel) /\ StoreEnd(end)
  \/ At("releasing") /\ UNCHANGED <<stored, filed>>

\* Nobody handles the rejection, so Node ends the process with all its sessions, before the
\* last event of the stream. A page reconnects to the next one and loads the chat.
Dies ==
  /\ other < MaxOther /\ other' = other + 1
  /\ Throws
  /\ deaths' = deaths + 1
  /\ turn' = Idle /\ stopping' = "no"
  /\ queue' = <<>> /\ cmd' = [a \in Actors |-> "none"]
  /\ run' = [run EXCEPT !.stage = "done"]
  /\ announced' = 0
  /\ page' = IF PageOpen THEN [OwnOver EXCEPT !.booting = FALSE] ELSE page
  /\ \E s \in Slots : loads' = [x \in Slots |-> IF PageOpen /\ x = s
                                            THEN [NoLoad EXCEPT !.stage = "asked"] ELSE NoLoad]
  /\ UNCHANGED <<used, marked, reply, status, cancels>>

-----------------------------------------------------------------------------
\* Bound: beside the chat there is a page that opens it, a scheduled run or another chat.
Init ==
  /\ turn = Idle /\ used = 0 /\ stopping = "no" /\ filed = FALSE
  /\ stored = [t \in Turns |-> "nothing"]
  /\ marked = {}
  /\ reply = [t \in Turns |-> [reader |-> "first", ended |-> FALSE]]
  /\ status = [t \in Turns |-> "none"]
  /\ queue = <<>> /\ cmd = [a \in Actors |-> "none"]
  /\ announced = 0 /\ deaths = 0 /\ cancels = 0 /\ other = 0
  /\ \E beside \in {"page", "scheduled", "chat"}, s \in Slots :
       /\ page = [status |-> IF beside = "page" THEN "ready" ELSE "closed", own |-> NoTurn,
                  ref |-> NoTurn, foreign |-> FALSE, of |-> NoTurn,
                  booting |-> beside = "page"]
       /\ loads = [x \in Slots |-> IF beside = "page" /\ x = s
                                   THEN [NoLoad EXCEPT !.stage = "asked"] ELSE NoLoad]
       /\ run = [kind |-> IF beside = "chat" THEN "chat" ELSE "scheduled", aborted |-> FALSE,
                 stage |-> IF beside = "page" THEN "done" ELSE "none"]

\* Steps that end by themselves: session creation, Pi's preflight, the end of an aborted
\* prompt, releases, and the commands of the sandbox that are to be killed.
AbortedSettles == turn.abort /\ \E end \in Ends : Settle(end)

TurnSteps ==
  \/ CreateSession \/ RefuseSession \/ RefusePrompt \/ Refused \/ Accept \/ UserMessage
  \/ AbortedSettles \/ Release

CommandSteps(a) == Spawn(a) \/ Kill(a) \/ GraceOver(a)

RunSteps == RunPrompts \/ RunGivesUp \/ (run.aborted /\ RunSettles) \/ RunDisposed

Next ==
  \/ OtherSends \/ TurnSteps \/ Delta \/ \E end \in Ends : Settle(end)
  \/ OtherCancels \/ Rename \/ Archive \/ Stop \/ Stopped
  \/ \E a \in Actors : RunCommand(a) \/ CommandSteps(a) \/ CommandExits(a)
  \/ RunStarts \/ RunSteps \/ RunSettles \/ RunAborted
  \/ Submit \/ MessageArrives \/ MessageRefused \/ ReplyStarts \/ ReplyEnds \/ ReplyCut
  \/ EventArrives \/ Resync \/ PageStops \/ PageStopFails \/ Dies
  \/ \E s \in Slots : LoadReads(s) \/ LoadSummary(s) \/ Adopt(s)

Spec == Init /\ [][Next]_vars

\* The scheduler's timeout aborts a run that is in the way of the chat's command; nothing ends
\* another chat's command but its own exit and its owner's cancel.
FairSpec ==
  /\ Spec
  /\ WF_vars(TurnSteps) /\ WF_vars(Stopped)
  /\ \A a \in Actors : WF_vars(CommandSteps(a))
  /\ WF_vars(RunSteps) /\ WF_vars(run.kind = "scheduled" /\ RunAborted)

-----------------------------------------------------------------------------
TypeOK ==
  /\ turn \in TurnStates
  /\ (turn.id = NoTurn) <=> (turn.stage = "none")
  /\ used \in 0 .. MaxTurns /\ turn.id <= used
  /\ stopping \in {"no", "waiting", "done"} /\ filed \in BOOLEAN
  /\ stored \in [Turns -> StoredEnds]
  /\ marked \subseteq Turns
  /\ reply \in [Turns -> Readers]
  /\ status \in [Turns -> {"none", "completed", "cancelled", "failed"}]
  /\ queue \in Seq(Actors)
  /\ cmd \in [Actors -> {"none", "queued", "spawned", "killing"}]
  /\ run \in RunStates
  /\ announced \in 0 .. MaxEvents
  /\ page \in PageStates
  /\ loads \in [Slots -> LoadStates]
  /\ cancels \in 0 .. MaxCancels /\ other \in 0 .. MaxOther /\ deaths \in 0 .. other

\* No reply is ever out of order for the page's parser, whatever interrupts its turn, and
\* every one that ends has told how.
RepliesAreWhole ==
  \A t \in Turns : /\ reply[t].reader # "broken"
                   /\ reply[t].ended => reply[t].reader = "terminal" /\ status[t] # "none"

\* What a turn's stream said of its end is what its transcript reads later. Not so where Pi
\* rejected the prompt, before its first message or after it, or the chat was deleted; nor where
\* the last message is a tool call, which the stream calls completed and projectChat interrupted.
Unspoken == {"nothing", "toolUse", "rejected", "archived"}

TranscriptAgrees ==
  \A t \in Turns : status[t] # "none" /\ stored[t] \notin Unspoken => Projected(t) = status[t]

\* A stopped service has no turn of any chat and no command of one left, and starts none.
StopLeavesNothing ==
  stopping = "done" => /\ ~Running /\ cmd["chat"] = "none"
                       /\ run.kind = "chat" => cmd["run"] = "none"

\* A Stop on the page cancels the turn the page shows, though that may be over by then and the
\* turn of another client have begun: while the page streams, only the turn whose reply it
\* streams, and else only the running turn its last load named. Before its own reply begins, and
\* where the load fell between two turns, the page has no id and the Stop hits whatever runs.
StopHitsWhatIsShown ==
  [][(PageStops \/ PageStopFails) /\ turn' # turn =>
       /\ page.status = "streaming" => turn.id = page.own
       /\ ~Streaming => page.of \in {NoTurn, turn.id}]_vars

-----------------------------------------------------------------------------
(* The ledger of turns that the service implements.                        *)

\* Where the ledger has a turn: by what a reader of its stream has seen and, once that holds all
\* the stream has, by what it was told. A stream that is out of order, or ends before its last
\* event, is nowhere.
PlaceOf(t) ==
  IF t > used THEN "unsent"
  ELSE CASE reply[t].reader = "first" -> IF t = turn.id THEN "taken" ELSE "refused"
         [] t = turn.id /\ reply[t].reader = "middle" ->
              IF At("releasing") THEN turn.outcome ELSE "replying"
         [] t # turn.id /\ reply[t].reader = "terminal" /\ reply[t].ended -> status[t]
         [] t # turn.id /\ reply[t].reader = "middle" /\ ~reply[t].ended -> "cut"
         [] OTHER -> "nowhere"

Ledger == INSTANCE TurnLedger WITH
  place <- [t \in Turns |-> PlaceOf(t)],
  work <- turn.id,
  wish <- turn.cancel

\* The service implements the ledger, whatever falls into the awaits of a turn: one turn at a time,
\* each refused or ended once and told whole, "cancelled" only when someone asked for it, and none
\* taken once the service stops.
ImplementsLedger == Ledger!LedgerSpec

\* Another chat's command that nobody cancels runs or is about to, before this chat's.
HeldUp == queue # <<>> /\ Head(queue) = "run" /\ run.kind = "chat" /\ ~run.aborted

\* A turn the owner cancels ends, at whatever stage the cancel arrives, its command queued behind
\* a scheduled run's or not; only behind another chat's command it waits, and for ever if that one
\* does not exit. The daemon's stop aborts that chat too, and its wait for all turns ends.
CancelTakesEffect ==
  /\ ((Running /\ turn.cancel) ~> ~Running) \/ <>[]HeldUp
  /\ (stopping = "waiting") ~> (stopping # "waiting")
=============================================================================
