# Formal models of pi-harness

TLA+ models of the program in this repository, the TLC runs that check them on
small instances, and proofs checked by TLAPS. Paths below are those of the
repository; `PROJECT.json` maps every definition to the lines it translates.

## 1. The system

A local daemon keeps notes, schedules and chats for one owner. It is one Node.js
process: single threaded, interleaving only at `await`, timers and microtasks.
A command line and a web app talk to it over HTTP on the loopback interface.

| Part | State it keeps | Operations | Talks to |
|---|---|---|---|
| Scheduler (`src/scheduler`) | lifecycle, wake timer, queue, active map, owned schedule ids, stop waiter | start, stop, add, update, remove, run; timers; completions | State, payload runners |
| State (`src/state`) | SQLite tables `schedules`, `schedule_runs`, `notes` | one transaction per method; recovery when it is opened | event bus |
| Event bus (`src/state/event-bus.ts`) | subscribers | publish, subscribe | gateway `/events` |
| Daemon lifecycle (`src/daemon`) | discovery record, agent socket, fingerprint, lifecycle of all parts | start, close, fingerprint poll, launchd job | everything |
| CLI start (`src/cli/ensure-daemon.ts`) | one command's probes and deadline | find, confirm, start, poll | daemon, launchd |
| Gateway (`src/gateway`) | connections, two listeners | routes, setup gate, caller policy | daemon parts |
| Chat service (`src/agent/chat-service.ts`) | one turn per chat, transcripts | send, cancel, rename, archive, stop | agent library |
| Agent runtime, sandbox (`src/agent`) | sessions, execution queue | start a session, run a prompt, run a sandboxed command, select skills | agent library |
| Onboarding, doctor (`src/cli/onboard.ts`, `src/agent/onboarding.ts`) | progress, marker, settings, policies | interview, staged setup, checks | home files, launchd |
| Workspace files (`src/workspace`) | files on disk | read, conditional write, rename | web app |
| Web app (`apps/web`) | editor state, chat page | autosave, conflicts, streaming, adoption | gateway |

### What is hard in each, and what makes it correct

* **Scheduler and State.** Scans, manual runs, completions, timeouts and stop
  interleave; any transaction may throw; the process may die between any two of
  them. Correct: a schedule never overlaps itself; slots are neither exceeded
  nor wasted; the books (queue, active map, owned ids, rows that say running)
  agree; a running scheduler never sleeps for good; stop ends, and leaves
  something behind only where one of its own writes failed; an outcome is
  written once; backlog is skipped.
* **Daemon lifecycle and CLI start.** Two daemons start, or one starts while
  another closes, hangs, crashes or is replaced by launchd; a probe is stale when
  it is acted on. Correct: one daemon survives a race, a live recorded daemon is
  neither doubled nor its database opened under it, a clean exit removes exactly
  its own traces, every command comes to an end.
* **Chat service, page and sandbox queue.** cancel, stop, rename and archive fall
  into the awaits of a turn; a page reloads, loses its connection and adopts a
  turn it did not start; commands of other sessions hold the sandbox. Correct:
  every accepted turn ends its stream once and in order while the process
  lives, the transcript tells what the stream told, a cancel takes effect
  wherever it lands and hits the turn it was meant for, stop leaves nothing
  behind.
* **Onboarding and doctor.** A process may be stopped between any two writes, and
  the next has other flags; files are damaged or edited between. Correct: the
  marker stands only over a home the doctor calls ready; a choice once made is
  kept until another is made; the permission config follows the choices.
* **Sessions and permissions.** A session reads its policy once and the mode for
  each command, while a rerun of setup rewrites both. Correct: no command reaches
  a shell that the owner's latest choice of mode denies or that could write the
  home.
* **Gateway.** A right is decided before the body arrives. Correct: an agent never
  creates, changes or runs a command schedule, whatever the owner does meanwhile.
* **Skill selection.** Folders link to each other, are ignored, broken or
  unreadable. Correct: the walk takes what the agent library would
  load, and refuses an entry only for a loop of links or for exceeding the cap.
* **Workspace files and the editor.** A write checks a revision and replaces the
  file some awaits later, while notices of changes arrive in any order.
  Correct: no edit is lost without a conflict being shown, but for windows the
  properties name.
* **Command termination.** Descendants outside the process group, late signals.
  Correct: every command settles once and the queue goes on.

`PROJECT.json` lists the hazards at their lines.

## 2. The modules

| Module | What it is |
|---|---|
| `Scheduler` | the scheduler with the two tables it owns, crash and restart |
| `RunLedger` | the abstract promise about runs, without queue and timers |
| `MCScheduler` | instances for TLC |
| `SchedulerProof` | lemmas on the operators and the calendar, type correctness, the inductive invariant and what follows from it |
| `SchedulerStepsProof` | what a step may do to a run: action properties, idle slots, the refinement of RunLedger |
| `Daemon`, `DaemonProof` | daemon processes, commands that need one and launchd over one home |
| `ChatTurns`, `ChatTurnsProof` | a chat's turns, its page, the sandbox queue, and a scheduled run or another chat's turn beside it |
| `TurnLedger` | the abstract promise about a chat's turns, without sessions and page |
| `HarnessHome` | the files of the harness home as their readers tell them apart, and the doctor |
| `Setup` | onboarding: flags, interview, stages, marker |
| `Sessions` | an agent session: its start checks, its policy, its bash |
| `Gateway` | setup gate, caller policy and the schedule and note routes |
| `Harness` | Setup, Sessions and Gateway composed over one HarnessHome |
| `MCHarness` | calls, flags and bounds for TLC |
| `HarnessProof` | marker, permission config, commands, agent callers |
| `HarnessChoicesProof` | choices are kept |
| `SkillWalk`, `MCSkillWalk` | the selection of workspace skills, and a family of folder graphs |
| `SkillWalkProof` | what the walk takes and leaves out, for every workspace |
| `FileEditor` | the web app's editor, the file it has open and the Gateway's conditional write |
| `FileEditorProof` | the editor's inductive invariant and its safety properties |

Composition: `Harness` joins three components that share files. `Daemon` joins
processes that share the record, the port and the database; the scheduler it
starts and stops is, inside, `Scheduler`. `ChatTurns` joins service, sandbox
queue and page. `RunLedger` is what `Scheduler` implements, `TurnLedger` what
`ChatTurns` does.

### Scheduler: how it corresponds to the code

*State.* `schedules`, `runs`, `clock` survive a crash, as does `orphans`: the
commands that outlive a dead daemon. Everything else is memory of one process:
`pending` (the FIFO queue), `active` (keys of the active map), `settled` (runs
whose `execute` is over and whose `finally` has not run), `aborted`, `owned`
(`ownedScheduleIds`), `wakeHandle`, `lifecycle`, `waiter` (the state of `stop`),
`lost` (a history variable: runs whose final write failed). `shutdownPolicy` is
chosen at every boot, as the options of the process would.

*Steps.* An action is a stretch of code to its next await. `pump` and `execute`
up to its first await belong to the action that calls them, so that `Run`,
`ScanEnds`, `StopDraining` and `Release` all contain `Pump`, with the failure of
a run whose directory is gone. The loop of `scanDue` is split into one action
per transaction (`ScanSkip`, `ScanClaim`, `ScanThrows`), because a crash may
fall between two; while it runs nothing else of the process is enabled
(`Quiet`). After the loop, the promise chain of the wake callback settles in
later microtasks: `scanning = "settling"` until `ScanSettles`, with completions
and facade calls possible between.

*Failure.* With `StateMayThrow` any transaction may throw. A facade call that
throws changes nothing and is no step. `Settle` has the catch block's second
write and the case where that fails too. `StopCancelling` has a write failing at
any position, which rejects the promise of `stop`. `Crash` may come at any
point, also in the middle of a scan; `Boot` is the constructor of `State` with
its recovery. `Close` is the daemon's close once `stop` has settled, either way.

*Data.* Instants are small numbers, run ids are the insertion order of their
rows, payloads are only prompt or command. The calendar is whole: the next
occurrence of each kind of trigger, and `countMissedOccurrences`, whose number a
run row keeps as `missed`. cron is a function `CronNext` of which this is
assumed: it answers with a later instant or with none, and with the first
occurrence (the answer stands until that occurrence has come). Instants are
compared as numbers, not as the strings the database holds.

*Not in it.* Names (a clash only makes `add` fail), payload validation, output
capture, the event bus (`publish` defers to microtasks and cannot
fail the write before it), clock changes backwards.

### RunLedger

A run is created for a schedule, waits, executes and ends, or is stranded when
its process dies or its outcome cannot be stored, and is then at most marked
interrupted. It never moves back, at most one run of a schedule is live, at most
`concurrency` execute. `ImplementsLedger` states that Scheduler implements it,
`StageOf` being the mapping.

### FileEditor: how it corresponds to the code

One mounted editor, its file and everyone who changes it. A text is the whole
content and, since a revision is a hash of it, the revision too.

| In the model | In the code |
|---|---|
| `ed` | `stateRef.current`: draft and status (`revision` is the base of a conflict, `disk` its other side) |
| `Edited`, `SaveApplied`, `External`, ... | the cases of `editorReducer` |
| `read` | the one read whose effect has not been cleaned up: sent, answered |
| `write` | `writeRef.current` and the request of the current pass, from the browser to the rename |
| `pending`, `parked` | `pendingRef.current`, the calls of `save()` that await the pass |
| `copy` | Keep both between its click and the answer |
| `seen` | no variable of the code: every text the page has shown |
| `unsaved`, `tried` | no variables of the code: the draft holds typed text that no "saved" has covered; the text of the last save sent |

A step is what the browser or the Gateway does without giving way: an event
handler, the delivery of an answer with the microtasks it causes (the end of a
pass, its `finally`, the resumed calls, the next request), the revision check,
the rename, the second read after a refusal. Between the check and the rename,
and between any of them and an answer, everything else may happen. An answer may
be lost after the rename. Owner actions are enabled as the view enables them:
the text area is disabled while loading or unreadable, the choices appear in a
conflict. At most one Keep both copy is under way; the editor is followed from
its mount to the end of the flush that leaving it starts.

*What is lost.* `workspace-editor.ts:16` says of the draft "Never replaced
without an explicit action". It is, in three windows, which
`UnsavedSurvivesReads` names and outside of which it proves the words true: the
first text read after the file was missing, any text read after it was
unreadable (`LostToRead`), and the end of a Keep both copy after more was typed
(`LostToCopy`). `LeavingFlushes` says what leaving does for unsaved text: a save
is tried for a dirty draft and one that failed, and for none in conflict, missing
or unreadable, where `save()` returns at once.

### Daemon: how it corresponds to the code

A daemon's name stands for all that identifies it: pid, start time, fingerprint,
token, inode of its socket. Shared are the discovery record (`rec`), the port,
the socket path, the schema, one run row per daemon, the marker and the
checkout. `pc` is where a daemon is in `startDaemon`, serving or `close`; each
place is an await or a system call after which another process may act, the two
halves of `removeOwnDiscovery` (`reread`, `unlink`) included. A command walks
through `ensureDaemon`: two probes, each asking and then classifying by process
and port, the start by launchd or as a detached process, polls and the deadline.
Faults are a crash, a hang, a launchctl call that fails, a record removed by
hand; SIGTERM, an edit of the checkout and a `Restart` of the service come from
outside. `Migrate` is one migration of `State`, each a transaction of its own;
`Publish` may fail (`PublishFails`), and the daemon then closes what it has
opened; `StopWork` drains, as the default policy does: a run goes on until it
ends or the process does. `held` and `answering` are no variables of the code:
they remember for whom a recorded daemon has been there all along. `InodeReused` lets a new socket
get the number of a removed one; the run has it FALSE.

### ChatTurns: how it corresponds to the code

A turn goes through the stages between the awaits of `send`: creating,
preflight, running, releasing, or refusing. Everything else may happen at each.
The agent library is external: it may accept, refuse or throw, emits deltas,
runs commands, and ends a prompt as completed, with a tool call as its last
message, aborted, in error, or by rejecting it, before its first message or
after. `reply` is a reader of the stream, in the states the page's parser knows;
out-of-order events break it. `stored` and `marked` are the transcript,
`Projected` what `projectChat` reads out of it later. The sandbox executes one
command at a time: `queue` is the promise chain, `cmd` the command of each actor
up to its SIGKILL. The page submits, streams, stops, loses its connection,
reloads on `chat.changed`, and adopts a turn that is not its own; a load reads
the chat in two awaits. A stop that fails on its way there or back makes the page
drop its stream and load the chat (`PageStopFails`).

Beside the chat runs, besides a page, either a scheduled prompt run, which has a
timeout, or the turn of another chat, which has none (`run.kind`). Both hold the
sandbox's queue; the daemon's stop aborts and awaits the second, the scheduler
the first. That is all chats share, so a second chat is modelled no further.

Release is the session's shutdown: its `finally` deletes the turn and settles it
even if a handler throws. What such a throw, or one of the append of the
cancelled mark, then does is to reject a promise nobody awaits, which ends the
process (`Dies`): every turn of it is gone, and `turn.finished` is never sent. The
next process starts with no turn; `deaths` counts them.

### TurnLedger

One message at a time is taken; it is refused, or its reply begins, ends and
tells its end, once. A turn is called cancelled only when someone asked for it,
and then never failed; a service that stops takes no message, cancels the turn
at work and waits for it. A reply is cut short (`cut`) only when the process
dies. `ImplementsLedger` states that ChatTurns implements it.
The mapping `PlaceOf` looks at what a reader of the stream has seen, so a stream
out of order, or one that ends without its last event, is no place of the ledger.

### Harness: how it corresponds to the code

`disk` has one field per file, with the value its readers tell apart: missing,
damaged, or the choice it records. Each write of onboarding is a step of its own
and may be the last before a crash. `Onboard` reads the flags and what is on
record, `Interview` the owner's answers; `OfferImport`, `Menu`, `Login` and
`Review` are the dialogue; the stages follow, each with its checks and its
failure, and `Stamp` records progress after it. A session passes the gate,
makes its checks, awaits the library (`SessionLoads`, `SessionOpens`), reads the
sandbox policy once and the mode for every command, and may be replaced without
the gate. A request is admitted when it arrives and acts when its body has.
`chosen` (the owner's last choice of each setting), `edited` (something other
than onboarding changed the home since it was last ready), `commands` and
`effect` are no variables of the code.

`Harness` itself has every combination, and the theorems are about all of them.
The run walks `BoundedSpec` of `MCHarness`, whose `Bounds` cuts combinations that
cannot influence each other: requests and sessions in one behaviour, faults
under requests, crashes beside a session (which cannot tell a stopped call from
a slow one).

### SkillWalk: how it corresponds to the code

`workspace/skills` is a graph of real folders with ordered entries; links give a
folder several paths. The recursion of `walkSkillFolder` is a stack of its calls,
`frames`, each with the entries it has left, and a step is one entry of one
folder: what the calls of siblings share (`realAncestors`, the list of folders
above; `walk`, the counter, the files and the loops) is state each step changes.
`Ask` to `Answer` are the loops of `workspaceSkillEntries` around it: the entries
taken, the outcome of each walk, and at last the files by real path. `within` of
a workspace tells which real folders a real path goes through, which is all
`containsRealPath` looks at; `FileTree` says of it what a file system promises
(names are unique in a folder, a child that is no link lies just below).
`entered`, the folders counted so far with the way to each, is no variable of
the code. `PiPaths` is what the agent library would do with the same folders, as
the harness's own comments describe it.

## 3. The runs

| Run | Instance | Asks |
|---|---|---|
| SchedulerTriggers | 1 schedule, 4 runs, all trigger kinds, 4 ticks, 3 edits | no occurrence replayed, a claim skips the backlog and forgets no occurrence |
| SchedulerFaults | 2 schedules, 2 runs, 1 slot, both policies, failing transactions | types and slots, no overlap, ownership, rows, wake-ups, how far a cancelling stop reaches, outcomes, shutdown, refinement |
| SchedulerLiveness | 2 schedules, 3 runs, 1 slot, both policies | no idle slot, stop waits for its work, runs end, stop ends, due schedules are served |
| SchedulerOrphan | 1 schedule, 2 runs | violated: commands never overlap |
| SchedulerPoison | 2 schedules, 2 runs | violated: no idle slot |
| FileEditor | 3 texts, 2 edits, 1 outside change, 1 failed save, 1 waiting blur | types, "Saved" is saved, saves overwrite only what was shown, leaving tries a save for what one can be tried for, unsaved text is lost only in the named windows, unsaved text settles |
| FileEditorMissing | 3 texts, 1 edit, 1 outside change | violated: the draft is replaced only by an explicit action |
| Daemon | 2 daemons, 1 command, 2 migrations, 1 fault, 1 stop, 1 edit, 1 start by hand | a recorded daemon is kept, a race leaves one, cleanup is exact, who serves does so over every migration, commands end |
| DaemonRecord | 2 daemons, 1 stop, 2 starts by hand | violated: a replacement's record survives a closing daemon |
| ChatTurns | 2 turns, 1 load, 1 cancel, 1 of rename, resync, lost connection, failed stop or death, 1 event on the way; a page, a scheduled run or another chat beside the chat | the refinement (one turn at a time, replies whole, cancelled only on a wish), transcript agrees, stop leaves nothing, cancel and stop take effect, a Stop on the page hits what it shows |
| Harness | 2 calls, 1 crash, 1 edit of 8 kinds, 1 session, 2 connections, 2 requests | marker means ready, choices kept, config follows, commands and agents in bounds |
| SkillWalk | 5 folders, a family of graphs with links, 3 policies, cap 4 | the walk takes what the library's would load, and what it leaves out has a loop or exceeds the cap |

*Bounds.* `MaxRuns` rows: when the ids are used up a claim stalls, which no
safety property notices; SchedulerLiveness has as many ids as claims and manual
runs can use, so nothing stalls there. `Horizon` ends the clock, `MaxRevision` the edits,
`MaxManual` the manual runs. Two schedules for one slot are the least at which a run waits behind a
full active map, and its release must start it; one active and one queued run
are the least at which a cancelling stop fails before it aborts. More slots,
schedules and runs are the theorems' business. Four ticks with a period of two give an
occurrence missed, one at the current instant and one ahead. Schedules are
symmetric in the safety runs: their ids are random.

In FileEditor three texts are the least for a conflict whose base, draft and
disk differ. Two edits put one before a save and one during it; the failure may
fall before or after the rename; reads and invalidations are unbounded. The
safety properties are proved for every bound, so the run only has to be large
enough to meet each case once. The editor may stop for good once it is left, so
deadlock is not checked.

Two daemons are the least for a race, and a third adds no new pair of steps: a
daemon meets another only through one record, one port and one socket path. The schema starts older than the build, at it, or newer; two
migrations are the least between which a daemon can die. One fault at any step of
starting, serving or closing covers each single failure; a second would be a
failure during the recovery from the first. In ChatTurns two turns are the least
at which something of the first (a late event, a summary read before it ended, a
queued command) can reach the second; events on the way to the page are alike and each only starts a load, so a second joins the
first. A death ends everything, so one is enough; the page, the scheduled run and
the other chat are tried one at a time, because the page and the queue meet only in
the chat's turn. In Harness a first call with everything
and a second that changes one thing, or leaves everything to what is on record,
meets each file both missing and present; a crash makes the first call any prefix
of itself. Two symmetric connections and two requests let the owner's request
fall between the arrival and the body of an agent's. The folders of SkillWalk
hold one another three deep with one reached by links alone, and the cap of four
is met and exceeded. `Daemon`, `ChatTurns`, `Harness` and `SkillWalk` end when
everything asked of them is done, so deadlock is not checked there.

*Fairness (Daemon).* Weak for the steps of each daemon and of each command: a
process that runs goes on. Strong for the deadline of a command, which polls
that come between cannot put off. No daemon is assumed to start, to answer or
to die.

*Fairness (ChatTurns).* Weak for the steps that end by themselves: the creation
of a session, the preflight, the end of an aborted prompt, releases, the spawn
and the kill of a command with its grace period, the continuation of stop; and for the scheduler's timeout of a scheduled run, which every schedule has
and which frees the sandbox when such a run holds it. Another chat's command is not
assumed to end or to be cancelled, since a chat's bash has no default timeout
(`runtime.ts:465-492`): `CancelTakesEffect` excludes the cancelled turn whose
command waits behind one for ever (`HeldUp`), and nothing else. A model that is not aborted may stream for ever, and the
page may do nothing.

*Fairness (SchedulerLiveness).* Weak fairness for what stays ready until the
event loop takes it: a fired timer, the steps of a scan, the continuation of
`stop`. Strong fairness for run timers and continuations of runs, which the loop
of a scan disables each time it runs. A payload that was aborted ends: commands
get SIGTERM, then SIGKILL for their group, prompts end with their session. That
a command leaves no descendant outside its group holding its pipes is assumed,
not shown (the promise of `runCommand` waits for `close`). No facade call, no
boot, no tick and no payload that ends of its own accord is assumed.

*Fairness (FileEditor).* Weak, for the autosave timer, the steps of the Gateway
and the delivery of an answer. Edits are bounded: the timer is restarted by each
of them and fires when typing stops. Failures are bounded: a Gateway that is down
comes back. The owner need not act, and no event need arrive.

*What the violations show.* SchedulerOrphan: "The same job never overlaps
itself" (`docs/scheduler.md`) holds within a process, not across a killed one: a
detached command lives on, recovery frees its schedule. SchedulerPoison: an
interval so long that the occurrence after the anchor is no valid date passes
validation while its anchor lies ahead, and once due makes every scan throw
before it dispatches. FileEditorMissing: an editor opened on a file that has
just gone lets the owner type ("Your text is still here"), and when the file
appears its text replaces what was typed, because the first read that finds a
file is applied as `loaded` whenever it comes. Two more routes break the same
words of `workspace-editor.ts:16`: a dirty draft whose file a read finds
unreadable is replaced by the next readable answer, and Keep both drops what is
typed while the copy is written. DaemonRecord: `docs/architecture.md:121-122`
says that a replacement's record survives, because a closing daemon removes
`daemon.json` only while the record names it. The close has freed the port by then and
reads the record before it removes it by path; a record published between the two
is removed, and its daemon serves unrecorded. `RecordLossIsBounded` proves that
this window is the only one.

Where code and documents differ without a run of its own:

* `docs/scheduler.md:56-57`: "closes State only after active ownership is
  resolved". A stop under the cancel policy whose write of a queued run's
  interruption fails is rejected before the aborts, and the daemon closes State
  under runs that go on. `CancelReaches` states both cases.
* `docs/workspace.md:126-128`: the walk keeps an entry out "when Pi could not
  finish it". It keeps out whatever has a loop of links below it; Pi, which
  stops at a folder's `SKILL.md`, might have finished. `WalkAgreesWithPi`
  claims the loop or the cap as the cause, no more.
* `docs/state-and-sessions.md:124`: "`POST /chats/:id/cancel` stops the turn".
  A cancelled turn whose command is queued behind another chat's command stops
  only once that one exits or is cancelled.
* A turn whose last message is a tool call is told `completed` on its stream and
  reads `interrupted` in the transcript. `TranscriptAgrees` leaves it out.

Seen while modelling, in no violated property, each listed as a hazard:

* A settings file damaged from outside is saved over as if it were empty, and a
  resumed call does not repeat the stage that wrote it: the other settings are
  dropped (`ChoicesLost`), and a mode the call names is not written.
* The resources stage saves the skill policy and then the approvals. Recorded
  skills count only once approvals do, so after a crash between the two the next
  call writes the default over the policy that was named.
* The banner of a running reply can stay after the turn it belongs to was
  refused, or when loads are adopted in another order than they were sent or
  events were dropped while a reply streamed: no reload follows. A Stop on such
  a page hits the turn it was told of or nothing, except where the page has no id
  (before its own reply begins, or when a load fell between two turns): then the
  gateway is asked to cancel whatever runs, another client's turn included.
* The end of a turn runs in continuations nobody awaits; a throw there ends the
  daemon with every other turn.

Every property has a mutant in `PROJECT.json`: a `Slip...` operator that changes
one definition the way a slip in the code would, under which TLC finds the
property violated.

## 4. What is proved

Every safety property that a passing run checks, invariant or action property,
is a theorem of the specification, for every value of the constants that meets
the named assumptions of its module.

For every set of schedules and triggers, every number of runs and slots, and
whether or not transactions fail, from `ConstantsAssumption`,
`TriggersAssumption` and, for the calendar, `CronAssumption` of Scheduler (TLC
evaluates them in every run of it):

* `TypeCorrect`: `Spec => []TypeOK`, the bound on the active map included. It
  rests on `DispatchCountBounds` (pump starts no more than fit) and
  `NextRunAtIsLater` (the next occurrence is strictly later, by arithmetic on
  whole periods).
* `WorkInvariantHolds`: `Spec => []WorkInvariant`, and from it `NoOverlap`,
  `OwnershipIsExact`, `NoRowForgotten`, `AlwaysRearmed`, `StopSound` and
  `CancelIsCutShortOnlyByAFailedWrite`, each the property a run checks. The last
  says of a cancelling stop that it empties the queue, and that an active run is
  left without its abort only where a write of the stop failed, which is
  recorded as `lost`.

None of those properties is inductive alone. Whether a new run overlaps depends
on the owned ids being those of the held runs; whether a release may remove an
id depends on no other held run having its schedule; whether rows are accounted
for depends on lost runs being neither queued nor executing. `WorkInvariant`
therefore adds `HeldRunsAreOwned` and `PhaseShape` to them. The proof treats it
in two parts. *Custody* is about runs: `InCustody` says of any queue, set of
busy runs and table what `pump` needs, `PumpKeepsCustody` that pump preserves
it, and each operation is shown to hand pump a state in custody. *Phases* is about lifecycle, timer and waiter.

For FileEditor, for any set of texts and any number of edits, outside changes,
failures and waiting calls (`EditorAssumption`): `EditorInvariantHolds`, from it
`EditorTypeCorrect`, `SavedIsSaved`, `NothingUnseenOverwritten` and
`FlushReachesWhatItCan`, and the action property `UnsavedTextIsLostOnlySo`. Each case of
the reducer has a lemma: its result is well formed and has a revision that was
shown or is about to be. Beyond that, `SavedMeansSaved` needs that a draft being
saved is the text of the write (`WriteShape`), `LeavingFlushes` that a dirty
editor that was left has a call of `save()` waiting (`LeaveShape`) and that the
last save tried was of the draft as it stands (`HistoryShape`), and
`UnsavedSurvivesReads` that nothing is unsaved before the first text has been
read (`FirstReadShape`). With the revision check or the end of the first read
removed from the model the proofs fail where these facts are used.

SchedulerStepsProof builds on these. `EveryStepMoves` says that a step leaves a
run alone, moves it one way, ends it or creates it (`Moves`), from which follow
`OutcomeIsWrittenOnce`, `ShutdownIsFinal` and `LedgerIsImplemented`: the initial
states map to those of RunLedger and every step to one of its steps or to a
stutter, which needs `WorkInvariant` to know that no second run of a schedule is
live and that the executing ones fit the slots. `OccurrencesMoveOn` and
`BacklogIsSkipped` rest on `OccurrenceInvariant`: no due occurrence and no
scheduled run lies ahead of the clock, none is run twice, and what a schedule
waits for is an occurrence of its trigger (`NextsAreOccurrences`; an edit
computes it anew, and so does a claim). `SlotsAreUsed` is WorkConserving under `NothingThrows` (no failing
transaction, no unrepresentable instant); SchedulerPoison shows why the second is
needed.

`BacklogIsSkipped` says what a claim does with the calendar: the run is for an
occurrence, `missed` is the number of occurrences between it and the clock, the
schedule waits for the first one ahead, and no occurrence is left out of the
three. An occurrence is an instant of the trigger, whatever the code computes
(`IsOccurrence`: the instant of `at`, the anchor and every whole number of
periods after it, what croner answers for some instant). For `every` the
division of the code counts those instants, by a bijection with `1 .. n`
(`EveryMissedCounts`); for cron the sizes of the sets of occurrences satisfy the
equation of the loop, each jump of the cursor passing exactly one, and nothing
else does, by the least place where it would differ (`CronMissedCounts`).

DaemonProof, for any number of daemons, commands, migrations, faults, stops and
edits (`DaemonAssumption`): `DaemonTypeCorrect`, `RecordLossIsBounded`,
`RecordedIsKept`, `CleanupIsRight`, `RaceIsDecided` and `OnlyMigratedServe`.
`RecordLossIsBounded` is about no property of a passing run: it bounds the window
DaemonRecord shows. `OnlyMigratedServe` needs that the version a starting daemon
has read is never ahead of the schema (`MigratedFar`), whoever else migrates or dies.
The heart is that the port is the lock (`PortIsLock`): a
daemon holds it from the end of `listen` until it closes its server, at exactly those places
of its program. `KeptInvariant` adds what a command and a starting daemon know
while the recorded daemon is there: the record they read is the one that stands
(`Kept`, `Spared`), so the probe they act on is not stale. `CleanupIsRight`
assumes that no inode number is used again: with its socket removed, its port
free and a new daemon's socket under the old number, a closing daemon would take
that one away. Its `TraceInvariant` says who listens on the socket and who will
remove the record. `RaceIsDecided` needs, beside it, what every racer knows as
long as the race is `Calm`: who has lost a migration was overtaken by a daemon
that is still there (`Overtaken`), who loses the port lost it to one that goes on
to serve, and a command never tries the port of its own accord.

ChatTurnsProof, for any number of turns, loads, cancels and events on the way (`ChatAssumption`):
`ChatInvariant` is TypeOK, a queue in which each actor appears once and only its
head runs (`QueueIsSerial`, from which `SandboxIsSerial`: one command at a
time), and what a turn's stage says of its stream, its transcript and the stop;
`WholeReplies`, `TranscriptTellsTheSame` and `StopIsClean` follow, and, with
the fact that a page that streams has the id its first event told
(`PageKnowsItsTurn`), `StopsAreAimed`. A stream's
reader must be known to be at the very place the service is at
(`ReaderKeepsUp`), and the status it was told to be derived from the same end the
transcript has (`EndIsTold`). `TurnsAreKept` is the
refinement: the initial state maps to that of TurnLedger, and every step to one
of its steps or to a stutter. It needs the invariant to know that a message finds
a fresh stream and that what is told is what was settled, and `AbortIsWished` to
know that an aborted end was asked for.

HarnessProof, for any flags and any numbers of calls, crashes, edits, sessions
and requests (`FlagsAssumption`): `MarkerIsEarned` from `ProgressMeansReady`: the
last stage is on record, or about to be, only over a home the doctor called
ready, which no call changes before it has taken the marker and the progress
back; `CommandsInBounds` from `ModeIsChosen` (the mode on record is the one
chosen last) and `PoliciesSpareHome` (no policy on record or in memory lets bash
write the home, so it does not matter when a session reads it); `ConfigFollows`;
and `AgentKeepsOut`, which is inductive as it stands. HarnessChoicesProof:
`ChoicesKept`, whose invariant says of a call in any state that what it will
write is what was chosen.

SkillWalkProof, for any file tree, any policy and any cap
(`SkillWalkAssumption`): `SkillWalkIsRight`. The walk is a depth-first search
that stops where a folder holds one above it. `WalkInv` says that every path
entered is one the agent library walks and has no loop on it, that the list of
folders above is exactly that of the calls at work, that no path was entered by
way of an entry still to visit, and (`Covered`) that every path just below one
entered is entered too, or is left to visit in a call at work. When no call is
left, the paths entered hold the library's first path and everything below each,
so they are all it walks, by induction on their length; and it ends, since a path
without a loop is no longer than there are folders. `SelectionOK` carries what
each entry gave to the end, `LoadedOK` the files by real path. The library's induction theorems take an operator; induction on
the naturals is therefore derived here for sets (`Induction`), from the
well-foundedness of strict inclusion on finite sets.

Only model-checked is liveness under fairness, which is out of the prover's
reach: `EveryRunEnds`, `StopCompletes`, `DueIsServed`, `UnsavedSettles`,
`EnsureSettles`, `CancelTakesEffect`.

## 5. What could follow

1. `WorkspaceFiles`: folders, placeholders, links, and two editors on one file,
   below FileEditor, which has the conditional write of one file.
2. Instants as the database compares them, as ISO strings.
3. Several pages on one chat; the gateway's event stream with its buffer.
4. Descendants of a command that leave its group and keep its pipes.

## 6. Not modelled

Wire formats, rendering, argument parsing, the docs catalog and its search,
read-only queries, policy tables over path strings (pure functions with table
tests), the translation of a sandbox policy into the sandbox library's, the text
of the launchd plist, notes beyond their presence, a crash in the middle of one write of the settings
file (`harness-home.ts:224` writes it in place; a file it leaves torn reads as the
damaged one, which `edited` brings about at other times), and the agent library
itself.
`PROJECT.json` gives the status and reason for each part.
