----------------------------- MODULE Scheduler -----------------------------
(***************************************************************************)
(* The scheduler of the daemon (src/scheduler/scheduler.ts) together with  *)
(* the two tables of State it owns, schedules and schedule_runs            *)
(* (src/state/state.ts, src/state/database.ts).                            *)
(*                                                                         *)
(* schedules, runs and clock survive a crash.  Everything else is memory   *)
(* of one daemon process.  The process is single threaded: an action is a  *)
(* stretch of code that runs to its next await, except that the loop of    *)
(* scanDue takes one action per transaction, because a crash may fall      *)
(* between two of them.  While the loop is on the stack (~Quiet) no other  *)
(* action of the process is enabled.                                       *)
(*                                                                         *)
(* A definition named Slip... is a mutated form of the definition after    *)
(* it, the way a slip in the code would have it.  Nothing refers to it: it *)
(* serves to see that the properties can fail.                             *)
(***************************************************************************)
EXTENDS Integers, Sequences, FiniteSets, Functions

CONSTANTS
  ScheduleIds,    \* identifiers a schedule can be created with
  CommandIds,     \* those whose payload is a command, not a prompt
  Triggers,       \* triggers a caller can ask for
  CronNext,       \* croner: CronNext[e][t] is the first occurrence of e after t
  None,           \* SQL NULL
  concurrency,    \* SchedulerOptions.concurrency
  Policies,       \* values a process may get as SchedulerOptions.shutdownPolicy
  MaxDate,        \* the last instant a Date can hold
  StateMayThrow,  \* may a transaction of State fail?
  MaxRuns,        \* bound: rows of the runs table
  Horizon,        \* bound: the clock stops here
  MaxRevision,    \* bound: no update beyond this revision
  MaxManual       \* bound: manual runs

\* Runs are named by the order in which their rows are inserted (rowid).
RunIds == 1 .. MaxRuns

AtTrigger == [kind : {"at"}, at : Nat]
EveryTrigger == [kind : {"every"}, every : Nat \ {0}, anchor : Nat]
CronTrigger == [kind : {"cron"}, expr : DOMAIN CronNext]

ASSUME ConstantsAssumption ==
  /\ concurrency \in Nat \ {0}
  /\ Policies \subseteq {"drain", "cancel"}
  /\ StateMayThrow \in BOOLEAN
  /\ {MaxDate, MaxRuns, Horizon, MaxRevision, MaxManual} \subseteq Nat
  /\ None \notin Nat \cup ScheduleIds \cup Policies
  /\ CommandIds \subseteq ScheduleIds

\* What computeNextRunAt may rely on: everyMs and anchorMs pass validateEvery,
\* and croner answers with a later instant or with nothing.
ASSUME TriggersAssumption ==
  \A t \in Triggers :
    \/ t \in AtTrigger
    \/ t \in EveryTrigger
    \/ /\ t \in CronTrigger
       /\ \A now \in 0 .. Horizon :
            \/ CronNext[t.expr][now] = None
            \/ /\ CronNext[t.expr][now] \in Nat
               /\ CronNext[t.expr][now] > now

\* croner answers with the first occurrence after the instant it is given: the answer stands until
\* that occurrence has come.
ASSUME CronAssumption ==
  \A t \in Triggers \cap CronTrigger : \A now \in 0 .. Horizon : \A later \in now .. Horizon :
    (CronNext[t.expr][now] = None \/ later < CronNext[t.expr][now])
      => CronNext[t.expr][later] = CronNext[t.expr][now]

VARIABLES
  clock,       \* wall-clock time (Date.now)
  schedules,   \* the schedules table
  runs,        \* the schedule_runs table
  lifecycle,   \* "down" when no process runs, else SchedulerLifecycle
  shutdownPolicy, \* of this process; None when no process runs
  wakeHandle,  \* is a wake timer armed?
  scanning,    \* scanDue: "off", in its "loop", or "settling" its promise
  due,         \* rows of listDueSchedules the loop has not visited
  pending,     \* the FIFO queue of claimed runs
  active,      \* keys of the active map
  settled,     \* active runs whose execute() is over, finally not yet run
  aborted,     \* active runs whose AbortController has fired
  owned,       \* ownedScheduleIds
  waiter,      \* stop(): "none", "waiting", "resolved" or "rejected"
  lost,        \* runs whose terminal write failed in this process
  orphans      \* runs of dead processes whose command is still executing

persistent == <<clock, schedules, runs, orphans>>
volatile == <<lifecycle, shutdownPolicy, wakeHandle, scanning, due, pending,
              active, settled, aborted, owned, waiter, lost>>
vars == <<persistent, volatile>>

StoredSchedule == [phase : {"live", "deleted"}, enabled : BOOLEAN,
                   trigger : Triggers, nextRunAt : Nat \cup {None},
                   revision : Nat]
NoSchedule == [phase |-> "absent", enabled |-> FALSE, trigger |-> None,
               nextRunAt |-> None, revision |-> 0]
ScheduleRow == StoredSchedule \cup {NoSchedule}
TerminalStatus == {"completed", "failed", "interrupted"}
StoredRun == [schedule : ScheduleIds, trigger : {"manual", "scheduled"},
              scheduledFor : Nat \cup {None}, missed : Nat,
              status : {"running"} \cup TerminalStatus]
NoRun == [schedule |-> None, trigger |-> "none", scheduledFor |-> None,
          missed |-> 0, status |-> "absent"]
RunRow == StoredRun \cup {NoRun}
DueRow == [id : ScheduleIds, nextRunAt : Nat, revision : Nat]

FirstOf(queue, n) == {queue[i] : i \in 1 .. n}
Up == lifecycle # "down"
Quiet == Up /\ scanning # "loop"
Executing == active \ settled
Held == Range(pending) \cup active
FreeRuns == {r \in RunIds : runs[r].status = "absent"}
NextRun == {r \in FreeRuns : \A q \in FreeRuns : r <= q}
RunningRows == {r \in RunIds : runs[r].status = "running"}
Cancelling == lifecycle = "stopping" /\ shutdownPolicy = "cancel"
ManualRuns == {r \in RunIds : runs[r].trigger = "manual"}

-----------------------------------------------------------------------------
\* Calendar.

\* An occurrence at now itself counts as next.
SlipNextRunAt(t, now) ==
  CASE t.kind = "at" -> IF t.at > now THEN t.at ELSE None
    [] t.kind = "every" ->
         IF now < t.anchor THEN t.anchor
         ELSE t.anchor + ((now - t.anchor) \div t.every) * t.every
    [] t.kind = "cron" -> CronNext[t.expr][now]

\* The first occurrence strictly after now.
NextRunAt(t, now) ==
  CASE t.kind = "at" -> IF t.at > now THEN t.at ELSE None
    [] t.kind = "every" ->
         IF now < t.anchor THEN t.anchor
         ELSE t.anchor + ((now - t.anchor) \div t.every + 1) * t.every
    [] t.kind = "cron" -> CronNext[t.expr][now]

\* The loop of countMissedOccurrences, whose cursor starts ago before now and moves to croner's
\* answer until that lies ahead.
CronMissed(e, ago, now) ==
  LET missed[left \in 0 .. now] ==
        LET next == CronNext[e][now - left]
        IN IF next = None \/ next > now THEN 0 ELSE 1 + missed[now - next]
  IN missed[ago]

\* countMissedOccurrences: those after the one that is due, up to now.
MissedOccurrences(t, scheduled, now) ==
  CASE t.kind = "at" \/ now <= scheduled -> 0
    [] t.kind = "every" /\ now > scheduled -> (now - scheduled) \div t.every
    [] t.kind = "cron" /\ now > scheduled -> CronMissed(t.expr, now - scheduled, now)

\* toISOString throws a RangeError past MaxDate.
Unrepresentable(t, now) == t.kind = "every" /\ NextRunAt(t, now) > MaxDate

\* A one-time job keeps its instant even when that is already past.
InitialNextRunAt(t, enabled, now) ==
  IF ~enabled THEN None
  ELSE IF t.kind = "at" THEN t.at
  ELSE NextRunAt(t, now)

-----------------------------------------------------------------------------
\* Queries and single-statement writes of StateDatabase.

IsDue(row) == /\ row.phase = "live"
              /\ row.enabled
              /\ row.nextRunAt # None
              /\ row.nextRunAt <= clock

\* listDueSchedules
DueRows ==
  {[id |-> s, nextRunAt |-> schedules[s].nextRunAt,
    revision |-> schedules[s].revision] :
     s \in {x \in ScheduleIds : IsDue(schedules[x])}}

\* The WHERE clause of claimScheduledRun.
StillAsRead(d) == /\ schedules[d.id].phase = "live"
                  /\ schedules[d.id].enabled
                  /\ schedules[d.id].revision = d.revision
                  /\ schedules[d.id].nextRunAt = d.nextRunAt

\* One occurrence forward from the claimed one, whatever the time is.
SlipAdvanced(row) ==
  [row EXCEPT !.nextRunAt = NextRunAt(row.trigger, row.nextRunAt),
              !.enabled = row.enabled /\ row.trigger.kind # "at",
              !.revision = @ + 1]

\* The row claimScheduledRun leaves behind: one-time jobs are disabled.
Advanced(row) ==
  [row EXCEPT !.nextRunAt = NextRunAt(row.trigger, clock),
              !.enabled = row.enabled /\ row.trigger.kind # "at",
              !.revision = @ + 1]

\* deleteSchedule keeps the row and its next_run_at.
Deleted(row) ==
  [row EXCEPT !.phase = "deleted", !.enabled = FALSE, !.revision = @ + 1]

\* missed is 0 also in a row without a trigger context.
InsertRun(rows, r, s, how, at, missed) ==
  [rows EXCEPT ![r] = [schedule |-> s, trigger |-> how, scheduledFor |-> at,
                       missed |-> missed, status |-> "running"]]

\* No condition on the status.
SlipFinishRuns(rows, S, outcome) ==
  [r \in RunIds |-> IF r \in S /\ rows[r].status # "absent"
                    THEN [rows[r] EXCEPT !.status = outcome]
                    ELSE rows[r]]

\* finishRun and interruptRunningRuns touch rows that are running, only.
FinishRuns(rows, S, outcome) ==
  [r \in RunIds |-> IF r \in S /\ rows[r].status = "running"
                    THEN [rows[r] EXCEPT !.status = outcome]
                    ELSE rows[r]]

\* No recovery.
SlipRecoverRuns(rows) == rows

RecoverRuns(rows) == FinishRuns(rows, RunIds, "interrupted")

\* The sets of terminal writes, among S, that may fail.
FailedWrites(S) == IF StateMayThrow THEN SUBSET S ELSE {{}}

-----------------------------------------------------------------------------
\* The parts of the scheduler that several operations call.

\* The timer is not set.
SlipRequestWake(l) == UNCHANGED wakeHandle

\* requestWake: ignored unless the scheduler runs, replaces the handle.
RequestWake(l) == wakeHandle' = (wakeHandle \/ l = "running")

MayDispatch(l) ==
  l # "stopped" /\ (l # "stopping" \/ shutdownPolicy = "drain")

\* < written as <=: one run more than there are slots.
SlipDispatchCountOver(l, queue, busy) ==
  LET slots == concurrency - Cardinality(busy) + 1
  IN IF ~MayDispatch(l) THEN 0
     ELSE IF slots < Len(queue) THEN slots ELSE Len(queue)

\* The run being released still counted.
SlipDispatchCountUnder(l, queue, busy) ==
  LET slots == concurrency - Cardinality(busy) - 1
  IN IF ~MayDispatch(l) \/ slots < 0 THEN 0
     ELSE IF slots < Len(queue) THEN slots ELSE Len(queue)

\* How many queued runs pump starts.
DispatchCount(l, queue, busy) ==
  LET slots == concurrency - Cardinality(busy)
  IN IF ~MayDispatch(l) THEN 0
     ELSE IF slots < Len(queue) THEN slots ELSE Len(queue)

\* pump: start queued runs from the head while there is a slot.  A run whose
\* working directory is gone fails before execute() first awaits.
Pump(l, queue, busy, over, rows) ==
  LET n == DispatchCount(l, queue, busy)
      started == FirstOf(queue, n)
  IN \E homeless \in SUBSET started : \E unsaved \in FailedWrites(homeless) :
       /\ pending' = SubSeq(queue, n + 1, Len(queue))
       /\ active' = busy \cup started
       /\ settled' = over \cup homeless
       /\ runs' = FinishRuns(rows, homeless \ unsaved, "failed")
       /\ lost' = lost \cup unsaved

\* Nobody calls it.
SlipResolveNever == UNCHANGED waiter

\* The active runs forgotten.
SlipResolveEarly ==
  waiter' = IF waiter = "waiting" /\ pending' = <<>> THEN "resolved" ELSE waiter

\* resolveOwnershipWaitersIfIdle
ResolveIfIdle ==
  waiter' = IF waiter = "waiting" /\ pending' = <<>> /\ active' = {}
            THEN "resolved" ELSE waiter

\* The deletion forgotten.
SlipDisown(S) == owned

\* ownedScheduleIds without the schedules of the runs in S.
Disown(S) == owned \ {runs[r].schedule : r \in S}

\* No check of the owned set.
SlipMayRunOwned(s) ==
  lifecycle \in {"idle", "running"} /\ schedules[s].phase = "live"

\* No check of the lifecycle.
SlipMayRunStopped(s) == schedules[s].phase = "live" /\ s \notin owned

\* The refusals of run.
MayRun(s) == /\ lifecycle \in {"idle", "running"}
             /\ schedules[s].phase = "live"
             /\ s \notin owned

\* The loop over the active map forgotten.
SlipAbortedByStop(interrupted) == aborted

\* stop under the cancel policy aborts what is active once the whole queue is
\* interrupted.
AbortedByStop(interrupted) == IF interrupted THEN active ELSE aborted

-----------------------------------------------------------------------------
\* The facade: add, update, remove, run, start, stop.

Add(s, t, enabled) ==
  /\ Quiet
  /\ schedules[s].phase = "absent"
  /\ ~Unrepresentable(t, clock)
  /\ schedules' = [schedules EXCEPT ![s] =
       [phase |-> "live", enabled |-> enabled, trigger |-> t,
        nextRunAt |-> InitialNextRunAt(t, enabled, clock), revision |-> 1]]
  /\ RequestWake(lifecycle)
  /\ UNCHANGED <<clock, runs, orphans, lifecycle, shutdownPolicy, scanning,
                 due, pending, active, settled, aborted, owned, waiter, lost>>

\* The gateway reads the revision in the step that updates, so the compare
\* and swap of updateSchedule always matches.
Update(s, t, enabled) ==
  /\ Quiet
  /\ schedules[s].phase = "live"
  /\ schedules[s].revision < MaxRevision
  /\ ~Unrepresentable(t, clock)
  /\ schedules' = [schedules EXCEPT ![s] =
       [phase |-> "live", enabled |-> enabled, trigger |-> t,
        nextRunAt |-> InitialNextRunAt(t, enabled, clock),
        revision |-> schedules[s].revision + 1]]
  /\ RequestWake(lifecycle)
  /\ UNCHANGED <<clock, runs, orphans, lifecycle, shutdownPolicy, scanning,
                 due, pending, active, settled, aborted, owned, waiter, lost>>

Remove(s) ==
  /\ Quiet
  /\ schedules[s].phase = "live"
  /\ schedules' = [schedules EXCEPT ![s] = Deleted(schedules[s])]
  /\ RequestWake(lifecycle)
  /\ UNCHANGED <<clock, runs, orphans, lifecycle, shutdownPolicy, scanning,
                 due, pending, active, settled, aborted, owned, waiter, lost>>

\* run: a manual run, refused while the schedule is owned.
Run(s) ==
  /\ Quiet
  /\ MayRun(s)
  /\ Cardinality(ManualRuns) < MaxManual
  /\ \E r \in NextRun :
       Pump(lifecycle, Append(pending, r), active, settled,
            InsertRun(runs, r, s, "manual", None, 0))
  /\ owned' = owned \cup {s}
  /\ UNCHANGED <<clock, schedules, orphans, lifecycle, shutdownPolicy,
                 wakeHandle, scanning, due, aborted, waiter>>

Start ==
  /\ Quiet
  /\ lifecycle = "idle"
  /\ lifecycle' = "running"
  /\ RequestWake("running")
  /\ UNCHANGED <<persistent, shutdownPolicy, scanning, due, pending, active,
                 settled, aborted, owned, waiter, lost>>

\* stop under the drain policy: let queued and active runs finish.
StopDraining ==
  /\ Quiet
  /\ lifecycle \in {"idle", "running"}
  /\ shutdownPolicy = "drain"
  /\ lifecycle' = "stopping"
  /\ wakeHandle' = FALSE
  /\ Pump("stopping", pending, active, settled, runs)
  /\ waiter' = IF pending' = <<>> /\ active' = {} THEN "resolved" ELSE "waiting"
  /\ UNCHANGED <<clock, schedules, orphans, shutdownPolicy, scanning, due,
                 aborted, owned>>

\* stop under the cancel policy: interrupt the queue, abort what is active.
\* k queued runs are written; when a write fails the rest of stop is skipped.
StopCancelling ==
  /\ Quiet
  /\ lifecycle \in {"idle", "running"}
  /\ shutdownPolicy = "cancel"
  /\ lifecycle' = "stopping"
  /\ wakeHandle' = FALSE
  /\ pending' = <<>>
  /\ \E k \in 0 .. Len(pending) :
       LET written == FirstOf(pending, k)
       IN /\ k < Len(pending) => StateMayThrow
          /\ runs' = FinishRuns(runs, written, "interrupted")
          /\ owned' = Disown(written)
          /\ lost' = lost \cup (Range(pending) \ written)
          /\ aborted' = AbortedByStop(k = Len(pending))
          /\ waiter' = IF k < Len(pending) THEN "rejected"
                       ELSE IF active = {} THEN "resolved" ELSE "waiting"
  /\ UNCHANGED <<clock, schedules, orphans, shutdownPolicy, scanning, due,
                 active, settled>>

\* stopOwnedWork resumes after its await.
Stopped ==
  /\ Quiet
  /\ lifecycle = "stopping"
  /\ waiter = "resolved"
  /\ lifecycle' = "stopped"
  /\ UNCHANGED <<persistent, shutdownPolicy, wakeHandle, scanning, due,
                 pending, active, settled, aborted, owned, waiter, lost>>

-----------------------------------------------------------------------------
\* scanDue, from the wake timer.

\* The timer fires: list what is due, or fail to.
Wake ==
  /\ Quiet
  /\ wakeHandle
  /\ scanning = "off"
  /\ wakeHandle' = FALSE
  /\ \/ scanning' = "loop" /\ due' = DueRows
     \/ StateMayThrow /\ scanning' = "settling" /\ due' = {}
  /\ UNCHANGED <<persistent, lifecycle, shutdownPolicy, pending, active,
                 settled, aborted, owned, waiter, lost>>

\* d is the row the loop visits now: rows come ordered by next_run_at.
Visits(d) == /\ scanning = "loop"
             /\ d \in due
             /\ \A e \in due : d.nextRunAt <= e.nextRunAt

ScanSkip(d) ==
  /\ Visits(d)
  /\ d.id \in owned \/ ~StillAsRead(d)
  /\ due' = due \ {d}
  /\ UNCHANGED <<persistent, lifecycle, shutdownPolicy, wakeHandle, scanning,
                 pending, active, settled, aborted, owned, waiter, lost>>

ScanClaim(d) ==
  /\ Visits(d)
  /\ d.id \notin owned
  /\ ~Unrepresentable(schedules[d.id].trigger, clock)
  /\ StillAsRead(d)
  /\ \E r \in NextRun :
       /\ runs' = InsertRun(runs, r, d.id, "scheduled", d.nextRunAt,
                            MissedOccurrences(schedules[d.id].trigger, d.nextRunAt, clock))
       /\ pending' = Append(pending, r)
  /\ schedules' = [schedules EXCEPT ![d.id] = Advanced(schedules[d.id])]
  /\ owned' = owned \cup {d.id}
  /\ due' = due \ {d}
  /\ UNCHANGED <<clock, orphans, lifecycle, shutdownPolicy, wakeHandle,
                 scanning, active, settled, aborted, waiter, lost>>

\* An exception leaves the loop: the rows left in due and pump are skipped.
ScanThrows(d) ==
  /\ Visits(d)
  /\ d.id \notin owned
  /\ StateMayThrow \/ Unrepresentable(schedules[d.id].trigger, clock)
  /\ scanning' = "settling"
  /\ due' = {}
  /\ UNCHANGED <<persistent, lifecycle, shutdownPolicy, wakeHandle, pending,
                 active, settled, aborted, owned, waiter, lost>>

\* The loop is over: pump.
ScanEnds ==
  /\ scanning = "loop"
  /\ due = {}
  /\ scanning' = "settling"
  /\ Pump(lifecycle, pending, active, settled, runs)
  /\ UNCHANGED <<clock, schedules, orphans, lifecycle, shutdownPolicy,
                 wakeHandle, due, aborted, owned, waiter>>

\* The finally of the wake callback.
ScanSettles ==
  /\ scanning = "settling"
  /\ scanning' = "off"
  /\ RequestWake(lifecycle)
  /\ UNCHANGED <<persistent, lifecycle, shutdownPolicy, due, pending, active,
                 settled, aborted, owned, waiter, lost>>

-----------------------------------------------------------------------------
\* execute, for one active run.

\* The run timer is never set.
SlipTimeout(r) == FALSE

\* The run timer fires.
Timeout(r) ==
  /\ Quiet
  /\ r \in Executing \ aborted
  /\ aborted' = aborted \cup {r}
  /\ UNCHANGED <<persistent, lifecycle, shutdownPolicy, wakeHandle, scanning,
                 due, pending, active, settled, owned, waiter, lost>>

\* The status of a run that was aborted, or whose payload threw.
AbortStatus(r) == IF r \in aborted /\ Cancelling THEN "interrupted" ELSE "failed"

\* What execute writes when its payload ends in the given way.
OutcomeStatus(r, ending) ==
  IF r \in aborted \/ ending = "throws" THEN AbortStatus(r)
  ELSE IF ending = "ok" THEN "completed" ELSE "failed"

\* The payload ends.  When the write throws inside the try block the catch
\* writes again; when the catch's write throws the row stays running.
Settle(r, ending) ==
  /\ Quiet
  /\ r \in Executing
  /\ settled' = settled \cup {r}
  /\ \/ /\ runs' = FinishRuns(runs, {r}, OutcomeStatus(r, ending))
        /\ lost' = lost
     \/ /\ StateMayThrow /\ ending # "throws"
        /\ runs' = FinishRuns(runs, {r}, AbortStatus(r))
        /\ lost' = lost
     \/ /\ StateMayThrow
        /\ lost' = lost \cup {r}
        /\ runs' = runs
  /\ UNCHANGED <<clock, schedules, orphans, lifecycle, shutdownPolicy,
                 wakeHandle, scanning, due, pending, active, aborted, owned,
                 waiter>>

\* The finally that pump chains to execute.
Release(r) ==
  /\ Quiet
  /\ r \in settled
  /\ owned' = Disown({r})
  /\ aborted' = aborted \ {r}
  /\ Pump(lifecycle, pending, active \ {r}, settled \ {r}, runs)
  /\ ResolveIfIdle
  /\ RequestWake(lifecycle)
  /\ UNCHANGED <<clock, schedules, orphans, lifecycle, shutdownPolicy,
                 scanning, due>>

-----------------------------------------------------------------------------
\* The process and its surroundings.

\* Memory is gone, and the prompts in it.  A command runs in a process group of
\* its own (detached) and may outlive the daemon.
Vanish ==
  /\ lifecycle' = "down" /\ shutdownPolicy' = None /\ wakeHandle' = FALSE
  /\ scanning' = "off" /\ due' = {}
  /\ pending' = <<>> /\ active' = {} /\ settled' = {} /\ aborted' = {}
  /\ owned' = {} /\ waiter' = "none" /\ lost' = {}
  /\ \E survivors \in SUBSET {r \in Executing : runs[r].schedule \in CommandIds} :
       orphans' = orphans \cup survivors
  /\ UNCHANGED <<clock, schedules, runs>>

Crash == Up /\ Vanish

\* The daemon closes State once stop() has settled, either way.
Close == Quiet /\ (lifecycle = "stopped" \/ waiter = "rejected") /\ Vanish

\* A new process opens State, which recovers, and builds a scheduler.
Boot ==
  /\ lifecycle = "down"
  /\ lifecycle' = "idle"
  /\ shutdownPolicy' \in Policies
  /\ runs' = RecoverRuns(runs)
  /\ UNCHANGED <<clock, schedules, orphans, wakeHandle, scanning, due, pending,
                 active, settled, aborted, owned, waiter, lost>>

OrphanExits(r) ==
  /\ r \in orphans
  /\ orphans' = orphans \ {r}
  /\ UNCHANGED <<clock, schedules, runs, volatile>>

\* Nothing in the loop of scanDue reads the clock again, so holding the clock
\* for its duration loses no behaviour.
Tick ==
  /\ clock < Horizon
  /\ scanning # "loop"
  /\ clock' = clock + 1
  /\ UNCHANGED <<schedules, runs, orphans, volatile>>

-----------------------------------------------------------------------------
Init ==
  /\ clock = 0
  /\ schedules = [s \in ScheduleIds |-> NoSchedule]
  /\ runs = [r \in RunIds |-> NoRun]
  /\ orphans = {}
  /\ lifecycle = "down" /\ shutdownPolicy = None /\ wakeHandle = FALSE
  /\ scanning = "off" /\ due = {}
  /\ pending = <<>> /\ active = {} /\ settled = {} /\ aborted = {}
  /\ owned = {} /\ waiter = "none" /\ lost = {}

Facade ==
  \/ \E s \in ScheduleIds, t \in Triggers, e \in BOOLEAN :
       Add(s, t, e) \/ Update(s, t, e)
  \/ \E s \in ScheduleIds : Remove(s) \/ Run(s)
  \/ Start \/ StopDraining \/ StopCancelling \/ Stopped

Scan ==
  \/ Wake \/ ScanEnds \/ ScanSettles
  \/ \E d \in due : ScanSkip(d) \/ ScanClaim(d) \/ ScanThrows(d)

Execution ==
  \E r \in RunIds :
    \/ Timeout(r) \/ Release(r)
    \/ \E ending \in {"ok", "nonzero", "throws"} : Settle(r, ending)

Environment ==
  \/ Crash \/ Close \/ Boot \/ Tick
  \/ \E r \in RunIds : OrphanExits(r)

Next == Facade \/ Scan \/ Execution \/ Environment

Spec == Init /\ [][Next]_vars

\* The event loop runs a timer or a continuation that is ready whenever the
\* thread comes free.  The loop of scanDue keeps taking the thread, so the run
\* timers and continuations need SF; one formula for all runs is enough, since a
\* run passes each of these points once.  Payloads end once they are aborted: an
\* abort is followed by SIGKILL to the process group (commands) or ends the
\* session (prompts).  That a command leaves no descendant outside its group that
\* keeps its pipes open is an assumption.
\* Nothing else is promised: no call of the facade, no Boot, no Tick, and no
\* payload that ends on its own.
Fairness ==
  /\ WF_vars(Wake) /\ WF_vars(ScanEnds) /\ WF_vars(ScanSettles) /\ WF_vars(Stopped)
  /\ WF_vars(\E d \in due : ScanSkip(d) \/ ScanClaim(d) \/ ScanThrows(d))
  /\ SF_vars(\E r \in RunIds : Timeout(r))
  /\ SF_vars(\E r \in aborted : \E ending \in {"ok", "throws"} : Settle(r, ending))
  /\ SF_vars(\E r \in settled : Release(r))

FairSpec == Spec /\ Fairness

-----------------------------------------------------------------------------
\* Properties.

\* The tables and the process memory hold values of their types; the slots of
\* the active map are never exceeded.
TypeOK ==
  /\ clock \in 0 .. Horizon
  /\ schedules \in [ScheduleIds -> ScheduleRow]
  /\ runs \in [RunIds -> RunRow]
  /\ orphans \subseteq RunIds
  /\ lifecycle \in {"down", "idle", "running", "stopping", "stopped"}
  /\ shutdownPolicy \in Policies \cup {None}
  /\ wakeHandle \in BOOLEAN
  /\ scanning \in {"off", "loop", "settling"}
  /\ due \subseteq DueRow
  /\ pending \in Seq(RunIds)
  /\ active \subseteq RunIds
  /\ Cardinality(active) <= concurrency
  /\ settled \subseteq active
  /\ aborted \subseteq active
  /\ owned \subseteq ScheduleIds
  /\ waiter \in {"none", "waiting", "resolved", "rejected"}
  /\ lost \subseteq RunIds

\* "The same job never overlaps itself": of the runs this process has queued or
\* started and not released, no two belong to one schedule, and no run is held
\* twice.  Scans, manual runs and releases all have to agree on this.
SameScheduleNeverOverlaps ==
  /\ IsInjective(pending)
  /\ Range(pending) \cap active = {}
  /\ \A r, q \in Held : runs[r].schedule = runs[q].schedule => r = q

\* The same promise for what executes on the machine, the commands that outlived
\* a crashed daemon included.
CommandsNeverOverlap ==
  \A r \in Executing, q \in Executing \cup orphans :
    runs[r].schedule = runs[q].schedule => r = q

\* ownedScheduleIds is exactly the schedules of the held runs.  An id left in it
\* would bar its schedule from ever running again; a missing one would allow an
\* overlap.  Only a stop() that failed half way leaves ids behind.
OwnershipMatchesWork ==
  waiter # "rejected" => owned = {runs[r].schedule : r \in Held}

\* While a process is up, the rows that say "running" are the runs it has queued
\* or is executing, plus those whose final write failed: startup recovery leaves
\* no row behind, and no row is orphaned while the scheduler works.
RunningRowsAccounted ==
  Up => RunningRows = Range(pending) \cup Executing \cup lost

\* No slot idles while a run waits for one: every operation that adds a run or
\* frees a slot pumps.
WorkConserving ==
  (Quiet /\ MayDispatch(lifecycle) /\ pending # <<>>)
    => Cardinality(active) = concurrency

\* A running scheduler never goes to sleep for good: a wake is armed, or the
\* scan that will arm the next one is under way.
NeverAsleep == lifecycle = "running" => wakeHandle \/ scanning # "off"

\* stop() cannot miss its wake-up: while it waits there is work left whose
\* release will resolve it; and it reports "stopped" only when nothing is held.
StopWaitsForWork ==
  /\ waiter = "waiting" => Held # {}
  /\ lifecycle = "stopped" => Held = {}

\* How far stop() under the cancel policy reaches.  Nothing stays queued, and every
\* payload still executing has been told to abort, unless writing the interruption of
\* a queued run failed: then stop() is rejected before the aborts, a row is left that
\* says "running", and what executes goes on untold while the daemon closes State
\* under it (Close).  docs/scheduler.md:56-57 says "closes State only after active
\* ownership is resolved"; that holds of a stop that is not cut short, no more.
CancelReaches ==
  Cancelling => /\ pending = <<>>
                /\ \/ Executing \subseteq aborted
                   \/ waiter = "rejected" /\ lost # {}

\* The next occurrence of a recurring schedule lies after every occurrence a run
\* was already created for: no claim, restart or edit replays an occurrence.
NoOccurrenceReplayed ==
  \A s \in ScheduleIds, r \in RunIds :
    (/\ schedules[s].phase = "live"
     /\ schedules[s].trigger.kind # "at"
     /\ schedules[s].nextRunAt # None
     /\ runs[r].schedule = s
     /\ runs[r].trigger = "scheduled")
       => runs[r].scheduledFor < schedules[s].nextRunAt

\* The outcome of a run is written once: neither a late settlement, nor stop(),
\* nor startup recovery rewrites a row that has one.
OutcomeIsFinal ==
  [][\A r \in RunIds :
       runs[r].status \in TerminalStatus => runs'[r] = runs[r]]_runs

\* What a trigger means, apart from how the next occurrence is computed.
IsOccurrence(t, o) ==
  \/ t.kind = "at" /\ o = t.at
  \/ t.kind = "every" /\ o >= t.anchor /\ (o - t.anchor) % t.every = 0
  \/ t.kind = "cron" /\ \E now \in 0 .. Horizon : CronNext[t.expr][now] = o

\* The occurrences after from, up to to.
OccurrencesIn(t, from, to) == {o \in from + 1 .. to : IsOccurrence(t, o)}

\* A scheduled run is created only for a live, enabled, due schedule nobody owns, and in the same
\* step the backlog is skipped and no occurrence is forgotten: the run is for one, tells how many it
\* skips, and the first one ahead is the next. A one-time job cannot be claimed again.
ClaimSkipsBacklog ==
  [][\A r \in RunIds :
       (runs[r].status = "absent" /\ runs'[r].trigger = "scheduled")
         => LET s == runs'[r].schedule
                t == schedules[s].trigger
                at == runs'[r].scheduledFor
                next == schedules'[s].nextRunAt
            IN /\ IsDue(schedules[s])
               /\ s \notin owned
               /\ at = schedules[s].nextRunAt /\ IsOccurrence(t, at)
               /\ runs'[r].missed = Cardinality(OccurrencesIn(t, at, clock))
               /\ ~IsDue(schedules'[s])
               /\ IF next = None THEN OccurrencesIn(t, clock, Horizon) = {}
                  ELSE IsOccurrence(t, next) /\ OccurrencesIn(t, clock, next - 1) = {}]_vars

\* "Daemon shutdown stops new dispatch": from the moment stop() is called no run
\* is created, and under the cancel policy no queued run starts.
ShutdownAdmitsNothing ==
  [][(lifecycle \in {"stopping", "stopped"})
       => (/\ FreeRuns' = FreeRuns
           /\ (shutdownPolicy = "cancel") => (active' \subseteq active))]_vars

\* A run that is recorded as running ends, however long its payload would take,
\* unless the process dies first.
EveryRunEnds ==
  \A r \in RunIds :
    (Up /\ runs[r].status = "running")
      ~> (runs[r].status \in TerminalStatus \/ ~Up)

\* stop() ends, under either policy, unless the process dies first.
StopCompletes == lifecycle = "stopping" ~> lifecycle \in {"stopped", "down"}

\* A due schedule is claimed or stops being due (edited, removed) as long as the
\* scheduler keeps running.
DueIsServed ==
  \A s \in ScheduleIds :
    (lifecycle = "running" /\ IsDue(schedules[s]))
      ~> (lifecycle # "running" \/ ~IsDue(schedules[s]))

-----------------------------------------------------------------------------
\* The inductive invariant: the safety properties above and what they rest on.

\* What the phases of the process imply about its memory.
PhaseShape ==
  /\ ~Up => /\ Held = {} /\ owned = {} /\ lost = {}
            /\ scanning = "off" /\ waiter = "none"
  /\ wakeHandle \/ scanning = "loop" => lifecycle = "running"
  /\ waiter # "none" <=> lifecycle \in {"stopping", "stopped"}
  /\ waiter = "resolved" => Held = {}
  /\ lifecycle = "stopped" => waiter = "resolved"

\* Held runs have rows, their schedules are owned, also when stop() failed, and a
\* run whose final write failed is neither queued nor executing.
HeldRunsAreOwned ==
  /\ \A r \in Held : runs[r].status # "absent" /\ runs[r].schedule \in owned
  /\ lost \cap (Range(pending) \cup Executing) = {}

WorkInvariant ==
  /\ TypeOK
  /\ PhaseShape
  /\ HeldRunsAreOwned
  /\ SameScheduleNeverOverlaps
  /\ OwnershipMatchesWork
  /\ RunningRowsAccounted
  /\ NeverAsleep
  /\ StopWaitsForWork
  /\ CancelReaches

-----------------------------------------------------------------------------
\* Refinement.

\* Where the ledger has a run: a row that says "running" is waiting or executing
\* while the process holds it, and stranded otherwise.
StageOf(r) ==
  CASE runs[r].status = "absent" -> "none"
    [] runs[r].status \in TerminalStatus -> runs[r].status
    [] runs[r].status = "running" /\ r \in Range(pending) -> "waiting"
    [] runs[r].status = "running" /\ r \in Executing -> "executing"
    [] OTHER -> "stranded"

Ledger == INSTANCE RunLedger WITH
  stage <- [r \in RunIds |-> StageOf(r)],
  job <- [r \in RunIds |-> runs[r].schedule]

\* The scheduler implements the ledger.
ImplementsLedger == Ledger!LedgerSpec
=============================================================================
