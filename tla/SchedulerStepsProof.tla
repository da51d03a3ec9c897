------------------------- MODULE SchedulerStepsProof -------------------------
(***************************************************************************)
(* What one step of the scheduler may do to a run, and what follows: an    *)
(* outcome is final, shutdown admits nothing, a claim skips the backlog,   *)
(* no occurrence is replayed, and the scheduler implements RunLedger.      *)
(***************************************************************************)
EXTENDS SchedulerProof

\* A row with its outcome written.
Written(row, outcome) == [row EXCEPT !.status = outcome]

\* A step leaves the row of r alone: r is then queued only if it was, and
\* executes only if it did or was queued.
Kept(r) ==
  /\ runs'[r] = runs[r]
  /\ r \in Range(pending') => r \in Range(pending)
  /\ r \in Executing' => r \in Range(pending) \cup Executing

\* A step writes the outcome of r: whatever was running may be interrupted, only
\* work this process holds can fail, only what executes can complete.
Ended(r) ==
  /\ runs[r].status = "running"
  /\ \/ runs'[r] = Written(runs[r], "interrupted")
     \/ /\ runs'[r] = Written(runs[r], "failed")
        /\ r \in Range(pending) \cup Executing
     \/ /\ runs'[r] = Written(runs[r], "completed")
        /\ r \in Executing

\* A step inserts the row of r for a schedule nobody owns.  A manual run may
\* already have failed, for want of a working directory.
Created(r) ==
  /\ lifecycle \in {"idle", "running"}
  /\ runs[r].status = "absent"
  /\ runs'[r].status \in {"running", "failed"}
  /\ runs'[r].schedule \in ScheduleIds
  /\ \/ runs'[r].trigger = "manual"
     \/ \E d \in due : /\ ScanClaim(d)
                       /\ runs'[r].schedule = d.id
                       /\ runs'[r].scheduledFor = d.nextRunAt
                       /\ runs'[r].missed = MissedOccurrences(schedules[d.id].trigger,
                                                              d.nextRunAt, clock)

Moves(r) == Kept(r) \/ Ended(r) \/ Created(r)
-----------------------------------------------------------------------------
\* pump alone: a run keeps its row, or fails as it is started.
LEMMA PumpMoves ==
  ASSUME NEW l, NEW queue \in Seq(RunIds), NEW busy \in SUBSET RunIds,
         NEW over \in SUBSET busy, NEW rows \in [RunIds -> RunRow],
         Cardinality(busy) <= concurrency,
         IsInjective(queue),
         Range(queue) \cap busy = {},
         Pump(l, queue, busy, over, rows)
  PROVE  /\ Range(pending') \subseteq Range(queue)
         /\ Executing' \subseteq Range(queue) \cup (busy \ over)
         /\ \A r \in RunIds :
              \/ runs'[r] = rows[r]
              \/ /\ rows[r].status = "running" /\ r \in Range(queue)
                 /\ runs'[r] = Written(rows[r], "failed")
<1>1. /\ busy \subseteq active'
      /\ Range(pending') \cup active' = Range(queue) \cup busy
      /\ Range(pending') \cap active' = {}
      /\ Started(over, rows, active' \ busy)
  BY PumpKeepsRuns
<1>2. PICK failed \in SUBSET (active' \ busy) : \E unsaved \in SUBSET failed :
        /\ settled' = over \cup failed
        /\ runs' = FinishRuns(rows, failed \ unsaved, "failed")
  BY <1>1 DEF Started
<1>3. PICK unsaved \in SUBSET failed :
        /\ settled' = over \cup failed
        /\ runs' = FinishRuns(rows, failed \ unsaved, "failed")
  BY <1>2
<1>4. \A r \in RunIds :
        runs'[r] = IF r \in failed \ unsaved /\ rows[r].status = "running"
                   THEN Written(rows[r], "failed") ELSE rows[r]
  BY <1>3 DEF FinishRuns, Written
<1> QED
  BY <1>1, <1>3, <1>4 DEF Executing

\* pump called with the queue and the active map of the state: every run moves as
\* it may.
LEMMA PumpOfHeldMoves ==
  ASSUME TypeOK, Custody, Up, NEW l, NEW r \in RunIds,
         NEW busy \in SUBSET active, NEW over, busy \ over = Executing,
         over \subseteq busy,
         Pump(l, pending, busy, over, runs)
  PROVE  Moves(r)
<1>1. /\ pending \in Seq(RunIds) /\ IsInjective(pending)
      /\ Range(pending) \cap active = {}
      /\ Cardinality(active) <= concurrency
      /\ active \subseteq RunIds
  BY CustodyOfWork DEF TypeOK
<1>2. Cardinality(busy) <= concurrency
  <2>1. Cardinality(busy) <= Cardinality(active)
    BY <1>1, RunSetsFinite, FS_Subset
  <2> QED
    BY <1>1, <2>1, RunSetsFinite, ConstantsAssumption
<1>3. /\ r \in Range(pending') => r \in Range(pending)
      /\ r \in Executing' => r \in Range(pending) \cup Executing
      /\ \/ runs'[r] = runs[r]
         \/ /\ runs[r].status = "running" /\ r \in Range(pending)
            /\ runs'[r] = Written(runs[r], "failed")
  <2>1. /\ busy \in SUBSET RunIds /\ over \in SUBSET busy
        /\ Range(pending) \cap busy = {}
        /\ runs \in [RunIds -> RunRow]
    BY <1>1 DEF TypeOK
  <2> QED
    BY <1>1, <1>2, <2>1, PumpMoves
<1> QED
  BY <1>3 DEF Moves, Kept, Ended

\* A step that writes an outcome for some runs and starts nothing.
LEMMA FinishMoves ==
  ASSUME NEW r \in RunIds, NEW S, NEW outcome,
         runs' = FinishRuns(runs, S, outcome),
         Range(pending') \subseteq Range(pending),
         Executing' \subseteq Executing,
         \/ outcome = "interrupted"
         \/ outcome \in {"failed", "completed"} /\ S \subseteq Executing
  PROVE  Moves(r)
<1>1. \/ runs'[r] = runs[r]
      \/ /\ r \in S /\ runs[r].status = "running"
         /\ runs'[r] = Written(runs[r], outcome)
  BY DEF FinishRuns, Written
<1> QED
  BY <1>1 DEF Moves, Kept, Ended

\* A step that leaves rows, queue and active map alone.
LEMMA IdleMoves ==
  ASSUME NEW r \in RunIds, UNCHANGED <<runs, pending, active, settled>>
  PROVE  Moves(r)
  BY DEF Moves, Kept, Executing

\* Every step moves every run as it may.
LEMMA EveryStepMoves ==
  ASSUME WorkInvariant, Next, NEW r \in RunIds
  PROVE  Moves(r)
<1>1. TypeOK /\ PhaseShape /\ Custody
  BY DEF WorkInvariant, Custody
<1>2. CASE Facade
  <2>1. ASSUME NEW s \in ScheduleIds, Run(s)
        PROVE  Moves(r)
    <3>1. PICK n \in NextRun :
            Pump(lifecycle, Append(pending, n), active, settled,
                 InsertRun(runs, n, s, "manual", None, 0))
      BY <2>1 DEF Run
    <3> DEFINE queue == Append(pending, n)
               rows == InsertRun(runs, n, s, "manual", None, 0)
    <3>2. /\ Up /\ waiter # "rejected" /\ s \in ScheduleIds \ owned
          /\ lifecycle \in {"idle", "running"}
      BY <1>1, <2>1 DEF Run, MayRun, Quiet, PhaseShape
    <3>3. /\ n \in RunIds /\ runs[n].status = "absent"
          /\ InCustody(rows, queue, active, settled, owned \cup {s}, TRUE)
          /\ Range(queue) = Range(pending) \cup {n}
      BY <1>1, <3>2, CustodyOfNewRun DEF NextRun, FreeRuns
    <3>4. rows \in [RunIds -> RunRow]
      BY <1>1, <3>2, <3>3, InsertRunType DEF TypeOK
    <3>5. /\ \A p \in RunIds \ {n} : rows[p] = runs[p]
          /\ rows[n] = [schedule |-> s, trigger |-> "manual", scheduledFor |-> None, missed |-> 0,
                        status |-> "running"]
      BY <1>1, <3>3 DEF InsertRun, TypeOK
    <3> HIDE DEF queue, rows
    <3>6. Pump(lifecycle, queue, active, settled, rows)
      BY <3>1 DEF queue, rows
    <3>7. /\ r \in Range(pending') => r \in Range(queue)
          /\ r \in Executing' => r \in Range(queue) \cup (active \ settled)
          /\ \/ runs'[r] = rows[r]
             \/ /\ rows[r].status = "running" /\ r \in Range(queue)
                /\ runs'[r] = Written(rows[r], "failed")
      <4>1. /\ queue \in Seq(RunIds) /\ IsInjective(queue)
            /\ active \in SUBSET RunIds /\ settled \in SUBSET active
            /\ Range(queue) \cap active = {}
            /\ Cardinality(active) <= concurrency
        BY <1>1, <3>3 DEF InCustody, TypeOK
      <4> QED
        BY <3>4, <3>6, <4>1, PumpMoves
    <3>8. CASE r = n
      BY <3>2, <3>3, <3>5, <3>7, <3>8 DEF Moves, Created, Written
    <3>9. CASE r # n
      BY <3>3, <3>5, <3>7, <3>9 DEF Moves, Kept, Ended, Executing
    <3> QED
      BY <3>8, <3>9
  <2>2. CASE StopDraining
    <3>1. Up /\ Pump("stopping", pending, active, settled, runs)
      BY <2>2 DEF StopDraining, Quiet
    <3> QED
      BY <1>1, <3>1, PumpOfHeldMoves DEF Executing, TypeOK
  <2>3. CASE StopCancelling
    <3>1. PICK k \in 0 .. Len(pending) :
            runs' = FinishRuns(runs, FirstOf(pending, k), "interrupted")
      BY <2>3 DEF StopCancelling
    <3>2. Range(pending') = {} /\ Executing' = Executing
      BY <2>3 DEF StopCancelling, Range, Executing
    <3> QED
      BY <3>1, <3>2, FinishMoves
  <2>4. ASSUME NEW s \in ScheduleIds, NEW t \in Triggers, NEW e \in BOOLEAN,
               Add(s, t, e) \/ Update(s, t, e)
        PROVE  Moves(r)
    BY <2>4, IdleMoves DEF Add, Update
  <2>5. ASSUME NEW s \in ScheduleIds, Remove(s)
        PROVE  Moves(r)
    BY <2>5, IdleMoves DEF Remove
  <2>6. CASE Start \/ Stopped
    BY <2>6, IdleMoves DEF Start, Stopped, persistent
  <2> QED
    BY <1>2, <2>1, <2>2, <2>3, <2>4, <2>5, <2>6 DEF Facade
<1>3. CASE Scan
  <2>1. CASE ScanEnds
    <3>1. Up /\ Pump(lifecycle, pending, active, settled, runs)
      BY <1>1, <2>1 DEF ScanEnds, PhaseShape
    <3> QED
      BY <1>1, <3>1, PumpOfHeldMoves DEF Executing, TypeOK
  <2>2. ASSUME NEW d \in due, ScanClaim(d)
        PROVE  Moves(r)
    <3>1. PICK n \in NextRun :
            /\ runs' = InsertRun(runs, n, d.id, "scheduled", d.nextRunAt,
                                 MissedOccurrences(schedules[d.id].trigger, d.nextRunAt, clock))
            /\ pending' = Append(pending, n)
      BY <2>2 DEF ScanClaim
    <3>2. n \in RunIds /\ runs[n].status = "absent"
      BY DEF NextRun, FreeRuns
    <3>3. /\ d.id \in ScheduleIds /\ lifecycle = "running"
          /\ active' = active /\ settled' = settled
      BY <1>1, <2>2 DEF ScanClaim, Visits, PhaseShape, TypeOK, DueRow
    <3>4. CASE r = n
      <4>1. runs'[n] = [schedule |-> d.id, trigger |-> "scheduled",
                        scheduledFor |-> d.nextRunAt,
                        missed |-> MissedOccurrences(schedules[d.id].trigger, d.nextRunAt, clock),
                        status |-> "running"]
        BY <1>1, <3>1, <3>2 DEF InsertRun, TypeOK
      <4> QED
        BY <2>2, <3>2, <3>3, <3>4, <4>1 DEF Moves, Created
    <3>5. CASE r # n
      <4>1. runs'[r] = runs[r]
        BY <1>1, <3>1, <3>5 DEF InsertRun, TypeOK
      <4>2. Range(pending') = Range(pending) \cup {n}
        BY <1>1, <3>1, <3>2, AppendedRun DEF TypeOK
      <4> QED
        BY <3>3, <3>5, <4>1, <4>2 DEF Moves, Kept, Executing
    <3> QED
      BY <3>4, <3>5
  <2>3. CASE Wake \/ ScanSettles
    BY <2>3, IdleMoves DEF Wake, ScanSettles, persistent
  <2>4. ASSUME NEW d \in due, ScanSkip(d) \/ ScanThrows(d)
        PROVE  Moves(r)
    BY <2>4, IdleMoves DEF ScanSkip, ScanThrows, persistent
  <2> QED
    BY <1>3, <2>1, <2>2, <2>3, <2>4 DEF Scan
<1>4. CASE Execution
  <2>1. ASSUME NEW q \in RunIds, Timeout(q)
        PROVE  Moves(r)
    BY <2>1, IdleMoves DEF Timeout, persistent
  <2>2. ASSUME NEW q \in RunIds, NEW ending \in {"ok", "nonzero", "throws"},
               Settle(q, ending)
        PROVE  Moves(r)
    <3>1. /\ q \in Executing /\ pending' = pending
          /\ active' = active /\ settled' = settled \cup {q}
      BY <2>2 DEF Settle
    <3>2. \/ runs' = runs
          \/ \E outcome \in TerminalStatus : runs' = FinishRuns(runs, {q}, outcome)
      BY <2>2 DEF Settle, OutcomeStatus, AbortStatus, TerminalStatus
    <3>3. CASE runs' = runs
      BY <3>1, <3>3 DEF Moves, Kept, Executing
    <3>4. ASSUME NEW outcome \in TerminalStatus, runs' = FinishRuns(runs, {q}, outcome)
          PROVE  Moves(r)
      <4>1. Executing' \subseteq Executing
        BY <3>1 DEF Executing
      <4> QED
        BY <3>1, <3>4, <4>1, FinishMoves DEF TerminalStatus
    <3> QED
      BY <3>2, <3>3, <3>4
  <2>3. ASSUME NEW q \in RunIds, Release(q)
        PROVE  Moves(r)
    <3>1. /\ Up /\ q \in settled /\ q \in active
          /\ Pump(lifecycle, pending, active \ {q}, settled \ {q}, runs)
      BY <1>1, <2>3 DEF Release, Quiet, TypeOK
    <3>2. /\ (active \ {q}) \ (settled \ {q}) = Executing
          /\ settled \ {q} \subseteq active \ {q}
      BY <1>1, <3>1 DEF Executing, TypeOK
    <3> QED
      BY <1>1, <3>1, <3>2, PumpOfHeldMoves
  <2> QED
    BY <1>4, <2>1, <2>2, <2>3 DEF Execution
<1>5. CASE Environment
  <2>1. ASSUME Vanish
        PROVE  Moves(r)
    BY <2>1 DEF Vanish, Moves, Kept, Range, Executing
  <2>2. CASE Boot
    <3>1. runs' = FinishRuns(runs, RunIds, "interrupted")
      BY <2>2 DEF Boot, RecoverRuns
    <3> QED
      BY <2>2, <3>1, FinishMoves DEF Boot, Executing
  <2>3. ASSUME UNCHANGED <<runs, volatile>>
        PROVE  Moves(r)
    BY <2>3, IdleMoves DEF volatile
  <2> QED
    BY <1>5, <2>1, <2>2, <2>3 DEF Environment, Crash, Close, Tick, OrphanExits
<1> QED
  BY <1>2, <1>3, <1>4, <1>5 DEF Next

\* A step of WorkInvariant, or a stutter.
LEMMA StepMovesOrStutters ==
  ASSUME WorkInvariant, [Next]_vars
  PROVE  \A r \in RunIds : Moves(r)
<1>1. ASSUME UNCHANGED vars, NEW r \in RunIds
      PROVE  Moves(r)
  BY <1>1, IdleMoves DEF vars, persistent, volatile
<1> QED
  BY <1>1, EveryStepMoves

\* The outcome of a run is written once, whoever comes late.
THEOREM OutcomeIsWrittenOnce == Spec => OutcomeIsFinal
<1>1. ASSUME WorkInvariant, [Next]_vars
      PROVE  [\A r \in RunIds :
                runs[r].status \in TerminalStatus => runs'[r] = runs[r]]_runs
  <2>1. ASSUME NEW r \in RunIds, runs[r].status \in TerminalStatus
        PROVE  runs'[r] = runs[r]
    <3>1. Moves(r)
      BY <1>1, StepMovesOrStutters
    <3> QED
      BY <2>1, <3>1 DEF Moves, Kept, Ended, Created, TerminalStatus
  <2> QED
    BY <2>1
<1> QED
  BY <1>1, WorkInvariantHolds, PTL DEF Spec, OutcomeIsFinal
-----------------------------------------------------------------------------
\* pump starts nothing when it may not dispatch.
LEMMA PumpHeldBack ==
  ASSUME NEW l, NEW queue, NEW busy, NEW over, NEW rows,
         ~MayDispatch(l),
         Pump(l, queue, busy, over, rows)
  PROVE  active' = busy
<1>1. DispatchCount(l, queue, busy) = 0
  BY DEF DispatchCount
<1>2. FirstOf(queue, 0) = {}
  BY DEF FirstOf
<1> QED
  BY <1>1, <1>2 DEF Pump

\* Under the cancel policy nothing starts once stop() was called.
LEMMA CancelStartsNothing ==
  ASSUME WorkInvariant, Next, lifecycle \in {"stopping", "stopped"},
         shutdownPolicy = "cancel"
  PROVE  active' \subseteq active
<1>1. scanning # "loop" /\ ~wakeHandle /\ ~MayDispatch(lifecycle)
  BY DEF WorkInvariant, PhaseShape, MayDispatch
<1>2. CASE Facade
  BY <1>2 DEF Facade, Add, Update, Remove, Run, MayRun, Start, StopDraining,
              StopCancelling, Stopped
<1>3. CASE Scan
  BY <1>1, <1>3 DEF Scan, Wake, ScanEnds, ScanSettles, ScanSkip, ScanClaim, ScanThrows,
                    Visits
<1>4. CASE Execution
  <2>1. ASSUME NEW q \in RunIds, Release(q)
        PROVE  active' \subseteq active
    <3>1. Pump(lifecycle, pending, active \ {q}, settled \ {q}, runs)
      BY <2>1 DEF Release
    <3>2. active' = active \ {q}
      BY <1>1, <3>1, PumpHeldBack
    <3> QED
      BY <3>2
  <2>2. ASSUME NEW q \in RunIds, Timeout(q)
        PROVE  active' \subseteq active
    BY <2>2 DEF Timeout
  <2>3. ASSUME NEW q \in RunIds, NEW ending \in {"ok", "nonzero", "throws"},
               Settle(q, ending)
        PROVE  active' \subseteq active
    BY <2>3 DEF Settle
  <2> QED
    BY <1>4, <2>1, <2>2, <2>3 DEF Execution
<1>5. CASE Environment
  BY <1>5 DEF Environment, Crash, Close, Vanish, Boot, Tick, OrphanExits, volatile
<1> QED
  BY <1>2, <1>3, <1>4, <1>5 DEF Next

\* From the call of stop() on no run is created, and under the cancel policy no
\* queued run starts, whichever timer, scan or completion comes late.
THEOREM ShutdownIsFinal == Spec => ShutdownAdmitsNothing
<1>1. ASSUME WorkInvariant, [Next]_vars
      PROVE  [(lifecycle \in {"stopping", "stopped"})
                => (/\ FreeRuns' = FreeRuns
                    /\ (shutdownPolicy = "cancel") => (active' \subseteq active))]_vars
  <2> SUFFICES ASSUME Next, lifecycle \in {"stopping", "stopped"}
               PROVE  /\ FreeRuns' = FreeRuns
                      /\ (shutdownPolicy = "cancel") => (active' \subseteq active)
    BY <1>1
  <2>1. ASSUME NEW r \in RunIds
        PROVE  runs'[r].status = "absent" <=> runs[r].status = "absent"
    <3>1. Kept(r) \/ Ended(r)
      BY <1>1, StepMovesOrStutters DEF Moves, Created
    <3>2. runs[r] \in RunRow
      BY <1>1 DEF WorkInvariant, TypeOK
    <3> QED
      BY <3>1, <3>2 DEF Kept, Ended, Written, RunRow, StoredRun, NoRun
  <2>2. FreeRuns' = FreeRuns
    BY <2>1 DEF FreeRuns
  <2> QED
    BY <1>1, <2>2, CancelStartsNothing
<1> QED
  BY <1>1, WorkInvariantHolds, PTL DEF Spec, ShutdownAdmitsNothing
-----------------------------------------------------------------------------
\* What the loop of a scan has still to visit is a schedule that was due when it was
\* read, and no run was created for an occurrence that is yet to come.
DueIsPast ==
  \A d \in due : d.nextRunAt <= clock /\ schedules[d.id].phase # "absent"

ScheduledRunsArePast ==
  \A r \in RunIds : runs[r].trigger = "scheduled" =>
    runs[r].scheduledFor \in Nat /\ runs[r].scheduledFor <= clock

\* What a schedule waits for is an occurrence of its trigger.
NextsAreOccurrences ==
  \A s \in ScheduleIds :
    (schedules[s].phase = "live" /\ schedules[s].nextRunAt # None)
      => IsOccurrence(schedules[s].trigger, schedules[s].nextRunAt)

OccurrenceInvariant ==
  DueIsPast /\ ScheduledRunsArePast /\ NextsAreOccurrences /\ NoOccurrenceReplayed

\* The clock never goes back, and stands still while a scan loops.
LEMMA ClockAdvances ==
  ASSUME TypeOK, Next
  PROVE  /\ clock \in Nat /\ clock' \in Nat /\ clock <= clock'
         /\ \A d \in due : ScanClaim(d) => clock' = clock
<1>1. clock \in Nat
  BY ConstantsAssumption DEF TypeOK
<1>2. clock' = clock \/ clock' = clock + 1
  BY DEF Next, Facade, Scan, Execution, Environment, Add, Update, Remove, Run, Start,
         StopDraining, StopCancelling, Stopped, Wake, ScanEnds, ScanSettles, ScanSkip,
         ScanClaim, ScanThrows, Timeout, Settle, Release, Crash, Close, Vanish, Boot,
         Tick, OrphanExits, persistent
<1> QED
  BY <1>1, <1>2 DEF ScanClaim

\* No step brings a schedule's row back to nothing.
LEMMA SchedulesStay ==
  ASSUME TypeOK, Next, NEW s \in ScheduleIds, schedules[s].phase # "absent"
  PROVE  schedules'[s].phase # "absent"
<1>1. ASSUME NEW q \in ScheduleIds, NEW row, row.phase # "absent",
             schedules' = [schedules EXCEPT ![q] = row]
      PROVE  schedules'[s].phase # "absent"
  BY <1>1 DEF TypeOK
<1>2. ASSUME NEW q \in ScheduleIds, NEW t \in Triggers, NEW e \in BOOLEAN,
             Add(q, t, e) \/ Update(q, t, e)
      PROVE  schedules'[s].phase # "absent"
  BY <1>2 DEF Add, Update, TypeOK
<1>3. ASSUME NEW q \in ScheduleIds, Remove(q)
      PROVE  schedules'[s].phase # "absent"
  <2>1. schedules[q] \in StoredSchedule
    BY <1>3, LiveRowType DEF Remove, TypeOK
  <2>2. Deleted(schedules[q]).phase # "absent"
    BY <2>1 DEF Deleted, StoredSchedule
  <2> QED
    BY <1>1, <1>3, <2>2 DEF Remove
<1>4. ASSUME NEW d \in due, ScanClaim(d)
      PROVE  schedules'[s].phase # "absent"
  <2>1. d.id \in ScheduleIds /\ schedules[d.id] \in StoredSchedule
    BY <1>4, LiveRowType DEF ScanClaim, StillAsRead, TypeOK, DueRow
  <2>2. Advanced(schedules[d.id]).phase # "absent"
    BY <2>1 DEF Advanced, StoredSchedule
  <2> QED
    BY <1>1, <1>4, <2>1, <2>2 DEF ScanClaim
<1> QED
  BY <1>2, <1>3, <1>4
     DEF Next, Facade, Scan, Execution, Environment, Run, Start, StopDraining,
         StopCancelling, Stopped, Wake, ScanEnds, ScanSettles, ScanSkip, ScanThrows,
         Timeout, Settle, Release, Crash, Close, Vanish, Boot, Tick, OrphanExits,
         persistent

\* A row still to be visited was due when it was read, and is now.
LEMMA DueStaysPast ==
  ASSUME TypeOK, DueIsPast, Next
  PROVE  DueIsPast'
<1>1. clock \in Nat /\ clock' \in Nat /\ clock <= clock'
  BY ClockAdvances
<1>2. due' \subseteq due \/ (due' = DueRows /\ clock' = clock)
  BY DEF Next, Facade, Scan, Execution, Environment, Add, Update, Remove, Run, Start,
         StopDraining, StopCancelling, Stopped, Wake, ScanEnds, ScanSettles, ScanSkip,
         ScanClaim, ScanThrows, Timeout, Settle, Release, Crash, Close, Vanish, Boot,
         Tick, OrphanExits, persistent, volatile
<1>3. ASSUME NEW d \in due
      PROVE  d.id \in ScheduleIds /\ d.nextRunAt \in Nat /\ d.nextRunAt <= clock'
  BY <1>1, <1>3 DEF TypeOK, DueRow, DueIsPast
<1>4. ASSUME NEW d \in DueRows
      PROVE  /\ d.id \in ScheduleIds /\ d.nextRunAt <= clock
             /\ schedules[d.id].phase # "absent"
  BY <1>4 DEF DueRows, IsDue
<1>5. ASSUME NEW s \in ScheduleIds, schedules[s].phase # "absent"
      PROVE  schedules'[s].phase # "absent"
  BY <1>5, SchedulesStay
<1> QED
  BY <1>2, <1>3, <1>4, <1>5 DEF DueIsPast

\* A claim creates its run for the occurrence it read, and the schedule's next one
\* lies in the future.
LEMMA ClaimLooksAhead ==
  ASSUME TypeOK, DueIsPast, NEW d \in due, ScanClaim(d)
  PROVE  /\ d.id \in ScheduleIds \ owned
         /\ IsDue(schedules[d.id])
         /\ d.nextRunAt = schedules[d.id].nextRunAt
         /\ d.nextRunAt \in Nat /\ d.nextRunAt <= clock
         /\ clock' = clock
         /\ schedules' = [schedules EXCEPT ![d.id] = Advanced(schedules[d.id])]
         /\ \/ schedules'[d.id].nextRunAt = None
            \/ /\ schedules'[d.id].nextRunAt \in Nat
               /\ schedules'[d.id].nextRunAt > clock
<1>1. d.id \in ScheduleIds /\ d.nextRunAt \in Nat /\ d.nextRunAt <= clock
  BY DEF TypeOK, DueRow, DueIsPast
<1>2. /\ StillAsRead(d) /\ d.id \notin owned /\ clock' = clock
      /\ schedules' = [schedules EXCEPT ![d.id] = Advanced(schedules[d.id])]
  BY DEF ScanClaim
<1>3. schedules[d.id] \in StoredSchedule
  BY <1>1, <1>2, LiveRowType DEF StillAsRead, TypeOK
<1>4. schedules'[d.id].nextRunAt = NextRunAt(schedules[d.id].trigger, clock)
  BY <1>1, <1>2, <1>3 DEF Advanced, TypeOK, StoredSchedule
<1>5. schedules[d.id].trigger \in Triggers /\ clock \in 0 .. Horizon
  BY <1>3 DEF StoredSchedule, TypeOK
<1>6. None \notin Nat
  BY ConstantsAssumption
<1> QED
  BY <1>1, <1>2, <1>4, <1>5, <1>6, NextRunAtIsLater DEF IsDue, StillAsRead

\* The occurrence of a run stays behind the clock.
LEMMA RunsStayPast ==
  ASSUME WorkInvariant, DueIsPast, ScheduledRunsArePast, Next
  PROVE  ScheduledRunsArePast'
<1>1. TypeOK
  BY DEF WorkInvariant
<1>2. clock \in Nat /\ clock' \in Nat /\ clock <= clock'
  BY <1>1, ClockAdvances
<1>3. ASSUME NEW r \in RunIds, runs'[r].trigger = "scheduled"
      PROVE  runs'[r].scheduledFor \in Nat /\ runs'[r].scheduledFor <= clock'
  <2>1. Moves(r)
    BY EveryStepMoves
  <2>2. CASE Kept(r) \/ Ended(r)
    <3>1. /\ runs'[r].trigger = runs[r].trigger
          /\ runs'[r].scheduledFor = runs[r].scheduledFor
      BY <1>1, <2>2 DEF Kept, Ended, Written, TypeOK, RunRow, StoredRun, NoRun
    <3> QED
      BY <1>2, <1>3, <3>1 DEF ScheduledRunsArePast
  <2>3. CASE Created(r)
    <3>1. PICK d \in due : ScanClaim(d) /\ runs'[r].scheduledFor = d.nextRunAt
      BY <1>3, <2>3 DEF Created
    <3> QED
      BY <1>1, <1>2, <3>1, ClaimLooksAhead
  <2> QED
    BY <2>1, <2>2, <2>3 DEF Moves
<1> QED
  BY <1>3 DEF ScheduledRunsArePast

\* A step that writes a schedule deletes it, leaves it without a next occurrence,
\* makes it a one-time job or puts its next occurrence ahead of the clock.
LEMMA WrittenSchedulesLookAhead ==
  ASSUME TypeOK, DueIsPast, Next, NEW s \in ScheduleIds
  PROVE  \/ schedules'[s] = schedules[s]
         \/ schedules'[s].phase = "deleted"
         \/ schedules'[s].trigger.kind = "at"
         \/ schedules'[s].nextRunAt = None
         \/ schedules'[s].nextRunAt \in Nat /\ schedules'[s].nextRunAt > clock'
<1> DEFINE Ahead == \/ schedules'[s] = schedules[s]
                    \/ schedules'[s].phase = "deleted"
                    \/ schedules'[s].trigger.kind = "at"
                    \/ schedules'[s].nextRunAt = None
                    \/ schedules'[s].nextRunAt \in Nat /\ schedules'[s].nextRunAt > clock'
<1>1. ASSUME NEW q \in ScheduleIds, NEW t \in Triggers, NEW e \in BOOLEAN,
             Add(q, t, e) \/ Update(q, t, e)
      PROVE  Ahead
  <2>1. \E revision : schedules' = [schedules EXCEPT ![q] =
          [phase |-> "live", enabled |-> e, trigger |-> t,
           nextRunAt |-> InitialNextRunAt(t, e, clock), revision |-> revision]]
    BY <1>1 DEF Add, Update
  <2>2. \/ t.kind = "at"
        \/ InitialNextRunAt(t, e, clock) = None
        \/ /\ InitialNextRunAt(t, e, clock) \in Nat
           /\ InitialNextRunAt(t, e, clock) > clock
    BY NextRunAtIsLater DEF InitialNextRunAt, TypeOK
  <2>3. clock' = clock
    BY <1>1 DEF Add, Update
  <2> HIDE DEF Ahead
  <2>4. CASE q # s
    <3>1. schedules'[s] = schedules[s]
      BY <2>1, <2>4 DEF TypeOK
    <3> QED
      BY <3>1 DEF Ahead
  <2>5. CASE q = s
    <3>1. /\ schedules'[s].trigger = t
          /\ schedules'[s].nextRunAt = InitialNextRunAt(t, e, clock)
      BY <2>1, <2>5 DEF TypeOK
    <3> QED
      BY <2>2, <2>3, <3>1 DEF Ahead
  <2> QED
    BY <2>4, <2>5
<1>2. ASSUME NEW q \in ScheduleIds, Remove(q)
      PROVE  Ahead
  BY <1>2 DEF Remove, Deleted, TypeOK, ScheduleRow, StoredSchedule, NoSchedule
<1>3. ASSUME NEW d \in due, ScanClaim(d)
      PROVE  Ahead
  <2>1. /\ d.id \in ScheduleIds /\ clock' = clock
        /\ schedules' = [schedules EXCEPT ![d.id] = Advanced(schedules[d.id])]
        /\ \/ schedules'[d.id].nextRunAt = None
           \/ schedules'[d.id].nextRunAt \in Nat /\ schedules'[d.id].nextRunAt > clock
    BY <1>3, ClaimLooksAhead
  <2> QED
    BY <2>1 DEF TypeOK
<1>4. ASSUME UNCHANGED schedules
      PROVE  Ahead
  BY <1>4
<1> HIDE DEF Ahead
<1>5. Ahead
  BY <1>1, <1>2, <1>3, <1>4
     DEF Next, Facade, Scan, Execution, Environment, Run, Start, StopDraining,
         StopCancelling, Stopped, Wake, ScanEnds, ScanSettles, ScanSkip, ScanThrows,
         Timeout, Settle, Release, Crash, Close, Vanish, Boot, Tick, OrphanExits,
         persistent
<1> QED
  BY <1>5 DEF Ahead

\* Adding, editing and claiming a schedule give it an occurrence of its trigger to wait for.
LEMMA NextsStayOccurrences ==
  ASSUME TypeOK, NextsAreOccurrences, Next
  PROVE  NextsAreOccurrences'
<1> SUFFICES ASSUME NEW s \in ScheduleIds, schedules'[s].phase = "live",
                    schedules'[s].nextRunAt # None
             PROVE  IsOccurrence(schedules'[s].trigger, schedules'[s].nextRunAt)
  BY DEF NextsAreOccurrences
<1> DEFINE Right == IsOccurrence(schedules'[s].trigger, schedules'[s].nextRunAt)
<1>1. CASE schedules'[s] = schedules[s]
  BY <1>1 DEF NextsAreOccurrences
<1>2. ASSUME NEW t \in Triggers, NEW e \in BOOLEAN, InitialNextRunAt(t, e, clock) # None
      PROVE  IsOccurrence(t, InitialNextRunAt(t, e, clock))
  <2>1. CASE t.kind = "at"
    BY <1>2, <2>1 DEF InitialNextRunAt, IsOccurrence
  <2>2. CASE t.kind # "at"
    <3>1. InitialNextRunAt(t, e, clock) = NextRunAt(t, clock)
      BY <1>2, <2>2 DEF InitialNextRunAt
    <3> QED
      BY <1>2, <3>1, NextRunAtIsFirst DEF TypeOK
  <2> QED
    BY <2>1, <2>2
<1>3. ASSUME NEW q \in ScheduleIds, NEW t \in Triggers, NEW e \in BOOLEAN,
             Add(q, t, e) \/ Update(q, t, e)
      PROVE  Right
  <2>1. \E revision : schedules' = [schedules EXCEPT ![q] =
          [phase |-> "live", enabled |-> e, trigger |-> t,
           nextRunAt |-> InitialNextRunAt(t, e, clock), revision |-> revision]]
    BY <1>3 DEF Add, Update
  <2>2. CASE q # s
    BY <1>1, <2>1, <2>2 DEF TypeOK
  <2>3. CASE q = s
    <3>1. /\ schedules'[s].trigger = t
          /\ schedules'[s].nextRunAt = InitialNextRunAt(t, e, clock)
      BY <2>1, <2>3 DEF TypeOK
    <3> QED
      BY <1>2, <3>1
  <2> QED
    BY <2>2, <2>3
<1>4. ASSUME NEW q \in ScheduleIds, Remove(q)
      PROVE  schedules'[s] = schedules[s]
  <2>1. schedules' = [schedules EXCEPT ![q] = Deleted(schedules[q])]
    BY <1>4 DEF Remove
  <2>2. schedules[q] \in StoredSchedule
    BY <1>4, LiveRowType DEF Remove, TypeOK
  <2>3. Deleted(schedules[q]).phase = "deleted"
    BY <2>2 DEF Deleted, StoredSchedule
  <2> QED
    BY <2>1, <2>3 DEF TypeOK
<1>5. ASSUME NEW d \in due, ScanClaim(d)
      PROVE  Right
  <2>1. /\ d.id \in ScheduleIds /\ schedules[d.id] \in StoredSchedule
        /\ schedules' = [schedules EXCEPT ![d.id] = Advanced(schedules[d.id])]
    BY <1>5, LiveRowType DEF ScanClaim, StillAsRead, TypeOK, DueRow
  <2>2. CASE d.id # s
    BY <1>1, <2>1, <2>2 DEF TypeOK
  <2>3. CASE d.id = s
    <3>1. /\ schedules'[s].trigger = schedules[s].trigger
          /\ schedules'[s].nextRunAt = NextRunAt(schedules[s].trigger, clock)
          /\ schedules[s].trigger \in Triggers
      BY <2>1, <2>3 DEF Advanced, TypeOK, StoredSchedule
    <3> QED
      BY <3>1, NextRunAtIsFirst DEF TypeOK
  <2> QED
    BY <2>2, <2>3
<1> HIDE DEF Right
<1>6. CASE UNCHANGED schedules
  BY <1>1, <1>6 DEF Right
<1>7. Right
  BY <1>1, <1>3, <1>4, <1>5, <1>6
     DEF Right, Next, Facade, Scan, Execution, Environment, Run, Start, StopDraining,
         StopCancelling, Stopped, Wake, ScanEnds, ScanSettles, ScanSkip, ScanThrows,
         Timeout, Settle, Release, Crash, Close, Vanish, Boot, Tick, OrphanExits,
         persistent
<1> QED
  BY <1>7 DEF Right

\* No step replays an occurrence.
LEMMA NoStepReplays ==
  ASSUME WorkInvariant, OccurrenceInvariant, Next
  PROVE  NoOccurrenceReplayed'
<1>1. TypeOK /\ DueIsPast /\ ScheduledRunsArePast /\ NoOccurrenceReplayed
  BY DEF WorkInvariant, OccurrenceInvariant
<1>2. ScheduledRunsArePast' /\ clock' \in Nat
  BY <1>1, RunsStayPast, ClockAdvances
<1> SUFFICES ASSUME NEW s \in ScheduleIds, NEW r \in RunIds,
                    schedules'[s].phase = "live",
                    schedules'[s].trigger.kind # "at",
                    schedules'[s].nextRunAt # None,
                    runs'[r].schedule = s,
                    runs'[r].trigger = "scheduled"
             PROVE  runs'[r].scheduledFor < schedules'[s].nextRunAt
  BY DEF NoOccurrenceReplayed
<1>3. runs'[r].scheduledFor \in Nat /\ runs'[r].scheduledFor <= clock'
  BY <1>2 DEF ScheduledRunsArePast
<1>4. CASE schedules'[s].nextRunAt \in Nat /\ schedules'[s].nextRunAt > clock'
  BY <1>2, <1>3, <1>4
<1>5. CASE schedules'[s] = schedules[s]
  <2>1. CASE Kept(r) \/ Ended(r)
    <3>1. /\ runs'[r].trigger = runs[r].trigger
          /\ runs'[r].schedule = runs[r].schedule
          /\ runs'[r].scheduledFor = runs[r].scheduledFor
      BY <1>1, <2>1 DEF Kept, Ended, Written, TypeOK, RunRow, StoredRun, NoRun
    <3> QED
      BY <1>1, <1>5, <3>1 DEF NoOccurrenceReplayed
  <2>2. CASE Created(r)
    <3>1. PICK d \in due : ScanClaim(d) /\ d.id = s
      BY <2>2 DEF Created
    <3>2. schedules'[s].nextRunAt \in Nat /\ schedules'[s].nextRunAt > clock'
      BY <1>1, <3>1, ClaimLooksAhead
    <3> QED
      BY <1>4, <3>2
  <2> QED
    BY <2>1, <2>2, EveryStepMoves DEF Moves
<1> QED
  BY <1>1, <1>4, <1>5, WrittenSchedulesLookAhead

\* The inductive invariant about occurrences.
LEMMA OccurrenceInvariantNext ==
  WorkInvariant /\ OccurrenceInvariant /\ [Next]_vars => OccurrenceInvariant'
<1>1. ASSUME WorkInvariant, OccurrenceInvariant, Next
      PROVE  OccurrenceInvariant'
  BY <1>1, DueStaysPast, RunsStayPast, NextsStayOccurrences, NoStepReplays
     DEF OccurrenceInvariant, WorkInvariant
<1>2. ASSUME OccurrenceInvariant, UNCHANGED vars
      PROVE  OccurrenceInvariant'
  BY <1>2 DEF vars, persistent, volatile, OccurrenceInvariant, DueIsPast,
              ScheduledRunsArePast, NextsAreOccurrences, NoOccurrenceReplayed
<1> QED
  BY <1>1, <1>2

\* In the first state nothing is due and no run exists.
LEMMA OccurrenceInvariantInit == Init => OccurrenceInvariant
  BY DEF Init, NoRun, NoSchedule, OccurrenceInvariant, DueIsPast, ScheduledRunsArePast,
         NextsAreOccurrences, NoOccurrenceReplayed

\* No claim, restart or edit brings the next occurrence of a recurring schedule
\* back to or behind one a run was created for.
THEOREM OccurrencesMoveOn == Spec => []NoOccurrenceReplayed
<1>1. OccurrenceInvariant => NoOccurrenceReplayed
  BY DEF OccurrenceInvariant
<1> QED
  BY <1>1, OccurrenceInvariantInit, OccurrenceInvariantNext, WorkInvariantHolds, PTL
     DEF Spec

\* What a claim does with the occurrences of its schedule: one is run, those missed are counted,
\* and the first one ahead comes next.
LEMMA ClaimLosesNothing ==
  ASSUME TypeOK, DueIsPast, NextsAreOccurrences, NEW d \in due, ScanClaim(d),
         NEW t, t = schedules[d.id].trigger, NEW next, next = schedules'[d.id].nextRunAt
  PROVE  /\ IsOccurrence(t, d.nextRunAt)
         /\ MissedOccurrences(t, d.nextRunAt, clock)
              = Cardinality(OccurrencesIn(t, d.nextRunAt, clock))
         /\ IF next = None THEN OccurrencesIn(t, clock, Horizon) = {}
            ELSE IsOccurrence(t, next) /\ OccurrencesIn(t, clock, next - 1) = {}
<1>1. /\ d.id \in ScheduleIds /\ IsDue(schedules[d.id])
      /\ d.nextRunAt = schedules[d.id].nextRunAt /\ d.nextRunAt \in Nat /\ d.nextRunAt <= clock
      /\ schedules' = [schedules EXCEPT ![d.id] = Advanced(schedules[d.id])]
  BY ClaimLooksAhead
<1>2. schedules[d.id] \in StoredSchedule
  BY <1>1, LiveRowType DEF IsDue, TypeOK
<1>3. /\ t \in Triggers /\ clock \in 0 .. Horizon /\ Horizon \in Nat
      /\ d.nextRunAt \in 0 .. clock
  BY <1>1, <1>2, ConstantsAssumption DEF StoredSchedule, TypeOK
<1>4. IsOccurrence(t, d.nextRunAt)
  BY <1>1 DEF NextsAreOccurrences, IsDue
<1>5. next = NextRunAt(t, clock)
  BY <1>1, <1>2 DEF Advanced, TypeOK, StoredSchedule
<1>6. MissedOccurrences(t, d.nextRunAt, clock) = Cardinality(OccurrencesIn(t, d.nextRunAt, clock))
  BY <1>3, <1>4, MissedAreCounted
<1>7. IF next = None THEN OccurrencesIn(t, clock, Horizon) = {}
      ELSE IsOccurrence(t, next) /\ OccurrencesIn(t, clock, next - 1) = {}
  BY <1>3, <1>5, NextRunAtIsFirst
<1> QED
  BY <1>4, <1>6, <1>7

\* A claim is for a live, enabled and due schedule that nobody owns, and leaves it not due: the
\* backlog is skipped, the run tells how many occurrences that are, and none is forgotten.
THEOREM BacklogIsSkipped == Spec => ClaimSkipsBacklog
<1> DEFINE Claims(r) ==
             LET s == runs'[r].schedule
                 t == schedules[s].trigger
                 at == runs'[r].scheduledFor
                 next == schedules'[s].nextRunAt
             IN /\ IsDue(schedules[s])
                /\ s \notin owned
                /\ at = schedules[s].nextRunAt /\ IsOccurrence(t, at)
                /\ runs'[r].missed = Cardinality(OccurrencesIn(t, at, clock))
                /\ ~IsDue(schedules'[s])
                /\ IF next = None THEN OccurrencesIn(t, clock, Horizon) = {}
                   ELSE IsOccurrence(t, next) /\ OccurrencesIn(t, clock, next - 1) = {}
<1>1. ASSUME WorkInvariant, OccurrenceInvariant, [Next]_vars
      PROVE  [\A r \in RunIds :
                (runs[r].status = "absent" /\ runs'[r].trigger = "scheduled") => Claims(r)]_vars
  <2> SUFFICES ASSUME Next, NEW r \in RunIds,
                      runs[r].status = "absent", runs'[r].trigger = "scheduled"
               PROVE  Claims(r)
    BY <1>1
  <2>1. TypeOK /\ DueIsPast /\ NextsAreOccurrences
    BY <1>1 DEF WorkInvariant, OccurrenceInvariant
  <2>2. runs[r].trigger # "scheduled"
    BY <2>1 DEF TypeOK, RunRow, StoredRun, NoRun, TerminalStatus
  <2>3. Created(r)
    BY <1>1, <2>2, EveryStepMoves DEF Moves, Kept, Ended
  <2>4. PICK d \in due :
          /\ ScanClaim(d)
          /\ runs'[r].schedule = d.id
          /\ runs'[r].scheduledFor = d.nextRunAt
          /\ runs'[r].missed = MissedOccurrences(schedules[d.id].trigger, d.nextRunAt, clock)
    BY <2>3 DEF Created
  <2>5. /\ d.id \in ScheduleIds \ owned
        /\ IsDue(schedules[d.id])
        /\ d.nextRunAt = schedules[d.id].nextRunAt
        /\ \/ schedules'[d.id].nextRunAt = None
           \/ schedules'[d.id].nextRunAt \in Nat /\ schedules'[d.id].nextRunAt > clock
    BY <2>1, <2>4, ClaimLooksAhead
  <2>6. clock \in Nat /\ clock' = clock
    BY <2>1, <2>4, ConstantsAssumption DEF TypeOK, ScanClaim
  <2>7. ~IsDue(schedules'[d.id])
    BY <2>5, <2>6 DEF IsDue
  <2> DEFINE t == schedules[d.id].trigger
             next == schedules'[d.id].nextRunAt
  <2>8. /\ IsOccurrence(t, d.nextRunAt)
        /\ MissedOccurrences(t, d.nextRunAt, clock)
             = Cardinality(OccurrencesIn(t, d.nextRunAt, clock))
        /\ IF next = None THEN OccurrencesIn(t, clock, Horizon) = {}
           ELSE IsOccurrence(t, next) /\ OccurrencesIn(t, clock, next - 1) = {}
    BY <2>1, <2>4, ClaimLosesNothing
  <2> QED
    BY <2>4, <2>5, <2>7, <2>8
<1> QED
  BY <1>1, OccurrenceInvariantInit, OccurrenceInvariantNext, WorkInvariantHolds, PTL
     DEF Spec, ClaimSkipsBacklog
-----------------------------------------------------------------------------
\* Slots.  A scan that throws skips pump and leaves its claims waiting beside free
\* slots (SchedulerPoison), so the theorem is about schedulers in which none does.
NothingThrows ==
  /\ ~StateMayThrow
  /\ \A t \in Triggers, now \in 0 .. Horizon : ~Unrepresentable(t, now)

\* The first n elements of a queue without repetitions are n.
LEMMA FirstOfCounts ==
  ASSUME NEW queue \in Seq(RunIds), IsInjective(queue), NEW n \in 0 .. Len(queue)
  PROVE  Cardinality(FirstOf(queue, n)) = n
<1> DEFINE T == FirstOf(queue, n)
           f == [i \in 1 .. n |-> queue[i]]
<1>1. Len(queue) \in Nat /\ DOMAIN queue = 1 .. Len(queue)
  BY LenProperties
<1>2. n \in Nat /\ 1 .. n \subseteq DOMAIN queue
  BY <1>1
<1>3. IsFiniteSet(1 .. n) /\ Cardinality(1 .. n) = n
  BY <1>2, FS_Interval
<1>4. \A i, j \in 1 .. n : f[i] = f[j] => i = j
  BY <1>2 DEF IsInjective
<1>5. f \in Bijection(1 .. n, T)
  BY <1>4 DEF Bijection, Injection, IsInjective, Surjection, FirstOf
<1> HIDE DEF f, T
<1>6. ExistsBijection(1 .. n, T)
  BY <1>5 DEF ExistsBijection
<1>7. Cardinality(T) = n
  BY <1>3, <1>6, FS_Bijection
<1> QED
  BY <1>7 DEF T

\* When pump is done, runs wait only for want of a slot.
LEMMA PumpUsesSlots ==
  ASSUME NEW l, NEW queue \in Seq(RunIds), NEW busy \in SUBSET RunIds,
         NEW over, NEW rows,
         Cardinality(busy) <= concurrency,
         IsInjective(queue),
         Range(queue) \cap busy = {},
         MayDispatch(l),
         Pump(l, queue, busy, over, rows),
         pending' # <<>>
  PROVE  Cardinality(active') = concurrency
<1> DEFINE n == DispatchCount(l, queue, busy)
           started == FirstOf(queue, n)
<1>1. /\ n \in 0 .. Len(queue)
      /\ pending' \in Seq(RunIds)
      /\ DOMAIN pending' = 1 .. Len(queue) - n
      /\ started \in SUBSET RunIds
      /\ active' = busy \cup started
  BY PumpTakesPrefix
<1>2. /\ Len(queue) \in Nat /\ DOMAIN queue = 1 .. Len(queue)
      /\ DOMAIN pending' = 1 .. Len(pending') /\ Len(pending') \in Nat
  BY <1>1, LenProperties
<1>3. n < Len(queue)
  <2>1. Len(pending') # 0
    BY <1>1, EmptySeq
  <2> QED
    BY <1>1, <1>2, <2>1
<1>4. Cardinality(busy) \in Nat /\ IsFiniteSet(busy) /\ IsFiniteSet(started)
  BY <1>1, RunSetsFinite
<1>5. n = concurrency - Cardinality(busy)
  BY <1>2, <1>3, <1>4, ConstantsAssumption DEF DispatchCount
<1>6. Cardinality(started) = n
  BY <1>1, FirstOfCounts
<1>7. busy \cap started = {} /\ Cardinality({}) = 0
  BY <1>1, <1>2, FS_EmptySet DEF FirstOf, Range
<1> HIDE DEF n, started
<1>8. Cardinality(active') = Cardinality(busy) + Cardinality(started) - 0
  BY <1>1, <1>4, <1>7, FS_Union
<1> QED
  BY <1>1, <1>4, <1>5, <1>6, <1>8, ConstantsAssumption

\* Every step that adds a run, frees a slot or ends a scan pumps.
LEMMA StepsUseSlots ==
  ASSUME NothingThrows, WorkInvariant, DueIsPast, WorkConserving, Next
  PROVE  WorkConserving'
<1>1. TypeOK /\ PhaseShape /\ Custody
  BY DEF WorkInvariant, Custody
<1>2. ASSUME Up, NEW l, MayDispatch(lifecycle)' => MayDispatch(l),
             Pump(l, pending, active, settled, runs)
      PROVE  WorkConserving'
  <2>1. /\ pending \in Seq(RunIds) /\ IsInjective(pending)
        /\ active \in SUBSET RunIds /\ Range(pending) \cap active = {}
        /\ Cardinality(active) <= concurrency
    BY <1>1, <1>2, CustodyOfWork DEF TypeOK
  <2> QED
    BY <1>2, <2>1, PumpUsesSlots DEF WorkConserving
<1>3. ASSUME UNCHANGED <<pending, active>>, Quiet' => Quiet,
             MayDispatch(lifecycle)' => MayDispatch(lifecycle)
      PROVE  WorkConserving'
  BY <1>3 DEF WorkConserving
<1>4. ASSUME pending' = <<>>
      PROVE  WorkConserving'
  BY <1>4 DEF WorkConserving
<1>5. CASE Facade
  <2>1. ASSUME NEW s \in ScheduleIds, Run(s)
        PROVE  WorkConserving'
    <3>1. PICK n \in NextRun :
            Pump(lifecycle, Append(pending, n), active, settled,
                 InsertRun(runs, n, s, "manual", None, 0))
      BY <2>1 DEF Run
    <3> DEFINE queue == Append(pending, n)
               rows == InsertRun(runs, n, s, "manual", None, 0)
    <3>2. /\ Up /\ waiter # "rejected" /\ s \in ScheduleIds \ owned
          /\ lifecycle' = lifecycle /\ MayDispatch(lifecycle)
      BY <1>1, <2>1 DEF Run, MayRun, Quiet, PhaseShape, MayDispatch
    <3>3. InCustody(rows, queue, active, settled, owned \cup {s}, TRUE)
      BY <1>1, <3>2, CustodyOfNewRun
    <3>4. /\ queue \in Seq(RunIds) /\ IsInjective(queue)
          /\ active \in SUBSET RunIds /\ Range(queue) \cap active = {}
          /\ Cardinality(active) <= concurrency
      BY <1>1, <3>3 DEF InCustody, TypeOK
    <3>5. Pump(lifecycle, queue, active, settled, rows)
      BY <3>1
    <3> HIDE DEF queue, rows
    <3> QED
      BY <3>2, <3>4, <3>5, PumpUsesSlots DEF WorkConserving
  <2>2. CASE StopDraining
    <3>1. /\ Up /\ Pump("stopping", pending, active, settled, runs)
          /\ MayDispatch("stopping")
      BY <2>2 DEF StopDraining, Quiet, MayDispatch
    <3> QED
      BY <1>2, <3>1
  <2>3. ASSUME NEW s \in ScheduleIds, NEW t \in Triggers, NEW e \in BOOLEAN,
               Add(s, t, e) \/ Update(s, t, e)
        PROVE  WorkConserving'
    BY <1>3, <2>3 DEF Add, Update, Quiet, Up, MayDispatch
  <2>4. ASSUME NEW s \in ScheduleIds, Remove(s)
        PROVE  WorkConserving'
    BY <1>3, <2>4 DEF Remove, Quiet, Up, MayDispatch
  <2>5. CASE Start \/ Stopped
    BY <1>3, <2>5 DEF Start, Stopped, Quiet, Up, MayDispatch
  <2>6. CASE StopCancelling
    BY <1>4, <2>6 DEF StopCancelling
  <2> QED
    BY <1>5, <2>1, <2>2, <2>3, <2>4, <2>5, <2>6 DEF Facade
<1>6. CASE Scan
  <2>1. CASE ScanEnds
    <3>1. /\ Up /\ Pump(lifecycle, pending, active, settled, runs)
          /\ lifecycle' = lifecycle /\ shutdownPolicy' = shutdownPolicy
      BY <1>1, <2>1 DEF ScanEnds, PhaseShape
    <3> QED
      BY <1>2, <3>1 DEF MayDispatch
  <2>2. CASE Wake \/ ScanSettles
    BY <1>1, <1>3, <2>2 DEF Wake, ScanSettles, Quiet, Up, MayDispatch, PhaseShape
  <2>3. ASSUME NEW d \in due, ScanSkip(d) \/ ScanClaim(d)
        PROVE  WorkConserving'
    BY <2>3 DEF ScanSkip, ScanClaim, Visits, WorkConserving, Quiet
  <2>4. ASSUME NEW d \in due, ScanThrows(d)
        PROVE  FALSE
    <3>1. /\ d.id \in ScheduleIds /\ clock \in 0 .. Horizon
          /\ Unrepresentable(schedules[d.id].trigger, clock)
      BY <1>1, <2>4 DEF ScanThrows, TypeOK, DueRow, NothingThrows
    <3>2. schedules[d.id].trigger \in Triggers
      BY <1>1, <3>1 DEF TypeOK, DueIsPast, ScheduleRow, StoredSchedule, NoSchedule
    <3> QED
      BY <3>1, <3>2 DEF NothingThrows
  <2> QED
    BY <1>6, <2>1, <2>2, <2>3, <2>4 DEF Scan
<1>7. CASE Execution
  <2>1. ASSUME NEW q \in RunIds, Release(q)
        PROVE  WorkConserving'
    <3>1. /\ Up /\ Pump(lifecycle, pending, active \ {q}, settled \ {q}, runs)
          /\ lifecycle' = lifecycle /\ shutdownPolicy' = shutdownPolicy
      BY <2>1 DEF Release, Quiet
    <3>2. /\ pending \in Seq(RunIds) /\ IsInjective(pending)
          /\ active \in SUBSET RunIds /\ Range(pending) \cap active = {}
          /\ Cardinality(active) <= concurrency
      BY <1>1, <3>1, CustodyOfWork DEF TypeOK
    <3>3. Cardinality(active \ {q}) <= Cardinality(active)
      BY <3>2, RunSetsFinite, FS_Subset
    <3>4. /\ active \ {q} \in SUBSET RunIds /\ Range(pending) \cap (active \ {q}) = {}
          /\ Cardinality(active \ {q}) <= concurrency
      BY <3>2, <3>3, RunSetsFinite, ConstantsAssumption
    <3> QED
      BY <3>1, <3>2, <3>4, PumpUsesSlots DEF WorkConserving, MayDispatch
  <2>2. ASSUME NEW q \in RunIds, Timeout(q)
        PROVE  WorkConserving'
    BY <1>3, <2>2 DEF Timeout, Quiet, Up, MayDispatch
  <2>3. ASSUME NEW q \in RunIds, NEW ending \in {"ok", "nonzero", "throws"},
               Settle(q, ending)
        PROVE  WorkConserving'
    BY <1>3, <2>3 DEF Settle, Quiet, Up, MayDispatch
  <2> QED
    BY <1>7, <2>1, <2>2, <2>3 DEF Execution
<1>8. CASE Environment
  <2>1. ASSUME Vanish
        PROVE  WorkConserving'
    BY <1>4, <2>1 DEF Vanish
  <2>2. CASE Boot
    <3>1. pending' = <<>>
      <4>1. pending \in Seq(RunIds) /\ Range(pending) = {}
        BY <1>1, <2>2 DEF Boot, PhaseShape, Up, TypeOK, Held
      <4> QED
        BY <2>2, <4>1, EmptyQueue DEF Boot
    <3> QED
      BY <1>4, <3>1
  <2>3. CASE Tick \/ \E r \in RunIds : OrphanExits(r)
    BY <1>3, <2>3 DEF Tick, OrphanExits, volatile, Quiet, Up, MayDispatch
  <2> QED
    BY <1>8, <2>1, <2>2, <2>3 DEF Environment, Crash, Close
<1> QED
  BY <1>5, <1>6, <1>7, <1>8 DEF Next

\* Where nothing throws no slot idles while a run waits for one: every operation
\* that adds a run or frees a slot pumps.
THEOREM SlotsAreUsed ==
  ASSUME NothingThrows
  PROVE  Spec => []WorkConserving
<1>1. Init => WorkConserving
  BY DEF Init, WorkConserving
<1>2. WorkInvariant /\ OccurrenceInvariant /\ WorkConserving /\ [Next]_vars
        => WorkConserving'
  <2>1. WorkConserving /\ UNCHANGED vars => WorkConserving'
    BY DEF WorkConserving, vars, persistent, volatile, Quiet, Up, MayDispatch
  <2> QED
    BY <2>1, StepsUseSlots DEF OccurrenceInvariant
<1> QED
  BY <1>1, <1>2, OccurrenceInvariantInit, OccurrenceInvariantNext, WorkInvariantHolds,
     PTL DEF Spec
-----------------------------------------------------------------------------
\* Refinement.

\* Each way a run moves in the scheduler is a way onward in the ledger.
LEMMA MovesGoOnward ==
  ASSUME TypeOK, TypeOK', Custody, NEW r \in RunIds, Moves(r)
  PROVE  /\ StageOf(r)' \in Ledger!Onward(StageOf(r))
         /\ IF StageOf(r) = "none" /\ StageOf(r)' # "none"
            THEN runs'[r].schedule \in ScheduleIds
            ELSE runs'[r].schedule = runs[r].schedule
<1> USE DEF StageOf, Ledger!Onward, TerminalStatus
<1>1. /\ runs[r] \in RunRow /\ runs'[r] \in RunRow
      /\ r \in Range(pending) => r \notin Executing
  BY DEF TypeOK, Custody, SameScheduleNeverOverlaps, Executing
<1>2. CASE Kept(r)
  BY <1>1, <1>2 DEF Kept, RunRow, StoredRun, NoRun
<1>3. CASE Ended(r)
  <2>1. /\ runs'[r].schedule = runs[r].schedule
        /\ runs[r].status = "running"
        /\ \/ runs'[r].status = "interrupted"
           \/ runs'[r].status = "failed" /\ r \in Range(pending) \cup Executing
           \/ runs'[r].status = "completed" /\ r \in Executing
    BY <1>1, <1>3 DEF Ended, Written, RunRow, StoredRun, NoRun
  <2> QED
    BY <1>1, <2>1
<1>4. CASE Created(r)
  BY <1>1, <1>4 DEF Created, RunRow, StoredRun, NoRun
<1> QED
  BY <1>2, <1>3, <1>4 DEF Moves

\* The ledger counts as the scheduler does.
LEMMA LedgerCounts ==
  ASSUME NEW S
  PROVE  Ledger!Cardinality(S) = Cardinality(S)
  BY DEF Ledger!Cardinality, Cardinality

\* The stages after a step that keeps the books respect the ledger's limits.
LEMMA StagesRespectLimits ==
  ASSUME TypeOK', Custody', NEW stages, NEW jobs,
         stages = [r \in RunIds |-> StageOf(r)'],
         jobs = [r \in RunIds |-> runs'[r].schedule]
  PROVE  /\ stages \in [RunIds -> Ledger!Stages]
         /\ jobs \in [RunIds -> ScheduleIds \cup {None}]
         /\ Ledger!OneLiveRunPerJob(stages, jobs)
         /\ Ledger!SlotsRespected(stages)
<1>1. ASSUME NEW r \in RunIds
      PROVE  /\ StageOf(r)' \in Ledger!Stages
             /\ runs'[r].schedule \in ScheduleIds \cup {None}
             /\ StageOf(r)' = "waiting" => r \in Range(pending')
             /\ StageOf(r)' = "executing" => r \in Executing'
  BY DEF StageOf, Ledger!Stages, TerminalStatus, TypeOK, RunRow, StoredRun, NoRun
<1>2. Ledger!OneLiveRunPerJob(stages, jobs)
  <2>1. ASSUME NEW r \in RunIds, stages[r] \in {"waiting", "executing"}
        PROVE  r \in Held'
    BY <1>1, <2>1 DEF Held, Executing
  <2>2. \A r, q \in Held' : runs'[r].schedule = runs'[q].schedule => r = q
    BY DEF Custody, SameScheduleNeverOverlaps
  <2> QED
    BY <2>1, <2>2 DEF Ledger!OneLiveRunPerJob, Ledger!Live
<1>3. Ledger!SlotsRespected(stages)
  <2> DEFINE busy == {r \in RunIds : stages[r] = "executing"}
  <2>1. /\ busy \subseteq active' /\ active' \subseteq RunIds
        /\ Cardinality(active') <= concurrency
    BY <1>1 DEF Executing, TypeOK
  <2>2. Ledger!SlotsRespected(stages) <=> Cardinality(busy) <= concurrency
    BY LedgerCounts DEF Ledger!SlotsRespected
  <2> HIDE DEF busy
  <2>3. Cardinality(busy) <= Cardinality(active')
    BY <2>1, RunSetsFinite, FS_Subset
  <2>4. Cardinality(busy) \in Nat /\ Cardinality(active') \in Nat
    BY <2>1, RunSetsFinite
  <2> QED
    BY <2>1, <2>2, <2>3, <2>4, ConstantsAssumption
<1> QED
  BY <1>1, <1>2, <1>3

\* The scheduler implements the ledger: its runs only move onward, at most one of
\* a schedule is live and at most concurrency execute.
THEOREM LedgerIsImplemented == Spec => ImplementsLedger
<1>1. ASSUME Init
      PROVE  Ledger!LedgerInit
  <2>1. \A r \in RunIds : StageOf(r) = "none" /\ runs[r].schedule = None
    BY <1>1 DEF Init, StageOf, NoRun, TerminalStatus
  <2> QED
    BY <2>1 DEF Ledger!LedgerInit
<1>2. ASSUME WorkInvariant, [Next]_vars
      PROVE  [Ledger!Advance]_<<[r \in RunIds |-> StageOf(r)],
                               [r \in RunIds |-> runs[r].schedule]>>
  <2>1. TypeOK /\ Custody /\ TypeOK' /\ Custody'
    BY <1>2, WorkInvariantNext DEF WorkInvariant, Custody
  <2>2. \A r \in RunIds : Moves(r)
    BY <1>2, StepMovesOrStutters
  <2> DEFINE stages == [r \in RunIds |-> StageOf(r)']
             jobs == [r \in RunIds |-> runs'[r].schedule]
  <2>3. /\ stages \in [RunIds -> Ledger!Stages]
        /\ jobs \in [RunIds -> ScheduleIds \cup {None}]
        /\ Ledger!OneLiveRunPerJob(stages, jobs)
        /\ Ledger!SlotsRespected(stages)
    BY <2>1, StagesRespectLimits
  <2>4. \A r \in RunIds :
          /\ StageOf(r)' \in Ledger!Onward(StageOf(r))
          /\ IF StageOf(r) = "none" /\ StageOf(r)' # "none"
             THEN runs'[r].schedule \in ScheduleIds
             ELSE runs'[r].schedule = runs[r].schedule
    BY <2>1, <2>2, MovesGoOnward
  <2>5. Ledger!Advance
    BY <2>3, <2>4 DEF Ledger!Advance
  <2> QED
    BY <2>5
<1> QED
  BY <1>1, <1>2, WorkInvariantHolds, PTL DEF Spec, ImplementsLedger, Ledger!LedgerSpec
=============================================================================
