----------------------------- MODULE RunLedger -----------------------------
(***************************************************************************)
(* What the scheduler promises about runs, with neither queue nor timer:   *)
(* docs/scheduler.md, "Execution policy".  A run is created for a          *)
(* schedule, waits, executes and ends, or is stranded when its process     *)
(* dies or its outcome cannot be stored; it can only move forward, at most *)
(* one run of a schedule is live, and at most concurrency execute.         *)
(***************************************************************************)
EXTENDS Integers, FiniteSets

CONSTANTS ScheduleIds, RunIds, None, concurrency

VARIABLES stage, job

Stages == {"none", "waiting", "executing", "stranded", "completed", "failed",
           "interrupted"}

\* The stages a run may be in after one step of the program that finds it in x.
\* One handler can create, start and fail a run.
Onward(x) ==
  CASE x = "none" -> {"none", "waiting", "executing", "failed", "stranded"}
    [] x = "waiting" -> {"waiting", "executing", "failed", "interrupted", "stranded"}
    [] x = "executing" -> {"executing", "completed", "failed", "interrupted", "stranded"}
    [] x = "stranded" -> {"stranded", "interrupted"}
    [] OTHER -> {x}

Live(st) == {r \in RunIds : st[r] \in {"waiting", "executing"}}

OneLiveRunPerJob(st, jb) == \A r, q \in Live(st) : jb[r] = jb[q] => r = q

SlotsRespected(st) == Cardinality({r \in RunIds : st[r] = "executing"}) <= concurrency

LedgerInit == /\ stage = [r \in RunIds |-> "none"]
              /\ job = [r \in RunIds |-> None]

\* Some runs move on; a run that is created gets its schedule, for good.
Advance ==
  /\ stage' \in [RunIds -> Stages]
  /\ job' \in [RunIds -> ScheduleIds \cup {None}]
  /\ \A r \in RunIds :
       /\ stage'[r] \in Onward(stage[r])
       /\ IF stage[r] = "none" /\ stage'[r] # "none"
          THEN job'[r] \in ScheduleIds ELSE job'[r] = job[r]
  /\ OneLiveRunPerJob(stage', job')
  /\ SlotsRespected(stage')

LedgerSpec == LedgerInit /\ [][Advance]_<<stage, job>>
=============================================================================
