---------------------------- MODULE MCScheduler ----------------------------
(***************************************************************************)
(* Instances of Scheduler for TLC.                                         *)
(***************************************************************************)
EXTENDS Scheduler, TLC

\* One cron expression that fires at 1 and 2 and never again.
SmallCron ==
  [e \in {"cron"} |-> [t \in 0 .. Horizon |->
     IF t = 0 THEN 1 ELSE IF t = 1 THEN 2 ELSE None]]

At1 == [kind |-> "at", at |-> 1]
Every1 == [kind |-> "every", every |-> 1, anchor |-> 1]
Every2 == [kind |-> "every", every |-> 2, anchor |-> 0]
Huge == [kind |-> "every", every |-> 9, anchor |-> 1]
Cron == [kind |-> "cron", expr |-> "cron"]

OneTime == {At1}
OneTimeAndRecurring == {At1, Every1}
AllKinds == {At1, Every2, Cron}
WithHuge == {At1, Huge}

\* Identifiers are random, so any permutation of them is as good.
Symmetry == Permutations(ScheduleIds)
=============================================================================
