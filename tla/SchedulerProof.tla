--------------------------- MODULE SchedulerProof ---------------------------
(***************************************************************************)
(* Theorems about Scheduler, for every value of its constants: lemmas on   *)
(* its operators, type correctness, and the inductive invariant            *)
(* WorkInvariant with the safety properties that follow from it.           *)
(***************************************************************************)
EXTENDS Scheduler, FunctionTheorems, FiniteSetTheorems, SequenceTheorems,
        WellFoundedInduction, TLAPS

-----------------------------------------------------------------------------
\* Helpers of the model.

\* The names of runs form a finite set.
LEMMA RunIdsFinite == IsFiniteSet(RunIds)
  BY ConstantsAssumption, FS_Interval DEF RunIds

\* So does any part of it, which counts with natural numbers.
LEMMA RunSetsFinite ==
  ASSUME NEW S \in SUBSET RunIds
  PROVE  IsFiniteSet(S) /\ Cardinality(S) \in Nat
  BY RunIdsFinite, FS_Subset, FS_CardinalityType

\* Whole periods that fit into a span of time: one more than fit exceeds it.
LEMMA PeriodsExceedSpan ==
  ASSUME NEW span \in Nat, NEW every \in Nat \ {0}
  PROVE  /\ span \div every \in Nat
         /\ (span \div every + 1) * every \in Nat
         /\ (span \div every + 1) * every > span
  OBVIOUS

\* computeNextRunAt: the next occurrence is strictly in the future, or there is
\* none.
LEMMA NextRunAtIsLater ==
  ASSUME NEW t \in Triggers, NEW now \in 0 .. Horizon
  PROVE  \/ NextRunAt(t, now) = None
         \/ NextRunAt(t, now) \in Nat /\ NextRunAt(t, now) > now
<1>1. CASE t \in AtTrigger
  BY <1>1 DEF NextRunAt, AtTrigger
<1>2. CASE t \in EveryTrigger
  <2>1. /\ t.kind = "every" /\ t.every \in Nat \ {0} /\ t.anchor \in Nat
        /\ now \in Nat
    BY <1>2, ConstantsAssumption DEF EveryTrigger
  <2>2. CASE now < t.anchor
    BY <2>1, <2>2 DEF NextRunAt
  <2>3. CASE ~(now < t.anchor)
    <3> DEFINE gain == ((now - t.anchor) \div t.every + 1) * t.every
    <3>1. now - t.anchor \in Nat
      BY <2>1, <2>3
    <3>2. gain \in Nat /\ gain > now - t.anchor
      BY <2>1, <3>1, PeriodsExceedSpan
    <3>3. NextRunAt(t, now) = t.anchor + gain
      BY <2>1, <2>3 DEF NextRunAt
    <3> QED
      BY <2>1, <3>2, <3>3
  <2> QED
    BY <2>2, <2>3
<1>3. CASE t \in CronTrigger
  <2>1. t.kind = "cron" /\ t \notin AtTrigger /\ t \notin EveryTrigger
    BY <1>3 DEF AtTrigger, EveryTrigger, CronTrigger
  <2>2. NextRunAt(t, now) = CronNext[t.expr][now]
    BY <2>1 DEF NextRunAt
  <2> QED
    BY <2>1, <2>2, TriggersAssumption
<1> QED
  BY <1>1, <1>2, <1>3, TriggersAssumption

-----------------------------------------------------------------------------
\* The calendar: what is computed, against what a trigger means.

\* A set of naturals that is not empty has a least member: of the intervals from 0 to a member,
\* which are finite sets, one has no other below it.
LEMMA LeastNatural ==
  ASSUME NEW T, T \subseteq Nat, T # {}
  PROVE  \E x \in T : \A y \in T : x <= y
<1> DEFINE below == {0 .. n : n \in T}
<1>1. below \subseteq FiniteSubsetsOf(Nat)
  <2>1. ASSUME NEW n \in T PROVE 0 .. n \in FiniteSubsetsOf(Nat)
    <3>1. IsFiniteSet(0 .. n)
      BY FS_Interval
    <3>2. 0 .. n \in SUBSET Nat
      OBVIOUS
    <3> QED
      BY <3>1, <3>2 DEF FiniteSubsetsOf
  <2> QED
    BY <2>1
<1>2. below # {}
  OBVIOUS
<1>3. IsWellFoundedOn(StrictSubsetOrdering(Nat), FiniteSubsetsOf(Nat))
  BY FS_StrictSubsetOrderingWellFounded
<1> HIDE DEF below
<1>4. \E x \in below : \A y \in below : <<y, x>> \notin StrictSubsetOrdering(Nat)
  BY <1>1, <1>2, <1>3, WFMin
<1>5. PICK b \in below : \A y \in below : <<y, b>> \notin StrictSubsetOrdering(Nat)
  BY <1>4
<1>6. PICK x \in T : b = 0 .. x
  BY DEF below
<1>7. ASSUME NEW y \in T PROVE x <= y
  <2> SUFFICES ASSUME y < x PROVE FALSE
    OBVIOUS
  <2>1. 0 .. y \in below
    BY DEF below
  <2>2. 0 .. y \subseteq 0 .. x /\ x \in 0 .. x /\ x \notin 0 .. y
    OBVIOUS
  <2>3. <<0 .. y, 0 .. x>> \in (SUBSET Nat) \X (SUBSET Nat)
    OBVIOUS
  <2>4. 0 .. y # 0 .. x
    BY <2>2
  <2>5. <<0 .. y, 0 .. x>> \in StrictSubsetOrdering(Nat)
    BY <2>2, <2>3, <2>4 DEF StrictSubsetOrdering
  <2> QED
    BY <1>5, <1>6, <2>1, <2>5
<1> QED
  BY <1>7

\* Occurrences of a span of time can be counted.
LEMMA OccurrencesFinite ==
  ASSUME NEW t, NEW from \in Int, NEW to \in Int
  PROVE  /\ IsFiniteSet(OccurrencesIn(t, from, to))
         /\ Cardinality(OccurrencesIn(t, from, to)) \in Nat
<1>1. IsFiniteSet(from + 1 .. to)
  BY FS_Interval
<1>2. OccurrencesIn(t, from, to) \subseteq from + 1 .. to
  BY DEF OccurrencesIn
<1> QED
  BY <1>1, <1>2, FS_Subset, FS_CardinalityType

\* What croner answers: an instant ahead that stays the answer until it has come, and never one
\* that it would not have given earlier.
LEMMA CronAnswers ==
  ASSUME NEW t \in Triggers, t \in CronTrigger, NEW now \in 0 .. Horizon
  PROVE  /\ t.kind = "cron"
         /\ \/ CronNext[t.expr][now] = None
            \/ CronNext[t.expr][now] \in Nat /\ CronNext[t.expr][now] > now
         /\ \A later \in now .. Horizon :
              (CronNext[t.expr][now] = None \/ later < CronNext[t.expr][now])
                => CronNext[t.expr][later] = CronNext[t.expr][now]
<1>1. t.kind = "cron"
  BY DEF CronTrigger
<1>2. t \notin AtTrigger /\ t \notin EveryTrigger
  BY <1>1 DEF AtTrigger, EveryTrigger
<1> QED
  BY <1>1, <1>2, TriggersAssumption, CronAssumption

\* An occurrence of a cron expression that lies ahead is croner's answer, or comes after it.
LEMMA CronAnswerIsFirst ==
  ASSUME NEW t \in Triggers, t \in CronTrigger, NEW now \in 0 .. Horizon, NEW o \in Nat,
         o > now, IsOccurrence(t, o)
  PROVE  CronNext[t.expr][now] \in Nat /\ CronNext[t.expr][now] <= o
<1> DEFINE Answer(n) == CronNext[t.expr][n]
<1>1. PICK m \in 0 .. Horizon : Answer(m) = o
  BY CronAnswers DEF IsOccurrence
<1>2. Horizon \in Nat /\ None \notin Nat
  BY ConstantsAssumption
<1>3. /\ Answer(m) = None \/ (Answer(m) \in Nat /\ Answer(m) > m)
      /\ \A later \in m .. Horizon :
           (Answer(m) = None \/ later < Answer(m)) => Answer(later) = Answer(m)
  BY CronAnswers
<1>4. /\ Answer(now) = None \/ (Answer(now) \in Nat /\ Answer(now) > now)
      /\ \A later \in now .. Horizon :
           (Answer(now) = None \/ later < Answer(now)) => Answer(later) = Answer(now)
  BY CronAnswers
<1> HIDE DEF Answer
<1>5. CASE m <= now
  <2>1. now \in m .. Horizon /\ now < Answer(m)
    BY <1>1, <1>2, <1>5
  <2>2. Answer(now) = o
    BY <1>1, <1>3, <2>1
  <2> QED
    BY <2>2 DEF Answer
<1>6. CASE m > now
  <2>1. m \in now .. Horizon /\ m < o
    BY <1>1, <1>2, <1>3, <1>6
  <2>2. CASE Answer(now) = None \/ m < Answer(now)
    <3>1. Answer(now) = o
      BY <1>1, <1>4, <2>1, <2>2
    <3> QED
      BY <3>1 DEF Answer
  <2>3. CASE ~(Answer(now) = None \/ m < Answer(now))
    <3>1. Answer(now) \in Nat /\ Answer(now) <= o
      BY <1>2, <1>4, <2>1, <2>3
    <3> QED
      BY <3>1 DEF Answer
  <2> QED
    BY <2>2, <2>3
<1> QED
  BY <1>2, <1>5, <1>6

\* One turn of the loop: there is nothing to count, or croner's answer and what comes after it.
LEMMA CronTurn ==
  ASSUME NEW t \in Triggers, t \in CronTrigger, NEW now \in 0 .. Horizon, NEW from \in 0 .. now,
         NEW next, next = CronNext[t.expr][from]
  PROVE  /\ next = None \/ (next \in Nat /\ next > from)
         /\ next = None \/ next > now => OccurrencesIn(t, from, now) = {}
         /\ next # None /\ ~(next > now) =>
              /\ OccurrencesIn(t, from, now) = OccurrencesIn(t, next, now) \cup {next}
              /\ next \notin OccurrencesIn(t, next, now)
<1>1. Horizon \in Nat /\ None \notin Nat /\ now \in Nat /\ from \in 0 .. Horizon /\ from \in Nat
  BY ConstantsAssumption
<1>2. t.kind = "cron" /\ (next = None \/ (next \in Nat /\ next > from))
  BY <1>1, CronAnswers
<1>3. ASSUME NEW o \in OccurrencesIn(t, from, now)
      PROVE  o \in Nat /\ o > from /\ o <= now /\ IsOccurrence(t, o) /\ next \in Nat /\ next <= o
  <2>1. o \in Nat /\ o > from /\ o <= now /\ IsOccurrence(t, o)
    BY <1>1 DEF OccurrencesIn
  <2> QED
    BY <1>1, <2>1, CronAnswerIsFirst
<1>4. next = None \/ next > now => OccurrencesIn(t, from, now) = {}
  BY <1>1, <1>3
<1>5. ASSUME next # None, ~(next > now)
      PROVE  /\ OccurrencesIn(t, from, now) = OccurrencesIn(t, next, now) \cup {next}
             /\ next \notin OccurrencesIn(t, next, now)
  <2>1. next \in Nat /\ next > from /\ next <= now
    BY <1>1, <1>2, <1>5
  <2>2. IsOccurrence(t, next)
    BY <1>1, <1>2 DEF IsOccurrence
  <2>3. ASSUME NEW o \in OccurrencesIn(t, from, now), o # next
        PROVE  o \in OccurrencesIn(t, next, now)
    BY <1>1, <1>3, <2>1, <2>3 DEF OccurrencesIn
  <2>4. OccurrencesIn(t, next, now) \subseteq OccurrencesIn(t, from, now)
    BY <1>1, <2>1 DEF OccurrencesIn
  <2>5. next \in OccurrencesIn(t, from, now) /\ next \notin OccurrencesIn(t, next, now)
    BY <1>1, <2>1, <2>2 DEF OccurrencesIn
  <2> QED
    BY <2>3, <2>4, <2>5
<1> QED
  BY <1>2, <1>4, <1>5

\* The loop of countMissedOccurrences counts the occurrences after its cursor: the counts of those
\* sets obey its equation, and nothing else does.
LEMMA CronMissedCounts ==
  ASSUME NEW t \in Triggers, t \in CronTrigger, NEW now \in 0 .. Horizon, NEW ago \in 0 .. now
  PROVE  CronMissed(t.expr, ago, now) = Cardinality(OccurrencesIn(t, now - ago, now))
<1> DEFINE Answer(left) == CronNext[t.expr][now - left]
           Turn(f, left) == IF Answer(left) = None \/ Answer(left) > now THEN 0
                            ELSE 1 + f[now - Answer(left)]
           Counts == [left \in 0 .. now |-> Cardinality(OccurrencesIn(t, now - left, now))]
           missed == CHOOSE f : f = [left \in 0 .. now |-> Turn(f, left)]
<1>1. now \in Nat /\ None \notin Nat
  BY ConstantsAssumption
<1>2. ASSUME NEW left \in 0 .. now
      PROVE  /\ Answer(left) = None \/ Answer(left) > now => Counts[left] = 0
             /\ Answer(left) # None /\ ~(Answer(left) > now) =>
                  /\ now - Answer(left) \in 0 .. now /\ now - Answer(left) < left
                  /\ Counts[left] = 1 + Counts[now - Answer(left)]
  <2> DEFINE from == now - left
             next == CronNext[t.expr][from]
  <2>1. from \in 0 .. now /\ now - from = left
    BY <1>1
  <2> HIDE DEF from
  <2>2. /\ next = None \/ (next \in Nat /\ next > from)
        /\ next = None \/ next > now => OccurrencesIn(t, from, now) = {}
        /\ next # None /\ ~(next > now) =>
             /\ OccurrencesIn(t, from, now) = OccurrencesIn(t, next, now) \cup {next}
             /\ next \notin OccurrencesIn(t, next, now)
    BY <2>1, CronTurn
  <2>3. Answer(left) = next /\ Counts[left] = Cardinality(OccurrencesIn(t, from, now))
    BY DEF from
  <2> HIDE DEF next, Answer, Counts
  <2>4. CASE next = None \/ next > now
    BY <2>2, <2>3, <2>4, FS_EmptySet, <1>1
  <2>5. CASE next # None /\ ~(next > now)
    <3>1. next \in Nat /\ next > from /\ next <= now
      BY <1>1, <2>2, <2>5
    <3>2. now - next \in 0 .. now /\ now - next < left
      BY <1>1, <2>1, <3>1
    <3>3. Counts[now - next] = Cardinality(OccurrencesIn(t, next, now))
      <4>1. now - (now - next) = next
        BY <1>1, <3>1
      <4> QED
        BY <3>2, <4>1 DEF Counts
    <3>4. Cardinality(OccurrencesIn(t, from, now)) = Cardinality(OccurrencesIn(t, next, now)) + 1
      <4>1. IsFiniteSet(OccurrencesIn(t, next, now))
        BY <1>1, <3>1, OccurrencesFinite
      <4> QED
        BY <2>2, <2>5, <4>1, FS_AddElement
    <3>5. Cardinality(OccurrencesIn(t, next, now)) \in Nat
      BY <1>1, <3>1, OccurrencesFinite
    <3> QED
      BY <2>3, <2>5, <3>2, <3>3, <3>4, <3>5
  <2> QED
    BY <2>4, <2>5
<1> HIDE DEF Answer
<1>3. Counts = [left \in 0 .. now |-> Turn(Counts, left)]
  <2>1. ASSUME NEW left \in 0 .. now PROVE Counts[left] = Turn(Counts, left)
    <3> HIDE DEF Counts
    <3> QED
      BY <1>2
  <2> QED
    BY <2>1
<1>4. missed = [left \in 0 .. now |-> Turn(missed, left)]
  <2>1. \E f : f = [left \in 0 .. now |-> Turn(f, left)]
    BY <1>3
  <2> QED
    BY <2>1
<1>5. CronMissed(t.expr, ago, now) = missed[ago]
  BY DEF CronMissed, Answer
<1> HIDE DEF missed, Counts
<1>6. \A left \in 0 .. now : missed[left] = Counts[left]
  <2> DEFINE Wrong == {left \in 0 .. now : missed[left] # Counts[left]}
  <2> SUFFICES ASSUME Wrong # {} PROVE FALSE
    OBVIOUS
  <2>1. Wrong \subseteq Nat
    OBVIOUS
  <2>2. PICK x \in Wrong : \A y \in Wrong : x <= y
    BY <2>1, LeastNatural
  <2>3. x \in 0 .. now /\ missed[x] = Turn(missed, x)
    BY <1>4
  <2>4. CASE Answer(x) = None \/ Answer(x) > now
    BY <1>2, <2>3, <2>4
  <2>5. CASE ~(Answer(x) = None \/ Answer(x) > now)
    <3>1. /\ now - Answer(x) \in 0 .. now /\ now - Answer(x) < x
          /\ Counts[x] = 1 + Counts[now - Answer(x)]
      BY <1>2, <2>3, <2>5
    <3>2. missed[x] = 1 + missed[now - Answer(x)]
      BY <2>3, <2>5
    <3>3. now - Answer(x) \notin Wrong
      BY <1>1, <2>2, <2>3, <3>1
    <3> QED
      BY <2>2, <3>1, <3>2, <3>3
  <2> QED
    BY <2>4, <2>5
<1>7. Counts[ago] = Cardinality(OccurrencesIn(t, now - ago, now))
  BY DEF Counts
<1> QED
  BY <1>5, <1>6, <1>7

\* Division with a remainder.
LEMMA WholePeriods ==
  ASSUME NEW span \in Nat, NEW every \in Nat \ {0}
  PROVE  /\ span \div every \in Nat
         /\ (span \div every) * every <= span
         /\ span < (span \div every + 1) * every
         /\ span % every = 0 => span = (span \div every) * every
  OBVIOUS

\* More whole periods reach further.
LEMMA PeriodsGrow ==
  ASSUME NEW i \in Nat, NEW j \in Nat, NEW every \in Nat \ {0}
  PROVE  /\ i <= j <=> i * every <= j * every
         /\ i < j <=> i * every < j * every
         /\ (i + j) * every = i * every + j * every
         /\ (i * every) % every = 0
  OBVIOUS

\* The occurrences of a period are the whole numbers of periods from its anchor.
LEMMA EveryOccurrences ==
  ASSUME NEW t \in EveryTrigger, NEW o \in Nat
  PROVE  IsOccurrence(t, o) <=> \E k \in Nat : o = t.anchor + k * t.every
<1>1. t.kind = "every" /\ t.every \in Nat \ {0} /\ t.anchor \in Nat
  BY DEF EveryTrigger
<1>2. ASSUME IsOccurrence(t, o) PROVE \E k \in Nat : o = t.anchor + k * t.every
  <2>1. o - t.anchor \in Nat /\ (o - t.anchor) % t.every = 0
    BY <1>1, <1>2 DEF IsOccurrence
  <2>2. (o - t.anchor) \div t.every \in Nat
    BY <1>1, <2>1, WholePeriods
  <2>3. o - t.anchor = ((o - t.anchor) \div t.every) * t.every
    BY <1>1, <2>1, WholePeriods
  <2>4. o = t.anchor + ((o - t.anchor) \div t.every) * t.every
    BY <1>1, <2>1, <2>3
  <2> QED
    BY <2>2, <2>4
<1>3. ASSUME NEW k \in Nat, o = t.anchor + k * t.every PROVE IsOccurrence(t, o)
  <2>1. k * t.every \in Nat /\ (k * t.every) % t.every = 0
    BY <1>1, PeriodsGrow
  <2>2. o - t.anchor = k * t.every /\ o >= t.anchor
    BY <1>1, <1>3, <2>1
  <2> QED
    BY <1>1, <2>1, <2>2 DEF IsOccurrence
<1> QED
  BY <1>2, <1>3

\* The division of countMissedOccurrences counts the occurrences after the one it starts from: the
\* k-th of them is k periods away.
LEMMA EveryMissedCounts ==
  ASSUME NEW t \in EveryTrigger, NEW now \in Nat, NEW scheduled \in 0 .. now,
         IsOccurrence(t, scheduled)
  PROVE  (now - scheduled) \div t.every = Cardinality(OccurrencesIn(t, scheduled, now))
<1> DEFINE n == (now - scheduled) \div t.every
           kth == [k \in 1 .. n |-> scheduled + k * t.every]
           S == OccurrencesIn(t, scheduled, now)
<1>1. /\ t.every \in Nat \ {0} /\ t.anchor \in Nat /\ scheduled \in Nat /\ now - scheduled \in Nat
      /\ scheduled <= now
  BY DEF EveryTrigger
<1>2. n \in Nat /\ n * t.every <= now - scheduled /\ now - scheduled < (n + 1) * t.every
  BY <1>1, WholePeriods
<1>3. PICK first \in Nat : scheduled = t.anchor + first * t.every
  BY <1>1, EveryOccurrences
<1> HIDE DEF n
<1>4. ASSUME NEW k \in 1 .. n PROVE kth[k] \in S
  <2>1. k \in Nat /\ k * t.every \in Nat /\ k * t.every <= n * t.every /\ k * t.every > 0
    BY <1>1, <1>2, PeriodsGrow
  <2>2. kth[k] \in scheduled + 1 .. now
    BY <1>1, <1>2, <2>1
  <2>3. first + k \in Nat /\ kth[k] = t.anchor + (first + k) * t.every
    BY <1>1, <1>3, <2>1, PeriodsGrow
  <2>4. IsOccurrence(t, kth[k])
    BY <1>1, <2>2, <2>3, EveryOccurrences
  <2> QED
    BY <2>2, <2>4 DEF OccurrencesIn
<1>5. ASSUME NEW o \in S PROVE \E k \in 1 .. n : kth[k] = o
  <2>1. o \in scheduled + 1 .. now /\ IsOccurrence(t, o) /\ o \in Nat
    BY <1>1 DEF OccurrencesIn
  <2>2. PICK j \in Nat : o = t.anchor + j * t.every
    BY <2>1, EveryOccurrences
  <2>3. first < j
    <3>1. first * t.every < j * t.every
      BY <1>1, <1>3, <2>1, <2>2, PeriodsGrow
    <3> QED
      BY <1>1, <3>1, PeriodsGrow
  <2>4. j - first \in Nat \ {0} /\ j * t.every = (first + (j - first)) * t.every
    BY <2>3
  <2>5. o - scheduled = (j - first) * t.every
    <3>1. (first + (j - first)) * t.every = first * t.every + (j - first) * t.every
      BY <1>1, <2>4, PeriodsGrow
    <3>2. first * t.every \in Nat /\ (j - first) * t.every \in Nat
      BY <1>1, <2>4
    <3> QED
      BY <1>1, <1>3, <2>2, <2>4, <3>1, <3>2
  <2>6. (j - first) * t.every < (n + 1) * t.every
    BY <1>1, <1>2, <2>1, <2>5
  <2>7. j - first < n + 1
    BY <1>1, <1>2, <2>4, <2>6, PeriodsGrow
  <2>8. j - first \in 1 .. n
    BY <1>2, <2>4, <2>7
  <2>9. o = scheduled + (j - first) * t.every
    BY <1>1, <2>1, <2>4, <2>5
  <2> QED
    BY <2>8, <2>9
<1>6. ASSUME NEW i \in 1 .. n, NEW j \in 1 .. n, kth[i] = kth[j] PROVE i = j
  <2>1. i \in Nat /\ j \in Nat /\ i * t.every \in Nat /\ j * t.every \in Nat
    BY <1>1, <1>2
  <2>2. i * t.every = j * t.every
    BY <1>1, <1>6, <2>1
  <2> QED
    BY <1>1, <2>1, <2>2, PeriodsGrow
<1> HIDE DEF S
<1>7. kth \in Bijection(1 .. n, S)
  BY <1>4, <1>5, <1>6, Fun_IsBij
<1>8. IsFiniteSet(1 .. n) /\ Cardinality(1 .. n) = n
  BY <1>2, FS_Interval
<1>9. ExistsBijection(1 .. n, S)
  BY <1>7 DEF ExistsBijection
<1>10. Cardinality(S) = n
  BY <1>8, <1>9, FS_Bijection
<1> QED
  BY <1>10 DEF n, S

\* countMissedOccurrences counts the occurrences after the one that is due, for every trigger.
LEMMA MissedAreCounted ==
  ASSUME NEW t \in Triggers, NEW now \in 0 .. Horizon, NEW scheduled \in 0 .. now,
         IsOccurrence(t, scheduled)
  PROVE  MissedOccurrences(t, scheduled, now) = Cardinality(OccurrencesIn(t, scheduled, now))
<1>1. now \in Nat /\ scheduled \in Nat
  BY ConstantsAssumption
<1>2. ASSUME OccurrencesIn(t, scheduled, now) = {}, MissedOccurrences(t, scheduled, now) = 0
      PROVE  MissedOccurrences(t, scheduled, now) = Cardinality(OccurrencesIn(t, scheduled, now))
  BY <1>2, FS_EmptySet
<1>3. CASE now <= scheduled
  <2>1. OccurrencesIn(t, scheduled, now) = {}
    BY <1>1, <1>3 DEF OccurrencesIn
  <2> QED
    BY <1>2, <1>3, <2>1 DEF MissedOccurrences
<1>4. CASE t \in AtTrigger
  <2>1. t.kind = "at" /\ MissedOccurrences(t, scheduled, now) = 0
    BY <1>4 DEF AtTrigger, MissedOccurrences
  <2>2. OccurrencesIn(t, scheduled, now) = {}
    BY <1>1, <2>1 DEF OccurrencesIn, IsOccurrence
  <2> QED
    BY <1>2, <2>1, <2>2
<1>5. CASE t \in EveryTrigger /\ now > scheduled
  <2>1. MissedOccurrences(t, scheduled, now) = (now - scheduled) \div t.every
    BY <1>1, <1>5 DEF EveryTrigger, MissedOccurrences
  <2> QED
    BY <1>1, <1>5, <2>1, EveryMissedCounts
<1>6. CASE t \in CronTrigger /\ now > scheduled
  <2>1. MissedOccurrences(t, scheduled, now) = CronMissed(t.expr, now - scheduled, now)
    BY <1>1, <1>6 DEF CronTrigger, MissedOccurrences
  <2>2. now - scheduled \in 0 .. now /\ now - (now - scheduled) = scheduled
    BY <1>1
  <2> QED
    BY <1>6, <2>1, <2>2, CronMissedCounts
<1> QED
  BY <1>1, <1>3, <1>4, <1>5, <1>6, TriggersAssumption

\* It counts with natural numbers.
LEMMA MissedIsNat ==
  ASSUME NEW t \in Triggers, NEW now \in 0 .. Horizon, NEW scheduled \in Nat
  PROVE  MissedOccurrences(t, scheduled, now) \in Nat
<1>1. now \in Nat
  BY ConstantsAssumption
<1>2. CASE t \in AtTrigger \/ now <= scheduled
  BY <1>2 DEF AtTrigger, MissedOccurrences
<1>3. CASE t \in EveryTrigger /\ now > scheduled
  <2>1. MissedOccurrences(t, scheduled, now) = (now - scheduled) \div t.every
    BY <1>1, <1>3 DEF EveryTrigger, MissedOccurrences
  <2>2. now - scheduled \in Nat /\ t.every \in Nat \ {0}
    BY <1>1, <1>3 DEF EveryTrigger
  <2> QED
    BY <2>1, <2>2, WholePeriods
<1>4. CASE t \in CronTrigger /\ now > scheduled
  <2>1. MissedOccurrences(t, scheduled, now) = CronMissed(t.expr, now - scheduled, now)
    BY <1>1, <1>4 DEF CronTrigger, MissedOccurrences
  <2>2. now - scheduled \in 0 .. now /\ now - (now - scheduled) = scheduled
    BY <1>1, <1>4
  <2> QED
    BY <1>1, <1>4, <2>1, <2>2, CronMissedCounts, OccurrencesFinite
<1> QED
  BY <1>1, <1>2, <1>3, <1>4, TriggersAssumption

\* computeNextRunAt gives the first occurrence that lies ahead, and none only where none lies ahead.
LEMMA NextRunAtIsFirst ==
  ASSUME NEW t \in Triggers, NEW now \in 0 .. Horizon
  PROVE  IF NextRunAt(t, now) = None
         THEN \A to \in Nat : OccurrencesIn(t, now, to) = {}
         ELSE /\ IsOccurrence(t, NextRunAt(t, now))
              /\ OccurrencesIn(t, now, NextRunAt(t, now) - 1) = {}
<1> DEFINE next == NextRunAt(t, now)
<1>1. now \in Nat /\ None \notin Nat
  BY ConstantsAssumption
<1>2. next = None \/ (next \in Nat /\ next > now)
  BY NextRunAtIsLater
<1>3. SUFFICES /\ next # None => IsOccurrence(t, next)
               /\ \A o \in Nat : o > now /\ IsOccurrence(t, o) => next \in Nat /\ next <= o
  <2>1. ASSUME NEW to \in Nat, next = None PROVE OccurrencesIn(t, now, to) = {}
    BY <1>1, <1>3, <2>1 DEF OccurrencesIn
  <2>2. ASSUME next # None PROVE OccurrencesIn(t, now, next - 1) = {}
    BY <1>1, <1>2, <1>3, <2>2 DEF OccurrencesIn
  <2> QED
    BY <1>3, <2>1, <2>2
<1>4. CASE t \in AtTrigger
  BY <1>1, <1>4 DEF AtTrigger, NextRunAt, IsOccurrence
<1>5. CASE t \in EveryTrigger
  <2>1. t.kind = "every" /\ t.every \in Nat \ {0} /\ t.anchor \in Nat
    BY <1>5 DEF EveryTrigger
  <2>2. CASE now < t.anchor
    <3>1. next = t.anchor
      BY <2>1, <2>2 DEF NextRunAt
    <3>2. next = t.anchor + 0 * t.every
      BY <2>1, <3>1
    <3>3. IsOccurrence(t, next)
      BY <1>5, <2>1, <3>1, <3>2, EveryOccurrences
    <3> QED
      BY <2>1, <3>1, <3>3 DEF IsOccurrence
  <2>3. CASE ~(now < t.anchor)
    <3> DEFINE span == now - t.anchor
               k == span \div t.every
    <3>1. span \in Nat
      BY <1>1, <2>1, <2>3
    <3>2. k \in Nat /\ k * t.every <= span /\ span < (k + 1) * t.every
      BY <2>1, <3>1, WholePeriods
    <3>3. next = t.anchor + (k + 1) * t.every
      BY <2>1, <2>3 DEF NextRunAt
    <3> HIDE DEF k
    <3>4. next \in Nat /\ IsOccurrence(t, next)
      BY <1>1, <1>2, <1>5, <2>1, <3>2, <3>3, EveryOccurrences
    <3>5. ASSUME NEW o \in Nat, o > now, IsOccurrence(t, o) PROVE next <= o
      <4>1. PICK j \in Nat : o = t.anchor + j * t.every
        BY <1>5, <3>5, EveryOccurrences
      <4>2. k * t.every < j * t.every
        BY <1>1, <2>1, <3>1, <3>2, <3>5, <4>1
      <4>3. k < j
        BY <2>1, <3>2, <4>2, PeriodsGrow
      <4>4. k + 1 <= j
        BY <3>2, <4>3
      <4>5. (k + 1) * t.every <= j * t.every
        BY <2>1, <3>2, <4>4, PeriodsGrow
      <4> QED
        BY <2>1, <3>2, <3>3, <4>1, <4>5
    <3> HIDE DEF next
    <3> QED
      BY <3>4, <3>5
  <2> QED
    BY <2>2, <2>3
<1>6. CASE t \in CronTrigger
  <2>1. next = CronNext[t.expr][now] /\ t.kind = "cron"
    BY <1>6 DEF CronTrigger, NextRunAt
  <2>2. ASSUME NEW o \in Nat, o > now, IsOccurrence(t, o) PROVE next \in Nat /\ next <= o
    BY <1>6, <2>1, <2>2, CronAnswerIsFirst
  <2>3. IsOccurrence(t, next)
    BY <2>1 DEF IsOccurrence
  <2> QED
    BY <2>2, <2>3
<1> QED
  BY <1>4, <1>5, <1>6, TriggersAssumption

-----------------------------------------------------------------------------
\* The operators of the state, and its types.

\* A set of n values indexed by 1 .. n has at most n members.
LEMMA FirstOfCardinality ==
  ASSUME NEW seq, NEW n \in Nat
  PROVE  Cardinality(FirstOf(seq, n)) <= n
<1> DEFINE T == FirstOf(seq, n)
           f == [i \in 1 .. n |-> seq[i]]
<1>1. IsFiniteSet(1 .. n) /\ Cardinality(1 .. n) = n
  BY FS_Interval
<1>2. f \in Surjection(1 .. n, T)
  BY DEF Surjection, FirstOf
<1> HIDE DEF f, T
<1>3. Cardinality(T) <= n
  BY <1>1, <1>2, FS_Surjection
<1> QED
  BY <1>3 DEF T

\* The number of queued runs pump starts: no more than there are, and no more
\* than there are slots.
LEMMA DispatchCountBounds ==
  ASSUME NEW l, NEW queue \in Seq(RunIds), NEW busy \in SUBSET RunIds,
         Cardinality(busy) <= concurrency
  PROVE  /\ DispatchCount(l, queue, busy) \in 0 .. Len(queue)
         /\ Cardinality(busy) + DispatchCount(l, queue, busy) <= concurrency
  BY RunSetsFinite, ConstantsAssumption, LenProperties DEF DispatchCount

\* What pump does with the started runs: some fail at once, and the failure of
\* some of those is not stored.
Started(over, rows, started) ==
  \E failed \in SUBSET started : \E unsaved \in SUBSET failed :
    /\ settled' = over \cup failed
    /\ lost' = lost \cup unsaved
    /\ runs' = FinishRuns(rows, failed \ unsaved, "failed")

\* pump moves the first n runs of the queue into the active map and exceeds no
\* slot.
LEMMA PumpTakesPrefix ==
  ASSUME NEW l, NEW queue \in Seq(RunIds), NEW busy \in SUBSET RunIds,
         NEW over, NEW rows,
         Cardinality(busy) <= concurrency,
         Pump(l, queue, busy, over, rows)
  PROVE  LET n == DispatchCount(l, queue, busy)
         IN /\ n \in 0 .. Len(queue)
            /\ pending' \in Seq(RunIds)
            /\ DOMAIN pending' = 1 .. Len(queue) - n
            /\ \A i \in 1 .. Len(queue) - n : pending'[i] = queue[n + i]
            /\ FirstOf(queue, n) \in SUBSET RunIds
            /\ active' = busy \cup FirstOf(queue, n)
            /\ Cardinality(active') <= concurrency
            /\ Started(over, rows, FirstOf(queue, n))
<1> DEFINE n == DispatchCount(l, queue, busy)
           rest == SubSeq(queue, n + 1, Len(queue))
<1>1. /\ n \in 0 .. Len(queue)
      /\ Cardinality(busy) + n <= concurrency
  BY DispatchCountBounds
<1>2. Len(queue) \in Nat /\ \A i \in 1 .. Len(queue) : queue[i] \in RunIds
  BY LenProperties, ElementOfSeq
<1>3. /\ pending' = rest
      /\ active' = busy \cup FirstOf(queue, n)
      /\ Started(over, rows, FirstOf(queue, n))
  BY DEF Pump, FailedWrites, Started
<1> HIDE DEF n
<1>4. /\ rest \in Seq(RunIds)
      /\ DOMAIN rest = 1 .. Len(queue) - n
      /\ \A i \in 1 .. Len(queue) - n : rest[i] = queue[n + i]
  <2>1. \A i \in n + 1 .. Len(queue) : queue[i] \in RunIds
    BY <1>1, <1>2
  <2>2. n + 1 \in Int /\ Len(queue) \in Int
    BY <1>1, <1>2
  <2>3. /\ rest \in Seq(RunIds)
        /\ Len(rest) = IF n + 1 <= Len(queue) THEN Len(queue) - (n + 1) + 1 ELSE 0
        /\ \A i \in 1 .. Len(queue) - (n + 1) + 1 : rest[i] = queue[(n + 1) + i - 1]
    BY <2>1, <2>2, SubSeqProperties
  <2> HIDE DEF rest
  <2>4. DOMAIN rest = 1 .. Len(queue) - n
    BY <1>1, <1>2, <2>3, LenProperties
  <2>5. ASSUME NEW i \in 1 .. Len(queue) - n
        PROVE  rest[i] = queue[n + i]
    <3>1. i \in 1 .. Len(queue) - (n + 1) + 1 /\ (n + 1) + i - 1 = n + i
      BY <1>1, <1>2
    <3>2. rest[i] = queue[(n + 1) + i - 1]
      BY <2>3, <3>1
    <3> QED
      BY <3>1, <3>2
  <2> QED
    BY <2>3, <2>4, <2>5
<1> HIDE DEF rest
<1>5. FirstOf(queue, n) \in SUBSET RunIds
  BY <1>1, <1>2 DEF FirstOf
<1>6. Cardinality(busy \cup FirstOf(queue, n)) <= concurrency
  <2> DEFINE started == FirstOf(queue, n)
  <2>1. Cardinality(started) <= n
    BY <1>1, FirstOfCardinality
  <2>2. /\ IsFiniteSet(busy) /\ IsFiniteSet(started)
        /\ Cardinality(busy) \in Nat /\ Cardinality(started) \in Nat
        /\ Cardinality(busy \cap started) \in Nat
    BY <1>5, RunSetsFinite
  <2>3. Cardinality(busy \cup started)
          = Cardinality(busy) + Cardinality(started) - Cardinality(busy \cap started)
    BY <2>2, FS_Union
  <2> QED
    BY <1>1, <2>1, <2>2, <2>3, ConstantsAssumption
<1> QED
  BY <1>1, <1>3, <1>4, <1>5, <1>6 DEF n

\* When the queue holds no run twice and none that is active, pump keeps it that
\* way and neither drops nor invents a run.
LEMMA PumpKeepsRuns ==
  ASSUME NEW l, NEW queue \in Seq(RunIds), NEW busy \in SUBSET RunIds,
         NEW over, NEW rows,
         Cardinality(busy) <= concurrency,
         IsInjective(queue),
         Range(queue) \cap busy = {},
         Pump(l, queue, busy, over, rows)
  PROVE  /\ IsInjective(pending')
         /\ busy \subseteq active'
         /\ Range(pending') \cap active' = {}
         /\ Range(pending') \cup active' = Range(queue) \cup busy
         /\ Started(over, rows, active' \ busy)
<1> DEFINE n == DispatchCount(l, queue, busy)
           started == FirstOf(queue, n)
<1>1. /\ n \in 0 .. Len(queue)
      /\ DOMAIN pending' = 1 .. Len(queue) - n
      /\ \A i \in 1 .. Len(queue) - n : pending'[i] = queue[n + i]
      /\ active' = busy \cup started
      /\ Started(over, rows, started)
  BY PumpTakesPrefix
<1>2. Len(queue) \in Nat /\ DOMAIN queue = 1 .. Len(queue)
  BY LenProperties
<1> HIDE DEF n
<1>3. Range(pending') = {queue[i] : i \in n + 1 .. Len(queue)}
  <2>1. \A i \in n + 1 .. Len(queue) :
          i - n \in DOMAIN pending' /\ pending'[i - n] = queue[i]
    BY <1>1, <1>2
  <2>2. \A j \in DOMAIN pending' :
          n + j \in n + 1 .. Len(queue) /\ pending'[j] = queue[n + j]
    BY <1>1, <1>2
  <2> QED
    BY <2>1, <2>2 DEF Range
<1>4. Range(queue) = started \cup Range(pending')
  <2>1. 1 .. Len(queue) = (1 .. n) \cup (n + 1 .. Len(queue))
    BY <1>1, <1>2
  <2> QED
    BY <2>1, <1>2, <1>3 DEF Range, FirstOf
<1>5. started \cap Range(pending') = {}
  <2>1. ASSUME NEW i \in 1 .. n, NEW j \in n + 1 .. Len(queue)
        PROVE  queue[i] # queue[j]
    BY <1>1, <1>2 DEF IsInjective
  <2> QED
    BY <2>1, <1>3 DEF FirstOf
<1>6. IsInjective(pending')
  <2>1. ASSUME NEW i \in DOMAIN pending', NEW j \in DOMAIN pending',
               pending'[i] = pending'[j]
        PROVE  i = j
    <3>1. n + i \in DOMAIN queue /\ n + j \in DOMAIN queue
      BY <1>1, <1>2
    <3>2. queue[n + i] = queue[n + j]
      BY <2>1, <1>1
    <3>3. n + i = n + j
      BY <3>1, <3>2 DEF IsInjective
    <3> QED
      BY <3>3, <1>1, <1>2
  <2> QED
    BY <2>1 DEF IsInjective
<1>7. active' \ busy = started
  BY <1>1, <1>4
<1> QED
  BY <1>1, <1>4, <1>5, <1>6, <1>7
-----------------------------------------------------------------------------
\* Type correctness.

\* A terminal write gives rows of the table.
LEMMA FinishRunsType ==
  ASSUME NEW rows \in [RunIds -> RunRow], NEW S, NEW outcome \in TerminalStatus
  PROVE  FinishRuns(rows, S, outcome) \in [RunIds -> RunRow]
  BY DEF FinishRuns, RunRow, StoredRun, NoRun, TerminalStatus

\* So does the insertion of a run.
LEMMA InsertRunType ==
  ASSUME NEW rows \in [RunIds -> RunRow], NEW r \in RunIds, NEW s \in ScheduleIds,
         NEW how \in {"manual", "scheduled"}, NEW at \in Nat \cup {None}, NEW missed \in Nat
  PROVE  InsertRun(rows, r, s, how, at, missed) \in [RunIds -> RunRow]
  BY DEF InsertRun, RunRow, StoredRun, TerminalStatus

\* pump keeps the types of what it writes.
LEMMA PumpTypes ==
  ASSUME NEW l, NEW queue \in Seq(RunIds), NEW busy \in SUBSET RunIds,
         NEW over \in SUBSET busy, NEW rows \in [RunIds -> RunRow],
         Cardinality(busy) <= concurrency,
         lost \in SUBSET RunIds,
         Pump(l, queue, busy, over, rows)
  PROVE  /\ pending' \in Seq(RunIds)
         /\ active' \in SUBSET RunIds
         /\ Cardinality(active') <= concurrency
         /\ busy \subseteq active'
         /\ settled' \in SUBSET active'
         /\ runs' \in [RunIds -> RunRow]
         /\ lost' \in SUBSET RunIds
<1> DEFINE started == FirstOf(queue, DispatchCount(l, queue, busy))
<1>1. /\ pending' \in Seq(RunIds)
      /\ started \in SUBSET RunIds
      /\ active' = busy \cup started
      /\ Cardinality(active') <= concurrency
      /\ Started(over, rows, started)
  BY PumpTakesPrefix
<1> HIDE DEF started
<1>2. /\ settled' \in SUBSET active'
      /\ lost' \in SUBSET RunIds
  BY <1>1 DEF Started
<1>3. runs' \in [RunIds -> RunRow]
  BY <1>1, FinishRunsType DEF Started, TerminalStatus
<1> QED
  BY <1>1, <1>2, <1>3

\* The row of a schedule that was added or edited.
LEMMA WrittenRowType ==
  ASSUME NEW t \in Triggers, NEW enabled \in BOOLEAN, NEW revision \in Nat,
         clock \in 0 .. Horizon
  PROVE  [phase |-> "live", enabled |-> enabled, trigger |-> t,
          nextRunAt |-> InitialNextRunAt(t, enabled, clock),
          revision |-> revision] \in StoredSchedule
<1>1. NextRunAt(t, clock) \in Nat \cup {None}
  BY NextRunAtIsLater
<1>2. t.kind = "at" => t.at \in Nat
  BY TriggersAssumption DEF AtTrigger, EveryTrigger, CronTrigger
<1>3. InitialNextRunAt(t, enabled, clock) \in Nat \cup {None}
  BY <1>1, <1>2 DEF InitialNextRunAt
<1> QED
  BY <1>3 DEF StoredSchedule

\* The row of a schedule that is in use.
LEMMA LiveRowType ==
  ASSUME NEW row \in ScheduleRow, row.phase = "live"
  PROVE  row \in StoredSchedule
  BY DEF ScheduleRow, NoSchedule

\* The row of a claimed schedule.
LEMMA AdvancedRowType ==
  ASSUME NEW row \in StoredSchedule, clock \in 0 .. Horizon
  PROVE  Advanced(row) \in StoredSchedule
<1>1. NextRunAt(row.trigger, clock) \in Nat \cup {None}
  BY NextRunAtIsLater DEF StoredSchedule
<1> DEFINE moved == [row EXCEPT !.nextRunAt = NextRunAt(row.trigger, clock)]
           kept == [moved EXCEPT !.enabled = row.enabled /\ row.trigger.kind # "at"]
<1>2. Advanced(row) = [kept EXCEPT !.revision = row.revision + 1]
  BY DEF Advanced
<1> HIDE DEF NextRunAt
<1>3. moved \in StoredSchedule
  BY <1>1 DEF StoredSchedule
<1> HIDE DEF moved
<1>4. kept \in StoredSchedule
  BY <1>3 DEF StoredSchedule
<1> HIDE DEF kept
<1> QED
  BY <1>2, <1>4 DEF StoredSchedule

\* The row of a deleted schedule.
LEMMA DeletedRowType ==
  ASSUME NEW row \in StoredSchedule
  PROVE  Deleted(row) \in StoredSchedule
<1> DEFINE gone == [row EXCEPT !.phase = "deleted"]
           off == [gone EXCEPT !.enabled = FALSE]
<1>1. Deleted(row) = [off EXCEPT !.revision = row.revision + 1]
  BY DEF Deleted
<1>2. gone \in StoredSchedule
  BY DEF StoredSchedule
<1> HIDE DEF gone
<1>3. off \in StoredSchedule
  BY <1>2 DEF StoredSchedule
<1> HIDE DEF off
<1> QED
  BY <1>1, <1>3 DEF StoredSchedule

\* Init establishes the types.
LEMMA TypeInit == Init => TypeOK
<1> SUFFICES ASSUME Init PROVE TypeOK
  OBVIOUS
<1>1. NoSchedule \in ScheduleRow
  BY DEF ScheduleRow
<1>2. NoRun \in RunRow
  BY DEF RunRow
<1>3. Cardinality(active) <= concurrency
  BY FS_EmptySet, ConstantsAssumption DEF Init
<1>4. <<>> \in Seq(RunIds)
  BY EmptySeq
<1>5. schedules \in [ScheduleIds -> ScheduleRow] /\ runs \in [RunIds -> RunRow]
  BY <1>1, <1>2 DEF Init
<1>6. clock \in 0 .. Horizon
  BY ConstantsAssumption DEF Init
<1> QED
  BY <1>3, <1>4, <1>5, <1>6 DEF Init, TypeOK

\* The facade keeps the types.
LEMMA TypeFacade == TypeOK /\ Facade => TypeOK'
<1> SUFFICES ASSUME TypeOK, Facade PROVE TypeOK'
  OBVIOUS
<1> USE DEF TypeOK
<1>1. ASSUME NEW s \in ScheduleIds, NEW t \in Triggers, NEW e \in BOOLEAN, Add(s, t, e)
      PROVE  TypeOK'
  <2>1. schedules' \in [ScheduleIds -> ScheduleRow]
    BY <1>1, WrittenRowType DEF Add, ScheduleRow
  <2> QED
    BY <1>1, <2>1 DEF Add, RequestWake
<1>2. ASSUME NEW s \in ScheduleIds, NEW t \in Triggers, NEW e \in BOOLEAN, Update(s, t, e)
      PROVE  TypeOK'
  <2>1. schedules[s].revision + 1 \in Nat
    BY <1>2, LiveRowType DEF Update, StoredSchedule
  <2>2. schedules' \in [ScheduleIds -> ScheduleRow]
    BY <1>2, <2>1, WrittenRowType DEF Update, ScheduleRow
  <2> QED
    BY <1>2, <2>2 DEF Update, RequestWake
<1>3. ASSUME NEW s \in ScheduleIds, Remove(s)
      PROVE  TypeOK'
  <2>1. Deleted(schedules[s]) \in ScheduleRow
    BY <1>3, LiveRowType, DeletedRowType DEF Remove, ScheduleRow
  <2>2. schedules' \in [ScheduleIds -> ScheduleRow]
    BY <1>3, <2>1 DEF Remove
  <2> QED
    BY <1>3, <2>2 DEF Remove, RequestWake
<1>4. ASSUME NEW s \in ScheduleIds, Run(s)
      PROVE  TypeOK'
  <2>1. PICK r \in NextRun :
          Pump(lifecycle, Append(pending, r), active, settled,
               InsertRun(runs, r, s, "manual", None, 0))
    BY <1>4 DEF Run
  <2>2. r \in RunIds
    BY DEF NextRun, FreeRuns
  <2>3. Append(pending, r) \in Seq(RunIds)
    BY <2>2, AppendProperties
  <2>4. InsertRun(runs, r, s, "manual", None, 0) \in [RunIds -> RunRow]
    BY <2>2, InsertRunType
  <2>5. /\ pending' \in Seq(RunIds)
        /\ active' \in SUBSET RunIds
        /\ Cardinality(active') <= concurrency
        /\ active \subseteq active'
        /\ settled' \in SUBSET active'
        /\ runs' \in [RunIds -> RunRow]
        /\ lost' \in SUBSET RunIds
    BY <2>1, <2>3, <2>4, PumpTypes
  <2> QED
    BY <1>4, <2>5 DEF Run
<1>5. CASE Start
  BY <1>5 DEF Start, RequestWake, persistent
<1>6. CASE StopDraining
  <2>1. /\ pending' \in Seq(RunIds)
        /\ active' \in SUBSET RunIds
        /\ Cardinality(active') <= concurrency
        /\ active \subseteq active'
        /\ settled' \in SUBSET active'
        /\ runs' \in [RunIds -> RunRow]
        /\ lost' \in SUBSET RunIds
    BY <1>6, PumpTypes DEF StopDraining
  <2> QED
    BY <1>6, <2>1 DEF StopDraining
<1>7. CASE StopCancelling
  <2>1. PICK k \in 0 .. Len(pending) :
          /\ runs' = FinishRuns(runs, FirstOf(pending, k), "interrupted")
          /\ owned' = Disown(FirstOf(pending, k))
          /\ lost' = lost \cup (Range(pending) \ FirstOf(pending, k))
          /\ aborted' = AbortedByStop(k = Len(pending))
          /\ waiter' = IF k < Len(pending) THEN "rejected"
                       ELSE IF active = {} THEN "resolved" ELSE "waiting"
    BY <1>7 DEF StopCancelling
  <2>2. runs' \in [RunIds -> RunRow]
    BY <2>1, FinishRunsType DEF TerminalStatus
  <2>3. Range(pending) \subseteq RunIds
    BY RangeOfSeq
  <2>4. aborted' \subseteq active /\ owned' \subseteq ScheduleIds /\ lost' \subseteq RunIds
    BY <2>1, <2>3 DEF AbortedByStop, Disown
  <2>5. <<>> \in Seq(RunIds)
    BY EmptySeq
  <2> QED
    BY <1>7, <2>1, <2>2, <2>4, <2>5 DEF StopCancelling
<1>8. CASE Stopped
  BY <1>8 DEF Stopped, persistent
<1> QED
  BY <1>1, <1>2, <1>3, <1>4, <1>5, <1>6, <1>7, <1>8 DEF Facade
\* The scan keeps the types.
LEMMA TypeScan == TypeOK /\ Scan => TypeOK'
<1> SUFFICES ASSUME TypeOK, Scan PROVE TypeOK'
  OBVIOUS
<1> USE DEF TypeOK
<1>1. CASE Wake
  <2>1. DueRows \subseteq DueRow
    BY LiveRowType DEF DueRows, IsDue, DueRow, StoredSchedule
  <2> QED
    BY <1>1, <2>1 DEF Wake, persistent
<1>2. CASE ScanEnds
  <2>1. /\ pending' \in Seq(RunIds)
        /\ active' \in SUBSET RunIds
        /\ Cardinality(active') <= concurrency
        /\ active \subseteq active'
        /\ settled' \in SUBSET active'
        /\ runs' \in [RunIds -> RunRow]
        /\ lost' \in SUBSET RunIds
    BY <1>2, PumpTypes DEF ScanEnds
  <2> QED
    BY <1>2, <2>1 DEF ScanEnds
<1>3. CASE ScanSettles
  BY <1>3 DEF ScanSettles, RequestWake, persistent
<1>4. ASSUME NEW d \in due, ScanSkip(d)
      PROVE  TypeOK'
  BY <1>4 DEF ScanSkip, persistent
<1>5. ASSUME NEW d \in due, ScanClaim(d)
      PROVE  TypeOK'
  <2> DEFINE missed == MissedOccurrences(schedules[d.id].trigger, d.nextRunAt, clock)
  <2>1. PICK r \in NextRun :
          /\ runs' = InsertRun(runs, r, d.id, "scheduled", d.nextRunAt, missed)
          /\ pending' = Append(pending, r)
    BY <1>5 DEF ScanClaim
  <2>2. r \in RunIds
    BY DEF NextRun, FreeRuns
  <2>3. d.id \in ScheduleIds /\ d.nextRunAt \in Nat
    BY DEF DueRow
  <2>4. runs' \in [RunIds -> RunRow]
    <3>1. schedules[d.id].trigger \in Triggers
      BY <1>5, <2>3, LiveRowType DEF ScanClaim, StillAsRead, StoredSchedule
    <3>2. missed \in Nat
      BY <2>3, <3>1, MissedIsNat
    <3> HIDE DEF missed
    <3> QED
      BY <2>1, <2>2, <2>3, <3>2, InsertRunType
  <2>5. pending' \in Seq(RunIds)
    BY <2>1, <2>2, AppendProperties
  <2>6. Advanced(schedules[d.id]) \in ScheduleRow
    BY <1>5, <2>3, LiveRowType, AdvancedRowType DEF ScanClaim, StillAsRead, ScheduleRow
  <2>7. schedules' \in [ScheduleIds -> ScheduleRow]
    BY <1>5, <2>6 DEF ScanClaim
  <2> QED
    BY <1>5, <2>3, <2>4, <2>5, <2>7 DEF ScanClaim
<1>6. ASSUME NEW d \in due, ScanThrows(d)
      PROVE  TypeOK'
  BY <1>6 DEF ScanThrows, persistent
<1> QED
  BY <1>1, <1>2, <1>3, <1>4, <1>5, <1>6 DEF Scan

\* The execution of runs keeps the types.
LEMMA TypeExecution == TypeOK /\ Execution => TypeOK'
<1> SUFFICES ASSUME TypeOK, Execution PROVE TypeOK'
  OBVIOUS
<1> USE DEF TypeOK
<1>1. ASSUME NEW r \in RunIds, Timeout(r)
      PROVE  TypeOK'
  BY <1>1 DEF Timeout, Executing, persistent
<1>2. ASSUME NEW r \in RunIds, Release(r)
      PROVE  TypeOK'
  <2>1. /\ active \ {r} \in SUBSET RunIds
        /\ settled \ {r} \in SUBSET (active \ {r})
        /\ Cardinality(active \ {r}) <= concurrency
    BY RunSetsFinite, FS_Subset, ConstantsAssumption
  <2>2. /\ pending' \in Seq(RunIds)
        /\ active' \in SUBSET RunIds
        /\ Cardinality(active') <= concurrency
        /\ active \ {r} \subseteq active'
        /\ settled' \in SUBSET active'
        /\ runs' \in [RunIds -> RunRow]
        /\ lost' \in SUBSET RunIds
    BY <1>2, <2>1, PumpTypes DEF Release
  <2>3. aborted' \subseteq active' /\ owned' \subseteq ScheduleIds
    BY <1>2, <2>2 DEF Release, Disown
  <2> QED
    BY <1>2, <2>2, <2>3 DEF Release, RequestWake, ResolveIfIdle
<1>3. ASSUME NEW r \in RunIds, NEW ending \in {"ok", "nonzero", "throws"},
             Settle(r, ending)
      PROVE  TypeOK'
  <2>1. /\ AbortStatus(r) \in TerminalStatus
        /\ OutcomeStatus(r, ending) \in TerminalStatus
    BY DEF AbortStatus, OutcomeStatus, TerminalStatus
  <2>2. runs' \in [RunIds -> RunRow] /\ lost' \subseteq RunIds
    BY <1>3, <2>1, FinishRunsType DEF Settle
  <2>3. settled' \subseteq active
    BY <1>3 DEF Settle, Executing
  <2> QED
    BY <1>3, <2>2, <2>3 DEF Settle
<1> QED
  BY <1>1, <1>2, <1>3 DEF Execution

\* The surroundings of the process keep the types.
LEMMA TypeEnvironment == TypeOK /\ Environment => TypeOK'
<1> SUFFICES ASSUME TypeOK, Environment PROVE TypeOK'
  OBVIOUS
<1> USE DEF TypeOK
<1>1. ASSUME Vanish
      PROVE  TypeOK'
  <2>1. <<>> \in Seq(RunIds)
    BY EmptySeq
  <2>2. Cardinality({}) <= concurrency
    BY FS_EmptySet, ConstantsAssumption
  <2>3. orphans' \subseteq RunIds
    BY <1>1 DEF Vanish, Executing
  <2> QED
    BY <1>1, <2>1, <2>2, <2>3 DEF Vanish
<1>2. CASE Boot
  <2>1. runs' \in [RunIds -> RunRow]
    BY <1>2, FinishRunsType DEF Boot, RecoverRuns, TerminalStatus
  <2> QED
    BY <1>2, <2>1 DEF Boot
<1>3. CASE Tick
  <2>1. clock' \in 0 .. Horizon
    BY <1>3, ConstantsAssumption DEF Tick
  <2> QED
    BY <1>3, <2>1 DEF Tick, volatile
<1>4. ASSUME NEW r \in RunIds, OrphanExits(r)
      PROVE  TypeOK'
  BY <1>4 DEF OrphanExits, volatile
<1> QED
  BY <1>1, <1>2, <1>3, <1>4 DEF Environment, Crash, Close

\* The tables and the memory of the process always hold values of their types,
\* and no more runs are active than the configured concurrency.
THEOREM TypeCorrect == Spec => []TypeOK
<1>1. TypeOK /\ UNCHANGED vars => TypeOK'
  BY DEF TypeOK, vars, persistent, volatile
<1>2. TypeOK /\ [Next]_vars => TypeOK'
  BY <1>1, TypeFacade, TypeScan, TypeExecution, TypeEnvironment DEF Next
<1> QED
  BY <1>2, TypeInit, PTL DEF Spec

-----------------------------------------------------------------------------
(* The work the scheduler holds.                                           *)

\* The rows that say "running" are those of held, unfinished runs, and those that
\* could not be written; no run is both.
Accounted(rows, queue, executing, unwritten) ==
  /\ \A r \in RunIds : rows[r].status = "running" <=>
                         r \in Range(queue) \cup executing \cup unwritten
  /\ unwritten \cap (Range(queue) \cup executing) = {}

\* pump keeps the accounts, and the schedule of every run.
LEMMA PumpKeepsAccounts ==
  ASSUME NEW l, NEW queue \in Seq(RunIds), NEW busy \in SUBSET RunIds,
         NEW over \in SUBSET busy, NEW rows \in [RunIds -> RunRow],
         Cardinality(busy) <= concurrency,
         IsInjective(queue),
         Range(queue) \cap busy = {},
         Accounted(rows, queue, busy \ over, lost),
         Pump(l, queue, busy, over, rows)
  PROVE  /\ Accounted(runs', pending', active' \ settled', lost')
         /\ \A r \in RunIds : /\ runs'[r].schedule = rows[r].schedule
                              /\ runs'[r].status = "absent" <=> rows[r].status = "absent"
<1>1. /\ busy \subseteq active'
      /\ Range(pending') \cap active' = {}
      /\ Range(pending') \cup active' = Range(queue) \cup busy
      /\ Started(over, rows, active' \ busy)
  BY PumpKeepsRuns
<1>2. PICK failed \in SUBSET (active' \ busy) : \E unsaved \in SUBSET failed :
        /\ settled' = over \cup failed
        /\ lost' = lost \cup unsaved
        /\ runs' = FinishRuns(rows, failed \ unsaved, "failed")
  BY <1>1 DEF Started
<1>3. PICK unsaved \in SUBSET failed :
        /\ settled' = over \cup failed
        /\ lost' = lost \cup unsaved
        /\ runs' = FinishRuns(rows, failed \ unsaved, "failed")
  BY <1>2
<1>4. failed \subseteq Range(queue) /\ failed \cap Range(pending') = {}
  BY <1>1
<1>5. failed \subseteq RunIds
  BY <1>4, RangeOfSeq
<1>6. \A r \in RunIds :
        runs'[r] = IF r \in failed \ unsaved /\ rows[r].status = "running"
                   THEN [rows[r] EXCEPT !.status = "failed"] ELSE rows[r]
  BY <1>3 DEF FinishRuns
<1>7. \A r \in RunIds :
        /\ runs'[r].schedule = rows[r].schedule
        /\ runs'[r].status = "absent" <=> rows[r].status = "absent"
        /\ runs'[r].status = "running" <=>
             rows[r].status = "running" /\ r \notin failed \ unsaved
  BY <1>6 DEF RunRow, StoredRun, NoRun
<1>8. lost' \cap (Range(pending') \cup (active' \ settled')) = {}
  BY <1>1, <1>3, <1>4 DEF Accounted
<1>9. ASSUME NEW r \in RunIds
      PROVE  rows[r].status = "running" /\ r \notin failed \ unsaved <=>
               r \in Range(pending') \cup (active' \ settled') \cup lost'
  <2>1. rows[r].status = "running" <=> r \in Range(queue) \cup (busy \ over) \cup lost
    BY DEF Accounted
  <2>2. lost \cap failed = {} /\ over \cap failed = {}
    BY <1>4 DEF Accounted
  <2> QED
    BY <1>1, <1>3, <1>4, <2>1, <2>2
<1> QED
  BY <1>7, <1>8, <1>9 DEF Accounted
-----------------------------------------------------------------------------
\* Custody: the parts of WorkInvariant about the runs the scheduler holds.

Custody ==
  /\ HeldRunsAreOwned
  /\ SameScheduleNeverOverlaps
  /\ OwnershipMatchesWork
  /\ RunningRowsAccounted

\* Phases: the parts about the phases of the process.
Phases ==
  /\ PhaseShape
  /\ NeverAsleep
  /\ StopWaitsForWork
  /\ CancelReaches

\* A run appended to the queue.
LEMMA AppendedRun ==
  ASSUME NEW queue \in Seq(RunIds), NEW r \in RunIds
  PROVE  /\ Append(queue, r) \in Seq(RunIds)
         /\ Range(Append(queue, r)) = Range(queue) \cup {r}
         /\ IsInjective(queue) /\ r \notin Range(queue) => IsInjective(Append(queue, r))
<1> DEFINE longer == Append(queue, r)
<1>1. Len(queue) \in Nat /\ DOMAIN queue = 1 .. Len(queue)
  BY LenProperties
<1>2. /\ longer \in Seq(RunIds)
      /\ Len(longer) = Len(queue) + 1
      /\ \A i \in 1 .. Len(queue) : longer[i] = queue[i]
      /\ longer[Len(queue) + 1] = r
  BY AppendProperties
<1>3. DOMAIN longer = 1 .. Len(queue) + 1
  BY <1>2, LenProperties
<1> HIDE DEF longer
<1>4. Range(longer) = Range(queue) \cup {r}
  <2>1. DOMAIN longer = DOMAIN queue \cup {Len(queue) + 1}
    BY <1>1, <1>3
  <2> QED
    BY <1>1, <1>2, <2>1 DEF Range
<1>5. ASSUME IsInjective(queue), r \notin Range(queue)
      PROVE  IsInjective(longer)
  <2>1. \A i \in DOMAIN queue : queue[i] # r
    BY <1>5 DEF Range
  <2>2. ASSUME NEW i \in DOMAIN longer, NEW j \in DOMAIN longer, longer[i] = longer[j]
        PROVE  i = j
    <3>1. CASE i \in DOMAIN queue /\ j \in DOMAIN queue
      BY <1>1, <1>2, <1>5, <2>2, <3>1 DEF IsInjective
    <3>2. CASE ~(i \in DOMAIN queue /\ j \in DOMAIN queue)
      BY <1>1, <1>2, <1>3, <2>1, <2>2, <3>2
    <3> QED
      BY <3>1, <3>2
  <2> QED
    BY <2>2 DEF IsInjective
<1> QED
  BY <1>2, <1>4, <1>5 DEF longer

\* Custody of a queue and a set of busy runs, with the given rows and owned ids:
\* the state pump is given when it is called in the middle of an operation.
InCustody(rows, queue, busy, over, ids, exact) ==
  LET held == Range(queue) \cup busy
  IN /\ queue \in Seq(RunIds) /\ IsInjective(queue)
     /\ busy \subseteq RunIds /\ over \subseteq busy
     /\ Range(queue) \cap busy = {}
     /\ Accounted(rows, queue, busy \ over, lost)
     /\ \A r, q \in held : rows[r].schedule = rows[q].schedule => r = q
     /\ \A r \in held : rows[r].status # "absent" /\ rows[r].schedule \in ids
     /\ exact => \A s \in ids : \E r \in held : rows[r].schedule = s

\* pump keeps custody.
LEMMA PumpKeepsCustody ==
  ASSUME NEW l, NEW queue, NEW busy, NEW over, NEW rows \in [RunIds -> RunRow],
         lost \subseteq RunIds,
         Cardinality(busy) <= concurrency,
         InCustody(rows, queue, busy, over, owned', waiter' # "rejected"),
         Pump(l, queue, busy, over, rows)
  PROVE  /\ Custody'
         /\ Held' = Range(queue) \cup busy
<1>0. /\ queue \in Seq(RunIds) /\ IsInjective(queue)
      /\ busy \in SUBSET RunIds /\ over \in SUBSET busy
      /\ Range(queue) \cap busy = {}
      /\ Accounted(rows, queue, busy \ over, lost)
      /\ \A r, q \in Range(queue) \cup busy :
           rows[r].schedule = rows[q].schedule => r = q
      /\ \A r \in Range(queue) \cup busy :
           rows[r].status # "absent" /\ rows[r].schedule \in owned'
      /\ waiter' # "rejected" => \A s \in owned' :
           \E r \in Range(queue) \cup busy : rows[r].schedule = s
  BY DEF InCustody
<1>1. /\ Accounted(runs', pending', active' \ settled', lost')
      /\ \A r \in RunIds : /\ runs'[r].schedule = rows[r].schedule
                           /\ runs'[r].status = "absent" <=> rows[r].status = "absent"
  BY <1>0, PumpKeepsAccounts
<1>2. /\ IsInjective(pending')
      /\ Range(pending') \cap active' = {}
      /\ Range(pending') \cup active' = Range(queue) \cup busy
  BY <1>0, PumpKeepsRuns
<1>3. Held' = Range(queue) \cup busy
  BY <1>2 DEF Held
<1>4. Held' \subseteq RunIds
  BY <1>0, <1>3, RangeOfSeq
<1>5. HeldRunsAreOwned'
  BY <1>0, <1>1, <1>3, <1>4 DEF HeldRunsAreOwned, Accounted, Executing
<1>6. SameScheduleNeverOverlaps'
  BY <1>0, <1>1, <1>2, <1>3, <1>4 DEF SameScheduleNeverOverlaps
<1>7. OwnershipMatchesWork'
  BY <1>0, <1>1, <1>3, <1>4 DEF OwnershipMatchesWork
<1>8. RunningRowsAccounted'
  <2>1. RunningRows' = {r \in RunIds : runs'[r].status = "running"}
    BY DEF RunningRows
  <2>2. Range(pending') \cup (active' \ settled') \cup lost' \subseteq RunIds
    BY <1>0, <1>4, PumpTypes DEF Held
  <2> QED
    BY <1>1, <2>1, <2>2 DEF RunningRowsAccounted, Accounted, Executing
<1> QED
  BY <1>3, <1>5, <1>6, <1>7, <1>8 DEF Custody

\* What custody of a state says of the queue and the active map, in the form pump
\* asks for.
LEMMA CustodyOfWork ==
  ASSUME TypeOK, Custody, Up
  PROVE  /\ pending \in Seq(RunIds) /\ IsInjective(pending)
         /\ Range(pending) \cap active = {}
         /\ Held = Range(pending) \cup active
         /\ Held \subseteq RunIds
         /\ settled \subseteq active
         /\ Cardinality(active) <= concurrency
         /\ Accounted(runs, pending, active \ settled, lost)
         /\ \A r \in RunIds : runs[r].status = "absent" =>
              /\ r \notin Held /\ r \notin lost
         /\ \A r, q \in Held : runs[r].schedule = runs[q].schedule => r = q
         /\ \A r \in Held : runs[r].status # "absent" /\ runs[r].schedule \in owned
         /\ waiter # "rejected" =>
              \A s \in owned : \E r \in Held : runs[r].schedule = s
         /\ InCustody(runs, pending, active, settled, owned, waiter # "rejected")
<1>1. /\ pending \in Seq(RunIds) /\ IsInjective(pending)
      /\ Range(pending) \cap active = {}
      /\ Held = Range(pending) \cup active
      /\ settled \subseteq active
      /\ Cardinality(active) <= concurrency
  BY DEF TypeOK, Custody, SameScheduleNeverOverlaps, Held
<1>2. Held \subseteq RunIds
  BY <1>1, RangeOfSeq DEF TypeOK
<1>3. Accounted(runs, pending, active \ settled, lost)
  BY DEF Custody, RunningRowsAccounted, HeldRunsAreOwned, Accounted, RunningRows,
         Executing
<1>4. \A r \in RunIds : runs[r].status = "absent" => r \notin Held /\ r \notin lost
  BY <1>3 DEF Custody, HeldRunsAreOwned, Accounted
<1>5. /\ \A r, q \in Held : runs[r].schedule = runs[q].schedule => r = q
      /\ \A r \in Held : runs[r].status # "absent" /\ runs[r].schedule \in owned
      /\ waiter # "rejected" =>
           \A s \in owned : \E r \in Held : runs[r].schedule = s
  BY DEF Custody, SameScheduleNeverOverlaps, HeldRunsAreOwned, OwnershipMatchesWork
<1>6. InCustody(runs, pending, active, settled, owned, waiter # "rejected")
  BY <1>1, <1>2, <1>3, <1>5 DEF InCustody, TypeOK
<1> QED
  BY <1>1, <1>2, <1>3, <1>4, <1>5, <1>6

\* Custody is about these variables only.
work == <<runs, pending, active, settled, owned, lost>>

\* An operation that leaves these alone keeps custody.
LEMMA CustodyOfUnchangedWork ==
  ASSUME Custody, UNCHANGED work, waiter' = "rejected" \/ waiter # "rejected", Up
  PROVE  Custody'
  BY DEF Custody, HeldRunsAreOwned, SameScheduleNeverOverlaps, OwnershipMatchesWork,
         RunningRowsAccounted, work, Held, Executing, RunningRows

\* A new row, for a schedule nobody owns.
LEMMA CustodyOfNewRun ==
  ASSUME TypeOK, Custody, Up, waiter # "rejected",
         NEW r \in NextRun, NEW s \in ScheduleIds \ owned, NEW how, NEW at, NEW missed
  PROVE  /\ r \in RunIds
         /\ InCustody(InsertRun(runs, r, s, how, at, missed), Append(pending, r), active,
                      settled, owned \cup {s}, TRUE)
         /\ Range(Append(pending, r)) = Range(pending) \cup {r}
<1> DEFINE rows == InsertRun(runs, r, s, how, at, missed)
           queue == Append(pending, r)
<1>1. r \in RunIds /\ runs[r].status = "absent"
  BY DEF NextRun, FreeRuns
<1>2. /\ pending \in Seq(RunIds) /\ IsInjective(pending)
      /\ Range(pending) \cap active = {}
      /\ Held = Range(pending) \cup active
      /\ Held \subseteq RunIds
      /\ Accounted(runs, pending, active \ settled, lost)
      /\ r \notin Held /\ r \notin lost
      /\ \A p, q \in Held : runs[p].schedule = runs[q].schedule => p = q
      /\ \A p \in Held : runs[p].status # "absent" /\ runs[p].schedule \in owned
      /\ \A x \in owned : \E p \in Held : runs[p].schedule = x
  BY <1>1, CustodyOfWork
<1>3. /\ queue \in Seq(RunIds) /\ IsInjective(queue)
      /\ Range(queue) = Range(pending) \cup {r}
  BY <1>1, <1>2, AppendedRun
<1>4. /\ \A p \in RunIds \ {r} : rows[p] = runs[p]
      /\ rows[r].schedule = s /\ rows[r].status = "running"
  BY <1>1 DEF InsertRun, TypeOK
<1> HIDE DEF rows, queue
<1>5. Accounted(rows, queue, active \ settled, lost)
  BY <1>1, <1>2, <1>3, <1>4 DEF Accounted
<1>6. InCustody(rows, queue, active, settled, owned \cup {s}, TRUE)
  BY <1>1, <1>2, <1>3, <1>4, <1>5 DEF InCustody, TypeOK
<1> QED
  BY <1>1, <1>3, <1>6 DEF rows, queue

-----------------------------------------------------------------------------
\* add, update, remove, run, start and stop keep custody.
LEMMA CustodyFacade == TypeOK /\ PhaseShape /\ Custody /\ Facade => Custody'
<1> SUFFICES ASSUME TypeOK, PhaseShape, Custody, Facade PROVE Custody'
  OBVIOUS
<1>1. ASSUME NEW s \in ScheduleIds, NEW t \in Triggers, NEW e \in BOOLEAN,
             Add(s, t, e) \/ Update(s, t, e)
      PROVE  Custody'
  BY <1>1, CustodyOfUnchangedWork DEF Add, Update, Quiet, work
<1>2. ASSUME NEW s \in ScheduleIds, Remove(s)
      PROVE  Custody'
  BY <1>2, CustodyOfUnchangedWork DEF Remove, Quiet, work
<1>3. ASSUME NEW s \in ScheduleIds, Run(s)
      PROVE  Custody'
  <2>1. PICK r \in NextRun :
          Pump(lifecycle, Append(pending, r), active, settled,
               InsertRun(runs, r, s, "manual", None, 0))
    BY <1>3 DEF Run
  <2> DEFINE queue == Append(pending, r)
             rows == InsertRun(runs, r, s, "manual", None, 0)
  <2>2. /\ Up /\ waiter # "rejected" /\ s \in ScheduleIds \ owned
        /\ owned' = owned \cup {s} /\ waiter' = waiter
    BY <1>3 DEF Run, MayRun, Quiet, PhaseShape
  <2>3. r \in RunIds /\ InCustody(rows, queue, active, settled, owned \cup {s}, TRUE)
    BY <2>2, CustodyOfNewRun
  <2>4. rows \in [RunIds -> RunRow]
    BY <2>2, <2>3, InsertRunType DEF TypeOK
  <2> HIDE DEF queue, rows
  <2>5. InCustody(rows, queue, active, settled, owned', waiter' # "rejected")
    BY <2>2, <2>3 DEF InCustody
  <2>6. Pump(lifecycle, queue, active, settled, rows)
    BY <2>1 DEF queue, rows
  <2> QED
    BY <2>4, <2>5, <2>6, PumpKeepsCustody DEF TypeOK
<1>4. CASE Start
  BY <1>4, CustodyOfUnchangedWork DEF Start, Quiet, work, persistent
<1>5. CASE StopDraining
  <2>1. /\ Up /\ waiter # "rejected" /\ waiter' # "rejected" /\ owned' = owned
        /\ Pump("stopping", pending, active, settled, runs)
    BY <1>5 DEF StopDraining, Quiet, PhaseShape
  <2>2. InCustody(runs, pending, active, settled, owned', waiter' # "rejected")
    BY <2>1, CustodyOfWork DEF InCustody
  <2> QED
    BY <2>1, <2>2, PumpKeepsCustody DEF TypeOK
<1>6. CASE StopCancelling
  <2>1. PICK k \in 0 .. Len(pending) :
          /\ runs' = FinishRuns(runs, FirstOf(pending, k), "interrupted")
          /\ owned' = Disown(FirstOf(pending, k))
          /\ lost' = lost \cup (Range(pending) \ FirstOf(pending, k))
          /\ waiter' = IF k < Len(pending) THEN "rejected"
                       ELSE IF active = {} THEN "resolved" ELSE "waiting"
    BY <1>6 DEF StopCancelling
  <2> DEFINE written == FirstOf(pending, k)
  <2>2. /\ Up /\ waiter # "rejected"
        /\ pending' = <<>> /\ active' = active /\ settled' = settled
    BY <1>6 DEF StopCancelling, Quiet, PhaseShape
  <2>3. /\ pending \in Seq(RunIds) /\ IsInjective(pending)
        /\ Range(pending) \cap active = {}
        /\ Held = Range(pending) \cup active
        /\ Held \subseteq RunIds
        /\ Accounted(runs, pending, active \ settled, lost)
        /\ \A r, q \in Held : runs[r].schedule = runs[q].schedule => r = q
        /\ \A r \in Held : runs[r].status # "absent" /\ runs[r].schedule \in owned
        /\ \A s \in owned : \E r \in Held : runs[r].schedule = s
    BY <2>2, CustodyOfWork
  <2>4. /\ written \subseteq Range(pending)
        /\ waiter' # "rejected" => written = Range(pending)
    <3>1. Len(pending) \in Nat /\ DOMAIN pending = 1 .. Len(pending)
      BY <2>3, LenProperties
    <3>2. written \subseteq Range(pending)
      BY <3>1 DEF FirstOf, Range
    <3>3. ~(k < Len(pending)) => k = Len(pending)
      <4>1. Len(pending) \in Nat /\ k \in 0 .. Len(pending)
        BY <3>1
      <4> QED
        BY <4>1
    <3>4. k = Len(pending) => written = Range(pending)
      BY <3>1 DEF FirstOf, Range
    <3> QED
      BY <2>1, <3>2, <3>3, <3>4
  <2> HIDE DEF written
  <2>5. Range(pending') = {} /\ IsInjective(pending')
    BY <2>2 DEF Range, IsInjective
  <2>6. Held' = active
    BY <2>2, <2>5 DEF Held
  <2>7. \A r \in RunIds :
          /\ runs'[r].schedule = runs[r].schedule
          /\ runs'[r].status = "absent" <=> runs[r].status = "absent"
          /\ runs'[r].status = "running" <=>
               runs[r].status = "running" /\ r \notin written
    BY <2>1 DEF written, FinishRuns, TypeOK, RunRow, StoredRun, NoRun
  <2>8. HeldRunsAreOwned'
    <3>1. lost' \cap (Range(pending') \cup Executing') = {}
      BY <2>1, <2>2, <2>3, <2>5 DEF Accounted, Executing
    <3>2. ASSUME NEW r \in active
          PROVE  runs'[r].status # "absent" /\ runs'[r].schedule \in owned'
      <4>1. r \in RunIds /\ r \in Held /\ runs[r].schedule \in owned
        BY <2>3
      <4>2. \A q \in written : runs[q].schedule # runs[r].schedule
        BY <2>3, <2>4
      <4> QED
        BY <2>1, <2>3, <2>7, <4>1, <4>2 DEF Disown, written
    <3> QED
      BY <2>6, <3>1, <3>2 DEF HeldRunsAreOwned
  <2>9. SameScheduleNeverOverlaps'
    BY <2>2, <2>3, <2>5, <2>6, <2>7 DEF SameScheduleNeverOverlaps
  <2>10. OwnershipMatchesWork'
    <3> SUFFICES ASSUME waiter' # "rejected"
                 PROVE  owned' = {runs'[r].schedule : r \in active}
      BY <2>6 DEF OwnershipMatchesWork
    <3>1. written = Range(pending)
      BY <2>4
    <3>2. owned' = owned \ {runs[r].schedule : r \in Range(pending)}
      BY <2>1, <3>1 DEF Disown, written
    <3>3. owned = {runs[r].schedule : r \in Held}
      BY <2>3
    <3>4. owned' = {runs[r].schedule : r \in active}
      BY <2>3, <3>2, <3>3
    <3> QED
      BY <2>3, <2>7, <3>4
  <2>11. RunningRowsAccounted'
    <3>1. ASSUME NEW r \in RunIds
          PROVE  runs'[r].status = "running" <=>
                   r \in Range(pending') \cup (active \ settled) \cup lost'
      <4>1. runs[r].status = "running" <=>
              r \in Range(pending) \cup (active \ settled) \cup lost
        BY <2>3 DEF Accounted
      <4>2. lost' = lost \cup (Range(pending) \ written)
        BY <2>1 DEF written
      <4>3. lost \cap Range(pending) = {}
        BY <2>3 DEF Accounted
      <4> QED
        BY <2>3, <2>4, <2>5, <2>7, <4>1, <4>2, <4>3
    <3>2. lost' \subseteq RunIds
      BY <2>1, <2>3 DEF TypeOK
    <3> QED
      BY <2>2, <2>3, <2>5, <3>1, <3>2 DEF RunningRowsAccounted, RunningRows, Executing
  <2> QED
    BY <2>8, <2>9, <2>10, <2>11 DEF Custody
<1>7. CASE Stopped
  BY <1>7, CustodyOfUnchangedWork DEF Stopped, Quiet, work, persistent
<1> QED
  BY <1>1, <1>2, <1>3, <1>4, <1>5, <1>6, <1>7 DEF Facade

\* Custody of the new state, found without pump.
LEMMA CustodyIsEnough ==
  ASSUME lost' \subseteq RunIds,
         InCustody(runs, pending, active, settled, owned, waiter # "rejected")'
  PROVE  Custody'
<1> USE DEF InCustody
<1>1. Held' = Range(pending') \cup active' /\ Held' \subseteq RunIds
  BY RangeOfSeq DEF Held
<1>2. HeldRunsAreOwned'
  BY <1>1 DEF HeldRunsAreOwned, Accounted, Executing
<1>3. SameScheduleNeverOverlaps'
  BY <1>1 DEF SameScheduleNeverOverlaps
<1>4. OwnershipMatchesWork'
  BY <1>1 DEF OwnershipMatchesWork
<1>5. RunningRowsAccounted'
  BY <1>1 DEF RunningRowsAccounted, Accounted, Executing, RunningRows, Held
<1> QED
  BY <1>2, <1>3, <1>4, <1>5 DEF Custody

\* Every step of a scan keeps custody.
LEMMA CustodyScan == TypeOK /\ PhaseShape /\ Custody /\ Scan => Custody'
<1> SUFFICES ASSUME TypeOK, PhaseShape, Custody, Scan PROVE Custody'
  OBVIOUS
<1>1. CASE Wake
  BY <1>1, CustodyOfUnchangedWork DEF Wake, Quiet, work, persistent
<1>2. CASE ScanEnds
  <2>1. /\ Up /\ waiter' = waiter /\ owned' = owned
        /\ Pump(lifecycle, pending, active, settled, runs)
    BY <1>2 DEF ScanEnds, PhaseShape
  <2>2. InCustody(runs, pending, active, settled, owned', waiter' # "rejected")
    BY <2>1, CustodyOfWork DEF InCustody
  <2> QED
    BY <2>1, <2>2, PumpKeepsCustody DEF TypeOK
<1>3. CASE ScanSettles
  BY <1>3, CustodyOfUnchangedWork DEF ScanSettles, PhaseShape, work, persistent
<1>4. ASSUME NEW d \in due, ScanSkip(d)
      PROVE  Custody'
  BY <1>4, CustodyOfUnchangedWork DEF ScanSkip, Visits, PhaseShape, work, persistent
<1>5. ASSUME NEW d \in due, ScanThrows(d)
      PROVE  Custody'
  BY <1>5, CustodyOfUnchangedWork DEF ScanThrows, Visits, PhaseShape, work, persistent
<1>6. ASSUME NEW d \in due, ScanClaim(d)
      PROVE  Custody'
  <2>1. PICK r \in NextRun :
          /\ runs' = InsertRun(runs, r, d.id, "scheduled", d.nextRunAt,
                               MissedOccurrences(schedules[d.id].trigger, d.nextRunAt, clock))
          /\ pending' = Append(pending, r)
    BY <1>6 DEF ScanClaim
  <2>2. /\ Up /\ waiter = "none" /\ d.id \in ScheduleIds \ owned
        /\ owned' = owned \cup {d.id} /\ waiter' = waiter /\ lost' = lost
        /\ active' = active /\ settled' = settled
    BY <1>6 DEF ScanClaim, Visits, PhaseShape, Up, TypeOK, DueRow
  <2>3. InCustody(runs', pending', active', settled', owned', TRUE)
    BY <2>1, <2>2, CustodyOfNewRun
  <2> QED
    BY <2>2, <2>3, CustodyIsEnough DEF TypeOK, InCustody, Accounted
<1> QED
  BY <1>1, <1>2, <1>3, <1>4, <1>5, <1>6 DEF Scan

\* A payload that ends, a timeout and a release keep custody.
LEMMA CustodyExecution == TypeOK /\ PhaseShape /\ Custody /\ Execution => Custody'
<1> SUFFICES ASSUME TypeOK, PhaseShape, Custody, Execution PROVE Custody'
  OBVIOUS
<1>1. ASSUME NEW r \in RunIds, Timeout(r)
      PROVE  Custody'
  BY <1>1, CustodyOfUnchangedWork DEF Timeout, Quiet, work, persistent
<1>2. ASSUME NEW r \in RunIds, NEW ending \in {"ok", "nonzero", "throws"},
             Settle(r, ending)
      PROVE  Custody'
  <2>1. /\ Up /\ r \in active /\ r \notin settled
        /\ settled' = settled \cup {r}
        /\ pending' = pending /\ active' = active /\ owned' = owned /\ waiter' = waiter
    BY <1>2 DEF Settle, Quiet, Executing
  <2>2. InCustody(runs, pending, active, settled, owned, waiter # "rejected")
    BY <2>1, CustodyOfWork
  <2>3. \/ lost' = lost /\ \E outcome \in TerminalStatus :
                              runs' = FinishRuns(runs, {r}, outcome)
        \/ lost' = lost \cup {r} /\ runs' = runs
    BY <1>2 DEF Settle, OutcomeStatus, AbortStatus, TerminalStatus
  <2>4. Range(pending) \cap active = {} /\ Accounted(runs, pending, active \ settled, lost)
    BY <2>2 DEF InCustody
  <2>5. /\ Accounted(runs', pending, active \ settled', lost')
        /\ \A q \in RunIds : /\ runs'[q].schedule = runs[q].schedule
                             /\ runs'[q].status = "absent" <=> runs[q].status = "absent"
        /\ lost' \subseteq RunIds
    <3>1. CASE lost' = lost /\ \E outcome \in TerminalStatus :
                                 runs' = FinishRuns(runs, {r}, outcome)
      <4>1. PICK outcome \in TerminalStatus : runs' = FinishRuns(runs, {r}, outcome)
        BY <3>1
      <4>2. \A q \in RunIds :
              /\ runs'[q].schedule = runs[q].schedule
              /\ runs'[q].status = "absent" <=> runs[q].status = "absent"
              /\ runs'[q].status = "running" <=> runs[q].status = "running" /\ q # r
        BY <4>1 DEF FinishRuns, TypeOK, RunRow, StoredRun, NoRun, TerminalStatus
      <4> QED
        BY <2>1, <2>4, <3>1, <4>2 DEF Accounted, TypeOK
    <3>2. CASE lost' = lost \cup {r} /\ runs' = runs
      BY <2>1, <2>4, <3>2 DEF Accounted, TypeOK
    <3> QED
      BY <2>3, <3>1, <3>2
  <2>6. Range(pending) \cup active \subseteq RunIds
    BY <2>2, RangeOfSeq DEF InCustody
  <2>7. InCustody(runs, pending, active, settled, owned, waiter # "rejected")'
    BY <2>1, <2>2, <2>5, <2>6 DEF InCustody, Accounted
  <2> QED
    BY <2>5, <2>7, CustodyIsEnough
<1>3. ASSUME NEW r \in RunIds, Release(r)
      PROVE  Custody'
  <2> DEFINE busy == active \ {r}
             over == settled \ {r}
  <2>1. /\ Up /\ r \in settled /\ owned' = owned \ {runs[r].schedule}
        /\ Pump(lifecycle, pending, busy, over, runs)
        /\ waiter' = "rejected" <=> waiter = "rejected"
    BY <1>3 DEF Release, Quiet, Disown, ResolveIfIdle
  <2>2. /\ InCustody(runs, pending, active, settled, owned, waiter # "rejected")
        /\ settled \subseteq active /\ Range(pending) \cap active = {}
    BY <2>1, CustodyOfWork
  <2>3. Cardinality(busy) <= concurrency
    <3>1. /\ active \subseteq RunIds /\ busy \subseteq active
          /\ Cardinality(active) <= concurrency
      BY DEF TypeOK
    <3>2. Cardinality(busy) <= Cardinality(active)
      BY <3>1, RunSetsFinite, FS_Subset
    <3> QED
      BY <3>1, <3>2, RunSetsFinite, ConstantsAssumption
  <2>4. Accounted(runs, pending, busy \ over, lost)
    <3>1. busy \ over = active \ settled
      BY <2>1
    <3> QED
      BY <2>2, <3>1 DEF InCustody
  <2>5. InCustody(runs, pending, busy, over, owned', waiter' # "rejected")
    BY <2>1, <2>2, <2>4 DEF InCustody
  <2> HIDE DEF busy, over
  <2> QED
    BY <2>1, <2>3, <2>5, PumpKeepsCustody DEF TypeOK
<1> QED
  BY <1>1, <1>2, <1>3 DEF Execution

\* A crash, an exit and a new process with its startup recovery keep custody.
LEMMA CustodyEnvironment ==
  TypeOK /\ PhaseShape /\ Custody /\ Environment => Custody'
<1> SUFFICES ASSUME TypeOK, PhaseShape, Custody, Environment PROVE Custody'
  OBVIOUS
<1>1. ASSUME Vanish
      PROVE  Custody'
  <2>1. /\ Held' = {} /\ Executing' = {} /\ IsInjective(pending') /\ Range(pending') = {}
    BY <1>1 DEF Vanish, Held, Executing, Range, IsInjective
  <2> QED
    BY <1>1, <2>1 DEF Vanish, Custody, HeldRunsAreOwned, SameScheduleNeverOverlaps,
                      OwnershipMatchesWork, RunningRowsAccounted, Up
<1>2. CASE Boot
  <2>1. /\ Held = {} /\ owned = {} /\ lost = {}
        /\ UNCHANGED <<pending, active, settled, owned, lost, waiter>>
        /\ runs' = FinishRuns(runs, RunIds, "interrupted")
    BY <1>2 DEF Boot, PhaseShape, Up, RecoverRuns
  <2>2. Held' = {} /\ Range(pending') = {} /\ Executing' = {} /\ active' = {}
    BY <2>1 DEF Held, Executing
  <2>3. RunningRows' = {}
    BY <2>1 DEF RunningRows, FinishRuns, TypeOK, RunRow, StoredRun, NoRun
  <2>4. IsInjective(pending')
    BY <2>1 DEF Custody, SameScheduleNeverOverlaps
  <2> QED
    BY <2>1, <2>2, <2>3, <2>4
       DEF Custody, HeldRunsAreOwned, SameScheduleNeverOverlaps,
           OwnershipMatchesWork, RunningRowsAccounted
<1>3. ASSUME UNCHANGED <<runs, volatile>>
      PROVE  Custody'
  BY <1>3 DEF volatile, Custody, HeldRunsAreOwned, SameScheduleNeverOverlaps,
              OwnershipMatchesWork, RunningRowsAccounted, Held, Executing,
              RunningRows, Up
<1> QED
  BY <1>1, <1>2, <1>3 DEF Environment, Crash, Close, Tick, OrphanExits
-----------------------------------------------------------------------------
\* A queue is empty when nothing is in it.
LEMMA EmptyQueue ==
  ASSUME NEW queue \in Seq(RunIds)
  PROVE  queue = <<>> <=> Range(queue) = {}
<1>1. Len(queue) \in Nat /\ DOMAIN queue = 1 .. Len(queue)
  BY LenProperties
<1>2. CASE Len(queue) = 0
  BY <1>1, <1>2, EmptySeq DEF Range
<1>3. CASE Len(queue) # 0
  <2>1. 1 \in DOMAIN queue
    BY <1>1, <1>3
  <2> QED
    BY <1>3, <2>1, EmptySeq DEF Range
<1> QED
  BY <1>2, <1>3

\* While stop() has not been called, Phases only asks that the scheduler does not
\* sleep.
LEMMA PhasesBeforeStop ==
  ASSUME lifecycle' \in {"idle", "running"}, waiter' = "none",
         wakeHandle' \/ scanning' = "loop" => lifecycle' = "running",
         NeverAsleep'
  PROVE  Phases'
  BY DEF Phases, PhaseShape, StopWaitsForWork, CancelReaches, Cancelling, Up

\* add, update, remove, run, start and stop keep the phases.
LEMMA PhasesFacade == TypeOK /\ Phases /\ Custody /\ Facade => Phases'
<1> SUFFICES ASSUME TypeOK, Phases, Custody, Facade PROVE Phases'
  OBVIOUS
<1>1. ASSUME RequestWake(lifecycle),
             UNCHANGED <<lifecycle, shutdownPolicy, scanning, pending, active,
                         settled, aborted, owned, waiter, lost>>,
             Up
      PROVE  Phases'
  BY <1>1 DEF RequestWake, Phases, PhaseShape, NeverAsleep, StopWaitsForWork,
              CancelReaches, Cancelling, Up, Held, Executing
<1>2. ASSUME NEW s \in ScheduleIds, Run(s)
      PROVE  Phases'
  BY <1>2, PhasesBeforeStop DEF Run, MayRun, Phases, PhaseShape, NeverAsleep
<1>3. CASE Start
  BY <1>3, PhasesBeforeStop DEF Start, RequestWake, Phases, PhaseShape, NeverAsleep, Quiet
<1>4. CASE StopDraining
  <2>1. /\ Up /\ waiter # "rejected" /\ owned' = owned
        /\ lifecycle' = "stopping" /\ ~wakeHandle' /\ scanning' # "loop"
        /\ waiter' = IF pending' = <<>> /\ active' = {} THEN "resolved" ELSE "waiting"
        /\ shutdownPolicy' # "cancel"
        /\ Pump("stopping", pending, active, settled, runs)
    BY <1>4 DEF StopDraining, Quiet, Phases, PhaseShape
  <2>2. pending' \in Seq(RunIds)
    BY <1>4, TypeFacade DEF TypeOK
  <2>3. pending' = <<>> <=> Range(pending') = {}
    BY <2>2, EmptyQueue
  <2> QED
    BY <2>1, <2>3 DEF Phases, PhaseShape, NeverAsleep, StopWaitsForWork,
                      CancelReaches, Cancelling, Up, Held
<1>5. CASE StopCancelling
  <2>1. Up /\ waiter # "rejected" /\ Range(pending') = {} /\ Held' = active
    BY <1>5 DEF StopCancelling, Quiet, Phases, PhaseShape, Held, Range
  <2>2. PICK k \in 0 .. Len(pending) :
          /\ aborted' = AbortedByStop(k = Len(pending))
          /\ waiter' = IF k < Len(pending) THEN "rejected"
                       ELSE IF active = {} THEN "resolved" ELSE "waiting"
          /\ lost' = lost \cup (Range(pending) \ FirstOf(pending, k))
    BY <1>5 DEF StopCancelling
  <2>3. waiter' # "rejected" => k = Len(pending)
    <3>1. Len(pending) \in Nat
      BY LenProperties DEF TypeOK
    <3> QED
      BY <2>2, <3>1
  <2>4. waiter' # "rejected" => aborted' = active
    BY <2>2, <2>3 DEF AbortedByStop
  <2>5. CASE waiter' = "rejected"
    <3>1. /\ Len(pending) \in Nat /\ DOMAIN pending = 1 .. Len(pending)
          /\ IsInjective(pending)
      BY LenProperties DEF TypeOK, Custody, SameScheduleNeverOverlaps
    <3>2. k < Len(pending)
      BY <2>2, <2>5
    <3>3. pending[Len(pending)] \in Range(pending) \ FirstOf(pending, k)
      BY <3>1, <3>2 DEF IsInjective, Range, FirstOf
    <3>4. lost' # {}
      BY <2>2, <3>3
    <3> QED
      BY <1>5, <2>1, <2>5, <3>4
         DEF StopCancelling, Quiet, Phases, PhaseShape, NeverAsleep, StopWaitsForWork,
             CancelReaches, Up
  <2> QED
    BY <1>5, <2>1, <2>2, <2>4, <2>5
       DEF StopCancelling, Quiet, Phases, PhaseShape, NeverAsleep, StopWaitsForWork,
           CancelReaches, Up, Executing
<1>6. CASE Stopped
  BY <1>6 DEF Stopped, Quiet, Phases, PhaseShape, NeverAsleep, StopWaitsForWork,
              CancelReaches, Cancelling, Up, Held, Executing
<1> QED
  BY <1>1, <1>2, <1>3, <1>4, <1>5, <1>6
     DEF Facade, Add, Update, Remove, Quiet

\* Every step of a scan keeps the phases.
LEMMA PhasesScan == TypeOK /\ Phases /\ Custody /\ Scan => Phases'
<1> SUFFICES ASSUME TypeOK, Phases, Custody, Scan PROVE Phases'
  OBVIOUS
<1>1. CASE Wake
  BY <1>1, PhasesBeforeStop DEF Wake, Phases, PhaseShape, NeverAsleep, persistent
<1>2. CASE ScanEnds
  BY <1>2, PhasesBeforeStop DEF ScanEnds, Phases, PhaseShape, NeverAsleep
<1>3. CASE ScanSettles
  <2>1. Up
    BY <1>3 DEF ScanSettles, Phases, PhaseShape
  <2> QED
    BY <1>3, <2>1
       DEF ScanSettles, RequestWake, Phases, PhaseShape, NeverAsleep, StopWaitsForWork,
           CancelReaches, Cancelling, Up, Held, Executing, persistent
<1>4. ASSUME NEW d \in due, ScanSkip(d) \/ ScanClaim(d) \/ ScanThrows(d)
      PROVE  Phases'
  <2>1. /\ lifecycle = "running" /\ waiter = "none" /\ scanning = "loop"
        /\ lifecycle' = lifecycle /\ waiter' = waiter /\ wakeHandle' = wakeHandle
        /\ scanning' # "off"
    BY <1>4 DEF ScanSkip, ScanClaim, ScanThrows, Visits, Phases, PhaseShape, persistent
  <2> QED
    BY <2>1, PhasesBeforeStop DEF NeverAsleep
<1> QED
  BY <1>1, <1>2, <1>3, <1>4 DEF Scan

\* pump starts nothing once stop() has been called under the cancel policy.
LEMMA PumpCancelling ==
  ASSUME NEW busy, NEW over, NEW rows, Cancelling,
         Pump(lifecycle, <<>>, busy, over, rows)
  PROVE  /\ pending' = <<>>
         /\ active' = busy /\ settled' = over
<1>1. DispatchCount(lifecycle, <<>>, busy) = 0
  BY DEF DispatchCount, MayDispatch, Cancelling
<1>2. FirstOf(<<>>, 0) = {}
  BY DEF FirstOf
<1>3. SubSeq(<<>>, 1, 0) = <<>>
  OBVIOUS
<1> QED
  BY <1>1, <1>2, <1>3 DEF Pump

\* A payload that ends, a timeout and a release keep the phases.
LEMMA PhasesExecution == TypeOK /\ Phases /\ Custody /\ Execution => Phases'
<1> SUFFICES ASSUME TypeOK, Phases, Custody, Execution PROVE Phases'
  OBVIOUS
<1>1. ASSUME UNCHANGED <<lifecycle, shutdownPolicy, wakeHandle, scanning, pending,
                         active, waiter>>,
             Executing' \subseteq Executing, aborted \subseteq aborted',
             lost \subseteq lost', Up
      PROVE  Phases'
  BY <1>1 DEF Phases, PhaseShape, NeverAsleep, StopWaitsForWork, CancelReaches,
              Cancelling, Up, Held
<1>2. ASSUME NEW r \in RunIds, Timeout(r)
      PROVE  Phases'
  BY <1>1, <1>2 DEF Timeout, Quiet, Executing, persistent
<1>3. ASSUME NEW r \in RunIds, NEW ending \in {"ok", "nonzero", "throws"},
             Settle(r, ending)
      PROVE  Phases'
  BY <1>1, <1>3 DEF Settle, Quiet, Executing
<1>4. ASSUME NEW r \in RunIds, Release(r)
      PROVE  Phases'
  <2> DEFINE busy == active \ {r}
             over == settled \ {r}
  <2>1. /\ Up /\ scanning # "loop" /\ r \in settled /\ r \in active /\ r \in Held
        /\ Pump(lifecycle, pending, busy, over, runs)
        /\ ResolveIfIdle /\ RequestWake(lifecycle)
        /\ UNCHANGED <<lifecycle, shutdownPolicy, scanning>>
        /\ aborted' = aborted \ {r}
    BY <1>4 DEF Release, Quiet, Held, TypeOK
  <2>2. waiter # "resolved" /\ lifecycle # "stopped" /\ lifecycle # "down"
    BY <2>1 DEF Phases, PhaseShape, Up
  <2>3. pending' \in Seq(RunIds)
    BY <1>4, TypeExecution DEF TypeOK, Execution
  <2>4. waiter' = IF waiter = "waiting" /\ Held' = {} THEN "resolved" ELSE waiter
    BY <2>1, <2>3, EmptyQueue DEF ResolveIfIdle, Held
  <2>5. CancelReaches'
    <3> SUFFICES ASSUME Cancelling'
                 PROVE  /\ pending' = <<>>
                        /\ \/ Executing' \subseteq aborted'
                           \/ waiter' = "rejected" /\ lost' # {}
      BY DEF CancelReaches
    <3>1. Cancelling
      BY <2>1 DEF Cancelling
    <3>2. /\ pending = <<>>
          /\ Executing \subseteq aborted \/ (waiter = "rejected" /\ lost # {})
      BY <3>1 DEF Phases, CancelReaches
    <3>3. pending' = <<>> /\ active' = busy /\ settled' = over
      BY <2>1, <3>1, <3>2, PumpCancelling
    <3>4. lost \subseteq lost'
      BY <2>1 DEF Pump
    <3>5. waiter = "rejected" => waiter' = "rejected"
      BY <2>4
    <3> QED
      BY <2>1, <3>2, <3>3, <3>4, <3>5 DEF Executing
  <2>6. PhaseShape'
    BY <2>1, <2>2, <2>4 DEF RequestWake, Phases, PhaseShape, Up
  <2>7. StopWaitsForWork'
    BY <2>1, <2>2, <2>4 DEF Phases, PhaseShape, StopWaitsForWork
  <2>8. NeverAsleep'
    BY <2>1 DEF RequestWake, NeverAsleep
  <2> QED
    BY <2>5, <2>6, <2>7, <2>8 DEF Phases
<1> QED
  BY <1>2, <1>3, <1>4 DEF Execution

\* A crash, an exit and a new process keep the phases.
LEMMA PhasesEnvironment == TypeOK /\ Phases /\ Custody /\ Environment => Phases'
<1> SUFFICES ASSUME TypeOK, Phases, Custody, Environment PROVE Phases'
  OBVIOUS
<1>1. ASSUME Vanish
      PROVE  Phases'
  BY <1>1 DEF Vanish, Phases, PhaseShape, NeverAsleep, StopWaitsForWork,
              CancelReaches, Cancelling, Up, Held, Range
<1>2. CASE Boot
  BY <1>2, PhasesBeforeStop DEF Boot, Phases, PhaseShape, NeverAsleep, Up
<1>3. ASSUME UNCHANGED volatile
      PROVE  Phases'
  BY <1>3 DEF volatile, Phases, PhaseShape, NeverAsleep, StopWaitsForWork,
              CancelReaches, Cancelling, Up, Held, Executing
<1> QED
  BY <1>1, <1>2, <1>3 DEF Environment, Crash, Close, Tick, OrphanExits
-----------------------------------------------------------------------------
\* Before the first process nothing is held.
LEMMA WorkInvariantInit == Init => WorkInvariant
<1> SUFFICES ASSUME Init PROVE WorkInvariant
  OBVIOUS
<1>1. TypeOK
  BY TypeInit
<1>2. Held = {} /\ Executing = {} /\ IsInjective(pending) /\ Range(pending) = {}
  BY DEF Init, Held, Executing, Range, IsInjective
<1> QED
  BY <1>1, <1>2
     DEF Init, WorkInvariant, PhaseShape, HeldRunsAreOwned, SameScheduleNeverOverlaps,
         OwnershipMatchesWork, RunningRowsAccounted, NeverAsleep, StopWaitsForWork,
         CancelReaches, Cancelling, Up

\* Every step keeps WorkInvariant.
LEMMA WorkInvariantNext == WorkInvariant /\ [Next]_vars => WorkInvariant'
<1>1. WorkInvariant <=> TypeOK /\ Custody /\ Phases
  BY DEF WorkInvariant, Custody, Phases
<1>2. WorkInvariant' <=> TypeOK' /\ Custody' /\ Phases'
  BY DEF WorkInvariant, Custody, Phases
<1>3. ASSUME TypeOK, Custody, Phases, Next
      PROVE  TypeOK' /\ Custody' /\ Phases'
  <2>1. PhaseShape
    BY <1>3 DEF Phases
  <2>2. TypeOK'
    BY <1>3, TypeFacade, TypeScan, TypeExecution, TypeEnvironment DEF Next
  <2>3. Custody'
    BY <1>3, <2>1, CustodyFacade, CustodyScan, CustodyExecution, CustodyEnvironment DEF Next
  <2>4. Phases'
    BY <1>3, PhasesFacade, PhasesScan, PhasesExecution, PhasesEnvironment DEF Next
  <2> QED
    BY <2>2, <2>3, <2>4
<1>4. ASSUME WorkInvariant, UNCHANGED vars
      PROVE  WorkInvariant'
  BY <1>4
     DEF vars, persistent, volatile, WorkInvariant, TypeOK, PhaseShape,
         HeldRunsAreOwned, SameScheduleNeverOverlaps, OwnershipMatchesWork,
         RunningRowsAccounted, NeverAsleep, StopWaitsForWork, CancelReaches,
         Cancelling, Up, Held, Executing, RunningRows
<1> QED
  BY <1>1, <1>2, <1>3, <1>4

\* The scheduler keeps its books in every reachable state.
THEOREM WorkInvariantHolds == Spec => []WorkInvariant
  BY WorkInvariantInit, WorkInvariantNext, PTL DEF Spec

\* No two runs of one schedule are queued or executing, and no run is held twice,
\* whatever scans, manual runs, releases, stops and crashes interleave.
THEOREM NoOverlap == Spec => []SameScheduleNeverOverlaps
<1>1. WorkInvariant => SameScheduleNeverOverlaps
  BY DEF WorkInvariant
<1> QED
  BY <1>1, WorkInvariantHolds, PTL

\* ownedScheduleIds is exactly what the held runs need, unless a stop() failed.
THEOREM OwnershipIsExact == Spec => []OwnershipMatchesWork
<1>1. WorkInvariant => OwnershipMatchesWork
  BY DEF WorkInvariant
<1> QED
  BY <1>1, WorkInvariantHolds, PTL

\* While a process is up, every row that says "running" is a run it holds, or one
\* whose final write failed.
THEOREM NoRowForgotten == Spec => []RunningRowsAccounted
<1>1. WorkInvariant => RunningRowsAccounted
  BY DEF WorkInvariant
<1> QED
  BY <1>1, WorkInvariantHolds, PTL

\* A running scheduler has its timer armed or a scan under way, also after a scan
\* that threw.
THEOREM AlwaysRearmed == Spec => []NeverAsleep
<1>1. WorkInvariant => NeverAsleep
  BY DEF WorkInvariant
<1> QED
  BY <1>1, WorkInvariantHolds, PTL

\* stop() waits only while there is work, and reports "stopped" only without any.
THEOREM StopSound == Spec => []StopWaitsForWork
<1>1. WorkInvariant => StopWaitsForWork
  BY DEF WorkInvariant
<1> QED
  BY <1>1, WorkInvariantHolds, PTL

\* stop() under the cancel policy empties the queue and aborts every payload; only
\* a failing write of an interruption keeps it from the aborts, and then a row is
\* left that still says "running".
THEOREM CancelIsCutShortOnlyByAFailedWrite == Spec => []CancelReaches
<1>1. WorkInvariant => CancelReaches
  BY DEF WorkInvariant
<1> QED
  BY <1>1, WorkInvariantHolds, PTL
=============================================================================
