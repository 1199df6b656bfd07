----------------------------- MODULE CronProof ------------------------------
(***************************************************************************)
(* Proofs about Cron, for every policy, every number of fires, retries and *)
(* calls: runs do not overlap, the timer does not go dark, and a stop()    *)
(* that has resolved is final.                                             *)
(***************************************************************************)
EXTENDS Cron, FiniteSetTheorems, TLAPS

\* The fires in flight are told apart by their numbers, counted by
\* activeRuns, and retry only while an attempt is left.
Counting ==
    /\ IsFiniteSet(fires)
    /\ activeRuns = Cardinality(fires)
    /\ \A f \in fires : f.id < used
    /\ \A f, g \in fires : f.id = g.id => f = g
    /\ \A f \in fires : f.pc = "backoff" => f.attempt <= Retries
    /\ options.overlap # "allow" => activeRuns <= 1

\* A run is queued only behind another, and not with the timer off unless
\* behind tells.
QueueLit ==
    /\ pending => activeRuns > 0 /\ options.overlap # "allow"
    /\ pending /\ running /\ registered /\ ~paused => timer \/ behind

\* After a quiet stop() nothing is left that could begin a run.
Hush == quiet => ~running /\ ~catching /\ ~pending

IInv == TypeOK /\ Counting /\ QueueLit /\ NeverDark /\ Hush

\* f goes on as g.
Moves(f, g) ==
    /\ g.id = f.id /\ g.scheduled = f.scheduled
    /\ g.pc = "backoff" => g.attempt <= Retries
    /\ fires' = (fires \ {f}) \cup {g}
    /\ UNCHANGED <<activeRuns, used>>

\* What a step can do to the fires.
FiresStep ==
    \/ UNCHANGED <<fires, activeRuns, used>>
    \/ \E scheduled \in BOOLEAN : ~Blocked /\ FireNow(scheduled)
    \/ \E f \in fires, g \in Fire : Moves(f, g)
    \/ \E f \in fires : FireEnds(f)

USE DEF stateVars, queueVars, fireRest
-----------------------------------------------------------------------------
(* The fires *)

LEMMA AdmittedFire ==
    ASSUME TypeOK, NEW others \in SUBSET Fire, NEW scheduled \in BOOLEAN
    PROVE  \E f \in Fire : /\ Admitted(others, scheduled) = others \cup {f}
                           /\ f.id = used /\ f.scheduled = scheduled
                           /\ f.pc # "backoff"
<1> DEFINE f == [id |-> used, scheduled |-> scheduled, attempt |-> 1,
                 pc |-> IF options.lock THEN "lock" ELSE "task", epoch |-> stopEpoch]
<1>1. 1 \in 1..(Retries + 1)
  BY CronAssumption
<1>2. used \in Nat /\ stopEpoch \in Nat
  BY DEF TypeOK
<1>3. f \in Fire
  BY <1>1, <1>2 DEF Fire
<1>4. Admitted(others, scheduled) = others \cup {f}
  BY DEF Admitted
<1> QED
  BY <1>3, <1>4

\* A fire that goes on, with another point, attempt or epoch
LEMMA Going ==
    ASSUME TypeOK, Counting, NEW f \in fires,
           \/ LockGranted(f)
           \/ TaskFails(f) /\ ~FireEnds(f)
           \/ RetryOrNot(f) /\ ~FireEnds(f)
    PROVE  \E g \in Fire : Moves(f, g)
<1>1. f \in Fire /\ stopEpoch \in Nat
  BY DEF TypeOK
<1>2. Retries \in Nat
  BY CronAssumption
<1>3. CASE LockGranted(f)
  <2> DEFINE g == [f EXCEPT !.pc = "task", !.epoch = stopEpoch]
  <2>1. g \in Fire /\ g.id = f.id /\ g.scheduled = f.scheduled /\ g.pc = "task"
    BY <1>1 DEF Fire
  <2>2. Moves(f, g)
    BY <1>3, <2>1 DEF LockGranted, Moves
  <2> QED
    BY <2>1, <2>2
<1>4. CASE TaskFails(f) /\ ~FireEnds(f)
  <2> DEFINE g == [f EXCEPT !.pc = "backoff"]
  <2>1. /\ g \in Fire /\ g.id = f.id /\ g.scheduled = f.scheduled
        /\ g.attempt = f.attempt
    BY <1>1 DEF Fire
  <2>2. f.attempt <= Retries
    BY <1>4 DEF TaskFails
  <2>3. Moves(f, g)
    BY <1>4, <2>1, <2>2 DEF TaskFails, Moves, Goto
  <2> QED
    BY <2>1, <2>3
<1>5. CASE RetryOrNot(f) /\ ~FireEnds(f)
  <2> DEFINE g == [f EXCEPT !.pc = "task", !.attempt = @ + 1]
  <2>1. f.attempt <= Retries
    BY <1>5 DEF RetryOrNot, Counting
  <2>2. f.attempt + 1 \in 1..(Retries + 1)
    BY <1>1, <1>2, <2>1 DEF Fire
  <2>3. g \in Fire /\ g.id = f.id /\ g.scheduled = f.scheduled /\ g.pc = "task"
    BY <1>1, <2>2 DEF Fire
  <2>4. Moves(f, g)
    BY <1>5, <2>3 DEF RetryOrNot, Moves
  <2> QED
    BY <2>3, <2>4
<1> QED
  BY <1>3, <1>4, <1>5

LEMMA StepOnFires ==
    ASSUME TypeOK, Counting, [Next]_vars
    PROVE  FiresStep /\ options' = options
<1>1. CASE TimerFires
  BY <1>1 DEF TimerFires, FireOrNot, FireQueued, FireSkipped, FiresStep
<1>2. CASE Trigger \/ CatchUp
  BY <1>2 DEF Trigger, CatchUp, ManualFire, FireOrNot, FireQueued, FireSkipped, FiresStep
<1>3. CASE Start
  BY <1>3 DEF Start, FireOrNot, FireQueued, FireSkipped, FiresStep
<1>4. CASE \E graceful \in BOOLEAN : Stop(graceful)
  BY <1>4 DEF Stop, FiresStep
<1>5. CASE \E deadline \in BOOLEAN : Drained(deadline)
  BY <1>5 DEF Drained, FiresStep
<1>6. CASE Pause \/ Resume \/ Reschedule \/ Remove
  BY <1>6 DEF Pause, Resume, Reschedule, Remove, FiresStep
<1>7. ASSUME NEW f \in fires,
             \/ LockGranted(f) \/ LockDenied(f) \/ TaskSucceeds(f)
             \/ TaskFails(f) \/ RetryOrNot(f)
      PROVE  FiresStep /\ options' = options
  <2>1. options' = options
    BY <1>7 DEF LockGranted, LockDenied, TaskSucceeds, TaskFails, RetryOrNot
  <2>2. CASE FireEnds(f)
    BY <2>1, <2>2 DEF FiresStep
  <2>3. CASE ~FireEnds(f)
    <3>1. \E g \in Fire : Moves(f, g)
      BY <1>7, <2>3, Going DEF LockDenied, TaskSucceeds
    <3> QED
      BY <2>1, <3>1 DEF FiresStep
  <2> QED
    BY <2>2, <2>3
<1>8. CASE UNCHANGED vars
  BY <1>8 DEF vars, FiresStep
<1> QED
  BY <1>1, <1>2, <1>3, <1>4, <1>5, <1>6, <1>7, <1>8 DEF Next

\* One more fire, with a new number
LEMMA OneMore ==
    ASSUME TypeOK, NEW others \in SUBSET fires, Counting, NEW scheduled \in BOOLEAN,
           fires' = Admitted(others, scheduled), used' = used + 1,
           activeRuns' = Cardinality(others) + 1, options' = options,
           options.overlap # "allow" => others = {}
    PROVE  Counting' /\ activeRuns' \in Nat /\ used' \in Nat /\ fires' \in SUBSET Fire
<1>1. PICK f \in Fire : /\ fires' = others \cup {f}
                        /\ f.id = used /\ f.scheduled = scheduled /\ f.pc # "backoff"
  <2>1. others \in SUBSET Fire
    BY DEF TypeOK
  <2> QED
    BY <2>1, AdmittedFire
<1>2. used \in Nat
  BY DEF TypeOK
<1>3. \A g \in fires : g.id \in Nat /\ g.id < used
  BY DEF TypeOK, Counting, Fire
<1>4. f \notin others
  BY <1>1, <1>2, <1>3
<1>5. IsFiniteSet(others) /\ Cardinality(others) \in Nat
  BY FS_Subset, FS_CardinalityType DEF Counting
<1>6. IsFiniteSet(fires') /\ Cardinality(fires') = Cardinality(others) + 1
  BY <1>1, <1>4, <1>5, FS_AddElement
<1>7. \A g \in fires' : g.id < used'
  BY <1>1, <1>2, <1>3
<1>8. \A g, h \in fires' : g.id = h.id => g = h
  BY <1>1, <1>2, <1>3 DEF Counting
<1>9. \A g \in fires' : g.pc = "backoff" => g.attempt <= Retries
  BY <1>1 DEF Counting
<1>10. (options.overlap # "allow" => activeRuns <= 1)'
  BY <1>5, FS_EmptySet
<1>11. Counting'
  BY <1>6, <1>7, <1>8, <1>9, <1>10 DEF Counting
<1> QED
  BY <1>1, <1>2, <1>5, <1>11 DEF TypeOK

LEMMA FiresCounted ==
    ASSUME TypeOK, Counting, FiresStep, options' = options
    PROVE  Counting' /\ activeRuns' \in Nat /\ used' \in Nat /\ fires' \in SUBSET Fire
<1>0. activeRuns \in Nat /\ used \in Nat
  BY DEF TypeOK
<1>1. CASE UNCHANGED <<fires, activeRuns, used>>
  BY <1>1 DEF Counting, TypeOK
<1>2. ASSUME NEW scheduled \in BOOLEAN, ~Blocked, FireNow(scheduled)
      PROVE  Counting' /\ activeRuns' \in Nat /\ used' \in Nat /\ fires' \in SUBSET Fire
  <2>1. options.overlap # "allow" => fires = {}
    BY <1>0, <1>2, FS_EmptySet DEF Blocked, Counting
  <2>2. /\ fires' = Admitted(fires, scheduled) /\ used' = used + 1
        /\ activeRuns' = Cardinality(fires) + 1
    BY <1>2 DEF FireNow, Counting
  <2> QED
    BY <2>1, <2>2, OneMore
<1>3. ASSUME NEW f \in fires, NEW g \in Fire, Moves(f, g)
      PROVE  Counting' /\ activeRuns' \in Nat /\ used' \in Nat /\ fires' \in SUBSET Fire
  <2>1. fires' = (fires \ {f}) \cup {g} /\ g.id = f.id
    BY <1>3 DEF Moves
  <2>2. g \notin fires \ {f}
    BY <2>1 DEF Counting
  <2>3. IsFiniteSet(fires \ {f}) /\ Cardinality(fires \ {f}) = Cardinality(fires) - 1
    BY FS_RemoveElement DEF Counting
  <2>4. IsFiniteSet(fires') /\ Cardinality(fires') = Cardinality(fires)
    <3>1. Cardinality(fires) \in Nat
      BY FS_CardinalityType DEF Counting
    <3> QED
      BY <2>1, <2>2, <2>3, <3>1, FS_AddElement
  <2>5. \A h \in fires' : h.id < used'
    BY <1>3, <2>1 DEF Counting, Moves
  <2>6. \A h, k \in fires' : h.id = k.id => h = k
    BY <2>1 DEF Counting
  <2>7. \A h \in fires' : h.pc = "backoff" => h.attempt <= Retries
    BY <1>3, <2>1 DEF Counting, Moves
  <2>8. activeRuns' = Cardinality(fires') /\ activeRuns' = activeRuns /\ used' = used
    BY <1>3, <2>4 DEF Counting, Moves
  <2>9. Counting'
    BY <2>4, <2>5, <2>6, <2>7, <2>8 DEF Counting
  <2> QED
    BY <1>0, <2>1, <2>8, <2>9 DEF TypeOK
<1>4. ASSUME NEW f \in fires, FireEnds(f)
      PROVE  Counting' /\ activeRuns' \in Nat /\ used' \in Nat /\ fires' \in SUBSET Fire
  <2>1. /\ IsFiniteSet(fires \ {f}) /\ Cardinality(fires \ {f}) = activeRuns - 1
        /\ activeRuns - 1 \in Nat
    <3>1. /\ IsFiniteSet(fires \ {f})
          /\ Cardinality(fires \ {f}) = Cardinality(fires) - 1
      BY FS_RemoveElement DEF Counting
    <3>2. Cardinality(fires \ {f}) \in Nat
      BY <3>1, FS_CardinalityType
    <3> QED
      BY <3>1, <3>2 DEF Counting
  <2>2. CASE pending
    <3>1. /\ fires' = Admitted(fires \ {f}, FALSE) /\ used' = used + 1
          /\ activeRuns' = activeRuns
      BY <1>4, <2>2 DEF FireEnds
    <3>2. activeRuns' = Cardinality(fires \ {f}) + 1
      BY <1>0, <2>1, <3>1
    <3>3. options.overlap # "allow" => fires \ {f} = {}
      <4>1. ASSUME options.overlap # "allow" PROVE Cardinality(fires \ {f}) = 0
        BY <1>0, <2>1, <4>1 DEF Counting
      <4> QED
        BY <2>1, <4>1, FS_EmptySet
    <3> QED
      BY <3>1, <3>2, <3>3, OneMore
  <2>3. CASE ~pending
    <3>1. fires' = fires \ {f} /\ activeRuns' = activeRuns - 1 /\ used' = used
      BY <1>4, <2>3 DEF FireEnds
    <3>2. (options.overlap # "allow" => activeRuns <= 1)'
      BY <1>0, <3>1 DEF Counting
    <3>3. Counting'
      BY <2>1, <3>1, <3>2 DEF Counting
    <3> QED
      BY <1>0, <2>1, <3>1, <3>3 DEF TypeOK
  <2> QED
    BY <2>2, <2>3
<1> QED
  BY <1>1, <1>2, <1>3, <1>4 DEF FiresStep

LEMMA CountingKept ==
    ASSUME TypeOK, Counting, [Next]_vars
    PROVE  Counting' /\ activeRuns' \in Nat /\ used' \in Nat /\ fires' \in SUBSET Fire
BY StepOnFires, FiresCounted

-----------------------------------------------------------------------------
(* Types *)

\* The variables whose types follow from the assignments alone
Flags ==
    /\ options \in [overlap : Overlaps, lock : Locks, boot : Boots]
    /\ running \in BOOLEAN /\ registered \in BOOLEAN /\ paused \in BOOLEAN
    /\ timer \in BOOLEAN
    /\ pending \in BOOLEAN
    /\ catching \in BOOLEAN
    /\ draining \in BOOLEAN
    /\ quiet \in BOOLEAN /\ behind \in BOOLEAN
    /\ timer => running /\ registered /\ ~paused

Numbers ==
    /\ waiters \in Nat
    /\ stopEpoch \in Nat
    /\ queued \in Nat /\ calls \in Nat

LEMMA FireOrNotFlags ==
    ASSUME Flags, NEW scheduled, FireOrNot(scheduled)
    PROVE  pending' \in BOOLEAN
BY DEF Flags, FireOrNot, FireNow, FireQueued, FireSkipped

LEMMA FireEndsFlags ==
    ASSUME Flags, NEW f, FireEnds(f)
    PROVE  /\ pending' \in BOOLEAN
           /\ timer' \in BOOLEAN /\ behind' \in BOOLEAN
           /\ timer' => timer \/ MayArm(running, paused)
BY DEF Flags, FireEnds, Arm, MayArm

LEMMA FlagsKept ==
    ASSUME TypeOK, [Next]_vars
    PROVE  Flags'
<1>0. Flags
  BY DEF TypeOK, Flags
<1>1. CASE TimerFires
  BY <1>0, <1>1, FireOrNotFlags, Zenon DEF TimerFires, Flags, Blocked
<1>2. CASE Trigger \/ CatchUp
  <2>1. /\ UNCHANGED <<options, stateVars, timer, draining>>
        /\ quiet' \in BOOLEAN /\ catching' \in BOOLEAN
    BY <1>0, <1>2, Zenon DEF Trigger, CatchUp, Flags
  <2>2. pending' \in BOOLEAN /\ behind' \in BOOLEAN
    BY <1>0, <1>2, FireOrNotFlags, Zenon DEF Trigger, CatchUp, ManualFire, Flags
  <2> QED
    BY <1>0, <2>1, <2>2, Zenon DEF Flags
<1>3. CASE Start
  <2>1. /\ UNCHANGED <<options, registered, paused, draining>>
        /\ running' = TRUE /\ quiet' = FALSE
    BY <1>3 DEF Start
  <2>2. pending' \in BOOLEAN
    BY <1>0, <1>3, FireOrNotFlags DEF Start, Flags, FireSkipped
  <2>3. timer' \in BOOLEAN /\ behind' \in BOOLEAN /\ catching' \in BOOLEAN
    BY <1>0, <1>3, Zenon DEF Start, Flags
  <2>4. timer' => running' /\ registered' /\ ~paused'
    <3>1. CASE registered /\ ~paused
      BY <2>1, <3>1
    <3>2. CASE ~(registered /\ ~paused)
      <4>1. UNCHANGED timer /\ ~timer
        BY <1>0, <1>3, <3>2, Zenon DEF Start, Flags
      <4> QED
        BY <4>1
    <3> QED
      BY <3>1, <3>2
  <2> QED
    BY <1>0, <2>1, <2>2, <2>3, <2>4, Zenon DEF Flags
<1>4. CASE \E graceful \in BOOLEAN : Stop(graceful)
  BY <1>0, <1>4 DEF Stop, StopEnds, QuietAfter, Flags
<1>5. CASE \E deadline \in BOOLEAN : Drained(deadline)
  <2>1. UNCHANGED <<options, stateVars, timer, catching, behind>> /\ draining' = FALSE
    BY <1>5 DEF Drained
  <2>2. pending' \in BOOLEAN /\ quiet' \in BOOLEAN
    BY <1>0, <1>5, Zenon DEF Drained, StopEnds, QuietAfter, Flags
  <2> QED
    BY <1>0, <2>1, <2>2, Zenon DEF Flags
<1>6. CASE Pause \/ Resume \/ Reschedule \/ Remove
  <2>1. CASE Pause \/ Remove
    <3>1. UNCHANGED <<options, running, catching, draining, quiet, behind>> /\ timer' = FALSE
      BY <2>1, Zenon DEF Pause, Remove
    <3>2. paused' \in BOOLEAN /\ registered' \in BOOLEAN /\ pending' \in BOOLEAN
      BY <1>0, <2>1, Zenon DEF Pause, Remove, Flags
    <3> QED
      BY <1>0, <3>1, <3>2, Zenon DEF Flags
  <2>2. CASE Resume \/ Reschedule
    <3>1. UNCHANGED <<options, running, registered, pending, catching, draining, quiet>>
      BY <2>2, Zenon DEF Resume, Reschedule
    <3>2. (paused' = FALSE \/ UNCHANGED paused) /\ Arm(running, paused')
      BY <2>2, Zenon DEF Resume, Reschedule
    <3>3. paused' \in BOOLEAN /\ timer' \in BOOLEAN /\ behind' \in BOOLEAN
      BY <1>0, <3>2, Zenon DEF Arm, MayArm, Flags
    <3>4. timer' => running' /\ registered' /\ ~paused'
      BY <1>0, <3>1, <3>2, Zenon DEF Arm, MayArm, Flags
    <3> QED
      BY <1>0, <3>1, <3>3, <3>4, Zenon DEF Flags
  <2> QED
    BY <1>6, <2>1, <2>2
<1>7. ASSUME NEW f \in fires,
             \/ LockGranted(f) \/ LockDenied(f) \/ TaskSucceeds(f)
             \/ TaskFails(f) \/ RetryOrNot(f)
      PROVE  Flags'
  <2>1. UNCHANGED fireRest
    BY <1>7 DEF LockGranted, LockDenied, TaskSucceeds, TaskFails, RetryOrNot
  <2>2. CASE FireEnds(f)
    BY <1>0, <2>1, <2>2, FireEndsFlags DEF Flags, MayArm
  <2>3. CASE ~FireEnds(f)
    <3>1. UNCHANGED <<timer, pending, behind>>
      BY <1>7, <2>3 DEF LockGranted, LockDenied, TaskSucceeds, TaskFails, RetryOrNot
    <3> QED
      BY <1>0, <2>1, <3>1 DEF Flags
  <2> QED
    BY <2>2, <2>3
<1>8. CASE UNCHANGED vars
  BY <1>0, <1>8 DEF vars, Flags
<1> QED
  BY <1>1, <1>2, <1>3, <1>4, <1>5, <1>6, <1>7, <1>8 DEF Next

\* What a step can do to the queue and to the counters
LEMMA QueueSteps ==
    ASSUME [Next]_vars
    PROVE  \/ UNCHANGED queueVars
           \/ waiters' = 0
           \/ waiters' = waiters + 1 /\ pending'
<1>1. ASSUME NEW scheduled, FireOrNot(scheduled)
      PROVE  UNCHANGED queueVars \/ (waiters' = waiters + 1 /\ pending')
  BY <1>1, Zenon DEF FireOrNot, FireNow, FireQueued, FireSkipped
<1>2. CASE TimerFires \/ Trigger \/ CatchUp
  BY <1>1, <1>2, Zenon DEF TimerFires, Trigger, CatchUp, ManualFire
<1>3. CASE Start
  BY <1>1, <1>3, Zenon DEF Start, FireSkipped
<1>4. CASE \E graceful \in BOOLEAN : Stop(graceful)
  BY <1>4, Zenon DEF Stop, StopEnds
<1>5. CASE \E deadline \in BOOLEAN : Drained(deadline)
  BY <1>5, Zenon DEF Drained, StopEnds
<1>6. CASE Pause \/ Resume \/ Reschedule \/ Remove
  BY <1>6, Zenon DEF Pause, Resume, Reschedule, Remove
<1>7. ASSUME NEW f \in fires,
             \/ LockGranted(f) \/ LockDenied(f) \/ TaskSucceeds(f)
             \/ TaskFails(f) \/ RetryOrNot(f)
      PROVE  UNCHANGED queueVars \/ waiters' = 0
  BY <1>7, Zenon DEF LockGranted, LockDenied, TaskSucceeds, TaskFails, RetryOrNot, FireEnds
<1>8. CASE UNCHANGED vars
  BY <1>8 DEF vars
<1> QED
  BY <1>2, <1>3, <1>4, <1>5, <1>6, <1>7, <1>8 DEF Next

Growing(n) == n' = n \/ n' = n + 1

LEMMA CountersGrow ==
    ASSUME [Next]_vars
    PROVE  Growing(stopEpoch) /\ Growing(queued) /\ Growing(calls)
<1>1. ASSUME NEW scheduled, FireOrNot(scheduled)
      PROVE  Growing(queued)
  BY <1>1, Zenon DEF FireOrNot, FireNow, FireQueued, FireSkipped, Growing
<1>2. CASE TimerFires \/ Trigger \/ CatchUp
  BY <1>1, <1>2, Zenon DEF TimerFires, Trigger, CatchUp, ManualFire, Growing
<1>3. CASE Start
  BY <1>1, <1>3, Zenon DEF Start, FireSkipped, Growing
<1>4. CASE \E graceful \in BOOLEAN : Stop(graceful)
  BY <1>4, Zenon DEF Stop, StopEnds, Growing
<1>5. CASE \E deadline \in BOOLEAN : Drained(deadline)
  BY <1>5, Zenon DEF Drained, StopEnds, Growing
<1>6. CASE Pause \/ Resume \/ Reschedule \/ Remove
  BY <1>6, Zenon DEF Pause, Resume, Reschedule, Remove, Growing
<1>7. ASSUME NEW f \in fires,
             \/ LockGranted(f) \/ LockDenied(f) \/ TaskSucceeds(f)
             \/ TaskFails(f) \/ RetryOrNot(f)
      PROVE  UNCHANGED fireRest
  BY <1>7, Zenon DEF LockGranted, LockDenied, TaskSucceeds, TaskFails, RetryOrNot
<1>8. CASE UNCHANGED vars
  BY <1>8 DEF vars, Growing
<1> QED
  BY <1>2, <1>3, <1>4, <1>5, <1>6, <1>7, <1>8 DEF Next, Growing

LEMMA NumbersKept ==
    ASSUME TypeOK, [Next]_vars
    PROVE  Numbers' /\ (waiters > 0 => pending)'
<1>1. Numbers /\ (waiters > 0 => pending)
  BY DEF TypeOK, Numbers
<1>2. stopEpoch' \in Nat /\ queued' \in Nat /\ calls' \in Nat
  BY <1>1, CountersGrow DEF Numbers, Growing
<1>3. waiters' \in Nat
  BY <1>1, QueueSteps DEF Numbers
<1>4. waiters' > 0 => pending'
  BY <1>1, QueueSteps DEF Numbers
<1> QED
  BY <1>2, <1>3, <1>4 DEF Numbers

LEMMA TypesKept ==
    ASSUME TypeOK, Counting, [Next]_vars
    PROVE  TypeOK'
BY FlagsKept, NumbersKept, CountingKept DEF TypeOK, Flags, Numbers
-----------------------------------------------------------------------------
(* The timer *)

\* A fire keeps being scheduled while it goes on.
LEMMA MovesScheduled ==
    ASSUME NEW f \in fires, NEW g, Moves(f, g)
    PROVE  (\E h \in fires : h.scheduled) => (\E h \in fires' : h.scheduled)
BY DEF Moves

LEMMA FireNowScheduled ==
    ASSUME NEW scheduled \in BOOLEAN, FireNow(scheduled)
    PROVE  /\ (\E h \in fires : h.scheduled) => (\E h \in fires' : h.scheduled)
           /\ scheduled => \E h \in fires' : h.scheduled
<1> DEFINE f == [id |-> used, scheduled |-> scheduled, attempt |-> 1,
                 pc |-> IF options.lock THEN "lock" ELSE "task", epoch |-> stopEpoch]
<1>1. fires' = fires \cup {f}
  BY DEF FireNow, Admitted
<1>2. f.scheduled = scheduled
  OBVIOUS
<1> HIDE DEF f
<1> QED
  BY <1>1, <1>2

\* A fire that the timer did not cause
LEMMA ManualScheduled ==
    ASSUME FireOrNot(FALSE)
    PROVE  (\E h \in fires : h.scheduled) => (\E h \in fires' : h.scheduled)
BY FireNowScheduled, Zenon DEF FireOrNot, FireQueued, FireSkipped

LEMMA BehindGrows ==
    ASSUME ManualFire
    PROVE  /\ behind => behind'
           /\ Blocked /\ options.overlap = "wait" /\ ~timer => behind'
<1> DEFINE queues == Blocked /\ options.overlap = "wait" /\ ~timer
<1>1. behind' = (behind \/ queues)
  BY DEF ManualFire
<1>2. CASE behind \/ queues
  BY <1>1, <1>2
<1>3. CASE ~(behind \/ queues)
  BY <1>3
<1> QED
  BY <1>2, <1>3

LEMMA FireEndsLit ==
    ASSUME TypeOK, QueueLit, NeverDark, NEW f \in fires, FireEnds(f),
           UNCHANGED <<running, registered, paused>>
    PROVE  NeverDark'
<1>1. CASE pending
  BY <1>1 DEF FireEnds, QueueLit, NeverDark
<1>2. CASE ~pending /\ f.scheduled
  BY <1>2 DEF FireEnds, Arm, MayArm, NeverDark
<1>3. CASE ~pending /\ ~f.scheduled
  <2>1. fires' = fires \ {f} /\ UNCHANGED <<timer, behind>>
    BY <1>3 DEF FireEnds
  <2> QED
    BY <1>3, <2>1 DEF NeverDark
<1> QED
  BY <1>1, <1>2, <1>3

LEMMA NeverDarkKept ==
    ASSUME TypeOK, Counting, QueueLit, NeverDark, [Next]_vars
    PROVE  NeverDark'
<1>1. CASE TimerFires
  <2>1. CASE Blocked
    BY <1>1, <2>1 DEF TimerFires, NeverDark
  <2>2. CASE ~Blocked
    BY <1>1, <2>2, FireNowScheduled DEF TimerFires, FireOrNot, NeverDark
  <2> QED
    BY <2>1, <2>2
<1>2. CASE Trigger \/ CatchUp
  <2>1. UNCHANGED <<running, registered, paused, timer>>
    BY <1>2, Zenon DEF Trigger, CatchUp
  <2>2. behind => behind'
    BY <1>2, BehindGrows DEF Trigger, CatchUp
  <2>3. FireOrNot(FALSE) \/ UNCHANGED fires
    BY <1>2, Zenon DEF Trigger, CatchUp, ManualFire
  <2> QED
    BY <2>1, <2>2, <2>3, ManualScheduled, Zenon DEF NeverDark
<1>3. CASE Start
  BY <1>3 DEF Start, NeverDark
<1>4. CASE \E graceful \in BOOLEAN : Stop(graceful)
  BY <1>4 DEF Stop, NeverDark
<1>5. CASE \E deadline \in BOOLEAN : Drained(deadline)
  BY <1>5 DEF Drained, NeverDark
<1>6. CASE Pause \/ Resume \/ Reschedule \/ Remove
  BY <1>6 DEF Pause, Resume, Reschedule, Remove, Arm, MayArm, NeverDark
<1>7. ASSUME NEW f \in fires,
             \/ LockGranted(f) \/ LockDenied(f) \/ TaskSucceeds(f)
             \/ TaskFails(f) \/ RetryOrNot(f)
      PROVE  NeverDark'
  <2>1. UNCHANGED <<running, registered, paused>>
    BY <1>7 DEF LockGranted, LockDenied, TaskSucceeds, TaskFails, RetryOrNot
  <2>2. CASE FireEnds(f)
    BY <2>1, <2>2, FireEndsLit
  <2>3. CASE ~FireEnds(f)
    <3>1. UNCHANGED <<timer, behind>>
      BY <1>7, <2>3 DEF LockGranted, LockDenied, TaskSucceeds, TaskFails, RetryOrNot
    <3>2. \E g \in Fire : Moves(f, g)
      BY <1>7, <2>3, Going DEF LockDenied, TaskSucceeds
    <3> QED
      BY <2>1, <3>1, <3>2, MovesScheduled DEF NeverDark
  <2> QED
    BY <2>2, <2>3
<1>8. CASE UNCHANGED vars
  BY <1>8 DEF vars, NeverDark
<1> QED
  BY <1>1, <1>2, <1>3, <1>4, <1>5, <1>6, <1>7, <1>8 DEF Next

LEMMA QueueLitKept ==
    ASSUME TypeOK, Counting, QueueLit, [Next]_vars
    PROVE  QueueLit'
<1>0. activeRuns \in Nat
  BY DEF TypeOK
<1>1. ASSUME NEW scheduled \in BOOLEAN, FireOrNot(scheduled), options' = options
      PROVE  (pending => activeRuns > 0 /\ options.overlap # "allow")'
  BY <1>0, <1>1 DEF FireOrNot, FireNow, FireQueued, FireSkipped, Blocked, QueueLit
<1>2. CASE TimerFires
  <2>1. CASE Blocked
    BY <1>1, <1>2, <2>1 DEF TimerFires, QueueLit
  <2>2. CASE ~Blocked
    <3>1. ~pending
      BY <1>0, <2>2 DEF Blocked, QueueLit
    <3>2. ~pending'
      BY <1>2, <2>2, <3>1 DEF TimerFires, FireOrNot, FireNow
    <3> QED
      BY <3>2 DEF QueueLit
  <2> QED
    BY <2>1, <2>2
<1>3. CASE Trigger \/ CatchUp
  <2>1. /\ UNCHANGED <<options, running, registered, paused, timer>>
        /\ ManualFire \/ UNCHANGED <<pending, activeRuns, behind>>
    BY <1>3 DEF Trigger, CatchUp
  <2>2. CASE ManualFire
    <3>1. (pending => activeRuns > 0 /\ options.overlap # "allow")'
      BY <1>1, <2>1, <2>2 DEF ManualFire
    <3>2. (pending' => pending \/ timer \/ behind') /\ (behind => behind')
      <4>1. \/ UNCHANGED pending
            \/ Blocked /\ options.overlap = "wait"
        BY <2>2, Zenon DEF ManualFire, FireOrNot, FireNow, FireSkipped
      <4> QED
        BY <2>2, <4>1, BehindGrows
    <3> QED
      BY <2>1, <3>1, <3>2, Zenon DEF QueueLit
  <2> QED
    BY <2>1, <2>2 DEF QueueLit
<1>4. CASE Start
  <2>1. (pending => activeRuns > 0 /\ options.overlap # "allow")'
    BY <1>1, <1>4 DEF Start, FireSkipped, QueueLit
  <2>2. (pending /\ running /\ registered /\ ~paused => timer \/ behind)'
    BY <1>4 DEF Start
  <2> QED
    BY <2>1, <2>2 DEF QueueLit
<1>5. CASE \E graceful \in BOOLEAN : Stop(graceful)
  <2>1. /\ UNCHANGED <<options, activeRuns>> /\ ~running' /\ (pending' => pending)
    BY <1>5, Zenon DEF Stop, StopEnds
  <2> QED
    BY <2>1 DEF QueueLit
<1>6. CASE \E deadline \in BOOLEAN : Drained(deadline)
  <2>1. /\ UNCHANGED <<options, activeRuns, running, registered, paused, timer, behind>>
        /\ pending' => pending
    BY <1>6, Zenon DEF Drained, StopEnds
  <2> QED
    BY <2>1 DEF QueueLit
<1>7. CASE Pause \/ Resume \/ Reschedule \/ Remove
  <2>1. UNCHANGED <<options, activeRuns>> /\ (UNCHANGED pending \/ ~pending')
    BY <1>7, Zenon DEF Pause, Resume, Reschedule, Remove
  <2>2. CASE Pause \/ Remove
    BY <2>1, <2>2 DEF Pause, Remove, QueueLit
  <2>3. CASE Resume \/ Reschedule
    <3>1. UNCHANGED <<running, registered>> /\ Arm(running, paused')
      BY <2>3, Zenon DEF Resume, Reschedule
    <3>2. running' /\ registered' /\ ~paused' => timer'
      BY <3>1 DEF Arm, MayArm
    <3> QED
      BY <2>1, <3>2 DEF QueueLit
  <2> QED
    BY <1>7, <2>2, <2>3
<1>8. ASSUME NEW f \in fires,
             \/ LockGranted(f) \/ LockDenied(f) \/ TaskSucceeds(f)
             \/ TaskFails(f) \/ RetryOrNot(f)
      PROVE  QueueLit'
  <2>1. UNCHANGED <<options, running, registered, paused>>
    BY <1>8 DEF LockGranted, LockDenied, TaskSucceeds, TaskFails, RetryOrNot
  <2>2. CASE FireEnds(f)
    <3>1. ~pending'
      BY <2>2 DEF FireEnds
    <3> QED
      BY <3>1 DEF QueueLit
  <2>3. CASE ~FireEnds(f)
    <3>1. UNCHANGED <<pending, activeRuns, timer, behind>>
      BY <1>8, <2>3 DEF LockGranted, LockDenied, TaskSucceeds, TaskFails, RetryOrNot
    <3> QED
      BY <2>1, <3>1 DEF QueueLit
  <2> QED
    BY <2>2, <2>3
<1>9. CASE UNCHANGED vars
  BY <1>9 DEF vars, QueueLit
<1> QED
  BY <1>2, <1>3, <1>4, <1>5, <1>6, <1>7, <1>8, <1>9 DEF Next

-----------------------------------------------------------------------------
(* stop() *)

LEMMA StopEndsHush ==
    ASSUME StopEnds(running'), UNCHANGED catching, registered \in BOOLEAN
    PROVE  Hush'
<1>1. quiet' = QuietAfter(running')
  BY DEF StopEnds
<1>2. CASE QuietAfter(running')
  <2>1. ~running' /\ ~catching /\ (registered \/ ~pending)
    BY <1>2 DEF QuietAfter
  <2>2. ~pending'
    BY <2>1, Zenon DEF StopEnds
  <2> QED
    BY <2>1, <2>2 DEF Hush
<1>3. CASE ~QuietAfter(running')
  BY <1>1, <1>3 DEF Hush
<1> QED
  BY <1>2, <1>3

LEMMA HushKept ==
    ASSUME TypeOK, Hush, [Next]_vars
    PROVE  Hush'
<1>1. CASE TimerFires
  BY <1>1 DEF TimerFires, TypeOK, Hush
<1>2. CASE Trigger
  BY <1>2 DEF Trigger, Hush
<1>3. CASE CatchUp
  BY <1>3 DEF CatchUp, Hush
<1>4. CASE Start
  BY <1>4 DEF Start, Hush
<1>5. CASE \E graceful \in BOOLEAN : Stop(graceful)
  <2>1. running' = FALSE /\ UNCHANGED catching
    BY <1>5 DEF Stop
  <2>2. UNCHANGED <<pending, quiet>> \/ StopEnds(FALSE)
    BY <1>5, Zenon DEF Stop
  <2> QED
    BY <2>1, <2>2, StopEndsHush DEF Hush, TypeOK
<1>6. CASE \E deadline \in BOOLEAN : Drained(deadline)
  <2>1. UNCHANGED <<running, catching>> /\ StopEnds(running)
    BY <1>6 DEF Drained
  <2> QED
    BY <2>1, StopEndsHush DEF TypeOK
<1>7. CASE Pause \/ Resume \/ Reschedule \/ Remove
  BY <1>7, Zenon DEF Pause, Resume, Reschedule, Remove, Hush
<1>8. ASSUME NEW f \in fires,
             \/ LockGranted(f) \/ LockDenied(f) \/ TaskSucceeds(f)
             \/ TaskFails(f) \/ RetryOrNot(f)
      PROVE  Hush'
  BY <1>8, Zenon
     DEF LockGranted, LockDenied, TaskSucceeds, TaskFails, RetryOrNot, FireEnds, Hush
<1>9. CASE UNCHANGED vars
  BY <1>9 DEF vars, Hush
<1> QED
  BY <1>1, <1>2, <1>3, <1>4, <1>5, <1>6, <1>7, <1>8, <1>9 DEF Next

LEMMA QuietStep ==
    ASSUME TypeOK, Hush, [Next]_vars, quiet, quiet', NEW f \in Begins
    PROVE  \E g \in fires : g.id = f.id /\ (g.pc = "lock" \/ g.epoch = stopEpoch)
<1>1. CASE UNCHANGED fires
  BY <1>1 DEF Begins
<1>2. CASE TimerFires \/ Trigger \/ CatchUp \/ Start
  BY <1>2 DEF TimerFires, Trigger, CatchUp, Start, TypeOK, Hush
<1>3. ASSUME NEW h \in fires,
             \/ LockGranted(h) \/ LockDenied(h) \/ TaskSucceeds(h)
             \/ TaskFails(h) \/ RetryOrNot(h)
      PROVE  \E g \in fires : g.id = f.id /\ (g.pc = "lock" \/ g.epoch = stopEpoch)
  <2>1. h \in Fire
    BY DEF TypeOK
  <2>2. CASE FireEnds(h)
    BY <2>2 DEF FireEnds, Hush, Begins
  <2>3. CASE LockGranted(h)
    BY <2>1, <2>3 DEF LockGranted, Begins, Fire
  <2>4. CASE TaskFails(h) /\ ~FireEnds(h)
    BY <2>1, <2>4 DEF TaskFails, Goto, Begins, Fire
  <2>5. CASE RetryOrNot(h) /\ ~FireEnds(h)
    BY <2>1, <2>5 DEF RetryOrNot, Begins, Fire
  <2> QED
    BY <1>3, <2>2, <2>3, <2>4, <2>5 DEF LockDenied, TaskSucceeds
<1>4. CASE \/ \E graceful \in BOOLEAN : Stop(graceful)
           \/ \E deadline \in BOOLEAN : Drained(deadline)
           \/ Pause \/ Resume \/ Reschedule \/ Remove
           \/ UNCHANGED vars
  BY <1>1, <1>4, Zenon DEF Stop, Drained, Pause, Resume, Reschedule, Remove, vars
<1> QED
  BY <1>2, <1>3, <1>4 DEF Next

-----------------------------------------------------------------------------
LEMMA InitHolds ==
    ASSUME Init
    PROVE  IInv
<1>1. TypeOK
  <2>1. Flags
    BY Zenon DEF Init, Flags
  <2>2. Numbers /\ activeRuns \in Nat /\ used \in Nat /\ fires \in SUBSET Fire /\ waiters = 0
    BY DEF Init, Numbers
  <2> QED
    BY <2>1, <2>2 DEF TypeOK, Flags, Numbers
<1>2. Counting
  BY FS_EmptySet DEF Init, Counting
<1>3. QueueLit /\ NeverDark /\ Hush
  BY DEF Init, QueueLit, NeverDark, Hush
<1> QED
  BY <1>1, <1>2, <1>3 DEF IInv

LEMMA StepHolds ==
    ASSUME IInv, [Next]_vars
    PROVE  IInv'
BY TypesKept, CountingKept, QueueLitKept, NeverDarkKept, HushKept DEF IInv

\* The inductive invariant holds of every behaviour of the scheduler.
THEOREM Inductive == Spec => []IInv
BY InitHolds, StepHolds, PTL DEF Spec

\* Every variable of the job and of its fires keeps its type, and an armed
\* timer belongs to a job that is registered, running and not paused.
THEOREM WellTyped == Spec => []TypeOK
<1>1. IInv => TypeOK
  BY DEF IInv
<1> QED
  BY <1>1, Inductive, PTL

\* The timer of #fire() does not go dark, but for the queued manual run that
\* behind tells of.
THEOREM TimerStaysLit == Spec => []NeverDark
<1>1. IInv => NeverDark
  BY DEF IInv
<1> QED
  BY <1>1, Inductive, PTL

\* The overlap test of #fire() keeps runs apart, across lock, retries and
\* queued runs.
THEOREM RunsApart == Spec => []OneRunAtATime
<1>1. IInv => OneRunAtATime
  BY DEF IInv, Counting, OneRunAtATime
<1> QED
  BY <1>1, Inductive, PTL

\* After stop() has resolved, only a fire that awaited the lock begins a run.
THEOREM StopIsFinal == Spec => StopIsQuiet
<1>1. IInv /\ [Next]_vars =>
         [quiet /\ quiet' =>
            \A f \in Begins : \E g \in fires :
               g.id = f.id /\ (g.pc = "lock" \/ g.epoch = stopEpoch)]_vars
  BY QuietStep DEF IInv
<1> QED
  BY <1>1, Inductive, PTL DEF Spec, StopIsQuiet
=============================================================================
