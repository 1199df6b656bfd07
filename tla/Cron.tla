-------------------------------- MODULE Cron --------------------------------
(***************************************************************************)
(* One job of the Cron class of packages/cron/src/scheduler.ts: its timer, *)
(* the fires of the timer, of trigger() and of start(), the overlap policy,*)
(* the distributed lock, retries, and stop() with its drain.               *)
(*                                                                         *)
(* A fire is one call of #fire(), from the lock it awaits to the end of    *)
(* #runWithRetries().  When the timer goes off is left to the environment: *)
(* expressions, intervals and jitter only choose the moment.               *)
(***************************************************************************)
EXTENDS Naturals, FiniteSets

CONSTANTS
    Overlaps,      \* the overlap policies to be explored
    Locks,         \* whether there is an acquireLock, likewise
    Boots,         \* what start() does besides arming, likewise
    Retries,
    MaxFires,      \* bound: fires that were not queued first
    MaxQueued,     \* bound: fires told to wait
    MaxStops,      \* bound: stop() calls
    MaxCalls       \* bound: pause, resume, reschedule and remove calls

ASSUME CronAssumption ==
    /\ Overlaps \subseteq {"skip", "wait", "allow"}
    /\ Locks \subseteq BOOLEAN
    /\ Boots \subseteq {"nothing", "runOnStart", "catchUp"}
    /\ Retries \in Nat
    /\ MaxFires \in Nat /\ MaxQueued \in Nat /\ MaxStops \in Nat /\ MaxCalls \in Nat

VARIABLES
    options,       \* the overlap policy, the lock, and what start() does
    running, registered, paused,
    timer,         \* the timer of the job is armed
    activeRuns,
    pending,       \* a run is queued behind the current one
    waiters,       \* the queued callers that have no answer yet
    catching,      \* a #catchUp() awaits the store
    fires,         \* the fires in flight
    stopEpoch,
    draining,      \* a stop() awaits the end of the runs
    used, queued, calls,
    quiet,         \* history: stop() has resolved quietly (QuietAfter), and
                   \* nothing was started since
    behind         \* history: a manual run was queued while the timer was off

stateVars == <<running, registered, paused>>
queueVars == <<pending, waiters>>
vars == <<options, running, registered, paused, timer, activeRuns, pending, waiters,
          catching, fires, stopEpoch, draining, used, queued, calls, quiet, behind>>

(* scheduled: the fire came from the timer, and re-arms it at its end      *)
Fire == [id : Nat, scheduled : BOOLEAN, pc : {"lock", "task", "backoff"},
         attempt : 1..(Retries + 1), epoch : Nat]

TypeOK ==
    /\ options \in [overlap : Overlaps, lock : Locks, boot : Boots]
    /\ running \in BOOLEAN /\ registered \in BOOLEAN /\ paused \in BOOLEAN
    /\ timer \in BOOLEAN
    /\ activeRuns \in Nat
    /\ pending \in BOOLEAN
    /\ waiters \in Nat
    /\ catching \in BOOLEAN
    /\ fires \in SUBSET Fire
    /\ stopEpoch \in Nat
    /\ draining \in BOOLEAN
    /\ used \in Nat /\ queued \in Nat /\ calls \in Nat
    /\ quiet \in BOOLEAN /\ behind \in BOOLEAN
    /\ timer => running /\ registered /\ ~paused
    /\ waiters > 0 => pending

Init ==
    /\ options \in [overlap : Overlaps, lock : Locks, boot : Boots]
    /\ running = FALSE /\ registered = TRUE /\ paused = FALSE
    /\ timer = FALSE
    /\ activeRuns = 0
    /\ pending = FALSE /\ waiters = 0
    /\ catching = FALSE
    /\ fires = {}
    /\ stopEpoch = 0
    /\ draining = FALSE
    /\ used = 0 /\ queued = 0 /\ calls = 0
    /\ quiet = FALSE /\ behind = FALSE

---------------------------------------------------------------------------
(* #arm(), in a state with these flags *)
MayArm(isRunning, isPaused) == isRunning /\ ~isPaused /\ registered

(* The timer is armed, which ends what a queued manual run had caused. *)
Arm(isRunning, isPaused) ==
    /\ timer' = (timer \/ MayArm(isRunning, isPaused))
    /\ behind' = (behind /\ ~MayArm(isRunning, isPaused))

(* A fire that is admitted: it counts before it awaits the lock. *)
Admitted(others, scheduled) ==
    others \cup {[id |-> used, scheduled |-> scheduled, attempt |-> 1,
                  pc |-> IF options.lock THEN "lock" ELSE "task",
                  epoch |-> stopEpoch]}

(* Mutant: a fire counts only once it has the lock. *)
BlockedByRuns == options.overlap # "allow" /\ \E f \in fires : f.pc # "lock"

Blocked == options.overlap # "allow" /\ activeRuns > 0

(* #fire() *)
FireNow(scheduled) ==
    /\ used < MaxFires
    /\ used' = used + 1
    /\ fires' = Admitted(fires, scheduled)
    /\ activeRuns' = activeRuns + 1
    /\ UNCHANGED <<queueVars, queued>>

FireQueued ==
    /\ queued < MaxQueued
    /\ queued' = queued + 1
    /\ pending' = TRUE
    /\ waiters' = waiters + 1
    /\ UNCHANGED <<used, fires, activeRuns>>

FireSkipped == UNCHANGED <<used, fires, activeRuns, queueVars, queued>>

FireOrNot(scheduled) ==
    \/ ~Blocked /\ FireNow(scheduled)
    \/ Blocked /\ options.overlap = "wait" /\ FireQueued
    \/ Blocked /\ options.overlap = "skip" /\ FireSkipped

(* The timer goes off.  A fire that is queued or skipped re-arms it.       *)
TimerFires ==
    /\ timer
    /\ FireOrNot(TRUE)
    /\ timer' = Blocked
    /\ behind' = (behind /\ ~Blocked)
    /\ UNCHANGED <<options, stateVars, catching, stopEpoch, draining, calls, quiet>>

(* A fire of trigger(), runOnStart or catch-up leaves the timer alone.     *)
ManualFire ==
    /\ FireOrNot(FALSE)
    /\ behind' = (behind \/ (Blocked /\ options.overlap = "wait" /\ ~timer))

Trigger ==
    /\ registered
    /\ ManualFire
    /\ quiet' = FALSE
    /\ UNCHANGED <<options, stateVars, timer, catching, stopEpoch, draining, calls>>

(* #catchUp() hears from the store: the job was due, or not. *)
CatchUp ==
    /\ catching
    /\ catching' = FALSE
    /\ \/ ManualFire
       \/ UNCHANGED <<used, fires, activeRuns, queueVars, queued, behind>>
    /\ UNCHANGED <<options, stateVars, timer, stopEpoch, draining, calls, quiet>>

---------------------------------------------------------------------------
(* A fire is over: the run queued behind it is fired, as a manual one; if  *)
(* there is none, a fire of the timer re-arms it.                          *)
FireEnds(f) ==
    LET others == fires \ {f} IN
    IF pending
    THEN /\ used' = used + 1
         /\ fires' = Admitted(others, FALSE)
         /\ pending' = FALSE /\ waiters' = 0
         /\ UNCHANGED <<activeRuns, timer, behind>>
    ELSE /\ fires' = others
         /\ activeRuns' = activeRuns - 1
         /\ IF f.scheduled THEN Arm(running, paused) ELSE UNCHANGED <<timer, behind>>
         /\ UNCHANGED <<used, queueVars>>

Goto(f, pc) == (fires \ {f}) \cup {[f EXCEPT !.pc = pc]}

fireRest == <<options, running, registered, paused, catching, stopEpoch, draining, queued,
              calls, quiet>>

LockGranted(f) ==
    /\ f.pc = "lock"
    /\ fires' = (fires \ {f}) \cup {[f EXCEPT !.pc = "task", !.epoch = stopEpoch]}
    /\ UNCHANGED <<fireRest, used, activeRuns, timer, queueVars, behind>>

(* Mutant: a fire that is denied the lock re-arms nothing. *)
LockDeniedDark(f) ==
    /\ f.pc = "lock"
    /\ fires' = fires \ {f}
    /\ activeRuns' = activeRuns - 1
    /\ UNCHANGED <<fireRest, used, timer, queueVars, behind>>

(* acquireLock() answers false or throws. *)
LockDenied(f) == f.pc = "lock" /\ FireEnds(f) /\ UNCHANGED fireRest

TaskSucceeds(f) == f.pc = "task" /\ FireEnds(f) /\ UNCHANGED fireRest

(* The task throws, times out or gives way to the abort of stop(). *)
TaskFails(f) ==
    /\ f.pc = "task"
    /\ IF f.attempt <= Retries /\ f.epoch = stopEpoch
       THEN /\ fires' = Goto(f, "backoff")
            /\ UNCHANGED <<used, activeRuns, timer, queueVars, behind>>
       ELSE FireEnds(f)
    /\ UNCHANGED fireRest

(* Mutant: the end of the retry delay does not look at stopEpoch. *)
RetryAnyway(f) ==
    /\ f.pc = "backoff"
    /\ fires' = (fires \ {f}) \cup {[f EXCEPT !.pc = "task", !.attempt = @ + 1]}
    /\ UNCHANGED <<fireRest, used, activeRuns, timer, queueVars, behind>>

(* The retry delay is over: stop() may have been there. *)
RetryOrNot(f) ==
    /\ f.pc = "backoff"
    /\ IF f.epoch = stopEpoch
       THEN /\ fires' = (fires \ {f}) \cup {[f EXCEPT !.pc = "task", !.attempt = @ + 1]}
            /\ UNCHANGED <<used, activeRuns, timer, queueVars, behind>>
       ELSE FireEnds(f)
    /\ UNCHANGED fireRest

---------------------------------------------------------------------------
(* start() *)
Start ==
    /\ ~running
    /\ running' = TRUE
    /\ quiet' = FALSE
    /\ IF registered /\ ~paused
       THEN /\ timer' = TRUE
            /\ behind' = FALSE
            /\ catching' = (catching \/ options.boot = "catchUp")
            /\ IF options.boot = "runOnStart" THEN FireOrNot(FALSE) ELSE FireSkipped
       ELSE FireSkipped /\ UNCHANGED <<timer, behind, catching>>
    /\ UNCHANGED <<options, registered, paused, stopEpoch, draining, calls>>

(* stop() is quiet when no catch-up awaits the store, and none has queued  *)
(* a run of the removed job.                                               *)
QuietAfter(isRunning) == ~isRunning /\ ~catching /\ (registered \/ ~pending)

(* Mutant: the callers of the dropped runs get no answer. *)
StopEndsDeaf(isRunning) ==
    /\ pending' = (pending /\ ~registered)
    /\ UNCHANGED waiters
    /\ stopEpoch' = stopEpoch + 1
    /\ quiet' = QuietAfter(isRunning)

(* What follows the drain of stop(): the queued runs of a registered job   *)
(* are dropped, and the runs in flight are told to abort.                  *)
StopEnds(isRunning) ==
    /\ IF registered THEN pending' = FALSE /\ waiters' = 0 ELSE UNCHANGED queueVars
    /\ stopEpoch' = stopEpoch + 1
    /\ quiet' = QuietAfter(isRunning)

Stop(graceful) ==
    /\ stopEpoch < MaxStops /\ ~draining
    /\ running' = FALSE
    /\ timer' = FALSE
    /\ IF graceful THEN draining' = TRUE /\ UNCHANGED <<queueVars, stopEpoch, quiet>>
                   ELSE StopEnds(FALSE) /\ UNCHANGED draining
    /\ UNCHANGED <<options, registered, paused, activeRuns, catching, fires, used, queued,
                   calls, behind>>

(* #inFlight has the runs, but not the fires that await the lock. *)
InFlight == {f \in fires : f.pc # "lock"}

(* stop() resolves when no run is left, or at its deadline. *)
Drained(deadline) ==
    /\ draining
    /\ InFlight = {} \/ deadline
    /\ draining' = FALSE
    /\ StopEnds(running)
    /\ UNCHANGED <<options, stateVars, timer, activeRuns, catching, fires, used, queued,
                   calls, behind>>

Pause ==
    /\ registered /\ ~paused
    /\ calls < MaxCalls /\ calls' = calls + 1
    /\ paused' = TRUE
    /\ timer' = FALSE
    /\ UNCHANGED <<options, running, registered, activeRuns, queueVars, catching, fires,
                   stopEpoch, draining, used, queued, quiet, behind>>

Resume ==
    /\ registered
    /\ calls < MaxCalls /\ calls' = calls + 1
    /\ paused' = FALSE
    /\ Arm(running, FALSE)
    /\ UNCHANGED <<options, running, registered, activeRuns, queueVars, catching, fires,
                   stopEpoch, draining, used, queued, quiet>>

Reschedule ==
    /\ registered
    /\ calls < MaxCalls /\ calls' = calls + 1
    /\ Arm(running, paused)
    /\ UNCHANGED <<options, stateVars, activeRuns, queueVars, catching, fires, stopEpoch,
                   draining, used, queued, quiet>>

Remove ==
    /\ registered
    /\ calls < MaxCalls /\ calls' = calls + 1
    /\ registered' = FALSE
    /\ timer' = FALSE
    /\ pending' = FALSE /\ waiters' = 0
    /\ UNCHANGED <<options, running, paused, activeRuns, catching, fires, stopEpoch, draining,
                   used, queued, quiet, behind>>

Next ==
    \/ TimerFires \/ Trigger \/ CatchUp \/ Start
    \/ \E graceful \in BOOLEAN : Stop(graceful)
    \/ \E deadline \in BOOLEAN : Drained(deadline)
    \/ Pause \/ Resume \/ Reschedule \/ Remove
    \/ \E f \in fires : \/ LockGranted(f) \/ LockDenied(f) \/ TaskSucceeds(f)
                        \/ TaskFails(f) \/ RetryOrNot(f)

Spec == Init /\ [][Next]_vars

(* Locks are answered, tasks and retry delays end, and so does a drain.    *)
FairSpec ==
    /\ Spec
    /\ WF_vars(\E f \in fires : LockGranted(f) \/ LockDenied(f))
    /\ WF_vars(\E f \in fires : TaskSucceeds(f) \/ TaskFails(f))
    /\ WF_vars(\E f \in fires : RetryOrNot(f))
    /\ WF_vars(\E deadline \in BOOLEAN : Drained(deadline))

---------------------------------------------------------------------------
(* "so the timer never goes dark": while the scheduler runs, a job that is *)
(* not paused has its timer armed or a fire of the timer under way that    *)
(* will arm it -- unless a manual run was queued behind that fire.         *)
NeverDark ==
    running /\ registered /\ ~paused =>
       timer \/ (\E f \in fires : f.scheduled) \/ behind

(* Unless they may overlap, at most one fire holds the job, from before it *)
(* asks for the lock to the end of its last attempt; activeRuns, which     *)
(* every new fire looks at, is exact.                                      *)
OneRunAtATime ==
    /\ activeRuns = Cardinality(fires)
    /\ options.overlap # "allow" => activeRuns <= 1

(* The fires whose attempt of now begins with the step *)
Begins == {f \in fires' : f.pc = "task" /\ f \notin fires}

(* When stop() has resolved, no attempt begins any more, be it queued or   *)
(* waiting for a retry, but for the fires that were awaiting the lock (and *)
(* what QuietAfter names, in which case quiet is not set).                 *)
StopIsQuiet ==
    [][quiet /\ quiet' =>
         \A f \in Begins : \E g \in fires :
            g.id = f.id /\ (g.pc = "lock" \/ g.epoch = stopEpoch)]_vars

(* Every caller of a queued run is answered: the run takes place, or stop()*)
(* or remove() drops it with an answer.  None waits for ever.              *)
CallersAnswered == waiters > 0 ~> waiters = 0

=============================================================================
