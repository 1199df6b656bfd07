----------------------------- MODULE WorkerPool -----------------------------
(***************************************************************************)
(* createPool() of packages/workers/src/pool.ts: a queue of tasks, a fixed *)
(* number of worker slots, timeouts and aborts that leave zombies behind,  *)
(* kills, crashes and respawns, close() and destroy().                     *)
(*                                                                         *)
(* Every handler of the pool is synchronous and runs several of its        *)
(* functions in a row, so the pool is one record p and each function of    *)
(* the code is an operator from records to records.  The workers are       *)
(* external: they become ready, answer, or die.                            *)
(***************************************************************************)
EXTENDS Naturals, Sequences, FiniteSets

CONSTANTS
    Size,          \* worker slots
    Tasks,         \* bound: the run() calls
    Unclonable,    \* the tasks whose arg cannot be posted
    Capacity,      \* the concurrency option
    MaxQueue,
    MaxRestarts,
    CloseTimeout,  \* close() is given a timeout
    MaxDeaths      \* bound: how often workers die of themselves

ASSUME PoolAssumption ==
    /\ Size \in Nat \ {0}
    /\ Unclonable \subseteq Tasks
    /\ Capacity \in Nat \ {0}
    /\ MaxQueue \in Nat
    /\ MaxRestarts \in Nat
    /\ CloseTimeout \in BOOLEAN
    /\ MaxDeaths \in Nat

VARIABLES
    p,        \* the pool
    deaths    \* workers that died of themselves

vars == <<p, deaths>>

Slots == 1..Size

TypeOK ==
    /\ p \in [state : [Tasks -> {"new", "queued", "running", "done"}],
              zombie : SUBSET Tasks,         \* settled, still with a worker
              settled : [Tasks -> 0..2],     \* how often the promise was settled
              killTimers : SUBSET Tasks,
              queue : Seq(Tasks),            \* with stale entries
              queuedCount : Nat,
              running : [Slots -> SUBSET Tasks],
              worker : [Slots -> {"starting", "ready", "waiting", "exited", "dead"}],
              expectTerminate : SUBSET Slots,
              crashes : [Slots -> 0..(MaxRestarts + 1)],
              everReady : SUBSET Slots,
              readyPromise : {"pending", "resolved", "rejected"},
              completed : Nat,
              failed : Nat,
              closing : BOOLEAN,
              closeDone : BOOLEAN,
              destroyed : BOOLEAN,
              closed : BOOLEAN]              \* the promise of close() is resolved
    /\ deaths \in 0..MaxDeaths

Init ==
    /\ p = [state |-> [t \in Tasks |-> "new"],
            zombie |-> {},
            settled |-> [t \in Tasks |-> 0],
            killTimers |-> {},
            queue |-> <<>>,
            queuedCount |-> 0,
            running |-> [s \in Slots |-> {}],
            worker |-> [s \in Slots |-> "starting"],
            expectTerminate |-> {},
            crashes |-> [s \in Slots |-> 0],
            everReady |-> {},
            readyPromise |-> "pending",
            completed |-> 0,
            failed |-> 0,
            closing |-> FALSE,
            closeDone |-> FALSE,
            destroyed |-> FALSE,
            closed |-> FALSE]
    /\ deaths = 0
-----------------------------------------------------------------------------
(* The functions of the pool *)

Dead(q) == {s \in Slots : q.worker[s] = "dead"}
Exited(q) == {s \in Slots : q.worker[s] \in {"waiting", "exited", "dead"}}

\* rejectTask: the promise fails and the timers are dropped.
RejectTask(q, t) ==
    [q EXCEPT !.state[t] = "done", !.settled[t] = @ + 1, !.failed = @ + 1,
              !.killTimers = @ \ {t}]

RejectAll(q, S) ==
    [q EXCEPT !.state = [t \in Tasks |-> IF t \in S THEN "done" ELSE @[t]],
              !.settled = [t \in Tasks |-> IF t \in S THEN @[t] + 1 ELSE @[t]],
              !.failed = @ + Cardinality(S)]

\* Slots that take another task.
Free(q) == {s \in Slots : q.worker[s] = "ready" /\ Cardinality(q.running[s]) < Capacity}

\* pickSlot(): the first of the least busy.
PickSlot(q) ==
    CHOOSE s \in Free(q) : \A r \in Free(q) :
        \/ Cardinality(q.running[s]) < Cardinality(q.running[r])
        \/ Cardinality(q.running[s]) = Cardinality(q.running[r]) /\ s <= r

\* dispatch(): an arg that cannot be posted fails its task only.
Dispatch(q, s, t) ==
    IF t \in Unclonable
    THEN RejectTask(q, t)
    ELSE [q EXCEPT !.state[t] = "running", !.running[s] = @ \cup {t}]

\* One turn of pump(): the next entry of the queue, if a slot is free.  Stale
\* entries, whose task was aborted, are skipped.
PumpOne(q, t) ==
    IF q.queuedCount = 0 \/ Free(q) = {}
    THEN q
    ELSE LET r == [q EXCEPT !.queue = Tail(@)]
         IN IF q.state[t] = "queued"
            THEN Dispatch([r EXCEPT !.queuedCount = @ - 1], PickSlot(q), t)
            ELSE r

Pump(q) ==
    LET pumped[i \in 0..Len(q.queue)] ==
            IF i = 0 THEN q ELSE PumpOne(pumped[i - 1], q.queue[i])
    IN  pumped[Len(q.queue)]

FailAllQueued(q) ==
    LET live == {t \in Tasks : q.state[t] = "queued"}
    IN [RejectAll(q, live) EXCEPT !.queue = <<>>,
                                  !.queuedCount = @ - Cardinality(live)]

\* checkCloseDone(): a closing pool is done when nothing is queued nor
\* running; with no worker left the queue fails.
CheckCloseDone(q) ==
    LET alive == Slots \ Exited(q)
        r == IF q.queuedCount > 0 /\ alive = {} THEN FailAllQueued(q) ELSE q
    IN IF ~q.closing \/ q.closeDone \/ q.destroyed
       THEN q
       ELSE [r EXCEPT !.closeDone = r.queuedCount = 0 /\ \A s \in Slots : r.running[s] = {}]

Spawn(q, s) ==
    [q EXCEPT !.worker[s] = "starting", !.expectTerminate = @ \ {s}]

\* destroyInternal()
DestroyInternal(q) ==
    LET live == {t \in UNION {q.running[s] : s \in Slots} : t \notin q.zombie}
    IN [RejectAll(FailAllQueued(q), live) EXCEPT
            !.destroyed = TRUE,
            !.killTimers = {},
            !.running = [s \in Slots |-> {}],
            !.readyPromise = IF @ = "pending" THEN "rejected" ELSE @]
-----------------------------------------------------------------------------
(* Calls of the user *)

\* run(): refused calls change nothing.
Run(t) ==
    /\ p.state[t] = "new"
    /\ ~p.closing /\ ~p.destroyed
    /\ Dead(p) # Slots
    /\ p.queuedCount < MaxQueue \/ Free(p) # {}
    /\ p' = Pump([p EXCEPT !.state[t] = "queued", !.queue = Append(@, t),
                           !.queuedCount = @ + 1])
    /\ UNCHANGED deaths

\* Mutant: the count of the queue is not lowered.
AbortQueuedUncounted(t) ==
    /\ p.state[t] = "queued"
    /\ p' = RejectTask(p, t)
    /\ UNCHANGED deaths

\* The signal of a queued task: it is rejected where it stands.
AbortQueued(t) ==
    /\ p.state[t] = "queued"
    /\ p' = [RejectTask(p, t) EXCEPT !.queuedCount = @ - 1]
    /\ UNCHANGED deaths

\* Mutant: the task is rejected but not remembered as a zombie.
AbortRunningForgetful(t) ==
    /\ p.state[t] = "running"
    /\ p' = [RejectTask(p, t) EXCEPT !.killTimers = @ \cup {t}]
    /\ UNCHANGED deaths

\* The signal or the timeout of a running task: the promise fails now, the
\* worker is asked to stop and the kill timer is set.
AbortRunning(t) ==
    /\ p.state[t] = "running"
    /\ p' = [RejectTask(p, t) EXCEPT !.zombie = @ \cup {t},
                                     !.killTimers = @ \cup {t}]
    /\ UNCHANGED deaths

Close ==
    /\ ~p.closing /\ ~p.destroyed
    /\ p' = CheckCloseDone([p EXCEPT !.closing = TRUE])
    /\ UNCHANGED deaths

Destroy ==
    /\ ~p.destroyed
    /\ p' = DestroyInternal(p)
    /\ UNCHANGED deaths
-----------------------------------------------------------------------------
(* Timers *)

\* Mutant: the zombie's worker is left alone.
KillTimerHarmless(t) ==
    /\ t \in p.killTimers
    /\ p' = [p EXCEPT !.killTimers = @ \ {t}]
    /\ UNCHANGED deaths

\* The zombie did not settle in time: its worker is terminated.
KillTimer(t) ==
    /\ t \in p.killTimers
    /\ p' = [p EXCEPT !.killTimers = @ \ {t},
                      !.expectTerminate = @ \cup {s \in Slots : t \in p.running[s]}]
    /\ UNCHANGED deaths

RespawnTimer(s) ==
    /\ p.worker[s] = "waiting"
    /\ ~p.destroyed
    /\ p' = IF p.closing THEN [p EXCEPT !.worker[s] = "exited"] ELSE Spawn(p, s)
    /\ UNCHANGED deaths

CloseTimer ==
    /\ CloseTimeout
    /\ p.closing /\ ~p.closeDone /\ ~p.destroyed
    /\ p' = DestroyInternal(p)
    /\ UNCHANGED deaths

\* Mutant: destroy() and the timeout of close() forget who awaits close().
TerminatedUnheard ==
    /\ p.closeDone
    /\ p.closing /\ ~p.closed
    /\ p' = [p EXCEPT !.closed = TRUE]
    /\ UNCHANGED deaths

\* The workers that close() or destroy() terminates are gone.
Terminated ==
    /\ p.closeDone \/ p.destroyed
    /\ p.closing /\ ~p.closed
    /\ p' = [p EXCEPT !.closed = TRUE]
    /\ UNCHANGED deaths
-----------------------------------------------------------------------------
(* Events of the workers *)

\* Mutant: a worker that becomes ready again takes no queued task.
WorkerReadyIdle(s) ==
    /\ ~p.destroyed
    /\ p.worker[s] = "starting"
    /\ LET q == [p EXCEPT !.worker[s] = "ready", !.crashes[s] = 0,
                          !.everReady = @ \cup {s}]
       IN p' = [q EXCEPT !.readyPromise =
                    IF @ = "pending" /\ q.everReady = Slots THEN "resolved" ELSE @]
    /\ UNCHANGED deaths

\* Mutant: the slots are counted before this one is.
WorkerReadyUncounted(s) ==
    /\ ~p.destroyed
    /\ p.worker[s] = "starting"
    /\ LET q == [p EXCEPT !.worker[s] = "ready", !.crashes[s] = 0,
                          !.everReady = @ \cup {s}]
       IN p' = Pump([q EXCEPT !.readyPromise =
                    IF @ = "pending" /\ p.everReady = Slots THEN "resolved" ELSE @])
    /\ UNCHANGED deaths

\* onMessage, "ready"
WorkerReady(s) ==
    /\ ~p.destroyed
    /\ p.worker[s] = "starting"
    /\ LET q == [p EXCEPT !.worker[s] = "ready", !.crashes[s] = 0,
                          !.everReady = @ \cup {s}]
       IN p' = Pump([q EXCEPT !.readyPromise =
                    IF @ = "pending" /\ q.everReady = Slots THEN "resolved" ELSE @])
    /\ UNCHANGED deaths

\* Mutant: the timers of the answered task are kept.
AnsweredTimerKept(q, s, t, ok) ==
    LET r == [q EXCEPT !.running[s] = @ \ {t}]
    IN IF t \in q.zombie
       THEN r
       ELSE [r EXCEPT !.state[t] = "done", !.settled[t] = @ + 1,
                      !.completed = IF ok THEN @ + 1 ELSE @,
                      !.failed = IF ok THEN @ ELSE @ + 1]

\* onMessage, "ok" or "err": a zombie's answer only frees its place.
Answered(q, s, t, ok) ==
    LET r == [q EXCEPT !.running[s] = @ \ {t}, !.killTimers = @ \ {t}]
    IN IF t \in q.zombie
       THEN r
       ELSE [r EXCEPT !.state[t] = "done", !.settled[t] = @ + 1,
                      !.completed = IF ok THEN @ + 1 ELSE @,
                      !.failed = IF ok THEN @ ELSE @ + 1]

\* Mutant: the answer of a zombie does not end a drain.
WorkerAnswersUnchecked(s, t, ok) ==
    /\ ~p.destroyed
    /\ p.worker[s] = "ready"
    /\ t \in p.running[s]
    /\ p' = IF t \in p.zombie THEN Pump(Answered(p, s, t, ok))
            ELSE CheckCloseDone(Pump(Answered(p, s, t, ok)))
    /\ UNCHANGED deaths

WorkerAnswers(s, t, ok) ==
    /\ ~p.destroyed
    /\ p.worker[s] = "ready"
    /\ t \in p.running[s]
    /\ p' = CheckCloseDone(Pump(Answered(p, s, t, ok)))
    /\ UNCHANGED deaths

\* "messageerror": an answer that cannot be read recycles the worker.
MessageError(s) ==
    /\ ~p.destroyed
    /\ p.worker[s] = "ready"
    /\ p.running[s] # {}
    /\ s \notin p.expectTerminate
    /\ deaths < MaxDeaths
    /\ deaths' = deaths + 1
    /\ p' = [p EXCEPT !.expectTerminate = @ \cup {s}]

\* onExit: the worker's tasks fail; it is spawned again at once if we killed
\* it, after a backoff if it crashed, and not at all once it crashed too often
\* in a row or the pool closes.
OnExit(q, s) ==
    LET live == {t \in q.running[s] : t \notin q.zombie}
        r == [RejectAll(q, live) EXCEPT
                !.worker[s] = "exited",
                !.killTimers = @ \ q.running[s],
                !.running[s] = {}]
        crashed == [r EXCEPT !.crashes[s] = @ + 1]
        dead == [crashed EXCEPT !.worker[s] = "dead"]
    IN IF q.closing
       THEN CheckCloseDone(r)
       ELSE IF s \in q.expectTerminate
       THEN Spawn(r, s)
       ELSE IF crashed.crashes[s] <= MaxRestarts
       THEN [crashed EXCEPT !.worker[s] = "waiting"]
       ELSE IF Dead(dead) = Slots
       THEN [FailAllQueued(dead) EXCEPT
                !.readyPromise = IF @ = "pending" THEN "rejected" ELSE @]
       ELSE dead

\* A worker dies of itself.
WorkerCrashes(s) ==
    /\ ~p.destroyed
    /\ p.worker[s] \in {"starting", "ready"}
    /\ s \notin p.expectTerminate
    /\ deaths < MaxDeaths
    /\ deaths' = deaths + 1
    /\ p' = OnExit(p, s)

\* A worker the pool terminated is gone.
WorkerKilled(s) ==
    /\ ~p.destroyed
    /\ p.worker[s] \in {"starting", "ready"}
    /\ s \in p.expectTerminate
    /\ p' = OnExit(p, s)
    /\ UNCHANGED deaths
-----------------------------------------------------------------------------
Answer(t) == \E s \in Slots, ok \in BOOLEAN : WorkerAnswers(s, t, ok)

Next ==
    \/ \E t \in Tasks : \/ Run(t) \/ AbortQueued(t) \/ AbortRunning(t)
                        \/ KillTimer(t) \/ Answer(t)
    \/ \E s \in Slots : \/ WorkerReady(s) \/ MessageError(s) \/ WorkerCrashes(s)
                        \/ WorkerKilled(s) \/ RespawnTimer(s)
    \/ Close \/ Destroy \/ CloseTimer \/ Terminated

\* Timers fire, terminated workers exit, a spawned worker registers or dies.
\* A task that ignores its abort may run for ever: only its kill ends it.
Fairness ==
    /\ \A t \in Tasks : WF_vars(KillTimer(t))
    /\ \A s \in Slots : WF_vars(WorkerReady(s)) /\ WF_vars(WorkerKilled(s))
                        /\ WF_vars(RespawnTimer(s))
    /\ WF_vars(CloseTimer)
    /\ WF_vars(Terminated)

\* Handlers return.
HandlersReturn == \A t \in Tasks : WF_vars(Answer(t))

Spec == Init /\ [][Next]_vars
FairSpec == Spec /\ Fairness
BusySpec == Spec /\ Fairness /\ HandlersReturn
-----------------------------------------------------------------------------
\* stats() tells the truth, and every promise is settled exactly once however
\* answers, aborts, timeouts, crashes, close and destroy race.
Accounting ==
    /\ p.queuedCount = Cardinality({t \in Tasks : p.state[t] = "queued"})
    /\ p.completed + p.failed = Cardinality({t \in Tasks : p.state[t] = "done"})
    /\ \A t \in Tasks : p.settled[t] = (IF p.state[t] = "done" THEN 1 ELSE 0)

\* No task waits while a ready worker has room: every event that frees a
\* place pumps.
WorkConserving == p.queuedCount > 0 => Free(p) = {}

\* A task is with one worker, which is alive, exactly as long as it runs or
\* is a zombie; nothing is left behind by a worker that died.
NothingStranded ==
    \A t \in Tasks :
        LET at == {s \in Slots : t \in p.running[s]}
        IN /\ Cardinality(at) <= 1
           /\ at \cap Exited(p) = {}
           /\ p.state[t] = "running" => at # {}
           /\ t \in p.killTimers => at # {}

\* Someone's task is with a worker, be it a zombie.
Busy(q) == \E s \in Slots : q.running[s] # {}

\* close(): "let queued + running ones finish, then terminate the workers".  A
\* drain ends by itself when the last place becomes empty while nothing is
\* queued, and when no worker is left, whoever emptied them (answers, zombies,
\* exits, a queue of tasks that cannot be posted); and it does not end before.
\* It need not end when the last queued task is aborted with every place empty.
DrainNoticed ==
    [][/\ p'.closeDone => p'.queuedCount = 0 /\ ~Busy(p')
       /\ /\ p'.closing /\ ~p'.destroyed
          /\ \/ Exited(p') = Slots
             \/ Busy(p) /\ ~Busy(p') /\ p'.queuedCount = 0
          => p'.closeDone]_vars

\* u stands before t in the queue.
Ahead(q, u, t) == \E i, j \in DOMAIN q.queue : i < j /\ q.queue[i] = u /\ q.queue[j] = t

\* First come, first served: while a task waits, none begins and none gets ahead
\* of it that was not ahead of it already.
ServedInOrder ==
    [][\A t, u \in Tasks :
          p.state[t] = "queued" /\ p'.state[t] = "queued" /\ ~Ahead(p, u, t)
          => /\ ~Ahead(p', u, t)
             /\ p'.state[u] = "running" => p.state[u] = "running"]_vars

\* A timed-out or aborted task gives its place back, by itself or with its
\* worker.
ZombiesGo ==
    \A t \in Tasks :
        t \in p.zombie ~> \A s \in Slots : t \notin p.running[s]

\* ready(): "resolves once every worker signalled ready; rejects if the pool
\* dies (or is destroyed) first".  However often workers die before or after
\* they were ready, it settles, and it stays settled.  It does not if the pool
\* is closed first, nor while one slot is dead for good that never was ready
\* and another lives: every() cannot hold any more, and the pool is not dead.
ReadySettles ==
    <>[](\/ p.readyPromise # "pending"
         \/ p.closing
         \/ Dead(p) # Slots /\ ~(Dead(p) \subseteq p.everReady))

\* close(): "let queued + running ones finish, then terminate the workers".
CloseReturns == p.closing ~> p.closed
=============================================================================
