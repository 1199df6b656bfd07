------------------------------ MODULE Scheduler ------------------------------
(***************************************************************************)
(* createScheduler() of packages/runner/src/index.ts: a queue of tasks     *)
(* with bounded concurrency, in which the tasks of a key form a chain of   *)
(* promises.  Tasks are numbered in the order they are submitted.          *)
(***************************************************************************)
EXTENDS Naturals, Sequences, FiniteSets

CONSTANTS
    Tasks,       \* bound: the tasks there are
    KeyOf,       \* the key of each task
    NoKey,       \* no key: no ordering
    Concurrency

ASSUME SchedulerAssumption ==
    /\ Tasks \subseteq Nat \ {0}
    /\ Concurrency \in Nat \ {0}

VARIABLES
    task,    \* new, chained (behind prev), slot (in slotWaiters), running, done
    prev,    \* the task whose promise a chained task was put behind, or 0
    tails,   \* the last task of each key's chain, or 0
    slots,   \* slotWaiters
    active,
    pending

schedulerVars == <<task, prev, tails, slots, active, pending>>

Keys == {KeyOf[i] : i \in Tasks} \ {NoKey}

SchedulerType ==
    /\ task \in [Tasks -> {"new", "chained", "slot", "running", "done"}]
    /\ prev \in [Tasks -> Tasks \cup {0}]
    /\ tails \in [Keys -> Tasks \cup {0}]
    /\ slots \in Seq(Tasks)
    /\ active \in Nat
    /\ pending \in Nat

SchedulerInit ==
    /\ task = [i \in Tasks |-> "new"]
    /\ prev = [i \in Tasks |-> 0]
    /\ tails = [k \in Keys |-> 0]
    /\ slots = <<>>
    /\ active = 0
    /\ pending = 0

\* acquire(): take a slot and run, or wait for one.
Acquire(i) ==
    IF active < Concurrency
    THEN /\ active' = active + 1
         /\ task' = [task EXCEPT ![i] = "running"]
         /\ UNCHANGED slots
    ELSE /\ slots' = Append(slots, i)
         /\ task' = [task EXCEPT ![i] = "slot"]
         /\ UNCHANGED active

\* submit(key, task)
Submit(i) ==
    /\ task[i] = "new"
    /\ pending' = pending + 1
    /\ \/ /\ KeyOf[i] = NoKey
          /\ Acquire(i)
          /\ UNCHANGED <<prev, tails>>
       \/ /\ KeyOf[i] # NoKey
          /\ task' = [task EXCEPT ![i] = "chained"]
          /\ prev' = [prev EXCEPT ![i] = tails[KeyOf[i]]]
          /\ tails' = [tails EXCEPT ![KeyOf[i]] = i]
          /\ UNCHANGED <<slots, active>>

\* Mutant: the chain waits for runTask to start the task, not to end it.
ChainTurnEarly(i) ==
    /\ task[i] = "chained"
    /\ prev[i] # 0 => task[prev[i]] # "chained"
    /\ Acquire(i)
    /\ UNCHANGED <<prev, tails, pending>>

\* The promise a task was chained to settles: runTask.
ChainTurn(i) ==
    /\ task[i] = "chained"
    /\ prev[i] # 0 => task[prev[i]] = "done"
    /\ Acquire(i)
    /\ UNCHANGED <<prev, tails, pending>>

\* Mutant: release() wakes the first waiter and keeps the slot free as well.
ReleaseTwice(i) ==
    IF slots = <<>>
    THEN /\ active' = active - 1
         /\ task' = [task EXCEPT ![i] = "done"]
         /\ UNCHANGED slots
    ELSE /\ active' = active - 1
         /\ task' = [task EXCEPT ![i] = "done", ![Head(slots)] = "running"]
         /\ slots' = Tail(slots)

\* release(): the slot goes to the first waiter, which counts itself active.
Release(i) ==
    IF slots = <<>>
    THEN /\ active' = active - 1
         /\ task' = [task EXCEPT ![i] = "done"]
         /\ UNCHANGED slots
    ELSE /\ active' = active
         /\ task' = [task EXCEPT ![i] = "done", ![Head(slots)] = "running"]
         /\ slots' = Tail(slots)

\* Mutant: the task's slot is never released.
TaskEndsHolding(i) ==
    /\ task[i] = "running"
    /\ task' = [task EXCEPT ![i] = "done"]
    /\ pending' = pending - 1
    /\ UNCHANGED <<prev, tails, slots, active>>

\* A task ends, however it ends: release() and settle().  settle() resolves
\* idle() and whenBelow(n) by the value of pending'.
TaskEnds(i) ==
    /\ task[i] = "running"
    /\ Release(i)
    /\ pending' = pending - 1
    /\ UNCHANGED <<prev, tails>>

\* A chain's last promise settles and its key is forgotten.
RetireTail(k) ==
    /\ tails[k] # 0
    /\ task[tails[k]] = "done"
    /\ tails' = [tails EXCEPT ![k] = 0]
    /\ UNCHANGED <<task, prev, slots, active, pending>>
-----------------------------------------------------------------------------
InState(S) == {i \in Tasks : task[i] \in S}

\* The counters say what they are read for: a slot is never lost nor given
\* twice, and idle() and whenBelow() are not told a wrong number.
CountersExact ==
    /\ active = Cardinality(InState({"running"}))
    /\ pending = Cardinality(InState({"chained", "slot", "running"}))
    /\ slots # <<>> => active = Concurrency

\* The abstract phase of a task.
Phase == [i \in Tasks |-> IF task[i] \in {"chained", "slot"} THEN "waiting"
                          ELSE task[i]]

Keyed == INSTANCE KeyedTasks WITH phase <- Phase

\* The scheduler keeps what KeyedTasks promises: per-key order, no overlap
\* within a key, and the concurrency cap.
ImplementsKeyed == Keyed!KeyedSpec
=============================================================================
