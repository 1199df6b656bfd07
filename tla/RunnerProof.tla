----------------------------- MODULE RunnerProof -----------------------------
(***************************************************************************)
(* Proofs about Runner, for every number of updates, slots and keys and    *)
(* every size of a batch: the scheduler's counters are exact and it keeps  *)
(* the order and the cap of KeyedTasks, what Telegram forgot is with the   *)
(* scheduler, a crash loses a bounded number of updates, and stop() drains.*)
(***************************************************************************)
EXTENDS Runner, FiniteSetTheorems, SequenceTheorems, TLAPS
-----------------------------------------------------------------------------
(* The scheduler *)

(* What each step of the Scheduler preserves, for every number of tasks,   *)
(* slots and keys, when tasks are submitted in the order of their numbers: *)
(* its counters stay exact, the chain of a key keeps its order, and the    *)
(* step is one of KeyedTasks or leaves its phases alone.                   *)

Phases == {"new", "chained", "slot", "running", "done"}

\* The tasks in one of the states S, and how many run or are submitted and not over
At(f, S) == {j \in Tasks : f[j] \in S}

RunningIn(f) == Cardinality(At(f, {"running"}))
PendingIn(f) == Cardinality(At(f, {"chained", "slot", "running"}))

SameKey(i, j) == KeyOf[i] = KeyOf[j] /\ KeyOf[i] # NoKey

\* slotWaiters holds tasks that wait for a slot, each once.
Waiters ==
    /\ \A n \in 1..Len(slots) : task[slots[n]] = "slot"
    /\ \A m, n \in 1..Len(slots) : slots[m] = slots[n] => m = n

\* The tasks of its key that came before i are over.
OverBefore(i) == \A j \in Tasks : j < i /\ SameKey(j, i) => task[j] = "done"

\* A task of a key begins after all of its key that came before it; while it
\* is chained they are over, or not later than the one it was put behind.
ChainOf(i) ==
    /\ task[i] \in {"slot", "running", "done"} => OverBefore(i)
    /\ task[i] = "chained" =>
          /\ prev[i] # 0 => prev[i] < i /\ SameKey(prev[i], i)
          /\ \A j \in Tasks : j < i /\ SameKey(j, i)
                => task[j] = "done" \/ (prev[i] # 0 /\ j <= prev[i])

\* The tail of a key is its last task; without one, none of the key is at work.
TailOf(k) ==
    /\ tails[k] # 0 => task[tails[k]] # "new" /\ KeyOf[tails[k]] = k
    /\ \A j \in Tasks : KeyOf[j] = k =>
          IF tails[k] = 0 THEN task[j] \in {"new", "done"}
          ELSE j > tails[k] => task[j] = "new"

Chains == (\A i \in Tasks : ChainOf(i)) /\ (\A k \in Keys : TailOf(k))

SchedulerInv ==
    /\ SchedulerType
    /\ active = RunningIn(task) /\ active <= Concurrency
    /\ pending = PendingIn(task)
    /\ slots # <<>> => active = Concurrency
    /\ Waiters
    /\ Chains

\* Exactly the tasks from n on are still to be submitted.
NewFrom(n) == \A i \in Tasks : task[i] = "new" <=> i >= n

PhaseStep == Keyed!KeyedNext \/ UNCHANGED Phase
-----------------------------------------------------------------------------
(* Counting *)

\* A set with one more element
LEMMA OneMore ==
    ASSUME NEW S, IsFiniteSet(S), NEW x, x \notin S
    PROVE  /\ IsFiniteSet(S \cup {x})
           /\ Cardinality(S) \in Nat /\ Cardinality(S \cup {x}) = Cardinality(S) + 1
<1>1. IsFiniteSet(S \cup {x}) /\ Cardinality(S) \in Nat
  BY FS_AddElement, FS_CardinalityType
<1>2. Cardinality(S \cup {x}) = IF x \in S THEN Cardinality(S) ELSE Cardinality(S) + 1
  BY FS_AddElement, Zenon
<1>3. QED
  BY <1>1, <1>2

\* Only the state of task i differs between f and g.
Moves(f, g, i) ==
    /\ f \in [Tasks -> Phases] /\ g \in [Tasks -> Phases]
    /\ \A j \in Tasks : j # i => g[j] = f[j]

\* One task moves, so the number of tasks in any set of states changes by at most one.
LEMMA OneMoves ==
    ASSUME IsFiniteSet(Tasks), NEW f, NEW g, NEW i \in Tasks, Moves(f, g, i), NEW S
    PROVE  /\ Cardinality(At(f, S)) \in Nat /\ Cardinality(At(g, S)) \in Nat
           /\ (f[i] \in S <=> g[i] \in S) => Cardinality(At(g, S)) = Cardinality(At(f, S))
           /\ f[i] \notin S /\ g[i] \in S => Cardinality(At(g, S)) = Cardinality(At(f, S)) + 1
           /\ f[i] \in S /\ g[i] \notin S => Cardinality(At(g, S)) = Cardinality(At(f, S)) - 1
<1> DEFINE A == At(f, S)
           B == At(g, S)
<1>1. IsFiniteSet(A) /\ IsFiniteSet(B)
  BY FS_Subset DEF At
<1>2. Cardinality(A) \in Nat /\ Cardinality(B) \in Nat
  BY <1>1, FS_CardinalityType
<1>3. ASSUME f[i] \in S <=> g[i] \in S PROVE Cardinality(B) = Cardinality(A)
  <2>1. A = B
    BY <1>3 DEF At, Moves
  <2> QED
    BY <2>1
<1>4. ASSUME f[i] \notin S, g[i] \in S PROVE Cardinality(B) = Cardinality(A) + 1
  <2>1. B = A \cup {i} /\ i \notin A
    BY <1>4 DEF At, Moves
  <2> HIDE DEF A, B
  <2> QED
    BY <1>1, <2>1, OneMore
<1>5. ASSUME f[i] \in S, g[i] \notin S PROVE Cardinality(B) = Cardinality(A) - 1
  <2>1. A = B \cup {i} /\ i \notin B
    BY <1>5 DEF At, Moves
  <2> HIDE DEF A, B
  <2>2. Cardinality(A) = Cardinality(B) + 1
    BY <1>1, <2>1, OneMore
  <2> QED
    BY <1>2, <2>2
<1>6. QED
  BY <1>2, <1>3, <1>4, <1>5

\* The invariant gives the property the runs check.
LEMMA CountersAre == SchedulerInv => CountersExact
BY DEF SchedulerInv, CountersExact, InState, At, RunningIn, PendingIn

\* ... and so do the numbers of running and of pending tasks.
LEMMA Recount ==
    ASSUME IsFiniteSet(Tasks), NEW f, NEW g, NEW i \in Tasks, Moves(f, g, i)
    PROVE  /\ RunningIn(f) \in Nat /\ RunningIn(g) \in Nat
           /\ PendingIn(f) \in Nat /\ PendingIn(g) \in Nat
           /\ f[i] = "running" /\ g[i] # "running" => RunningIn(g) = RunningIn(f) - 1
           /\ f[i] # "running" /\ g[i] = "running" => RunningIn(g) = RunningIn(f) + 1
           /\ f[i] # "running" /\ g[i] # "running" => RunningIn(g) = RunningIn(f)
           /\ f[i] = "new" /\ g[i] \notin {"new", "done"} => PendingIn(g) = PendingIn(f) + 1
           /\ f[i] \notin {"new", "done"} /\ g[i] = "done" => PendingIn(g) = PendingIn(f) - 1
           /\ f[i] \notin {"new", "done"} /\ g[i] \notin {"new", "done"}
                 => PendingIn(g) = PendingIn(f)
<1> DEFINE W == {"chained", "slot", "running"}
           N(h, S) == Cardinality(At(h, S))
<1>0. f[i] \in Phases /\ g[i] \in Phases
  BY DEF Moves
<1>1. /\ N(f, {"running"}) \in Nat /\ N(g, {"running"}) \in Nat
      /\ (f[i] \in {"running"} <=> g[i] \in {"running"}) => N(g, {"running"}) = N(f, {"running"})
      /\ f[i] \notin {"running"} /\ g[i] \in {"running"} => N(g, {"running"}) = N(f, {"running"}) + 1
      /\ f[i] \in {"running"} /\ g[i] \notin {"running"} => N(g, {"running"}) = N(f, {"running"}) - 1
  BY OneMoves, Zenon
<1>2. /\ N(f, W) \in Nat /\ N(g, W) \in Nat
      /\ (f[i] \in W <=> g[i] \in W) => N(g, W) = N(f, W)
      /\ f[i] \notin W /\ g[i] \in W => N(g, W) = N(f, W) + 1
      /\ f[i] \in W /\ g[i] \notin W => N(g, W) = N(f, W) - 1
  <2> HIDE DEF W
  <2> QED
    BY OneMoves, Zenon
<1>3. RunningIn(f) = N(f, {"running"}) /\ RunningIn(g) = N(g, {"running"})
      /\ PendingIn(f) = N(f, W) /\ PendingIn(g) = N(g, W)
  BY DEF RunningIn, PendingIn
<1> HIDE DEF N
<1>4. QED
  BY <1>0, <1>1, <1>2, <1>3 DEF Phases

\* acquire(): the task counts itself active, or waits.
LEMMA Acquiring ==
    ASSUME SchedulerInv, IsFiniteSet(Tasks), NEW i \in Tasks,
           task[i] \in {"new", "chained"}, Acquire(i)
    PROVE  /\ task' \in [Tasks -> Phases] /\ slots' \in Seq(Tasks) /\ active' \in Nat
           /\ task' = [task EXCEPT ![i] = "slot"] \/ task' = [task EXCEPT ![i] = "running"]
           /\ active' = RunningIn(task') /\ active' <= Concurrency
           /\ PendingIn(task') =
                 PendingIn(task) + (IF task[i] = "new" THEN 1 ELSE 0)
           /\ slots' # <<>> => active' = Concurrency
           /\ Waiters'
<1>1. /\ task \in [Tasks -> Phases] /\ slots \in Seq(Tasks) /\ active \in Nat
      /\ active = RunningIn(task) /\ active <= Concurrency
      /\ Concurrency \in Nat /\ (slots # <<>> => active = Concurrency)
  BY SchedulerAssumption
     DEF SchedulerInv, SchedulerType, SchedulerAssumption, Phases
<1>2. CASE active < Concurrency
  <2>1. task' = [task EXCEPT ![i] = "running"] /\ active' = active + 1 /\ slots' = slots
    BY <1>2 DEF Acquire
  <2>2. task' \in [Tasks -> Phases] /\ Moves(task, task', i)
    BY <1>1, <2>1 DEF Phases, Moves
  <2>3. RunningIn(task') = RunningIn(task) + 1
    BY <1>1, <2>1, <2>2, Recount
  <2>4. /\ task[i] = "new" => PendingIn(task') = PendingIn(task) + 1
        /\ task[i] = "chained" => PendingIn(task') = PendingIn(task)
        /\ PendingIn(task) \in Nat
    BY <1>1, <2>1, <2>2, Recount
  <2>5. slots = <<>>
    BY <1>1, <1>2
  <2>6. Waiters'
    BY <2>1, <2>5 DEF Waiters
  <2> QED
    BY <1>1, <1>2, <2>1, <2>2, <2>3, <2>4, <2>5, <2>6
<1>3. CASE ~(active < Concurrency)
  <2>1. task' = [task EXCEPT ![i] = "slot"] /\ active' = active /\ slots' = Append(slots, i)
    BY <1>3 DEF Acquire
  <2>2. task' \in [Tasks -> Phases] /\ Moves(task, task', i)
    BY <1>1, <2>1 DEF Phases, Moves
  <2>3. RunningIn(task') = RunningIn(task)
    BY <1>1, <2>1, <2>2, Recount
  <2>4. /\ task[i] = "new" => PendingIn(task') = PendingIn(task) + 1
        /\ task[i] = "chained" => PendingIn(task') = PendingIn(task)
        /\ PendingIn(task) \in Nat
    BY <1>1, <2>1, <2>2, Recount
  <2>5. /\ slots' \in Seq(Tasks) /\ Len(slots') = Len(slots) + 1
        /\ \A n \in 1..Len(slots) : slots'[n] = slots[n]
        /\ slots'[Len(slots) + 1] = i
    BY <1>1, <2>1, AppendProperties
  <2>6. Len(slots) \in Nat
    BY <1>1
  <2>7. ASSUME NEW n \in 1..Len(slots') PROVE task'[slots'[n]] = "slot"
    <3>1. CASE n = Len(slots) + 1
      BY <1>1, <2>1, <2>5, <3>1
    <3>2. CASE n \in 1..Len(slots)
      <4>1. slots[n] \in Tasks /\ task[slots[n]] = "slot"
        BY <1>1, <3>2, ElementOfSeq DEF SchedulerInv, Waiters
      <4> QED
        BY <1>1, <2>1, <2>5, <3>2, <4>1
    <3> QED
      BY <2>5, <2>6, <3>1, <3>2
  <2>8. ASSUME NEW m \in 1..Len(slots'), NEW n \in 1..Len(slots'), slots'[m] = slots'[n]
        PROVE  m = n
    <3>1. \A l \in 1..Len(slots) : slots'[l] = slots[l] /\ slots[l] # i
      BY <2>5 DEF SchedulerInv, Waiters
    <3> QED
      BY <2>5, <2>6, <2>8, <3>1 DEF SchedulerInv, Waiters
  <2>9. Waiters'
    BY <2>7, <2>8 DEF Waiters
  <2> QED
    BY <1>1, <1>3, <2>1, <2>2, <2>3, <2>4, <2>5, <2>9
<1> QED
  BY <1>2, <1>3


-----------------------------------------------------------------------------
(* The steps, seen as steps of KeyedTasks *)

\* KeyedTasks counts as this module does.
LEMMA SameCardinality == \A S : Keyed!Cardinality(S) = Cardinality(S)
BY DEF Keyed!Cardinality, Cardinality

\* The cap on running tasks, as KeyedTasks states it
LEMMA RunningNow ==
    ASSUME task' \in [Tasks -> Phases], RunningIn(task') <= Concurrency
    PROVE  Keyed!Cardinality(Keyed!Running') <= Concurrency
<1>1. Keyed!Running' = At(task', {"running"})
  BY DEF Keyed!Running, Phase, At, Phases
<1> QED
  BY <1>1, SameCardinality DEF RunningIn

\* A task that was submitted now or earlier begins.
LEMMA Begins ==
    ASSUME task \in [Tasks -> Phases], task' \in [Tasks -> Phases], NEW i \in Tasks,
           task[i] \in {"new", "chained"}, OverBefore(i),
           task' = [task EXCEPT ![i] = "running"], RunningIn(task') <= Concurrency
    PROVE  PhaseStep
<1>1. Phase[i] \in {"new", "waiting"}
  BY DEF Phase
<1>2. Keyed!Free(i)
  BY DEF Keyed!Free, OverBefore, SameKey, Phase
<1>3. Phase' = [j \in Tasks |-> IF j \in {i} THEN "running"
                                ELSE IF j \in {} THEN "done" ELSE Phase[j]]
  BY DEF Phase, Phases
<1>4. Keyed!Begun({i}, {})
  BY <1>1, <1>2, <1>3, RunningNow DEF Keyed!Begun
<1> QED
  BY <1>4 DEF PhaseStep, Keyed!KeyedNext

\* A task waits: it was submitted now, or its turn came and there is no slot.
LEMMA Waits ==
    ASSUME task \in [Tasks -> Phases], NEW i \in Tasks, NEW v \in {"chained", "slot"},
           task[i] = "chained" \/ NewFrom(i),
           task' = [task EXCEPT ![i] = v]
    PROVE  PhaseStep
<1>1. CASE task[i] = "chained"
  <2>1. Phase' = Phase
    BY <1>1 DEF Phase
  <2> QED
    BY <2>1 DEF PhaseStep
<1>2. CASE NewFrom(i)
  <2>1. task[i] = "new" /\ \A j \in Tasks : j > i => task[j] = "new"
    BY <1>2, SchedulerAssumption DEF NewFrom, SchedulerAssumption
  <2>2. Phase[i] = "new" /\ \A j \in Tasks : j > i => Phase[j] = "new"
    BY <2>1 DEF Phase
  <2>3. Phase' = [Phase EXCEPT ![i] = "waiting"]
    BY DEF Phase
  <2>4. Keyed!Submitted(i)
    BY <2>2, <2>3 DEF Keyed!Submitted
  <2> QED
    BY <2>4 DEF PhaseStep, Keyed!KeyedNext
<1> QED
  BY <1>1, <1>2

\* A task ends, and its slot is handed over to h, if anyone waits for one.
LEMMA HandsOver ==
    ASSUME task \in [Tasks -> Phases], task' \in [Tasks -> Phases], NEW i \in Tasks,
           NEW h \in Tasks, task[i] = "running", task[h] = "slot", OverBefore(h),
           task' = [task EXCEPT ![i] = "done", ![h] = "running"],
           RunningIn(task') <= Concurrency
    PROVE  PhaseStep
<1>1. i # h /\ Phase[h] = "waiting" /\ Phase[i] = "running"
  BY DEF Phase
<1>2. Keyed!Free(h)
  BY DEF Keyed!Free, OverBefore, SameKey, Phase
<1>3. Phase' = [j \in Tasks |-> IF j \in {h} THEN "running"
                                ELSE IF j \in {i} THEN "done" ELSE Phase[j]]
  BY DEF Phase, Phases
<1>4. Keyed!Begun({h}, {i})
  BY <1>1, <1>2, <1>3, RunningNow DEF Keyed!Begun
<1> QED
  BY <1>1, <1>4 DEF PhaseStep, Keyed!KeyedNext

\* A task ends and nobody takes its slot.
LEMMA EndsOnly ==
    ASSUME task \in [Tasks -> Phases], task' \in [Tasks -> Phases], NEW i \in Tasks,
           task[i] = "running", task' = [task EXCEPT ![i] = "done"],
           RunningIn(task') <= Concurrency
    PROVE  PhaseStep
<1>1. Phase[i] = "running"
  BY DEF Phase
<1>2. Phase' = [j \in Tasks |-> IF j \in {} THEN "running"
                                ELSE IF j \in {i} THEN "done" ELSE Phase[j]]
  BY DEF Phase, Phases
<1>3. Keyed!Begun({}, {i})
  BY <1>1, <1>2, RunningNow DEF Keyed!Begun
<1> QED
  BY <1>3 DEF PhaseStep, Keyed!KeyedNext
-----------------------------------------------------------------------------
(* The chains *)

\* What the chains say of the tasks other than i stays true when i leaves
\* "new" or "chained" for a state before "done".
LEMMA OthersKeep ==
    ASSUME task \in [Tasks -> Phases], NEW i \in Tasks, NEW x \in Tasks, x # i,
           Moves(task, task', i), task[i] # "done", ChainOf(x), UNCHANGED <<prev[x]>>
    PROVE  ChainOf(x)'
<1>1. \A j \in Tasks : task[j] = "done" => task'[j] = "done"
  BY DEF Moves
<1>2. task'[x] = task[x]
  BY DEF Moves
<1> QED
  BY <1>1, <1>2 DEF ChainOf, OverBefore


\* ... nor does it change what is said of the tails.
LEMMA TailsKeep ==
    ASSUME task \in [Tasks -> Phases], NEW i \in Tasks, NEW k \in Keys,
           Moves(task, task', i), task[i] # "new", task'[i] # "new",
           task[i] # "done", tails[k] \in Tasks \cup {0}, TailOf(k), UNCHANGED tails
    PROVE  TailOf(k)'
<1>1. \A j \in Tasks : task[j] = "new" <=> task'[j] = "new"
  BY DEF Moves
<1>2. \A j \in Tasks : j # i => task'[j] = task[j]
  BY DEF Moves
<1> QED
  BY <1>1, <1>2 DEF TailOf

\* What every proof below needs of the types
LEMMA Basics ==
    ASSUME SchedulerInv
    PROVE  task \in [Tasks -> Phases] /\ Concurrency \in Nat
BY SchedulerAssumption DEF SchedulerInv, SchedulerType, Phases, SchedulerAssumption

\* submit() of a task without a key
LEMMA SubmittingFree ==
    ASSUME SchedulerInv, IsFiniteSet(Tasks), NEW i \in Tasks, NewFrom(i),
           KeyOf[i] = NoKey, task[i] = "new", Acquire(i), UNCHANGED <<prev, tails>>,
           pending' = pending + 1
    PROVE  SchedulerInv' /\ PhaseStep /\ task'[i] # "new" /\ Moves(task, task', i)
<1>1. task \in [Tasks -> Phases]
  BY Basics
<1>2. /\ task' \in [Tasks -> Phases] /\ slots' \in Seq(Tasks) /\ active' \in Nat
      /\ task' = [task EXCEPT ![i] = "slot"] \/ task' = [task EXCEPT ![i] = "running"]
      /\ active' = RunningIn(task') /\ active' <= Concurrency
      /\ PendingIn(task') = PendingIn(task) + 1
      /\ slots' # <<>> => active' = Concurrency
      /\ Waiters'
  BY Acquiring
<1>3. Moves(task, task', i) /\ task'[i] \in {"slot", "running"}
  BY <1>1, <1>2 DEF Moves
<1>4. SchedulerType'
  BY <1>2 DEF SchedulerInv, SchedulerType, Phases
<1>5. Chains'
  <2>1. ASSUME NEW x \in Tasks PROVE ChainOf(x)'
    <3>1. CASE x # i
      BY <1>1, <1>3, <3>1, OthersKeep DEF SchedulerInv, Chains
    <3>2. CASE x = i
      BY <1>3, <3>2 DEF ChainOf, OverBefore, SameKey
    <3> QED
      BY <3>1, <3>2
  <2>2. ASSUME NEW k \in Keys PROVE TailOf(k)'
    <3>1. k # NoKey /\ TailOf(k)
      BY DEF Keys, SchedulerInv, Chains
    <3>2. \A j \in Tasks : KeyOf[j] = k => task'[j] = task[j]
      BY <1>3, <3>1 DEF Moves
    <3>3. tails'[k] = tails[k] /\ tails[k] \in Tasks \cup {0}
      BY DEF SchedulerInv, SchedulerType
    <3>4. 0 \notin Tasks
      BY SchedulerAssumption DEF SchedulerAssumption
    <3> QED
      BY <3>1, <3>2, <3>3, <3>4 DEF TailOf
  <2> QED
    BY <2>1, <2>2 DEF Chains
<1>6. SchedulerInv'
  BY <1>2, <1>4, <1>5 DEF SchedulerInv
<1>7. OverBefore(i)
  BY DEF OverBefore, SameKey
<1>8. PhaseStep
  BY <1>1, <1>2, <1>7, Begins, Waits
<1> QED
  BY <1>3, <1>6, <1>8

\* submit() of a task with a key: it is chained behind its key's tail.
LEMMA SubmittingChained ==
    ASSUME SchedulerInv, IsFiniteSet(Tasks), NEW i \in Tasks, NewFrom(i),
           KeyOf[i] # NoKey, task[i] = "new", task' = [task EXCEPT ![i] = "chained"],
           prev' = [prev EXCEPT ![i] = tails[KeyOf[i]]],
           tails' = [tails EXCEPT ![KeyOf[i]] = i],
           UNCHANGED <<slots, active>>, pending' = pending + 1
    PROVE  SchedulerInv' /\ PhaseStep /\ task'[i] # "new" /\ Moves(task, task', i)
<1> DEFINE key == KeyOf[i]
<1>1. task \in [Tasks -> Phases] /\ key \in Keys
  BY Basics DEF Keys
<1>2. /\ Moves(task, task', i) /\ task'[i] = "chained"
      /\ task' \in [Tasks -> Phases]
  BY <1>1 DEF Moves, Phases
<1>3. RunningIn(task') = RunningIn(task) /\ PendingIn(task') = PendingIn(task) + 1
  BY <1>2, Recount
<1>4. SchedulerType' /\ tails[key] \in Tasks \cup {0}
  BY <1>1, <1>2 DEF SchedulerInv, SchedulerType, Phases
<1>5. Waiters'
  <2>1. ASSUME NEW n \in 1..Len(slots) PROVE task'[slots[n]] = "slot"
    BY <1>2, ElementOfSeq DEF SchedulerInv, SchedulerType, Waiters, Moves
  <2> QED
    BY <2>1 DEF SchedulerInv, Waiters
<1>6. \A j \in Tasks : /\ j \in Nat
                       /\ task[j] = "new" <=> j >= i
  BY SchedulerAssumption DEF NewFrom, SchedulerAssumption
<1>7. TailOf(key) /\ 0 \notin Tasks /\ i \in Nat
  BY <1>1, SchedulerAssumption DEF SchedulerInv, Chains, SchedulerAssumption
<1>8. ChainOf(i)'
  <2>1. prev'[i] = tails[key]
    BY DEF SchedulerInv, SchedulerType
  <2>2. ASSUME prev'[i] # 0 PROVE prev'[i] < i /\ SameKey(prev'[i], i)
    <3>1. tails[key] \in Tasks /\ task[tails[key]] # "new" /\ KeyOf[tails[key]] = key
      BY <1>4, <1>7, <2>1, <2>2 DEF TailOf
    <3>2. \A j \in Tasks : task[j] # "new" => j < i
      BY <1>6, <1>7
    <3>3. tails[key] < i
      BY <3>1, <3>2
    <3> QED
      BY <2>1, <3>1, <3>3 DEF SameKey
  <2>3. ASSUME NEW j \in Tasks, j < i, SameKey(j, i)
        PROVE  task'[j] = "done" \/ (prev'[i] # 0 /\ j <= prev'[i])
    <3>1. task[j] # "new" /\ KeyOf[j] = key /\ task'[j] = task[j]
      BY <1>2, <1>6, <2>3 DEF SameKey, Moves
    <3>2. CASE tails[key] = 0
      BY <1>7, <3>1, <3>2 DEF TailOf
    <3>3. CASE tails[key] # 0
      <4>1. tails[key] \in Nat /\ j \in Nat /\ ~(j > tails[key])
        BY <1>4, <1>6, <1>7, <3>1, <3>3 DEF TailOf
      <4> QED
        BY <2>1, <3>3, <4>1
    <3> QED
      BY <3>2, <3>3
  <2> QED
    BY <1>2, <2>2, <2>3 DEF ChainOf, SameKey
<1>9. Chains'
  <2>1. ASSUME NEW x \in Tasks, x # i PROVE ChainOf(x)'
    <3>1. prev'[x] = prev[x]
      BY <2>1 DEF SchedulerInv, SchedulerType
    <3> QED
      BY <1>1, <1>2, <2>1, <3>1, OthersKeep DEF SchedulerInv, Chains
  <2>2. ASSUME NEW k \in Keys, k # key PROVE TailOf(k)'
    <3>1. tails'[k] = tails[k] /\ tails[k] \in Tasks \cup {0} /\ TailOf(k)
      BY <2>2 DEF SchedulerInv, SchedulerType, Chains
    <3>2. \A j \in Tasks : KeyOf[j] = k => task'[j] = task[j]
      BY <1>2, <2>2 DEF Moves
    <3> QED
      BY <1>7, <3>1, <3>2 DEF TailOf
  <2>3. TailOf(key)'
    <3>1. tails'[key] = i
      BY <1>1 DEF SchedulerInv, SchedulerType
    <3>2. \A j \in Tasks : j > i => task'[j] = "new"
      BY <1>2, <1>6, <1>7 DEF Moves
    <3> QED
      BY <1>2, <1>7, <3>1, <3>2 DEF TailOf
  <2> QED
    BY <1>8, <2>1, <2>2, <2>3 DEF Chains
<1>10. SchedulerInv'
  BY <1>3, <1>4, <1>5, <1>9 DEF SchedulerInv
<1>11. PhaseStep
  BY <1>1, Waits
<1> QED
  BY <1>2, <1>10, <1>11

\* submit(), with or without a key, of the first task not submitted yet
LEMMA Submitting ==
    ASSUME SchedulerInv, IsFiniteSet(Tasks), NEW i \in Tasks, NewFrom(i), Submit(i)
    PROVE  SchedulerInv' /\ PhaseStep /\ NewFrom(i + 1)' /\ pending' = pending + 1
<1>1. SchedulerInv' /\ PhaseStep /\ task'[i] # "new" /\ Moves(task, task', i)
  BY SubmittingFree, SubmittingChained DEF Submit
<1>2. NewFrom(i + 1)'
  BY <1>1, SchedulerAssumption DEF NewFrom, Moves, SchedulerAssumption
<1> QED
  BY <1>1, <1>2 DEF Submit


\* A chained task's turn: what it was put behind is over, so all before it are.
LEMMA TurnComes ==
    ASSUME SchedulerInv, NEW i \in Tasks, task[i] = "chained",
           prev[i] # 0 => task[prev[i]] = "done"
    PROVE  OverBefore(i)
<1>1. /\ ChainOf(i) /\ i \in Nat /\ prev[i] \in Tasks \cup {0}
      /\ \A j \in Tasks : j \in Nat
  BY SchedulerAssumption
     DEF SchedulerInv, SchedulerType, Chains, SchedulerAssumption
<1>2. CASE prev[i] = 0
  BY <1>1, <1>2 DEF ChainOf, OverBefore
<1>3. CASE prev[i] # 0
  <2> DEFINE p == prev[i]
  <2>1. p \in Tasks /\ p < i /\ SameKey(p, i) /\ OverBefore(p) /\ task[p] = "done"
    BY <1>1, <1>3 DEF ChainOf, SchedulerInv, Chains
  <2>2. ASSUME NEW j \in Tasks, j < i, SameKey(j, i) PROVE task[j] = "done"
    <3>1. task[j] = "done" \/ j <= p
      BY <1>1, <2>2 DEF ChainOf
    <3>2. CASE j < p
      <4>1. SameKey(j, p)
        BY <2>1, <2>2 DEF SameKey
      <4> QED
        BY <2>1, <3>2, <4>1 DEF OverBefore
    <3> HIDE DEF p
    <3> QED
      BY <1>1, <2>1, <3>1, <3>2
  <2> QED
    BY <2>2 DEF OverBefore
<1> QED
  BY <1>2, <1>3

\* The promise a task was chained to settles.
LEMMA Turning ==
    ASSUME SchedulerInv, IsFiniteSet(Tasks), NEW i \in Tasks, ChainTurn(i)
    PROVE  SchedulerInv' /\ PhaseStep /\ Moves(task, task', i)
           /\ task[i] # "new" /\ task'[i] # "new"
<1>1. /\ task \in [Tasks -> Phases] /\ task[i] = "chained" /\ Acquire(i)
      /\ UNCHANGED <<prev, tails, pending>>
  BY Basics DEF ChainTurn
<1>2. /\ task' \in [Tasks -> Phases] /\ slots' \in Seq(Tasks) /\ active' \in Nat
      /\ task' = [task EXCEPT ![i] = "slot"] \/ task' = [task EXCEPT ![i] = "running"]
      /\ active' = RunningIn(task') /\ active' <= Concurrency
      /\ PendingIn(task') = PendingIn(task) + 0
      /\ slots' # <<>> => active' = Concurrency
      /\ Waiters'
  BY <1>1, Acquiring
<1>3. Moves(task, task', i) /\ task'[i] \in {"slot", "running"}
  BY <1>1, <1>2 DEF Moves
<1>4. OverBefore(i)
  BY TurnComes DEF ChainTurn
<1>5. SchedulerType'
  BY <1>1, <1>2 DEF SchedulerInv, SchedulerType, Phases
<1>6. Chains'
  <2>1. ASSUME NEW x \in Tasks, x # i PROVE ChainOf(x)'
    BY <1>1, <1>3, <2>1, OthersKeep DEF SchedulerInv, Chains
  <2>2. ChainOf(i)'
    <3>1. \A j \in Tasks : task[j] = "done" => task'[j] = "done"
      BY <1>1, <1>3 DEF Moves
    <3> QED
      BY <1>3, <1>4, <3>1 DEF ChainOf, OverBefore
  <2>3. ASSUME NEW k \in Keys PROVE TailOf(k)'
    <3>1. tails[k] \in Tasks \cup {0} /\ TailOf(k)
      BY DEF SchedulerInv, SchedulerType, Chains
    <3> QED
      BY <1>1, <1>3, <3>1, TailsKeep
  <2> QED
    BY <2>1, <2>2, <2>3 DEF Chains
<1>7. pending' = PendingIn(task')
  <2>1. pending = PendingIn(task) /\ pending \in Nat
    BY DEF SchedulerInv, SchedulerType
  <2> QED
    BY <1>1, <1>2, <2>1
<1>8. SchedulerInv'
  BY <1>2, <1>5, <1>6, <1>7 DEF SchedulerInv
<1>9. PhaseStep
  BY <1>1, <1>2, <1>4, Begins, Waits
<1> QED
  BY <1>1, <1>3, <1>8, <1>9

\* A chain that is over forgets its key.
LEMMA Retiring ==
    ASSUME SchedulerInv, NEW k \in Keys, RetireTail(k)
    PROVE  SchedulerInv' /\ PhaseStep /\ UNCHANGED <<task, pending>>
<1>1. /\ tails[k] # 0 /\ task[tails[k]] = "done"
      /\ tails' = [tails EXCEPT ![k] = 0]
      /\ UNCHANGED <<task, prev, slots, active, pending>>
  BY DEF RetireTail
<1>2. tails \in [Keys -> Tasks \cup {0}] /\ (\A j \in Tasks : j \in Nat)
  BY SchedulerAssumption DEF SchedulerInv, SchedulerType, SchedulerAssumption
<1>3. SchedulerType'
  BY <1>1, <1>2 DEF SchedulerInv, SchedulerType
<1>4. ASSUME NEW x \in Tasks PROVE ChainOf(x)'
  BY <1>1 DEF ChainOf, OverBefore, SchedulerInv, Chains
<1>5. ASSUME NEW l \in Keys, l # k PROVE TailOf(l)'
  <2>1. tails'[l] = tails[l]
    BY <1>1, <1>2, <1>5
  <2> QED
    BY <1>1, <2>1 DEF TailOf, SchedulerInv, Chains
<1>6. TailOf(k)'
  <2> DEFINE t == tails[k]
  <2>1. t \in Tasks /\ KeyOf[t] = k /\ k # NoKey /\ TailOf(k) /\ ChainOf(t)
    BY <1>1, <1>2 DEF TailOf, SchedulerInv, Chains, Keys
  <2>2. ASSUME NEW j \in Tasks, KeyOf[j] = k PROVE task[j] \in {"new", "done"}
    <3>1. CASE j > t
      BY <1>1, <2>1, <2>2, <3>1 DEF TailOf
    <3>2. CASE j < t
      <4>1. SameKey(j, t)
        BY <2>1, <2>2 DEF SameKey
      <4> QED
        BY <1>1, <2>1, <3>2, <4>1 DEF ChainOf, OverBefore
    <3>3. CASE j = t
      BY <1>1, <3>3
    <3> HIDE DEF t
    <3> QED
      BY <1>2, <2>1, <3>1, <3>2, <3>3
  <2>3. tails'[k] = 0
    BY <1>1, <1>2
  <2> QED
    BY <1>1, <2>2, <2>3 DEF TailOf
<1>7. SchedulerInv'
  BY <1>1, <1>3, <1>4, <1>5, <1>6 DEF SchedulerInv, Chains, Waiters
<1>8. PhaseStep
  BY <1>1 DEF PhaseStep, Phase
<1> QED
  BY <1>1, <1>7, <1>8


\* A task that is over lets those behind it go on; the chains keep what they say.
LEMMA ChainsThroughEnd ==
    ASSUME SchedulerInv, task' \in [Tasks -> Phases], UNCHANGED <<prev, tails>>,
           \A j \in Tasks : /\ task[j] = "done" => task'[j] = "done"
                            /\ task'[j] = "chained" <=> task[j] = "chained"
                            /\ task'[j] = "new" <=> task[j] = "new"
    PROVE  Chains'
<1>1. ASSUME NEW x \in Tasks PROVE ChainOf(x)'
  <2>1. ChainOf(x) /\ task[x] \in Phases /\ task'[x] \in Phases
    BY Basics DEF SchedulerInv, Chains
  <2>2. task'[x] \in {"slot", "running", "done"} <=> task[x] \in {"slot", "running", "done"}
    BY <2>1 DEF Phases
  <2> QED
    BY <2>1, <2>2 DEF ChainOf, OverBefore
<1>2. ASSUME NEW k \in Keys PROVE TailOf(k)'
  <2>1. /\ TailOf(k) /\ tails[k] \in Tasks \cup {0} /\ UNCHANGED tails
        /\ \A j \in Tasks : task[j] \in {"new", "done"} => task'[j] \in {"new", "done"}
    BY DEF SchedulerInv, SchedulerType, Chains
  <2> QED
    BY <2>1 DEF TailOf
<1> QED
  BY <1>1, <1>2 DEF Chains

\* release() with nobody waiting for a slot
LEMMA EndingAlone ==
    ASSUME SchedulerInv, IsFiniteSet(Tasks), NEW i \in Tasks, TaskEnds(i), slots = <<>>
    PROVE  SchedulerInv' /\ PhaseStep
<1>1. /\ task \in [Tasks -> Phases] /\ task[i] = "running"
      /\ task' = [task EXCEPT ![i] = "done"]
      /\ active' = active - 1 /\ pending' = pending - 1 /\ UNCHANGED <<prev, tails, slots>>
  BY Basics DEF TaskEnds, Release
<1>2. task' \in [Tasks -> Phases] /\ Moves(task, task', i) /\ task'[i] = "done"
  BY <1>1 DEF Moves, Phases
<1>3. /\ RunningIn(task') = RunningIn(task) - 1 /\ RunningIn(task') \in Nat
      /\ PendingIn(task') = PendingIn(task) - 1 /\ PendingIn(task') \in Nat
  BY <1>1, <1>2, Recount
<1>4. /\ active' = RunningIn(task') /\ active' \in Nat /\ active' <= Concurrency
      /\ pending' = PendingIn(task') /\ pending' \in Nat
  BY <1>1, <1>3, Basics DEF SchedulerInv, SchedulerType
<1>5. Chains'
  BY <1>1, <1>2, ChainsThroughEnd DEF Moves
<1>6. Waiters'
  BY <1>1 DEF Waiters
<1>7. SchedulerInv'
  BY <1>1, <1>2, <1>4, <1>5, <1>6 DEF SchedulerInv, SchedulerType, Phases
<1>8. PhaseStep
  BY <1>1, <1>2, <1>4, EndsOnly
<1> QED
  BY <1>7, <1>8

\* release() hands the slot to the first waiter.
LEMMA EndingOver ==
    ASSUME SchedulerInv, IsFiniteSet(Tasks), NEW i \in Tasks, TaskEnds(i), slots # <<>>
    PROVE  SchedulerInv' /\ PhaseStep
<1> DEFINE h == Head(slots)
           f == [task EXCEPT ![i] = "done"]
<1>1. /\ task \in [Tasks -> Phases] /\ task[i] = "running"
      /\ task' = [task EXCEPT ![i] = "done", ![h] = "running"]
      /\ slots' = Tail(slots) /\ active' = active /\ pending' = pending - 1
      /\ UNCHANGED <<prev, tails>>
  BY Basics DEF TaskEnds, Release
<1>2. /\ slots \in Seq(Tasks) /\ h \in Tasks /\ h = slots[1] /\ 1 \in 1..Len(slots)
      /\ Tail(slots) \in Seq(Tasks) /\ Len(Tail(slots)) = Len(slots) - 1
      /\ \A n \in 1..Len(Tail(slots)) : Tail(slots)[n] = slots[n + 1]
  BY HeadTailProperties DEF SchedulerInv, SchedulerType
<1>3. task[h] = "slot" /\ h # i
  BY <1>1, <1>2 DEF SchedulerInv, Waiters
<1> HIDE DEF h
<1>4. /\ f \in [Tasks -> Phases] /\ Moves(task, f, i) /\ f[i] = "done" /\ f[h] = "slot"
      /\ task' \in [Tasks -> Phases] /\ Moves(f, task', h) /\ task'[h] = "running"
      /\ task'[i] = "done"
  BY <1>1, <1>2, <1>3 DEF Moves, Phases
<1> HIDE DEF f
<1>5. /\ RunningIn(f) = RunningIn(task) - 1 /\ PendingIn(f) = PendingIn(task) - 1
      /\ RunningIn(task') = RunningIn(f) + 1 /\ PendingIn(task') = PendingIn(f)
      /\ RunningIn(task) \in Nat /\ PendingIn(task) \in Nat /\ PendingIn(task') \in Nat
  <2>1. /\ RunningIn(f) = RunningIn(task) - 1 /\ PendingIn(f) = PendingIn(task) - 1
        /\ RunningIn(task) \in Nat /\ PendingIn(task) \in Nat
    BY <1>1, <1>4, Recount
  <2>2. /\ RunningIn(task') = RunningIn(f) + 1 /\ PendingIn(task') = PendingIn(f)
        /\ PendingIn(task') \in Nat
    BY <1>2, <1>4, Recount
  <2> QED
    BY <2>1, <2>2
<1>6. /\ active' = RunningIn(task') /\ active' \in Nat /\ active' = Concurrency
      /\ active' <= Concurrency /\ pending' = PendingIn(task') /\ pending' \in Nat
  BY <1>1, <1>5, Basics DEF SchedulerInv, SchedulerType
<1>7. Chains'
  <2>1. \A j \in Tasks : j # i /\ j # h => task'[j] = task[j]
    BY <1>4 DEF Moves
  <2> QED
    BY <1>1, <1>3, <1>4, <2>1, ChainsThroughEnd
<1>8. Waiters'
  <2>1. Len(slots) \in Nat
    BY <1>2
  <2>2. ASSUME NEW n \in 1..Len(slots') PROVE task'[slots'[n]] = "slot"
    <3>1. n + 1 \in 1..Len(slots) /\ n + 1 # 1 /\ slots'[n] = slots[n + 1]
      BY <1>1, <1>2, <2>1
    <3>2. slots[n + 1] \in Tasks /\ task[slots[n + 1]] = "slot" /\ slots[n + 1] # h
      BY <1>2, <3>1, ElementOfSeq DEF SchedulerInv, Waiters
    <3> QED
      BY <1>1, <3>1, <3>2
  <2>3. ASSUME NEW m \in 1..Len(slots'), NEW n \in 1..Len(slots'), slots'[m] = slots'[n]
        PROVE  m = n
    <3>1. /\ m + 1 \in 1..Len(slots) /\ slots'[m] = slots[m + 1]
          /\ n + 1 \in 1..Len(slots) /\ slots'[n] = slots[n + 1]
      BY <1>1, <1>2, <2>1
    <3>2. m + 1 = n + 1
      BY <2>3, <3>1 DEF SchedulerInv, Waiters
    <3> QED
      BY <3>2
  <2> QED
    BY <2>2, <2>3 DEF Waiters
<1>9. SchedulerInv'
  BY <1>1, <1>2, <1>4, <1>6, <1>7, <1>8 DEF SchedulerInv, SchedulerType, Phases
<1>10. OverBefore(h)
  BY <1>2, <1>3 DEF SchedulerInv, Chains, ChainOf
<1>11. PhaseStep
  BY <1>1, <1>2, <1>3, <1>4, <1>6, <1>10, HandsOver
<1> QED
  BY <1>9, <1>11

\* A task ends, and perhaps another begins.
LEMMA Ending ==
    ASSUME SchedulerInv, IsFiniteSet(Tasks), NEW i \in Tasks, TaskEnds(i)
    PROVE  /\ SchedulerInv' /\ PhaseStep /\ pending' = pending - 1
           /\ \A j \in Tasks : task'[j] = "new" <=> task[j] = "new"
<1>1. SchedulerInv' /\ PhaseStep
  BY EndingAlone, EndingOver
<1>2. /\ task \in [Tasks -> Phases] /\ task[i] = "running"
      /\ slots # <<>> => Head(slots) \in Tasks /\ task[Head(slots)] = "slot"
  <2>1. slots # <<>> => 1 \in 1..Len(slots) /\ Head(slots) = slots[1] /\ Head(slots) \in Tasks
    BY HeadTailProperties DEF SchedulerInv, SchedulerType
  <2> QED
    BY <2>1, Basics DEF SchedulerInv, Waiters, TaskEnds
<1>3. \/ task' = [task EXCEPT ![i] = "done"]
      \/ slots # <<>> /\ task' = [task EXCEPT ![i] = "done", ![Head(slots)] = "running"]
  BY DEF TaskEnds, Release
<1>4. \A j \in Tasks : task'[j] = "new" <=> task[j] = "new"
  BY <1>2, <1>3
<1> QED
  BY <1>1, <1>4 DEF TaskEnds

\* The scheduler starts empty.
LEMMA Beginning ==
    ASSUME SchedulerInit, IsFiniteSet(Tasks)
    PROVE  SchedulerInv /\ Keyed!KeyedInit /\ NewFrom(0) /\ pending = 0
<1>1. SchedulerType /\ (\A j \in Tasks : j \in Nat)
  BY SchedulerAssumption DEF SchedulerInit, SchedulerType, SchedulerAssumption
<1>2. At(task, {"running"}) = {} /\ At(task, {"chained", "slot", "running"}) = {}
  BY DEF SchedulerInit, At
<1>3. RunningIn(task) = 0 /\ PendingIn(task) = 0
  BY <1>2, FS_EmptySet DEF RunningIn, PendingIn
<1>4. Waiters /\ Chains
  BY DEF SchedulerInit, Waiters, Chains, ChainOf, TailOf
<1>5. SchedulerInv
  BY <1>1, <1>3, <1>4, SchedulerAssumption DEF SchedulerInit, SchedulerInv, SchedulerAssumption
<1>6. Keyed!KeyedInit
  BY DEF SchedulerInit, Keyed!KeyedInit, Phase
<1> QED
  BY <1>1, <1>5, <1>6 DEF SchedulerInit, NewFrom
-----------------------------------------------------------------------------
(* The runner: its invariant *)

\* The batch still to be submitted begins where the offset is.
Batch ==
    /\ pc = "poll" => sentOffset = offset
    /\ pc = "poll" /\ request = "answered" =>
          bnext = Greater(1, offset) /\ bend <= bnext + Limit - 1
    /\ pc = "submit" => bnext = Greater(1, offset) /\ bnext <= bend

\* Whatever confirms an offset, now or when it arrives late, carries none
\* beyond what was submitted.
Confirming ==
    /\ NewFrom(offset)
    /\ confirmed <= Greater(1, offset)
    /\ sentOffset <= offset
    /\ \A o \in orphans : o <= offset

\* The loop polls when fewer than Concurrency are pending, and submits one
\* batch before it asks again.
Room ==
    /\ pending <= Concurrency + Limit - 1
    /\ pc = "gate" /\ gateOpen => pending < Concurrency
    /\ pc = "poll" => pending < Concurrency
    /\ pc = "submit" => pending + (bend - bnext) <= Concurrency + Limit - 2

\* stop() goes on to its end when the loop is over and nothing is pending.
Stopping ==
    /\ stopPc \in {"idle", "confirm", "stopped"} => pc = "done"
    /\ stopPc = "idle" /\ idleOpen => pending = 0
    /\ stopPc \in {"confirm", "stopped"} => pending = 0

RunnerInv == TypeOK /\ SchedulerInv /\ Confirming /\ Batch /\ Room /\ Stopping

USE DEF vars, telegramVars, wireVars, stopVars, schedulerVars
-----------------------------------------------------------------------------
\* The bounds are numbers, and the tasks are the updates.
LEMMA Numbers ==
    /\ MaxUpdate \in Nat /\ Limit \in Nat /\ Limit >= 1
    /\ Concurrency \in Nat /\ Concurrency >= 1
    /\ Tasks = 1..MaxUpdate /\ IsFiniteSet(Tasks) /\ Ids = 1..MaxUpdate
<1>1. MaxUpdate \in Nat /\ Limit \in Nat /\ Limit >= 1 /\ Concurrency \in Nat /\ Concurrency >= 1
  BY TelegramAssumption, SchedulerAssumption DEF TelegramAssumption, SchedulerAssumption
<1>2. Tasks = 1..MaxUpdate /\ Ids = 1..MaxUpdate
  BY RunnerAssumption DEF RunnerAssumption, Ids
<1> QED
  BY <1>1, <1>2, FS_Interval

\* Steps of Telegram, of the loop between two polls, and of stop(): none of
\* them touches the scheduler.
TelegramStep == Arrive \/ Answer \/ OrphanArrives
LoopOnly ==
    InitDone \/ RetryDone \/ GateWait \/ PollSend \/ LoopEnds \/ PollReceive
    \/ PollFails \/ BackoffDone
StopStep == StopCall \/ StopLoopOver \/ StopDrained \/ StopConfirmed

\* Every step is of one of these kinds.
LEMMA StepKinds ==
    ASSUME [Next]_vars
    PROVE  TelegramStep \/ LoopOnly \/ StopStep \/ SubmitNext \/ ChainStep \/ Handling
           \/ UNCHANGED vars
BY Zenon DEF Next, TelegramStep, LoopOnly, StopStep

\* Only submitting, chains and handling touch the scheduler.
LEMMA SchedulerRests ==
    ASSUME TelegramStep \/ LoopOnly \/ StopStep \/ UNCHANGED vars
    PROVE  UNCHANGED schedulerVars
BY DEF TelegramStep, LoopOnly, StopStep, Arrive, Answer, OrphanArrives, InitDone, RetryDone,
       GateWait, PollSend, LoopEnds, PollReceive, PollFails, BackoffDone, LoopStep, StopCall,
       StopLoopOver, StopDrained, StopConfirmed

\* The invariant of the scheduler depends on its variables only.
LEMMA Resting ==
    ASSUME SchedulerInv, UNCHANGED schedulerVars
    PROVE  SchedulerInv' /\ PhaseStep
<1>1. /\ SchedulerType' /\ Waiters' /\ Chains'
      /\ (slots # <<>> => active = Concurrency)' /\ (active <= Concurrency)'
  BY DEF SchedulerInv, SchedulerType, Waiters, Chains, ChainOf, TailOf, OverBefore
<1>2. task' = task
  OBVIOUS
<1>3. (active = RunningIn(task) /\ pending = PendingIn(task))'
  BY DEF SchedulerInv, RunningIn, PendingIn, At
<1>4. PhaseStep
  BY DEF PhaseStep, Phase
<1> QED
  BY <1>1, <1>3, <1>4 DEF SchedulerInv

\* What a step does to the scheduler: the next update of a batch is submitted,
LEMMA SubmitsNext ==
    ASSUME RunnerInv, SubmitNext
    PROVE  /\ SchedulerInv' /\ PhaseStep /\ NewFrom(offset)' /\ pending' = pending + 1
           /\ bnext = Greater(1, offset) /\ bnext <= bend /\ bend <= MaxUpdate
<1>1. /\ bnext = Greater(1, offset) /\ bnext <= bend /\ bend \in 0..MaxUpdate
      /\ bnext \in 1..(MaxUpdate + 1) /\ offset \in Nat
  BY Numbers DEF RunnerInv, Batch, SubmitNext, TypeOK, TelegramType, Offsets
<1>2. bnext \in Tasks
  BY <1>1, Numbers
<1>3. PICK n \in Tasks : n = bnext
  BY <1>2
<1>4. NewFrom(n)
  BY <1>1, <1>3, Numbers DEF RunnerInv, Confirming, NewFrom, Greater
<1>5. Submit(n) /\ offset' = n + 1
  BY <1>3 DEF SubmitNext
<1>6. SchedulerInv' /\ PhaseStep /\ NewFrom(n + 1)' /\ pending' = pending + 1
  BY <1>4, <1>5, Numbers, Submitting DEF RunnerInv
<1>7. NewFrom(offset)'
  BY <1>5, <1>6 DEF NewFrom
<1> QED
  BY <1>1, <1>6, <1>7

\* ... a chained task gets its turn or a key is forgotten,
LEMMA ChainsGoOn ==
    ASSUME RunnerInv, ChainStep
    PROVE  /\ SchedulerInv' /\ PhaseStep /\ pending' = pending
           /\ \A j \in Tasks : task'[j] = "new" <=> task[j] = "new"
<1>1. ASSUME NEW i \in Tasks, ChainTurn(i)
      PROVE  /\ SchedulerInv' /\ PhaseStep /\ pending' = pending
             /\ \A j \in Tasks : task'[j] = "new" <=> task[j] = "new"
  <2>1. /\ SchedulerInv' /\ PhaseStep /\ Moves(task, task', i)
        /\ task[i] # "new" /\ task'[i] # "new"
    BY <1>1, Turning, Numbers DEF RunnerInv
  <2>2. pending' = pending
    BY <1>1 DEF ChainTurn
  <2> QED
    BY <2>1, <2>2 DEF Moves
<1>2. ASSUME NEW k \in Keys, RetireTail(k)
      PROVE  /\ SchedulerInv' /\ PhaseStep /\ pending' = pending
             /\ \A j \in Tasks : task'[j] = "new" <=> task[j] = "new"
  BY <1>2, Retiring DEF RunnerInv
<1> QED
  BY <1>1, <1>2, Zenon DEF ChainStep

\* ... or a handler returns.
LEMMA Handled ==
    ASSUME RunnerInv, Handling
    PROVE  /\ SchedulerInv' /\ PhaseStep /\ pending' = pending - 1 /\ pending' \in Nat
           /\ \A j \in Tasks : task'[j] = "new" <=> task[j] = "new"
<1>1. PICK i \in Tasks : HandlingEnds(i)
  BY DEF Handling
<1>2. /\ SchedulerInv' /\ PhaseStep /\ pending' = pending - 1
      /\ \A j \in Tasks : task'[j] = "new" <=> task[j] = "new"
  BY <1>1, Ending, Numbers DEF HandlingEnds, RunnerInv
<1> QED
  BY <1>2 DEF SchedulerInv, SchedulerType

\* So every step keeps its invariant and is one of KeyedTasks, or none.
LEMMA SchedulerKept ==
    ASSUME RunnerInv, [Next]_vars
    PROVE  SchedulerInv' /\ PhaseStep
<1>1. CASE TelegramStep \/ LoopOnly \/ StopStep \/ UNCHANGED vars
  BY <1>1, SchedulerRests, Resting DEF RunnerInv
<1> QED
  BY <1>1, StepKinds, SubmitsNext, ChainsGoOn, Handled

-----------------------------------------------------------------------------
(* Types *)

\* A request given up on may become an orphan; nothing else is left of it.
LEMMA GivingUp ==
    ASSUME TypeOK, Abandon
    PROVE  /\ request' = "none" /\ bnext' \in 1..(MaxUpdate + 1) /\ bend' \in 0..MaxUpdate
           /\ orphans' \subseteq 0..(MaxUpdate + 1)
           /\ \A o \in orphans' : o \in orphans \/ o = sentOffset
<1>1. 1 \in 1..(MaxUpdate + 1) /\ 0 \in 0..MaxUpdate
  BY Numbers
<1>2. sentOffset \in 0..(MaxUpdate + 1) /\ orphans \subseteq 0..(MaxUpdate + 1)
  BY DEF TypeOK, TelegramType, Offsets
<1>3. orphans' = orphans \/ orphans' = orphans \cup {sentOffset}
  BY DEF Abandon
<1> QED
  BY <1>1, <1>2, <1>3 DEF Abandon

\* Every step keeps the types.
LEMMA TypeKept ==
    ASSUME RunnerInv, [Next]_vars
    PROVE  TypeOK'
<1> USE Numbers
<1>1. SchedulerType'
  BY SchedulerKept DEF SchedulerInv
<1>2. /\ arrived \in 0..MaxUpdate /\ confirmed \in 1..(MaxUpdate + 1)
      /\ request \in {"none", "sent", "answered"} /\ sentOffset \in 0..(MaxUpdate + 1)
      /\ orphans \subseteq 0..(MaxUpdate + 1) /\ bnext \in 1..(MaxUpdate + 1)
      /\ bend \in 0..MaxUpdate /\ offset \in 0..(MaxUpdate + 1)
      /\ TypeOK
  BY DEF RunnerInv, TypeOK, TelegramType, Offsets
<1>3. CASE TelegramStep
  <2>1. CASE Arrive
    BY <1>1, <1>2, <2>1 DEF Arrive, UpdateArrives, TypeOK, TelegramType, Offsets
  <2>2. CASE Answer
    <3>1. confirmed' \in 1..(MaxUpdate + 1) /\ request' = "answered"
      BY <1>2, <2>2 DEF Answer, RequestAnswered, Greater
    <3>2. bnext' \in 1..(MaxUpdate + 1) /\ bend' \in 0..MaxUpdate
      BY <1>2, <2>2, <3>1 DEF Answer, RequestAnswered, Lesser
    <3> QED
      BY <1>1, <1>2, <2>2, <3>1, <3>2 DEF Answer, RequestAnswered, TypeOK, TelegramType, Offsets
  <2>3. CASE OrphanArrives
    <3>1. confirmed' \in 1..(MaxUpdate + 1) /\ orphans' \subseteq orphans
      BY <1>2, <2>3 DEF OrphanArrives, LateRequestArrives, Greater
    <3> QED
      BY <1>1, <1>2, <2>3, <3>1 DEF OrphanArrives, LateRequestArrives, TypeOK, TelegramType, Offsets
  <2> QED
    BY <1>3, <2>1, <2>2, <2>3 DEF TelegramStep
<1>4. CASE LoopOnly
  <2>1. CASE InitDone \/ RetryDone \/ GateWait \/ PollSend \/ LoopEnds \/ PollReceive \/ BackoffDone
    BY <1>1, <1>2, <2>1 DEF InitDone, Reported, RetryDone, GateWait, PollSend, LoopEnds, PollReceive,
       BackoffDone, LoopStep, TypeOK, TelegramType, Offsets
  <2>2. CASE PollFails
    <3>1. pc' \in {"done", "backoff", "failed"} /\ LoopStep /\ UNCHANGED <<sentOffset, offset, gateOpen>>
      BY <2>2 DEF PollFails, Reported
    <3> QED
      BY <1>1, <1>2, <2>2, <3>1, GivingUp DEF PollFails, LoopStep, TypeOK, TelegramType, Offsets
  <2> QED
    BY <1>4, <2>1, <2>2 DEF LoopOnly
<1>5. CASE SubmitNext
  <2>1. bnext <= MaxUpdate
    BY <1>2, <1>5, SubmitsNext
  <2> QED
    BY <1>1, <1>2, <1>5, <2>1 DEF SubmitNext, TypeOK, TelegramType, Offsets
<1>6. CASE ChainStep
  BY <1>1, <1>2, <1>6 DEF ChainStep, TypeOK, TelegramType, Offsets
<1>7. CASE Handling
  <2>1. PICK i \in Tasks : HandlingEnds(i)
    BY <1>7 DEF Handling
  <2>2. gateOpen' \in BOOLEAN /\ idleOpen' \in BOOLEAN
    BY <1>2, <2>1, Zenon DEF HandlingEnds, TypeOK
  <2>3. UNCHANGED <<telegramVars, wireVars, sentOffset, pc, offset, stopped, stopPc>>
    BY <2>1 DEF HandlingEnds
  <2> QED
    BY <1>1, <1>2, <2>2, <2>3 DEF TypeOK, TelegramType
<1>8. CASE StopStep
  <2>1. CASE StopCall \/ StopDrained
    BY <1>1, <1>2, <2>1 DEF StopCall, StopDrained, TypeOK, TelegramType, Offsets
  <2>3. CASE StopConfirmed
    BY <1>1, <1>2, <2>3, GivingUp DEF StopConfirmed, TypeOK, TelegramType, Offsets
  <2>2. CASE StopLoopOver
    <3>1. idleOpen' \in BOOLEAN
      BY <2>2, Zenon DEF StopLoopOver
    <3> QED
      BY <1>1, <1>2, <2>2, <3>1 DEF StopLoopOver, TypeOK, TelegramType
  <2> QED
    BY <1>8, <2>1, <2>2, <2>3 DEF StopStep
<1>9. CASE UNCHANGED vars
  BY <1>1, <1>2, <1>9 DEF TypeOK, TelegramType
<1> QED
  BY <1>3, <1>4, <1>5, <1>6, <1>7, <1>8, <1>9, StepKinds

-----------------------------------------------------------------------------
(* What may be confirmed *)

\* What is a number
LEMMA Ranges ==
    ASSUME TypeOK
    PROVE  /\ arrived \in Nat /\ confirmed \in Nat /\ confirmed >= 1 /\ sentOffset \in Nat
           /\ bnext \in Nat /\ bend \in Nat /\ offset \in Nat /\ pending \in Nat
           /\ \A o \in orphans : o \in Nat
BY Numbers DEF TypeOK, TelegramType, SchedulerType, Offsets

\* While the offset stands, no task is submitted.
LEMMA NewFromKept ==
    ASSUME NewFrom(offset), offset' = offset,
           \A j \in Tasks : task'[j] = "new" <=> task[j] = "new"
    PROVE  NewFrom(offset)'
BY DEF NewFrom

\* No step lets a confirmation get ahead of what was submitted.
LEMMA ConfirmingKept ==
    ASSUME RunnerInv, [Next]_vars
    PROVE  Confirming'
<1> USE Numbers
<1>1. /\ TypeOK /\ NewFrom(offset) /\ confirmed <= Greater(1, offset) /\ sentOffset <= offset
      /\ \A o \in orphans : o <= offset
  BY DEF RunnerInv, Confirming
<1>2. ASSUME UNCHANGED schedulerVars, offset' = offset PROVE NewFrom(offset)'
  BY <1>1, <1>2, NewFromKept
<1>3. CASE TelegramStep
  <2>1. NewFrom(offset)' /\ offset' = offset /\ sentOffset' = sentOffset
    BY <1>2, <1>3, SchedulerRests
       DEF TelegramStep, Arrive, Answer, OrphanArrives, UpdateArrives, RequestAnswered,
           LateRequestArrives
  <2>2. CASE Arrive
    BY <1>1, <2>1, <2>2 DEF Arrive, UpdateArrives, Confirming
  <2>3. CASE Answer
    <3>1. confirmed' <= Greater(1, offset) /\ orphans' = orphans
      BY <1>1, <2>3, Ranges DEF Answer, RequestAnswered, Greater
    <3> QED
      BY <1>1, <2>1, <3>1 DEF Confirming
  <2>4. CASE OrphanArrives
    <3>1. PICK o \in orphans : orphans' = orphans \ {o} /\ confirmed' = Greater(confirmed, o)
      BY <2>4 DEF OrphanArrives, LateRequestArrives
    <3>2. confirmed' <= Greater(1, offset)
      BY <1>1, <3>1, Ranges DEF Greater
    <3> QED
      BY <1>1, <2>1, <3>1, <3>2 DEF Confirming
  <2> QED
    BY <1>3, <2>2, <2>3, <2>4 DEF TelegramStep
<1>4. CASE LoopOnly
  <2>1. NewFrom(offset)' /\ offset' = offset /\ confirmed' = confirmed
    BY <1>2, <1>4, SchedulerRests
       DEF LoopOnly, InitDone, RetryDone, GateWait, PollSend, LoopEnds, PollReceive,
           PollFails, BackoffDone, LoopStep
  <2>2. CASE PollSend
    BY <1>1, <2>1, <2>2, Ranges DEF PollSend, Confirming
  <2>3. CASE PollFails
    BY <1>1, <2>1, <2>3, GivingUp DEF PollFails, Confirming
  <2>4. CASE InitDone \/ RetryDone \/ GateWait \/ LoopEnds \/ PollReceive \/ BackoffDone
    <3>1. sentOffset' = sentOffset /\ orphans' = orphans
      BY <2>4 DEF InitDone, RetryDone, GateWait, LoopEnds, PollReceive, BackoffDone
    <3> QED
      BY <1>1, <2>1, <3>1 DEF Confirming
  <2> QED
    BY <1>4, <2>2, <2>3, <2>4 DEF LoopOnly
<1>5. CASE SubmitNext
  <2>1. NewFrom(offset)' /\ bnext = Greater(1, offset) /\ offset' = bnext + 1
    BY <1>5, SubmitsNext DEF SubmitNext
  <2>2. offset' \in Nat /\ offset' >= offset /\ Greater(1, offset)' >= Greater(1, offset)
    BY <1>1, <2>1, Ranges DEF Greater
  <2>3. UNCHANGED <<confirmed, sentOffset, orphans>>
    BY <1>5 DEF SubmitNext
  <2>4. Greater(1, offset) \in Nat /\ Greater(1, offset)' \in Nat
    BY <1>1, <2>2, Ranges DEF Greater
  <2>5. /\ confirmed' <= Greater(1, offset)' /\ sentOffset' <= offset'
        /\ \A o \in orphans' : o <= offset'
    BY <1>1, <2>2, <2>3, <2>4, Ranges
  <2> QED
    BY <2>1, <2>5 DEF Confirming
<1>6. CASE ChainStep \/ Handling
  <2>1. UNCHANGED <<confirmed, sentOffset, orphans, offset>>
    BY <1>6 DEF ChainStep, Handling, HandlingEnds
  <2>2. NewFrom(offset)'
    BY <1>1, <1>6, <2>1, NewFromKept, ChainsGoOn, Handled
  <2> QED
    BY <1>1, <2>1, <2>2 DEF Confirming
<1>7. CASE StopStep
  <2>1. NewFrom(offset)' /\ offset' = offset /\ confirmed' = confirmed
    BY <1>2, <1>7, SchedulerRests
       DEF StopStep, StopCall, StopLoopOver, StopDrained, StopConfirmed
  <2>2. CASE StopDrained
    BY <1>1, <2>1, <2>2, Ranges DEF StopDrained, Confirming
  <2>3. CASE StopConfirmed
    BY <1>1, <2>1, <2>3, GivingUp DEF StopConfirmed, Confirming
  <2>4. CASE StopCall \/ StopLoopOver
    <3>1. sentOffset' = sentOffset /\ orphans' = orphans
      BY <2>4 DEF StopCall, StopLoopOver
    <3> QED
      BY <1>1, <2>1, <3>1 DEF Confirming
  <2> QED
    BY <1>7, <2>2, <2>3, <2>4 DEF StopStep
<1>8. CASE UNCHANGED vars
  <2>1. NewFrom(offset)'
    BY <1>2, <1>8
  <2> QED
    BY <1>1, <1>8, <2>1 DEF Confirming
<1> QED
  BY <1>3, <1>4, <1>5, <1>6, <1>7, <1>8, StepKinds

\* Every step keeps the batch in front of the offset.
LEMMA BatchKept ==
    ASSUME RunnerInv, [Next]_vars
    PROVE  Batch'
<1> USE Numbers
<1>1. TypeOK /\ Batch /\ Confirming
  BY DEF RunnerInv
<1>2. CASE TelegramStep
  <2>1. pc' = pc /\ offset' = offset /\ sentOffset' = sentOffset
    BY <1>2 DEF TelegramStep, Arrive, Answer, OrphanArrives, UpdateArrives,
                RequestAnswered, LateRequestArrives
  <2>2. CASE Arrive \/ OrphanArrives
    <3>1. UNCHANGED <<request, bnext, bend>>
      BY <2>2 DEF Arrive, OrphanArrives, UpdateArrives, LateRequestArrives
    <3> QED
      BY <1>1, <2>1, <3>1 DEF Batch
  <2>3. CASE Answer
    <3>1. CASE pc = "poll"
      <4>1. sentOffset = offset /\ confirmed <= Greater(1, offset)
        BY <1>1, <3>1 DEF Batch, Confirming
      <4>2. confirmed' = Greater(confirmed, sentOffset) /\ bnext' = confirmed'
            /\ bend' = Lesser(arrived, confirmed' + Limit - 1)
        BY <2>3, <3>1 DEF Answer, RequestAnswered
      <4>3. confirmed' = Greater(1, offset) /\ confirmed' \in Nat
        BY <1>1, <4>1, <4>2, Ranges DEF Greater
      <4>4. bend' <= bnext' + Limit - 1
        BY <1>1, <4>2, <4>3, Ranges DEF Lesser
      <4>5. bnext' = Greater(1, offset)' /\ sentOffset' = offset' /\ pc' # "submit"
        BY <2>1, <3>1, <4>1, <4>2, <4>3 DEF Greater
      <4> QED
        BY <4>4, <4>5 DEF Batch
    <3>2. CASE pc # "poll"
      BY <1>1, <2>1, <2>3, <3>2 DEF Batch, Answer, RequestAnswered
    <3> QED
      BY <3>1, <3>2
  <2> QED
    BY <1>2, <2>2, <2>3 DEF TelegramStep
<1>3. CASE LoopOnly
  <2>1. CASE PollSend
    BY <1>1, <2>1, Ranges DEF PollSend, Batch
  <2>2. CASE PollReceive
    BY <1>1, <2>2 DEF PollReceive, Batch
  <2>3. CASE InitDone \/ RetryDone \/ GateWait \/ LoopEnds \/ PollFails \/ BackoffDone
    BY <2>3 DEF InitDone, Reported, RetryDone, GateWait, LoopEnds, PollFails, BackoffDone, Batch
  <2> QED
    BY <1>3, <2>1, <2>2, <2>3 DEF LoopOnly
<1>4. CASE SubmitNext
  <2>1. /\ offset' = bnext + 1 /\ bnext' = bnext + 1 /\ bend' = bend
        /\ pc' = IF bnext < bend THEN "submit" ELSE "top"
    BY <1>4 DEF SubmitNext
  <2>2. Greater(1, offset)' = bnext + 1
    BY <1>1, <2>1, Ranges DEF Greater
  <2> QED
    BY <1>1, <2>1, <2>2, Ranges DEF Batch
<1>5. CASE ChainStep \/ Handling \/ StopStep
  <2>1. CASE ChainStep \/ Handling \/ StopCall \/ StopLoopOver
    <3>1. UNCHANGED <<pc, request, offset, sentOffset, bnext, bend>>
      BY <2>1 DEF ChainStep, Handling, HandlingEnds, StopCall, StopLoopOver
    <3> QED
      BY <1>1, <3>1 DEF Batch
  <2>2. CASE StopDrained \/ StopConfirmed
    <3>1. pc = "done" /\ pc' = pc
      BY <2>2 DEF StopDrained, StopConfirmed, RunnerInv, Stopping
    <3> QED
      BY <3>1 DEF Batch
  <2> QED
    BY <1>5, <2>1, <2>2 DEF StopStep
<1>6. CASE UNCHANGED vars
  BY <1>1, <1>6 DEF Batch
<1> QED
  BY <1>2, <1>3, <1>4, <1>5, <1>6, StepKinds

-----------------------------------------------------------------------------
(* Backpressure and the end *)

\* Every step keeps what is pending within the gate and one batch.
LEMMA RoomKept ==
    ASSUME RunnerInv, [Next]_vars
    PROVE  Room'
<1> USE Numbers
<1>1. TypeOK /\ Batch /\ Room
  BY DEF RunnerInv
<1>2. CASE TelegramStep \/ StopStep \/ UNCHANGED vars
  <2>1. UNCHANGED <<pc, gateOpen, pending>>
    BY <1>2 DEF TelegramStep, StopStep, Arrive, Answer, OrphanArrives, StopCall, StopLoopOver,
                StopDrained, StopConfirmed
  <2>2. CASE pc # "submit"
    BY <1>1, <2>1, <2>2 DEF Room
  <2>3. CASE pc = "submit"
    <3>1. ~StopDrained /\ ~StopConfirmed
      BY <2>3 DEF StopDrained, StopConfirmed, RunnerInv, Stopping
    <3>2. UNCHANGED <<bnext, bend>>
      BY <1>2, <2>3, <3>1
         DEF TelegramStep, StopStep, Arrive, Answer, OrphanArrives, StopCall, StopLoopOver,
             UpdateArrives, RequestAnswered, LateRequestArrives
    <3> QED
      BY <1>1, <2>1, <2>3, <3>2 DEF Room
  <2> QED
    BY <2>2, <2>3
<1>3. CASE LoopOnly
  <2>1. pending' = pending
    BY <1>3, SchedulerRests
  <2>2. CASE GateWait
    BY <1>1, <2>1, <2>2 DEF GateWait, Room
  <2>3. CASE PollSend
    BY <1>1, <2>1, <2>3 DEF PollSend, Admitted, Room
  <2>4. CASE PollReceive
    <3>1. /\ pending < Concurrency /\ bend <= bnext + Limit - 1 /\ bnext' = bnext /\ bend' = bend
          /\ pc' \in {"submit", "top"}
      BY <1>1, <2>4 DEF PollReceive, Batch, Room
    <3>2. pending' + (bend' - bnext') <= Concurrency + Limit - 2
      BY <1>1, <2>1, <3>1, Ranges
    <3> QED
      BY <1>1, <2>1, <3>1, <3>2 DEF Room
  <2>5. CASE InitDone \/ RetryDone \/ LoopEnds \/ PollFails \/ BackoffDone
    <3>1. pc' \notin {"gate", "poll", "submit"}
      BY <2>5 DEF InitDone, Reported, RetryDone, LoopEnds, PollFails, BackoffDone
    <3> QED
      BY <1>1, <2>1, <3>1 DEF Room
  <2> QED
    BY <1>3, <2>2, <2>3, <2>4, <2>5 DEF LoopOnly
<1>4. CASE SubmitNext
  <2>1. /\ pending' = pending + 1 /\ bnext' = bnext + 1 /\ bend' = bend /\ bnext <= bend
        /\ pc' \in {"submit", "top"} /\ pc = "submit"
    BY <1>4, SubmitsNext DEF SubmitNext
  <2>2. pending + (bend - bnext) <= Concurrency + Limit - 2
    BY <1>1, <2>1 DEF Room
  <2>3. /\ pending' + (bend' - bnext') <= Concurrency + Limit - 2
        /\ pending' <= Concurrency + Limit - 1
    BY <1>1, <2>1, <2>2, Ranges
  <2> QED
    BY <2>1, <2>3 DEF Room
<1>5. CASE ChainStep
  <2>1. UNCHANGED <<pc, gateOpen, pending>> /\ pc # "submit"
    BY <1>5, ChainsGoOn DEF ChainStep, Awaiting
  <2> QED
    BY <1>1, <2>1 DEF Room
<1>6. CASE Handling
  <2>1. pending' = pending - 1 /\ pending' \in Nat
    BY <1>6, Handled
  <2>2. /\ pc' = pc /\ pc # "submit"
        /\ pc = "gate" /\ gateOpen' => gateOpen \/ pending' < Concurrency
    BY <1>6 DEF Handling, HandlingEnds, Awaiting
  <2>3. pending' < pending /\ pending \in Nat
    BY <1>1, <2>1, Ranges
  <2> QED
    BY <1>1, <2>1, <2>2, <2>3 DEF Room
<1> QED
  BY <1>2, <1>3, <1>4, <1>5, <1>6, StepKinds

\* Every step keeps the order in which stop() proceeds.
LEMMA StoppingKept ==
    ASSUME RunnerInv, [Next]_vars
    PROVE  Stopping'
<1>1. TypeOK /\ Stopping
  BY DEF RunnerInv
<1>2. CASE TelegramStep \/ UNCHANGED vars
  <2>1. UNCHANGED <<pc, stopPc, idleOpen, pending>>
    BY <1>2 DEF TelegramStep, Arrive, Answer, OrphanArrives
  <2> QED
    BY <1>1, <2>1 DEF Stopping
<1>3. CASE LoopOnly
  <2>1. pc # "done" /\ UNCHANGED <<stopPc, idleOpen>>
    BY <1>3 DEF LoopOnly, InitDone, RetryDone, GateWait, PollSend, LoopEnds, PollReceive,
                PollFails, BackoffDone, LoopStep, Admitted
  <2> QED
    BY <1>1, <2>1 DEF Stopping
<1>4. CASE SubmitNext
  <2>1. pc # "done" /\ UNCHANGED <<stopPc, idleOpen>>
    BY <1>4 DEF SubmitNext
  <2> QED
    BY <1>1, <2>1 DEF Stopping
<1>5. CASE ChainStep
  <2>1. UNCHANGED <<pc, stopPc, idleOpen, pending>>
    BY <1>5, ChainsGoOn DEF ChainStep
  <2> QED
    BY <1>1, <2>1 DEF Stopping
<1>6. CASE Handling
  <2>1. pending' = pending - 1 /\ pending' \in Nat /\ pending \in Nat
    BY <1>1, <1>6, Handled, Ranges
  <2>2. pending # 0
    BY <2>1
  <2>3. /\ UNCHANGED <<pc, stopPc>>
        /\ idleOpen' => idleOpen \/ (stopPc = "idle" /\ pending' = 0)
    BY <1>6, Zenon DEF Handling, HandlingEnds
  <2> QED
    BY <1>1, <2>2, <2>3 DEF Stopping
<1>7. CASE StopStep
  <2>1. pc' = pc /\ pending' = pending
    BY <1>7 DEF StopStep, StopCall, StopLoopOver, StopDrained, StopConfirmed
  <2>2. CASE StopCall
    BY <2>2 DEF StopCall, Stopping
  <2>3. CASE StopLoopOver
    <3>1. idleOpen' => pending = 0
      BY <2>3, Zenon DEF StopLoopOver
    <3>2. stopPc' \in {"idle", "failed"} /\ (stopPc' = "idle" => pc = "done")
      BY <2>3 DEF StopLoopOver
    <3> QED
      BY <2>1, <3>1, <3>2 DEF Stopping
  <2>4. CASE StopDrained \/ StopConfirmed
    <3>1. stopPc' # "idle" /\ pending = 0 /\ pc = "done"
      BY <1>1, <2>4 DEF StopDrained, StopConfirmed, Stopping
    <3> QED
      BY <2>1, <3>1 DEF Stopping
  <2> QED
    BY <1>7, <2>2, <2>3, <2>4 DEF StopStep
<1> QED
  BY <1>2, <1>3, <1>4, <1>5, <1>6, <1>7, StepKinds
-----------------------------------------------------------------------------
\* The initial states
LEMMA Starts == Init => RunnerInv /\ Keyed!KeyedInit
<1> SUFFICES ASSUME Init PROVE RunnerInv /\ Keyed!KeyedInit
  OBVIOUS
<1>1. SchedulerInv /\ Keyed!KeyedInit /\ NewFrom(0) /\ pending = 0
  BY Beginning, Numbers DEF Init
<1>2. TypeOK
  <2>1. SchedulerType
    BY <1>1 DEF SchedulerInv
  <2>2. /\ 0 \in 0..MaxUpdate /\ 1 \in 1..(MaxUpdate + 1) /\ 0 \in 0..(MaxUpdate + 1)
    BY Numbers
  <2> QED
    BY <2>1, <2>2 DEF Init, TelegramInit, TypeOK, TelegramType, Offsets
<1>3. Confirming
  BY <1>1 DEF Init, TelegramInit, Confirming, Greater
<1>4. Batch /\ Stopping
  BY DEF Init, Batch, Stopping
<1>5. Room
  BY <1>1, Numbers DEF Init, Room
<1> QED
  BY <1>1, <1>2, <1>3, <1>4, <1>5 DEF RunnerInv

\* The inductive invariant holds always.
LEMMA Invariance == Spec => []RunnerInv
<1>1. Init => RunnerInv
  BY Starts
<1>2. RunnerInv /\ [Next]_vars => RunnerInv'
  BY TypeKept, SchedulerKept, ConfirmingKept, BatchKept, RoomKept, StoppingKept DEF RunnerInv
<1> QED
  BY <1>1, <1>2, PTL DEF Spec

\* Every variable of the runner, its scheduler and the wire keeps its type:
\* no offset, batch or counter leaves its range.
THEOREM TypeCorrect == Spec => []TypeOK
<1>1. RunnerInv => TypeOK
  BY DEF RunnerInv
<1> QED
  BY <1>1, Invariance, PTL

\* A slot is never lost nor given twice, and idle() and whenBelow() read the
\* number of tasks that are submitted and not over.
THEOREM NoSlotLost == Spec => []CountersExact
<1>1. RunnerInv => CountersExact
  BY CountersAre DEF RunnerInv
<1> QED
  BY <1>1, Invariance, PTL

\* Telegram forgets no update that the runner did not hand to its scheduler,
\* however late an abandoned request arrives.
THEOREM NothingSkipped == Spec => []ConfirmedIsTaken
<1>1. RunnerInv => ConfirmedIsTaken
  <2> SUFFICES ASSUME RunnerInv, NEW i \in Ids, i < confirmed PROVE task[i] # "new"
    BY DEF ConfirmedIsTaken
  <2>1. i \in Nat /\ i >= 1 /\ i \in Tasks
    BY Numbers
  <2>2. i < offset
    BY <2>1, Ranges DEF RunnerInv, Confirming, Greater
  <2> QED
    BY <2>1, <2>2, Ranges DEF RunnerInv, Confirming, NewFrom
<1> QED
  BY <1>1, Invariance, PTL

\* What a crash would lose now, confirmed and not handled, is at most a batch
\* on top of a scheduler that had room.
THEOREM CrashLosesLittle == Spec => []LossBounded
<1>1. RunnerInv => LossBounded
  <2> SUFFICES ASSUME RunnerInv PROVE LossBounded
    OBVIOUS
  <2> DEFINE S == {i \in Ids : i < confirmed /\ task[i] # "done"}
             T == At(task, {"chained", "slot", "running"})
  <2>1. ASSUME NEW i \in S PROVE i \in T
    <3>1. i \in Tasks /\ i \in Nat /\ i >= 1 /\ i < confirmed /\ task[i] # "done"
      BY Numbers
    <3>2. i < offset
      BY <3>1, Ranges DEF RunnerInv, Confirming, Greater
    <3>3. task[i] # "new"
      BY <3>1, <3>2, Ranges DEF RunnerInv, Confirming, NewFrom
    <3> QED
      BY <3>1, <3>3, Basics DEF RunnerInv, At, Phases
  <2>2. IsFiniteSet(T) /\ S \in SUBSET T
    <3>1. T \in SUBSET Tasks
      BY DEF At
    <3> HIDE DEF T
    <3>2. IsFiniteSet(T)
      BY <3>1, Numbers, FS_Subset
    <3>3. S \in SUBSET T
      BY <2>1, Zenon
    <3> QED
      BY <3>2, <3>3
  <2>3. pending = Cardinality(T) /\ pending <= Concurrency + Limit - 1
    BY DEF RunnerInv, SchedulerInv, PendingIn, Room
  <2> HIDE DEF T
  <2>4. Cardinality(S) \in Nat /\ Cardinality(S) <= Cardinality(T) /\ Cardinality(T) \in Nat
    <3> HIDE DEF S
    <3> QED
      BY <2>2, FS_Subset, FS_CardinalityType
  <2>5. Cardinality(S) <= Concurrency + Limit - 1
    BY <2>3, <2>4, Numbers
  <2> QED
    BY <2>5 DEF LossBounded
<1> QED
  BY <1>1, Invariance, PTL

\* When stop() confirms its last offset and returns, the loop is over and
\* everything that was submitted is handled.
THEOREM StopLeavesNothing == Spec => []StopDrains
<1>1. RunnerInv => StopDrains
  <2> SUFFICES ASSUME RunnerInv, stopPc \in {"confirm", "stopped"}
               PROVE  pc = "done" /\ \A i \in Ids : task[i] \in {"new", "done"}
    BY DEF StopDrains
  <2> DEFINE T == At(task, {"chained", "slot", "running"})
  <2>1. pc = "done" /\ Cardinality(T) = 0
    BY DEF RunnerInv, Stopping, SchedulerInv, PendingIn
  <2>2. IsFiniteSet(T)
    <3>1. T \in SUBSET Tasks
      BY DEF At
    <3> HIDE DEF T
    <3> QED
      BY <3>1, Numbers, FS_Subset
  <2>3. T = {}
    <3> HIDE DEF T
    <3> QED
      BY <2>1, <2>2, FS_EmptySet
  <2>4. ASSUME NEW i \in Ids PROVE task[i] \in {"new", "done"}
    BY <2>3, Numbers, Basics DEF RunnerInv, At, Phases
  <2> QED
    BY <2>1, <2>4
<1> QED
  BY <1>1, Invariance, PTL

\* Whatever updates arrive and however polls fail, the updates of a chat are
\* handled one after another in the order of their ids, and never more than
\* Concurrency at a time: the scheduler under the runner is a KeyedTasks.
THEOREM KeysInOrder == Spec => ImplementsKeyed
<1>1. Init => Keyed!KeyedInit
  BY Starts
<1>2. RunnerInv /\ [Next]_vars => [Keyed!KeyedNext]_Phase
  BY SchedulerKept DEF PhaseStep
<1> QED
  BY <1>1, <1>2, Invariance, PTL DEF Spec, ImplementsKeyed, Keyed!KeyedSpec

=============================================================================
