-------------------------- MODULE WorkerPoolProof --------------------------
(***************************************************************************)
(* Proofs about WorkerPool.                                                *)
(*                                                                         *)
(* The pool is one record and every function of the code an operator from  *)
(* records to records, so the invariant is a predicate on records, and     *)
(* each function has a lemma that says which part of it it keeps.          *)
(***************************************************************************)
EXTENDS WorkerPool, FiniteSetTheorems, SequenceTheorems, WellFoundedInduction, TLAPS

Pools == [state : [Tasks -> {"new", "queued", "running", "done"}],
          zombie : SUBSET Tasks,
          settled : [Tasks -> 0..2],
          killTimers : SUBSET Tasks,
          queue : Seq(Tasks),
          queuedCount : Nat,
          running : [Slots -> SUBSET Tasks],
          worker : [Slots -> {"starting", "ready", "waiting", "exited", "dead"}],
          expectTerminate : SUBSET Slots,
          crashes : [Slots -> 0..(MaxRestarts + 1)],
          everReady : SUBSET Slots,
          readyPromise : {"pending", "resolved", "rejected"},
          completed : Nat,
          failed : Nat,
          closing : BOOLEAN,
          closeDone : BOOLEAN,
          destroyed : BOOLEAN,
          closed : BOOLEAN]

Queued(q) == {t \in Tasks : q.state[t] = "queued"}
Done(q) == {t \in Tasks : q.state[t] = "done"}
Begun(q) == {t \in Tasks : q.state[t] # "new"}

(* The counters, and the promises *)
Counted(q) ==
    /\ IsFiniteSet(Begun(q))
    /\ q.queuedCount = Cardinality(Queued(q))
    /\ q.completed + q.failed = Cardinality(Done(q))
    /\ \A t \in Tasks : q.settled[t] = (IF q.state[t] = "done" THEN 1 ELSE 0)

(* Where the tasks are: the queued ones in the queue, the running ones and  *)
(* the zombies with a worker that is ready, each with one.                  *)
Placed(q) ==
    /\ \A t \in Tasks : q.state[t] = "queued" => \E i \in DOMAIN q.queue : q.queue[i] = t
    /\ \A t \in Tasks : q.state[t] = "running" => \E s \in Slots : t \in q.running[s]
    /\ \A t \in q.zombie : q.state[t] = "done"
    /\ \A t \in q.killTimers : t \in q.zombie /\ \E s \in Slots : t \in q.running[s]
    /\ \A s \in Slots, t \in Tasks :
          t \in q.running[s] => /\ q.state[t] = "running" \/ t \in q.zombie
                                /\ q.worker[s] = "ready"
                                /\ \A r \in Slots : t \in q.running[r] => r = s

(* A slot that crashed too often is never used again. *)
Retired(q) == \A s \in Slots : q.crashes[s] > MaxRestarts => q.worker[s] = "dead"

Pumped(q) == q.queuedCount > 0 => Free(q) = {}

Sound(q) == q \in Pools /\ Counted(q) /\ Placed(q) /\ Retired(q)

IInv == Sound(p) /\ Pumped(p) /\ deaths \in 0..MaxDeaths

(* What most functions leave alone *)
SameSlots(q, r) ==
    /\ r.worker = q.worker /\ r.expectTerminate = q.expectTerminate
    /\ r.crashes = q.crashes /\ r.everReady = q.everReady

SameFlags(q, r) ==
    /\ r.readyPromise = q.readyPromise /\ r.closing = q.closing
    /\ r.closeDone = q.closeDone /\ r.destroyed = q.destroyed /\ r.closed = q.closed

---------------------------------------------------------------------------
(* The fields each function changes *)

LEMMA RejectTaskFields ==
    ASSUME NEW q \in Pools, NEW t \in Tasks, q.settled[t] < 2
    PROVE  LET r == RejectTask(q, t) IN
           /\ r \in Pools
           /\ r.state = [q.state EXCEPT ![t] = "done"]
           /\ r.settled = [q.settled EXCEPT ![t] = @ + 1]
           /\ r.failed = q.failed + 1
           /\ r.killTimers = q.killTimers \ {t}
           /\ r.zombie = q.zombie /\ r.queue = q.queue /\ r.queuedCount = q.queuedCount
           /\ r.running = q.running /\ r.completed = q.completed
           /\ SameSlots(q, r) /\ SameFlags(q, r)
  <1>1. q.settled[t] + 1 \in 0..2
    BY DEF Pools
  <1> DEFINE st == [q.state EXCEPT ![t] = "done"]
             se == [q.settled EXCEPT ![t] = @ + 1]
             fa == q.failed + 1
             ki == q.killTimers \ {t}
  <1>2. /\ st \in [Tasks -> {"new", "queued", "running", "done"}]
        /\ se \in [Tasks -> 0..2] /\ fa \in Nat /\ ki \in SUBSET Tasks
    BY <1>1 DEF Pools
  <1>3. RejectTask(q, t) = [q EXCEPT !.state = st, !.settled = se, !.failed = fa,
                                     !.killTimers = ki]
    BY DEF RejectTask
  <1> HIDE DEF st, se, fa, ki
  <1>4. RejectTask(q, t) \in Pools
    BY <1>2, <1>3 DEF Pools
  <1> DEFINE r == RejectTask(q, t)
  <1>5. /\ r.state = st /\ r.settled = se /\ r.failed = fa /\ r.killTimers = ki
        /\ r.zombie = q.zombie /\ r.queue = q.queue /\ r.queuedCount = q.queuedCount
        /\ r.running = q.running /\ r.completed = q.completed
        /\ SameSlots(q, r) /\ SameFlags(q, r)
    BY <1>3 DEF Pools, SameSlots, SameFlags
  <1> QED BY <1>4, <1>5 DEF st, se, fa, ki

LEMMA RejectAllFields ==
    ASSUME NEW q \in Pools, NEW S \in SUBSET Tasks, IsFiniteSet(S),
           \A t \in S : q.settled[t] < 2
    PROVE  LET r == RejectAll(q, S) IN
           /\ r \in Pools
           /\ r.state = [t \in Tasks |-> IF t \in S THEN "done" ELSE q.state[t]]
           /\ r.settled = [t \in Tasks |-> IF t \in S THEN q.settled[t] + 1 ELSE q.settled[t]]
           /\ r.failed = q.failed + Cardinality(S)
           /\ r.killTimers = q.killTimers
           /\ r.zombie = q.zombie /\ r.queue = q.queue /\ r.queuedCount = q.queuedCount
           /\ r.running = q.running /\ r.completed = q.completed
           /\ SameSlots(q, r) /\ SameFlags(q, r)
  <1>1. Cardinality(S) \in Nat
    BY FS_CardinalityType
  <1> DEFINE st == [t \in Tasks |-> IF t \in S THEN "done" ELSE q.state[t]]
             se == [t \in Tasks |-> IF t \in S THEN q.settled[t] + 1 ELSE q.settled[t]]
             fa == q.failed + Cardinality(S)
  <1>2. \A t \in S : q.settled[t] + 1 \in 0..2
    BY DEF Pools
  <1>3. /\ st \in [Tasks -> {"new", "queued", "running", "done"}]
        /\ se \in [Tasks -> 0..2] /\ fa \in Nat
    BY <1>1, <1>2 DEF Pools
  <1>4. RejectAll(q, S) = [q EXCEPT !.state = st, !.settled = se, !.failed = fa]
    BY DEF RejectAll
  <1> HIDE DEF st, se, fa
  <1>5. RejectAll(q, S) \in Pools
    BY <1>3, <1>4 DEF Pools
  <1> DEFINE r == RejectAll(q, S)
  <1>6. /\ r.state = st /\ r.settled = se /\ r.failed = fa /\ r.killTimers = q.killTimers
        /\ r.zombie = q.zombie /\ r.queue = q.queue /\ r.queuedCount = q.queuedCount
        /\ r.running = q.running /\ r.completed = q.completed
        /\ SameSlots(q, r) /\ SameFlags(q, r)
    BY <1>4 DEF Pools, SameSlots, SameFlags
  <1> QED BY <1>5, <1>6 DEF st, se, fa


---------------------------------------------------------------------------
(* The counters *)

LEMMA CountsOf ==
    ASSUME NEW q \in Pools, Counted(q)
    PROVE  /\ IsFiniteSet(Queued(q)) /\ IsFiniteSet(Done(q))
           /\ \A S \in SUBSET Tasks : (\A t \in S : q.state[t] # "new") => IsFiniteSet(S)
           /\ \A t \in Tasks : q.state[t] # "done" => q.settled[t] = 0
           /\ \A t \in Queued(q) : q.queuedCount > 0
  <1>1. \A S \in SUBSET Tasks : (\A t \in S : q.state[t] # "new") => IsFiniteSet(S)
    <2>1. SUFFICES ASSUME NEW S \in SUBSET Tasks, \A t \in S : q.state[t] # "new"
                   PROVE  IsFiniteSet(S)
      OBVIOUS
    <2>2. S \in SUBSET Begun(q)
      BY <2>1 DEF Begun
    <2> QED BY <2>2, FS_Subset DEF Counted
  <1>2. IsFiniteSet(Queued(q)) /\ IsFiniteSet(Done(q))
    BY <1>1 DEF Queued, Done
  <1>3. ASSUME NEW t \in Queued(q)  PROVE q.queuedCount > 0
    <2>1. Cardinality(Queued(q)) \in Nat /\ Cardinality(Queued(q)) # 0
      BY <1>2, FS_CardinalityType, FS_EmptySet
    <2> QED BY <2>1 DEF Counted
  <1>4. \A t \in Tasks : q.state[t] # "done" => q.settled[t] = 0
    BY DEF Counted
  <1> QED BY <1>1, <1>2, <1>3, <1>4

(* Settling the tasks of a set keeps the counters right, if those among    *)
(* them that were queued are taken off queuedCount.                        *)
LEMMA SettlingCounts ==
    ASSUME NEW q \in Pools, NEW r \in Pools, Counted(q), NEW S \in SUBSET Tasks,
           \A t \in S : q.state[t] \in {"queued", "running"},
           \A t \in Tasks : r.state[t] = IF t \in S THEN "done" ELSE q.state[t],
           \A t \in Tasks : r.settled[t] = IF t \in S THEN q.settled[t] + 1 ELSE q.settled[t],
           r.completed + r.failed = q.completed + q.failed + Cardinality(S),
           r.queuedCount = q.queuedCount - Cardinality(S \cap Queued(q))
    PROVE  Counted(r)
  <1>1. IsFiniteSet(S) /\ IsFiniteSet(Queued(q)) /\ IsFiniteSet(Done(q))
    BY CountsOf
  <1>2. Done(r) = Done(q) \cup S /\ Done(q) \cap S = {}
    BY DEF Done
  <1>3. Cardinality(Done(r)) = Cardinality(Done(q)) + Cardinality(S)
    <2>1. Cardinality(Done(q) \cap S) = 0
      BY <1>2, FS_EmptySet
    <2>2. /\ Cardinality(Done(q) \cup S)
               = Cardinality(Done(q)) + Cardinality(S) - Cardinality(Done(q) \cap S)
          /\ Cardinality(Done(q)) \in Nat /\ Cardinality(S) \in Nat
      BY <1>1, FS_Union, FS_CardinalityType
    <2> QED BY <2>1, <2>2, <1>2
  <1>4. Queued(r) = Queued(q) \ S
    BY DEF Queued
  <1>5. Cardinality(Queued(r)) = Cardinality(Queued(q)) - Cardinality(S \cap Queued(q))
    <2>1. Cardinality(Queued(q) \ S) = Cardinality(Queued(q)) - Cardinality(Queued(q) \cap S)
      BY <1>1, FS_Difference
    <2>2. Queued(q) \cap S = S \cap Queued(q)
      OBVIOUS
    <2> QED BY <2>1, <2>2, <1>4
  <1>6. Begun(r) = Begun(q)
    BY DEF Begun
  <1>7. \A t \in Tasks : r.settled[t] = (IF r.state[t] = "done" THEN 1 ELSE 0)
    BY DEF Counted
  <1>8. /\ IsFiniteSet(Begun(r)) /\ r.queuedCount = Cardinality(Queued(r))
    BY <1>5, <1>6 DEF Counted
  <1>9. r.completed + r.failed = Cardinality(Done(r))
    BY <1>3 DEF Counted
  <1> QED BY <1>7, <1>8, <1>9 DEF Counted

(* A task that leaves the queue for a worker *)
LEMMA StartingCounts ==
    ASSUME NEW q \in Pools, NEW r \in Pools, Counted(q), NEW t \in Queued(q),
           \A u \in Tasks : r.state[u] = IF u = t THEN "running" ELSE q.state[u],
           r.settled = q.settled, r.completed = q.completed, r.failed = q.failed,
           r.queuedCount = q.queuedCount - 1
    PROVE  Counted(r)
  <1>1. IsFiniteSet(Queued(q))
    BY CountsOf
  <1>2. Queued(r) = Queued(q) \ {t} /\ Done(r) = Done(q) /\ Begun(r) = Begun(q)
    BY DEF Queued, Done, Begun
  <1>3. Cardinality(Queued(r)) = Cardinality(Queued(q)) - 1
    BY <1>1, <1>2, FS_RemoveElement
  <1>4. \A u \in Tasks : r.settled[u] = (IF r.state[u] = "done" THEN 1 ELSE 0)
    BY DEF Counted, Queued
  <1> QED BY <1>2, <1>3, <1>4 DEF Counted

(* A task that is new in the queue *)
LEMMA QueueingCounts ==
    ASSUME NEW q \in Pools, NEW r \in Pools, Counted(q), NEW t \in Tasks, q.state[t] = "new",
           \A u \in Tasks : r.state[u] = IF u = t THEN "queued" ELSE q.state[u],
           r.settled = q.settled, r.completed = q.completed, r.failed = q.failed,
           r.queuedCount = q.queuedCount + 1
    PROVE  Counted(r)
  <1>1. IsFiniteSet(Queued(q)) /\ IsFiniteSet(Begun(q))
    BY CountsOf DEF Counted
  <1>2. /\ Queued(r) = Queued(q) \cup {t} /\ t \notin Queued(q)
        /\ Done(r) = Done(q) /\ Begun(r) = Begun(q) \cup {t}
    BY DEF Queued, Done, Begun
  <1>3. Cardinality(Queued(r)) = Cardinality(Queued(q)) + 1
    <2>1. t \notin Queued(q) => Cardinality(Queued(q) \cup {t}) = Cardinality(Queued(q)) + 1
      BY <1>1, FS_AddElement
    <2> QED BY <1>2, <2>1
  <1>5. IsFiniteSet(Begun(r))
    <2>1. IsFiniteSet(Begun(q) \cup {t})
      BY <1>1, FS_AddElement
    <2> QED BY <1>2, <2>1
  <1>4. \A u \in Tasks : r.settled[u] = (IF r.state[u] = "done" THEN 1 ELSE 0)
    BY DEF Counted
  <1> QED BY <1>2, <1>3, <1>4, <1>5 DEF Counted

LEMMA SameCounts ==
    ASSUME NEW q \in Pools, NEW r \in Pools, Counted(q),
           r.state = q.state, r.settled = q.settled, r.completed = q.completed,
           r.failed = q.failed, r.queuedCount = q.queuedCount
    PROVE  Counted(r)
  BY DEF Counted, Queued, Done, Begun

---------------------------------------------------------------------------
(* Nothing waits that did not wait before, if no place became free. *)
LEMMA StillPumped ==
    ASSUME NEW q \in Pools, NEW r \in Pools, Pumped(q),
           r.queuedCount > 0 => q.queuedCount > 0,
           \A s \in Slots : r.worker[s] = "ready" =>
               q.worker[s] = "ready" /\ r.running[s] = q.running[s]
    PROVE  Pumped(r)
  BY DEF Pumped, Free

(* failAllQueued() *)

LEMMA FailAllQueuedSound ==
    ASSUME NEW q, Sound(q)
    PROVE  LET r == FailAllQueued(q) IN
           /\ Sound(r)
           /\ r.queuedCount = 0
           /\ r.running = q.running /\ r.zombie = q.zombie /\ r.killTimers = q.killTimers
           /\ SameSlots(q, r) /\ SameFlags(q, r)
  <1>1. q \in Pools /\ Counted(q) /\ Placed(q) /\ Retired(q)
    BY DEF Sound
  <1> DEFINE live == {t \in Tasks : q.state[t] = "queued"}
             g == RejectAll(q, live)
             r == FailAllQueued(q)
  <1>2. live = Queued(q) /\ live \in SUBSET Tasks
    BY DEF Queued
  <1>3. IsFiniteSet(live) /\ \A t \in live : q.settled[t] < 2
    <2>1. IsFiniteSet(live)
      BY <1>1, <1>2, CountsOf
    <2>2. \A t \in live : q.settled[t] = 0
      BY <1>1, CountsOf
    <2> QED BY <2>1, <2>2
  <1>4. /\ q.queuedCount = Cardinality(live) /\ Cardinality(live) \in Nat
        /\ q.queuedCount - Cardinality(live) = 0
    <2>1. q.queuedCount = Cardinality(live) /\ q.queuedCount \in Nat
      BY <1>1, <1>2 DEF Counted, Pools
    <2> QED BY <2>1
  <1>5. /\ g \in Pools
        /\ g.state = [t \in Tasks |-> IF t \in live THEN "done" ELSE q.state[t]]
        /\ g.settled = [t \in Tasks |-> IF t \in live THEN q.settled[t] + 1 ELSE q.settled[t]]
        /\ g.failed = q.failed + Cardinality(live)
        /\ g.killTimers = q.killTimers
        /\ g.zombie = q.zombie /\ g.queue = q.queue /\ g.queuedCount = q.queuedCount
        /\ g.running = q.running /\ g.completed = q.completed
        /\ SameSlots(q, g) /\ SameFlags(q, g)
    <2> HIDE DEF live
    <2> QED BY <1>1, <1>2, <1>3, RejectAllFields
  <1>6. r = [g EXCEPT !.queue = <<>>, !.queuedCount = 0]
    BY <1>4, <1>5 DEF FailAllQueued
  <1> HIDE DEF g, r, live
  <1>7. /\ r \in Pools /\ r.queue = <<>> /\ r.queuedCount = 0
        /\ r.state = g.state /\ r.settled = g.settled /\ r.failed = g.failed
        /\ r.killTimers = g.killTimers /\ r.zombie = g.zombie /\ r.running = g.running
        /\ r.completed = g.completed /\ SameSlots(g, r) /\ SameFlags(g, r)
    <2>1. <<>> \in Seq(Tasks) /\ 0 \in Nat
      OBVIOUS
    <2> QED BY <1>5, <1>6, <2>1 DEF Pools, SameSlots, SameFlags
  <1>8. /\ r.running = q.running /\ r.zombie = q.zombie /\ r.killTimers = q.killTimers
        /\ SameSlots(q, r) /\ SameFlags(q, r)
    BY <1>5, <1>7 DEF SameSlots, SameFlags
  <1>9. Counted(r)
    <2>1. \A t \in live : q.state[t] \in {"queued", "running"}
      BY DEF live
    <2>2. /\ \A t \in Tasks : r.state[t] = IF t \in live THEN "done" ELSE q.state[t]
          /\ \A t \in Tasks : r.settled[t] = IF t \in live THEN q.settled[t] + 1 ELSE q.settled[t]
      BY <1>5, <1>7
    <2>3. /\ r.completed + r.failed = q.completed + q.failed + Cardinality(live)
      BY <1>1, <1>4, <1>5, <1>7 DEF Pools
    <2>4. r.queuedCount = q.queuedCount - Cardinality(live \cap Queued(q))
      BY <1>2, <1>4, <1>7
    <2> QED BY <1>1, <1>2, <1>7, <2>1, <2>2, <2>3, <2>4, SettlingCounts
  <1>10. Placed(r)
    <2>1. \A t \in Tasks : r.state[t] = IF q.state[t] = "queued" THEN "done" ELSE q.state[t]
      BY <1>5, <1>7 DEF live
    <2>2. r.worker = q.worker /\ r.running = q.running /\ r.zombie = q.zombie
          /\ r.killTimers = q.killTimers
      BY <1>8 DEF SameSlots
    <2>3. q.zombie \subseteq Tasks
      BY <1>1 DEF Pools
    <2>4. \A t \in Tasks : r.state[t] # "queued"
      BY <2>1
    <2>5. \A t \in Tasks : r.state[t] = "running" => \E s \in Slots : t \in r.running[s]
      BY <1>1, <2>1, <2>2 DEF Placed
    <2>6. \A t \in r.zombie : r.state[t] = "done"
      BY <1>1, <2>1, <2>2, <2>3 DEF Placed
    <2>7. \A t \in r.killTimers : t \in r.zombie /\ \E s \in Slots : t \in r.running[s]
      BY <1>1, <2>2 DEF Placed
    <2>8. \A s \in Slots, t \in Tasks :
             t \in r.running[s] => /\ r.state[t] = "running" \/ t \in r.zombie
                                   /\ r.worker[s] = "ready"
                                   /\ \A u \in Slots : t \in r.running[u] => u = s
      BY <1>1, <2>1, <2>2 DEF Placed
    <2> QED BY <2>4, <2>5, <2>6, <2>7, <2>8 DEF Placed
  <1>11. Retired(r)
    BY <1>1, <1>8 DEF Retired, SameSlots
  <1> QED BY <1>7, <1>8, <1>9, <1>10, <1>11 DEF Sound, r

(* checkCloseDone() *)

LEMMA CheckCloseDoneSound ==
    ASSUME NEW q, Sound(q)
    PROVE  LET r == CheckCloseDone(q) IN
           /\ Sound(r)
           /\ Pumped(q) => Pumped(r)
  <1> DEFINE alive == Slots \ Exited(q)
             g == IF q.queuedCount > 0 /\ alive = {} THEN FailAllQueued(q) ELSE q
             over == g.queuedCount = 0 /\ \A s \in Slots : g.running[s] = {}
             r == CheckCloseDone(q)
  <1>1. /\ Sound(g) /\ g.running = q.running /\ SameSlots(q, g)
        /\ g.queuedCount > 0 => q.queuedCount > 0
    <2>1. CASE q.queuedCount > 0 /\ alive = {}
      BY <2>1, FailAllQueuedSound
    <2>2. CASE ~(q.queuedCount > 0 /\ alive = {})
      BY <2>2 DEF SameSlots
    <2> QED BY <2>1, <2>2
  <1>2. CASE ~q.closing \/ q.closeDone \/ q.destroyed
    BY <1>2 DEF CheckCloseDone
  <1>3. CASE ~(~q.closing \/ q.closeDone \/ q.destroyed)
    <2>1. r = [g EXCEPT !.closeDone = over] /\ over \in BOOLEAN
      BY <1>3 DEF CheckCloseDone
    <2>2. g \in Pools /\ q \in Pools
      BY <1>1 DEF Sound
    <2> HIDE DEF r, over, g
    <2>3. /\ r \in Pools
          /\ r.state = g.state /\ r.settled = g.settled /\ r.failed = g.failed
          /\ r.killTimers = g.killTimers /\ r.zombie = g.zombie /\ r.running = g.running
          /\ r.queue = g.queue /\ r.queuedCount = g.queuedCount
          /\ r.completed = g.completed /\ SameSlots(g, r)
      BY <2>1, <2>2 DEF Pools, SameSlots
    <2>4. Counted(r)
      BY <1>1, <2>2, <2>3, SameCounts DEF Sound
    <2>5. Placed(r)
      BY <1>1, <2>3 DEF Sound, Placed, SameSlots
    <2>6. Retired(r)
      BY <1>1, <2>3 DEF Sound, Retired, SameSlots
    <2>7. Pumped(q) => Pumped(r)
      BY <1>1, <2>2, <2>3, StillPumped DEF SameSlots
    <2> QED BY <2>3, <2>4, <2>5, <2>6, <2>7 DEF Sound, r
  <1> QED BY <1>2, <1>3

---------------------------------------------------------------------------
(* pickSlot() *)

LEMMA Least ==
    ASSUME NEW T \in SUBSET Nat, T # {}
    PROVE  \E x \in T : \A y \in T : x <= y
  <1> DEFINE R == OpToRel(<, Nat)
  <1>1. IsWellFoundedOn(R, Nat)
    BY NatLessThanWellFounded
  <1>2. \A a, b \in Nat : a < b => <<a, b>> \in R
    BY DEF OpToRel
  <1> HIDE DEF R
  <1>3. PICK x \in T : \A y \in T : ~(<<y, x>> \in R)
    BY <1>1, WFMin
  <1>4. ASSUME NEW y \in T  PROVE x <= y
    <2>1. ~(y < x)
      BY <1>2, <1>3
    <2> QED BY <2>1
  <1> QED BY <1>4

LEMMA PickSlotFree ==
    ASSUME NEW q, Sound(q), Free(q) # {}
    PROVE  PickSlot(q) \in Free(q)
  <1> DEFINE load == [s \in Slots |-> Cardinality(q.running[s])]
             Loads == {load[s] : s \in Free(q)}
  <1>1. q \in Pools /\ Counted(q) /\ Placed(q)
    BY DEF Sound
  <1>2. \A s \in Slots : Cardinality(q.running[s]) \in Nat
    <2>1. SUFFICES ASSUME NEW s \in Slots  PROVE IsFiniteSet(q.running[s])
      BY FS_CardinalityType
    <2>2. q.running[s] \in SUBSET Tasks /\ q.zombie \in SUBSET Tasks
      BY <1>1 DEF Pools
    <2>3. \A t \in q.running[s] : q.state[t] # "new"
      BY <1>1, <2>2 DEF Placed
    <2> QED BY <1>1, <2>2, <2>3, CountsOf
  <1>3. Free(q) \subseteq Slots /\ Slots \subseteq Nat
    BY DEF Free, Slots
  <1>4. Loads \in SUBSET Nat /\ Loads # {}
    BY <1>2, <1>3
  <1>5. PICK c \in Loads : \A d \in Loads : c <= d
    BY <1>4, Least
  <1> DEFINE Idlest == {s \in Free(q) : load[s] = c}
  <1>6. Idlest \in SUBSET Nat /\ Idlest # {}
    BY <1>3
  <1>7. PICK s \in Idlest : \A r \in Idlest : s <= r
    BY <1>6, Least
  <1>8. \A r \in Free(q) : load[s] < load[r] \/ (load[s] = load[r] /\ s <= r)
    <2>1. SUFFICES ASSUME NEW r \in Free(q)
                   PROVE  load[s] < load[r] \/ (load[s] = load[r] /\ s <= r)
      OBVIOUS
    <2>2. load[s] = c /\ load[r] \in Loads
      OBVIOUS
    <2>3. c \in Nat /\ load[r] \in Nat /\ c <= load[r]
      BY <1>4, <1>5, <2>2
    <2>4. CASE load[r] = c
      BY <1>7, <2>2, <2>4
    <2>5. CASE load[r] # c
      BY <2>2, <2>3, <2>5
    <2> QED BY <2>4, <2>5
  <1>9. \A r \in Free(q) : \/ Cardinality(q.running[s]) < Cardinality(q.running[r])
                           \/ Cardinality(q.running[s]) = Cardinality(q.running[r]) /\ s <= r
    <2>1. /\ \A r \in Free(q) : load[r] = Cardinality(q.running[r])
          /\ s \in Free(q)
      BY <1>3
    <2> HIDE DEF load
    <2> QED BY <1>8, <2>1
  <1>10. s \in Free(q)
    OBVIOUS
  <1> QED BY <1>9, <1>10 DEF PickSlot

(* dispatch() of the task at the head of the queue, that waits *)

LEMMA DispatchSound ==
    ASSUME NEW q, Sound(q), q.queue # <<>>, q.state[Head(q.queue)] = "queued",
           NEW s \in Free(q)
    PROVE  LET r == Dispatch([[q EXCEPT !.queue = Tail(@)] EXCEPT !.queuedCount = @ - 1],
                             s, Head(q.queue)) IN
           /\ Sound(r)
           /\ r.queue = Tail(q.queue)
  <1>1. q \in Pools /\ Counted(q) /\ Placed(q) /\ Retired(q)
    BY DEF Sound
  <1> DEFINE t == Head(q.queue)
             g == [[q EXCEPT !.queue = Tail(@)] EXCEPT !.queuedCount = @ - 1]
             r == Dispatch(g, s, t)
             tail == Tail(q.queue)
             left == q.queuedCount - 1
  <1>2. t \in Tasks /\ tail \in Seq(Tasks)
    BY <1>1 DEF Pools
  <1>3. t \in Queued(q) /\ left \in Nat
    <2>1. t \in Queued(q)
      BY <1>2 DEF Queued
    <2>2. q.queuedCount > 0 /\ q.queuedCount \in Nat
      BY <1>1, <2>1, CountsOf DEF Pools
    <2> QED BY <2>1, <2>2
  <1>4. g = [q EXCEPT !.queue = tail, !.queuedCount = left]
    BY <1>1 DEF Pools
  <1>5. q.settled[t] = 0 /\ q.state[t] = "queued"
    BY <1>1, <1>2, CountsOf
  <1>6. \A u \in Tasks : u # t /\ q.state[u] = "queued" =>
            \E i \in DOMAIN tail : tail[i] = u
    <2>1. SUFFICES ASSUME NEW u \in Tasks, u # t, q.state[u] = "queued"
                   PROVE  \E i \in DOMAIN tail : tail[i] = u
      OBVIOUS
    <2>2. PICK i \in DOMAIN q.queue : q.queue[i] = u
      BY <1>1, <2>1 DEF Placed
    <2>3. q.queue \in Seq(Tasks) /\ q.queue # <<>>
      BY <1>1 DEF Pools
    <2>4. i \in 2..Len(q.queue)
      BY <2>1, <2>2, <2>3
    <2>5. i - 1 \in DOMAIN tail /\ tail[i - 1] = u
      BY <2>2, <2>3, <2>4
    <2> QED BY <2>5
  <1>7. s \in Slots /\ q.worker[s] = "ready"
    BY DEF Free
  <1>8. t \notin q.zombie /\ \A u \in Slots : t \notin q.running[u]
    BY <1>1, <1>2, <1>5 DEF Placed
  <1> HIDE DEF t, tail, left, g
  <1>9. /\ g \in Pools /\ g.queue = tail /\ g.queuedCount = left
        /\ g.state = q.state /\ g.settled = q.settled /\ g.failed = q.failed
        /\ g.killTimers = q.killTimers /\ g.zombie = q.zombie /\ g.running = q.running
        /\ g.completed = q.completed /\ SameSlots(q, g)
    BY <1>1, <1>2, <1>3, <1>4 DEF Pools, SameSlots
  <1>10. CASE t \in Unclonable
    <2>1. r = RejectTask(g, t)
      BY <1>10 DEF Dispatch
    <2> HIDE DEF r
    <2>2. /\ r \in Pools
          /\ r.state = [q.state EXCEPT ![t] = "done"]
          /\ r.settled = [q.settled EXCEPT ![t] = @ + 1]
          /\ r.failed = q.failed + 1
          /\ r.killTimers = q.killTimers \ {t}
          /\ r.zombie = q.zombie /\ r.queue = tail /\ r.queuedCount = left
          /\ r.running = q.running /\ r.completed = q.completed
          /\ SameSlots(g, r)
      BY <1>2, <1>5, <1>9, <2>1, RejectTaskFields
    <2>3. Counted(r)
      <3> DEFINE S == {t}
      <3>1. S \in SUBSET Tasks /\ Cardinality(S) = 1 /\ S \cap Queued(q) = S
        BY <1>2, <1>3, FS_Singleton
      <3>2. \A u \in S : q.state[u] \in {"queued", "running"}
        BY <1>5
      <3>3. /\ \A u \in Tasks : r.state[u] = IF u \in S THEN "done" ELSE q.state[u]
            /\ \A u \in Tasks : r.settled[u] = IF u \in S THEN q.settled[u] + 1 ELSE q.settled[u]
        BY <1>1, <1>2, <2>2 DEF Pools
      <3> HIDE DEF S
      <3>4. r.completed + r.failed = q.completed + q.failed + Cardinality(S)
        BY <1>1, <2>2, <3>1 DEF Pools
      <3>5. r.queuedCount = q.queuedCount - Cardinality(S \cap Queued(q))
        BY <2>2, <3>1 DEF left
      <3> QED BY <1>1, <2>2, <3>1, <3>2, <3>3, <3>4, <3>5, SettlingCounts
    <2>4. \A u \in Tasks : r.state[u] = IF u = t THEN "done" ELSE q.state[u]
      BY <1>1, <1>2, <2>2 DEF Pools
    <2>5. r.worker = q.worker /\ r.crashes = q.crashes
      BY <1>9, <2>2 DEF SameSlots
    <2>6. Placed(r)
      BY <1>1, <1>6, <1>8, <2>2, <2>4, <2>5 DEF Placed
    <2>7. Retired(r)
      BY <1>1, <2>5 DEF Retired
    <2> QED BY <2>2, <2>3, <2>6, <2>7 DEF Sound, r, t, tail, g
  <1>11. CASE t \notin Unclonable
    <2> DEFINE st == [q.state EXCEPT ![t] = "running"]
               ru == [q.running EXCEPT ![s] = @ \cup {t}]
    <2>1. /\ st \in [Tasks -> {"new", "queued", "running", "done"}]
          /\ ru \in [Slots -> SUBSET Tasks]
      BY <1>1, <1>2, <1>7 DEF Pools
    <2>2. r = [g EXCEPT !.state = st, !.running = ru]
      BY <1>9, <1>11 DEF Dispatch
    <2>3. \A u \in Tasks : st[u] = IF u = t THEN "running" ELSE q.state[u]
      BY <1>1, <1>2 DEF Pools
    <2>4. \A v \in Slots, u \in Tasks :
             u \in ru[v] <=> (u \in q.running[v] \/ (v = s /\ u = t))
      BY <1>1, <1>7 DEF Pools
    <2> HIDE DEF r, st, ru
    <2>5. /\ r \in Pools /\ r.state = st /\ r.running = ru
          /\ r.settled = q.settled /\ r.failed = q.failed /\ r.killTimers = q.killTimers
          /\ r.zombie = q.zombie /\ r.queue = tail /\ r.queuedCount = left
          /\ r.completed = q.completed /\ r.worker = q.worker /\ r.crashes = q.crashes
      BY <1>9, <2>1, <2>2 DEF Pools, SameSlots
    <2>6. Counted(r)
      BY <1>1, <1>3, <2>3, <2>5, StartingCounts DEF left
    <2>7. Placed(r)
      <3>1. \A u \in Tasks : r.state[u] = "queued" => \E i \in DOMAIN r.queue : r.queue[i] = u
        BY <1>6, <2>3, <2>5
      <3>2. \A u \in Tasks : r.state[u] = "running" => \E v \in Slots : u \in r.running[v]
        BY <1>1, <1>7, <2>3, <2>4, <2>5 DEF Placed
      <3>3. \A u \in r.zombie : r.state[u] = "done"
        <4>1. q.zombie \subseteq Tasks
          BY <1>1 DEF Pools
        <4> QED BY <1>1, <1>8, <2>3, <2>5, <4>1 DEF Placed
      <3>4. \A u \in r.killTimers : u \in r.zombie /\ \E v \in Slots : u \in r.running[v]
        <4>1. q.killTimers \subseteq Tasks
          BY <1>1 DEF Pools
        <4> QED BY <1>1, <2>4, <2>5, <4>1 DEF Placed
      <3>5. \A v \in Slots, u \in Tasks :
               u \in r.running[v] => /\ r.state[u] = "running" \/ u \in r.zombie
                                     /\ r.worker[v] = "ready"
                                     /\ \A w \in Slots : u \in r.running[w] => w = v
        BY <1>1, <1>7, <1>8, <2>3, <2>4, <2>5 DEF Placed
      <3> QED BY <3>1, <3>2, <3>3, <3>4, <3>5 DEF Placed
    <2>8. Retired(r)
      BY <1>1, <2>5 DEF Retired
    <2> QED BY <2>5, <2>6, <2>7, <2>8 DEF Sound, r, t, tail, g
  <1> QED BY <1>10, <1>11

---------------------------------------------------------------------------
(* pump() *)

Blocked(q) == q.queuedCount = 0 \/ Free(q) = {}

LEMMA PumpOneSound ==
    ASSUME NEW q, Sound(q), NEW t \in Tasks,
           Blocked(q) \/ (q.queue # <<>> /\ t = Head(q.queue))
    PROVE  LET r == PumpOne(q, t) IN
           /\ Sound(r)
           /\ (Blocked(q) /\ r = q) \/ (q.queue # <<>> /\ r.queue = Tail(q.queue))
  <1>1. CASE Blocked(q)
    BY <1>1 DEF PumpOne, Blocked
  <1> SUFFICES ASSUME ~Blocked(q)
               PROVE  LET r == PumpOne(q, t) IN
                      Sound(r) /\ q.queue # <<>> /\ r.queue = Tail(q.queue)
    BY <1>1
  <1>2. q.queue # <<>> /\ t = Head(q.queue)
    OBVIOUS
  <1>3. q \in Pools /\ Counted(q) /\ Placed(q) /\ Retired(q)
    BY DEF Sound
  <1>4. CASE q.state[t] = "queued"
    <2>1. PickSlot(q) \in Free(q)
      BY PickSlotFree DEF Blocked
    <2>2. PumpOne(q, t) = Dispatch([[q EXCEPT !.queue = Tail(@)] EXCEPT !.queuedCount = @ - 1],
                                   PickSlot(q), t)
      BY <1>4 DEF PumpOne, Blocked
    <2> QED BY <1>2, <1>4, <2>1, <2>2, DispatchSound
  <1>5. CASE q.state[t] # "queued"
    <2> DEFINE r == PumpOne(q, t)
               tail == Tail(q.queue)
    <2>1. r = [q EXCEPT !.queue = tail]
      BY <1>5 DEF PumpOne, Blocked
    <2>2. tail \in Seq(Tasks)
      BY <1>2, <1>3 DEF Pools
    <2>3. \A u \in Tasks : q.state[u] = "queued" => \E i \in DOMAIN tail : tail[i] = u
      <3>1. SUFFICES ASSUME NEW u \in Tasks, q.state[u] = "queued"
                     PROVE  \E i \in DOMAIN tail : tail[i] = u
        OBVIOUS
      <3>2. PICK i \in DOMAIN q.queue : q.queue[i] = u
        BY <1>3, <3>1 DEF Placed
      <3>3. q.queue \in Seq(Tasks) /\ q.queue # <<>>
        BY <1>2, <1>3 DEF Pools
      <3>4. i \in 2..Len(q.queue)
        BY <1>2, <1>5, <3>1, <3>2, <3>3
      <3>5. i - 1 \in DOMAIN tail /\ tail[i - 1] = u
        BY <3>2, <3>3, <3>4
      <3> QED BY <3>5
    <2> HIDE DEF r, tail
    <2>4. /\ r \in Pools /\ r.queue = tail
          /\ r.state = q.state /\ r.settled = q.settled /\ r.failed = q.failed
          /\ r.killTimers = q.killTimers /\ r.zombie = q.zombie /\ r.running = q.running
          /\ r.queuedCount = q.queuedCount /\ r.completed = q.completed /\ SameSlots(q, r)
      BY <1>3, <2>1, <2>2 DEF Pools, SameSlots
    <2>5. Counted(r)
      BY <1>3, <2>4, SameCounts
    <2>6. Placed(r)
      BY <1>3, <2>3, <2>4 DEF Placed, SameSlots
    <2>7. Retired(r)
      BY <1>3, <2>4 DEF Retired, SameSlots
    <2> QED BY <1>2, <2>4, <2>5, <2>6, <2>7 DEF Sound, r, tail
  <1> QED BY <1>4, <1>5

(* What pump() has computed after it went over i entries of the queue *)
Turns(q, f, n) ==
    /\ f = [i \in 0..n |-> IF i = 0 THEN q ELSE PumpOne(f[i - 1], q.queue[i])]

LEMMA TurnsExist ==
    ASSUME NEW q, NEW n \in Nat
    PROVE  \E f : Turns(q, f, n)
  <1> DEFINE Bad == {m \in 0..n : ~\E f : Turns(q, f, m)}
  <1>1. CASE Bad = {}
    BY <1>1
  <1>2. CASE Bad # {}
    <2>1. Bad \in SUBSET Nat
      OBVIOUS
    <2>2. PICK m \in Bad : \A y \in Bad : m <= y
      BY <1>2, <2>1, Least
    <2>3. m \in 0..n /\ ~\E f : Turns(q, f, m)
      OBVIOUS
    <2>4. m # 0
      <3>1. Turns(q, [i \in 0..0 |-> q], 0)
        BY DEF Turns
      <3> QED BY <2>3, <3>1
    <2>5. m - 1 \in 0..n /\ m - 1 \notin Bad
      <3>1. m - 1 \in 0..n /\ ~(m <= m - 1)
        BY <2>3, <2>4
      <3> QED BY <2>2, <3>1
    <2>6. PICK f : Turns(q, f, m - 1)
      BY <2>5
    <2> DEFINE g == [i \in 0..m |-> IF i = m THEN PumpOne(f[m - 1], q.queue[m]) ELSE f[i]]
    <2>7. Turns(q, g, m)
      <3>1. ASSUME NEW i \in 0..m
            PROVE  g[i] = IF i = 0 THEN q ELSE PumpOne(g[i - 1], q.queue[i])
        <4>1. \A j \in 0..(m - 1) : f[j] = IF j = 0 THEN q ELSE PumpOne(f[j - 1], q.queue[j])
          BY <2>6 DEF Turns
        <4>2. \A j \in 0..(m - 1) : g[j] = f[j]
          BY <2>3
        <4>3. CASE i = m
          <5>1. g[i] = PumpOne(f[m - 1], q.queue[m]) /\ g[m - 1] = f[m - 1]
            BY <2>3, <2>4, <4>2, <4>3
          <5> QED BY <2>4, <4>3, <5>1
        <4>4. CASE i # m /\ i # 0
          <5>1. i \in 0..(m - 1) /\ i - 1 \in 0..(m - 1)
            BY <2>3, <4>4
          <5> QED BY <4>1, <4>2, <4>4, <5>1
        <4>5. CASE i = 0
          <5>1. 0 \in 0..(m - 1)
            BY <2>3, <2>4
          <5> QED BY <4>1, <4>2, <4>5, <5>1
        <4> QED BY <4>3, <4>4, <4>5
      <3>2. g = [i \in 0..m |-> g[i]]
        OBVIOUS
      <3> HIDE DEF g
      <3>3. g = [i \in 0..m |-> IF i = 0 THEN q ELSE PumpOne(g[i - 1], q.queue[i])]
        BY <3>1, <3>2
      <3> QED BY <3>3 DEF Turns
    <2> QED BY <2>3, <2>7
  <1> QED BY <1>1, <1>2

(* A set that begins with 0 and goes on up to n *)
LEMMA UpTo ==
    ASSUME NEW n \in Nat, NEW S \in SUBSET (0..n), 0 \in S,
           \A i \in 1..n : i - 1 \in S => i \in S
    PROVE  S = 0..n
  <1> DEFINE Bad == (0..n) \ S
  <1>1. SUFFICES ASSUME Bad # {}  PROVE FALSE
    OBVIOUS
  <1>2. Bad \in SUBSET Nat
    OBVIOUS
  <1>3. PICK i \in Bad : \A j \in Bad : i <= j
    BY <1>1, <1>2, Least
  <1>4. i \in 1..n /\ i - 1 \in 0..n /\ i - 1 \notin Bad
    BY <1>3
  <1> QED BY <1>3, <1>4

(* pump() turn by turn: it is blocked from some turn on, and until then each *)
(* turn takes the next entry of the queue.                                   *)
LEMMA PumpTurns ==
    ASSUME NEW q, Sound(q)
    PROVE  \E f : /\ f[0] = q /\ f[Len(q.queue)] = Pump(q)
                  /\ \A i \in 1..Len(q.queue) : f[i] = PumpOne(f[i - 1], q.queue[i])
                  /\ \A i \in 0..Len(q.queue) :
                        /\ Sound(f[i])
                        /\ Blocked(f[i]) \/ f[i].queue = SubSeq(q.queue, i + 1, Len(q.queue))
  <1> DEFINE n == Len(q.queue)
             f == CHOOSE g : Turns(q, g, n)
             J(i) == Sound(f[i]) /\ (Blocked(f[i]) \/ f[i].queue = SubSeq(q.queue, i + 1, n))
  <1>1. q.queue \in Seq(Tasks) /\ n \in Nat
    BY DEF Sound, Pools
  <1>2. Turns(q, f, n)
    <2>1. \E g : Turns(q, g, n)
      BY <1>1, TurnsExist
    <2> QED BY <2>1
  <1>3. Pump(q) = f[n]
    BY DEF Pump, Turns
  <1>4. /\ f[0] = q
        /\ \A i \in 0..n : i # 0 => f[i] = PumpOne(f[i - 1], q.queue[i])
    <2>1. \A i \in 0..n : f[i] = IF i = 0 THEN q ELSE PumpOne(f[i - 1], q.queue[i])
      BY <1>2 DEF Turns
    <2> QED BY <1>1, <2>1
  <1> HIDE DEF f
  <1>5. J(0)
    <2>1. SubSeq(q.queue, 0 + 1, n) = q.queue
      BY <1>1
    <2> QED BY <1>4, <2>1
  <1>6. ASSUME NEW i \in 1..n, J(i - 1)
        PROVE  J(i)
    <2> DEFINE r == f[i - 1]
    <2>1. q.queue[i] \in Tasks /\ f[i] = PumpOne(r, q.queue[i])
      BY <1>1, <1>4
    <2>2. Sound(r) /\ (Blocked(r) \/ r.queue = SubSeq(q.queue, i, n))
      <3>1. (i - 1) + 1 = i
        OBVIOUS
      <3> QED BY <1>6, <3>1
    <2>3. /\ SubSeq(q.queue, i, n) # <<>>
          /\ Head(SubSeq(q.queue, i, n)) = q.queue[i]
          /\ Tail(SubSeq(q.queue, i, n)) = SubSeq(q.queue, i + 1, n)
      <3> DEFINE a == SubSeq(q.queue, i, n)
                 b == SubSeq(q.queue, i + 1, n)
      <3>1. /\ a \in Seq(Tasks) /\ Len(a) = n - i + 1
            /\ \A j \in 1..(n - i + 1) : a[j] = q.queue[i + j - 1]
        BY <1>1, SubSeqProperties
      <3>2. /\ b \in Seq(Tasks) /\ Len(b) = n - i
            /\ \A j \in 1..(n - i) : b[j] = q.queue[i + j]
        BY <1>1, SubSeqProperties
      <3> HIDE DEF a, b, n
      <3>3. a # <<>> /\ Head(a) = q.queue[i]
        BY <1>1, <3>1
      <3>4. Tail(a) \in Seq(Tasks) /\ Len(Tail(a)) = n - i
        BY <1>1, <3>1, <3>3
      <3>5. \A j \in 1..(n - i) : Tail(a)[j] = b[j]
        <4>1. SUFFICES ASSUME NEW j \in 1..(n - i)  PROVE Tail(a)[j] = b[j]
          OBVIOUS
        <4>2. Tail(a)[j] = a[j + 1]
          BY <1>1, <3>1, <3>3
        <4>3. j + 1 \in 1..(n - i + 1) /\ i + (j + 1) - 1 = i + j
          BY <1>1
        <4>4. a[j + 1] = q.queue[i + j]
          BY <3>1, <4>3
        <4> QED BY <3>2, <4>2, <4>4
      <3>6. Tail(a) = b
        BY <1>1, <3>2, <3>4, <3>5, SeqEqual
      <3> QED BY <3>3, <3>6 DEF a, b
    <2> HIDE DEF r, n
    <2>4. /\ Sound(f[i])
          /\ (Blocked(r) /\ f[i] = r) \/ f[i].queue = Tail(r.queue)
      <3>1. Blocked(r) \/ (r.queue # <<>> /\ q.queue[i] = Head(r.queue))
        BY <2>2, <2>3
      <3> QED BY <2>1, <2>2, <3>1, PumpOneSound
    <2>5. CASE Blocked(r)
      <3>1. f[i] = r
        BY <2>1, <2>5 DEF PumpOne, Blocked
      <3> QED BY <2>4, <2>5, <3>1
    <2>6. CASE ~Blocked(r)
      BY <2>2, <2>3, <2>4, <2>6
    <2> QED BY <2>5, <2>6
  <1>7. \A i \in 0..n : J(i)
    <2> DEFINE S == {i \in 0..n : J(i)}
    <2> HIDE DEF J
    <2>1. S \in SUBSET (0..n) /\ 0 \in S
      BY <1>1, <1>5
    <2>2. \A i \in 1..n : i - 1 \in S => i \in S
      BY <1>1, <1>6
    <2> HIDE DEF S, n
    <2>3. S = 0..n
      BY <1>1, <2>1, <2>2, UpTo
    <2> QED BY <2>3 DEF S
  <1>8. \A i \in 1..n : f[i] = PumpOne(f[i - 1], q.queue[i])
    BY <1>1, <1>4
  <1> QED BY <1>3, <1>4, <1>7, <1>8

LEMMA PumpSound ==
    ASSUME NEW q, Sound(q)
    PROVE  Sound(Pump(q)) /\ Pumped(Pump(q))
  <1> DEFINE n == Len(q.queue)
             r == Pump(q)
  <1>1. q.queue \in Seq(Tasks) /\ n \in Nat
    BY DEF Sound, Pools
  <1>2. Sound(r) /\ (Blocked(r) \/ r.queue = SubSeq(q.queue, n + 1, n))
    <2>1. n \in 0..n
      BY <1>1
    <2> HIDE DEF n
    <2> QED BY <2>1, PumpTurns DEF n
  <1> HIDE DEF r
  <1>3. CASE Blocked(r)
    BY <1>2, <1>3 DEF Blocked, Pumped, Sound, Pools, r
  <1>4. CASE r.queue = SubSeq(q.queue, n + 1, n)
    <2>1. r.queue = <<>>
      BY <1>1, <1>4
    <2>2. Queued(r) = {}
      BY <1>2, <2>1 DEF Sound, Placed, Queued
    <2>3. r.queuedCount = 0
      BY <1>2, <2>2, FS_EmptySet DEF Sound, Counted
    <2> QED BY <1>2, <2>3 DEF Pumped, r
  <1> QED BY <1>2, <1>3, <1>4

---------------------------------------------------------------------------
(* Functions that leave the tasks as they are keep the pool sound. *)
LEMMA SameTasks ==
    ASSUME NEW q, Sound(q), NEW r \in Pools,
           r.state = q.state, r.zombie = q.zombie, r.settled = q.settled,
           r.killTimers \subseteq q.killTimers, r.queue = q.queue,
           r.queuedCount = q.queuedCount, r.running = q.running,
           r.completed = q.completed, r.failed = q.failed,
           \A s \in Slots : q.worker[s] = "ready" => r.worker[s] = "ready",
           Retired(r)
    PROVE  Sound(r)
  <1>1. q \in Pools /\ Counted(q) /\ Placed(q)
    BY DEF Sound
  <1>2. Counted(r)
    BY <1>1, SameCounts
  <1>3. Placed(r)
    BY <1>1 DEF Placed
  <1> QED BY <1>2, <1>3 DEF Sound

(* destroyInternal() *)

LEMMA DestroyInternalSound ==
    ASSUME NEW q, Sound(q)
    PROVE  LET r == DestroyInternal(q) IN Sound(r) /\ r.queuedCount = 0
  <1> DEFINE live == {t \in UNION {q.running[s] : s \in Slots} : t \notin q.zombie}
             e == FailAllQueued(q)
             g == RejectAll(e, live)
             r == DestroyInternal(q)
  <1>1. q \in Pools /\ Counted(q) /\ Placed(q)
    BY DEF Sound
  <1>2. /\ Sound(e) /\ e.queuedCount = 0 /\ e.running = q.running /\ e.zombie = q.zombie
        /\ SameSlots(q, e)
    BY FailAllQueuedSound
  <1> HIDE DEF e
  <1>3. e \in Pools /\ Counted(e) /\ Placed(e) /\ Retired(e)
    BY <1>2 DEF Sound
  <1>4. live \in SUBSET Tasks
    BY <1>1 DEF Pools
  <1>5. \A t \in Tasks : t \in live <=> e.state[t] = "running"
    <2>1. SUFFICES ASSUME NEW t \in Tasks  PROVE t \in live <=> e.state[t] = "running"
      OBVIOUS
    <2>2. ASSUME t \in live  PROVE e.state[t] = "running"
      <3>1. PICK s \in Slots : t \in q.running[s]
        BY <2>2
      <3>2. t \notin e.zombie /\ t \in e.running[s]
        BY <1>2, <2>2, <3>1
      <3> QED BY <1>3, <3>2 DEF Placed
    <2>3. ASSUME e.state[t] = "running"  PROVE t \in live
      <3>1. PICK s \in Slots : t \in e.running[s]
        BY <1>3, <2>3 DEF Placed
      <3>2. t \notin e.zombie
        BY <1>3, <2>3 DEF Placed
      <3> QED BY <1>2, <3>1, <3>2
    <2> QED BY <2>2, <2>3
  <1> HIDE DEF live
  <1>6. IsFiniteSet(live) /\ \A t \in live : e.settled[t] < 2
    <2>1. IsFiniteSet(live)
      BY <1>3, <1>4, <1>5, CountsOf
    <2>2. \A t \in live : e.settled[t] = 0
      BY <1>3, <1>4, <1>5, CountsOf
    <2> QED BY <2>1, <2>2
  <1>7. /\ g \in Pools
        /\ g.state = [t \in Tasks |-> IF t \in live THEN "done" ELSE e.state[t]]
        /\ g.settled = [t \in Tasks |-> IF t \in live THEN e.settled[t] + 1 ELSE e.settled[t]]
        /\ g.failed = e.failed + Cardinality(live)
        /\ g.killTimers = e.killTimers
        /\ g.zombie = e.zombie /\ g.queue = e.queue /\ g.queuedCount = e.queuedCount
        /\ g.running = e.running /\ g.completed = e.completed
        /\ SameSlots(e, g) /\ SameFlags(e, g)
    BY <1>3, <1>4, <1>6, RejectAllFields
  <1> DEFINE ru == [s \in Slots |-> {}]
             rp == IF g.readyPromise = "pending" THEN "rejected" ELSE g.readyPromise
  <1>8. r = [g EXCEPT !.destroyed = TRUE, !.killTimers = {}, !.running = ru, !.readyPromise = rp]
    BY <1>7 DEF DestroyInternal, live, e, Pools
  <1>9. ru \in [Slots -> SUBSET Tasks] /\ rp \in {"pending", "resolved", "rejected"}
    BY <1>7 DEF Pools
  <1>10. \A s \in Slots : ru[s] = {}
    OBVIOUS
  <1> HIDE DEF r, g, ru, rp
  <1>11. /\ r \in Pools /\ r.running = ru /\ r.killTimers = {}
         /\ r.state = g.state /\ r.settled = g.settled /\ r.failed = g.failed
         /\ r.zombie = g.zombie /\ r.queue = g.queue /\ r.queuedCount = g.queuedCount
         /\ r.completed = g.completed /\ SameSlots(g, r)
    BY <1>7, <1>8, <1>9 DEF Pools, SameSlots
  <1>12. /\ \A t \in Tasks : r.state[t] = IF t \in live THEN "done" ELSE e.state[t]
         /\ \A t \in Tasks : r.settled[t] = IF t \in live THEN e.settled[t] + 1 ELSE e.settled[t]
    BY <1>7, <1>11
  <1>13. Counted(r)
    <2>1. \A t \in live : e.state[t] \in {"queued", "running"}
      BY <1>4, <1>5
    <2>2. r.completed + r.failed = e.completed + e.failed + Cardinality(live)
      <3>1. Cardinality(live) \in Nat
        BY <1>6, FS_CardinalityType
      <3> QED BY <1>3, <1>7, <1>11, <3>1 DEF Pools
    <2>3. r.queuedCount = e.queuedCount - Cardinality(live \cap Queued(e))
      <3>1. live \cap Queued(e) = {}
        BY <1>4, <1>5 DEF Queued
      <3>2. Cardinality(live \cap Queued(e)) = 0
        BY <3>1, FS_EmptySet
      <3>3. r.queuedCount = 0 /\ e.queuedCount = 0
        BY <1>2, <1>7, <1>11
      <3> QED BY <3>2, <3>3
    <2> QED BY <1>3, <1>4, <1>11, <1>12, <2>1, <2>2, <2>3, SettlingCounts
  <1>14. Placed(r)
    <2>1. \A t \in Tasks : r.state[t] # "running" /\ (r.state[t] = "queued" => e.state[t] = "queued")
      BY <1>5, <1>12
    <2>2. e.zombie \subseteq Tasks /\ \A t \in e.zombie : e.state[t] = "done"
      BY <1>3 DEF Pools, Placed
    <2>3. \A t \in r.zombie : r.state[t] = "done"
      BY <1>5, <1>7, <1>11, <1>12, <2>2
    <2>4. \A t \in Tasks : r.state[t] = "queued" => \E i \in DOMAIN r.queue : r.queue[i] = t
      BY <1>3, <1>7, <1>11, <2>1 DEF Placed
    <2>5. \A s \in Slots : r.running[s] = {}
      BY <1>10, <1>11
    <2> QED BY <1>11, <2>1, <2>3, <2>4, <2>5 DEF Placed
  <1>15. Retired(r)
    BY <1>3, <1>7, <1>11 DEF Retired, SameSlots
  <1>16. r.queuedCount = 0
    BY <1>2, <1>7, <1>11
  <1> QED BY <1>11, <1>13, <1>14, <1>15, <1>16 DEF Sound, r

---------------------------------------------------------------------------
(* run(), and the signals *)

LEMMA EnqueueSound ==
    ASSUME NEW q, Sound(q), NEW t \in Tasks, q.state[t] = "new"
    PROVE  Sound([q EXCEPT !.state[t] = "queued", !.queue = Append(@, t),
                           !.queuedCount = @ + 1])
  <1> DEFINE st == [q.state EXCEPT ![t] = "queued"]
             qu == Append(q.queue, t)
             qc == q.queuedCount + 1
             r == [q EXCEPT !.state[t] = "queued", !.queue = Append(@, t),
                            !.queuedCount = @ + 1]
  <1>1. q \in Pools /\ Counted(q) /\ Placed(q) /\ Retired(q)
    BY DEF Sound
  <1>2. /\ st \in [Tasks -> {"new", "queued", "running", "done"}]
        /\ qu \in Seq(Tasks) /\ qc \in Nat
    BY <1>1 DEF Pools
  <1>3. r = [q EXCEPT !.state = st, !.queue = qu, !.queuedCount = qc]
    OBVIOUS
  <1>4. \A u \in Tasks : st[u] = IF u = t THEN "queued" ELSE q.state[u]
    BY <1>1 DEF Pools
  <1>5. \A u \in Tasks : st[u] = "queued" => \E i \in DOMAIN qu : qu[i] = u
    <2>1. SUFFICES ASSUME NEW u \in Tasks, st[u] = "queued"
                   PROVE  \E i \in DOMAIN qu : qu[i] = u
      OBVIOUS
    <2>2. q.queue \in Seq(Tasks)
      BY <1>1 DEF Pools
    <2>3. CASE u = t
      <3>1. Len(q.queue) + 1 \in DOMAIN qu /\ qu[Len(q.queue) + 1] = t
        BY <2>2
      <3> QED BY <2>3, <3>1
    <2>4. CASE u # t
      <3>1. q.state[u] = "queued"
        BY <1>4, <2>1, <2>4
      <3>2. PICK i \in DOMAIN q.queue : q.queue[i] = u
        BY <1>1, <3>1 DEF Placed
      <3>3. i \in DOMAIN qu /\ qu[i] = u
        BY <2>2, <3>2
      <3> QED BY <3>3
    <2> QED BY <2>3, <2>4
  <1> HIDE DEF st, qu, qc, r
  <1>6. /\ r \in Pools /\ r.state = st /\ r.queue = qu /\ r.queuedCount = qc
        /\ r.settled = q.settled /\ r.failed = q.failed /\ r.killTimers = q.killTimers
        /\ r.zombie = q.zombie /\ r.running = q.running
        /\ r.completed = q.completed /\ SameSlots(q, r)
    BY <1>1, <1>2, <1>3 DEF Pools, SameSlots
  <1>7. Counted(r)
    BY <1>1, <1>4, <1>6, QueueingCounts DEF qc
  <1>8. Placed(r)
    <2>1. q.zombie \subseteq Tasks /\ r.worker = q.worker
      BY <1>1, <1>6 DEF Pools, SameSlots
    <2>2. \A u \in Tasks : r.state[u] = "running" <=> q.state[u] = "running"
      BY <1>4, <1>6
    <2>3. \A u \in q.zombie : r.state[u] = "done"
      BY <1>1, <1>4, <1>6, <2>1 DEF Placed
    <2> QED BY <1>1, <1>5, <1>6, <2>1, <2>2, <2>3 DEF Placed
  <1>9. Retired(r)
    BY <1>1, <1>6 DEF Retired, SameSlots
  <1> QED BY <1>6, <1>7, <1>8, <1>9 DEF Sound, r

(* The signal of a task that waits: rejected, and taken off the count *)
LEMMA AbortQueuedSound ==
    ASSUME NEW q, Sound(q), NEW t \in Tasks, q.state[t] = "queued"
    PROVE  LET r == [RejectTask(q, t) EXCEPT !.queuedCount = @ - 1] IN
           /\ Sound(r)
           /\ Pumped(q) => Pumped(r)
  <1> DEFINE g == RejectTask(q, t)
             qc == q.queuedCount - 1
             r == [g EXCEPT !.queuedCount = @ - 1]
  <1>1. q \in Pools /\ Counted(q) /\ Placed(q) /\ Retired(q)
    BY DEF Sound
  <1>2. q.settled[t] = 0 /\ t \in Queued(q)
    BY <1>1, CountsOf DEF Queued
  <1>3. qc \in Nat /\ q.queuedCount > 0
    <2>1. q.queuedCount > 0
      BY <1>1, <1>2, CountsOf
    <2> QED BY <1>1, <2>1 DEF Pools
  <1>4. /\ g \in Pools
        /\ g.state = [q.state EXCEPT ![t] = "done"]
        /\ g.settled = [q.settled EXCEPT ![t] = @ + 1]
        /\ g.failed = q.failed + 1
        /\ g.killTimers = q.killTimers \ {t}
        /\ g.zombie = q.zombie /\ g.queue = q.queue /\ g.queuedCount = q.queuedCount
        /\ g.running = q.running /\ g.completed = q.completed
        /\ SameSlots(q, g)
    BY <1>1, <1>2, RejectTaskFields
  <1>5. r = [g EXCEPT !.queuedCount = qc]
    BY <1>4
  <1> HIDE DEF g, r, qc
  <1>6. /\ r \in Pools /\ r.queuedCount = qc
        /\ r.state = g.state /\ r.settled = g.settled /\ r.failed = g.failed
        /\ r.killTimers = g.killTimers /\ r.zombie = g.zombie /\ r.queue = g.queue
        /\ r.running = g.running /\ r.completed = g.completed /\ SameSlots(g, r)
    BY <1>3, <1>4, <1>5 DEF Pools, SameSlots
  <1>7. r.worker = q.worker /\ r.crashes = q.crashes
    BY <1>4, <1>6 DEF SameSlots
  <1>8. \A u \in Tasks : r.state[u] = IF u = t THEN "done" ELSE q.state[u]
    BY <1>1, <1>4, <1>6 DEF Pools
  <1>9. Counted(r)
    <2> DEFINE S == {t}
    <2>1. S \in SUBSET Tasks /\ Cardinality(S) = 1 /\ S \cap Queued(q) = S
      BY <1>2, FS_Singleton
    <2>2. \A u \in S : q.state[u] \in {"queued", "running"}
      OBVIOUS
    <2>3. /\ \A u \in Tasks : r.state[u] = IF u \in S THEN "done" ELSE q.state[u]
          /\ \A u \in Tasks : r.settled[u] = IF u \in S THEN q.settled[u] + 1 ELSE q.settled[u]
      BY <1>1, <1>4, <1>6, <1>8 DEF Pools
    <2> HIDE DEF S
    <2>4. r.completed + r.failed = q.completed + q.failed + Cardinality(S)
      BY <1>1, <1>4, <1>6, <2>1 DEF Pools
    <2>5. r.queuedCount = q.queuedCount - Cardinality(S \cap Queued(q))
      BY <1>6, <2>1 DEF qc
    <2> QED BY <1>1, <1>6, <2>1, <2>2, <2>3, <2>4, <2>5, SettlingCounts
  <1>10. t \notin q.zombie /\ \A s \in Slots : t \notin q.running[s]
    BY <1>1 DEF Placed
  <1>11. Placed(r)
    <2>1. q.zombie \subseteq Tasks
      BY <1>1 DEF Pools
    <2> QED BY <1>1, <1>4, <1>6, <1>7, <1>8, <1>10, <2>1 DEF Placed
  <1>12. Retired(r)
    BY <1>1, <1>7 DEF Retired
  <1>13. Pumped(q) => Pumped(r)
    BY <1>1, <1>3, <1>4, <1>6, <1>7, StillPumped
  <1> QED BY <1>6, <1>9, <1>11, <1>12, <1>13 DEF Sound, r, g

(* The signal or the timeout of a task that runs: rejected, and a zombie *)
LEMMA AbortRunningSound ==
    ASSUME NEW q, Sound(q), NEW t \in Tasks, q.state[t] = "running"
    PROVE  LET r == [RejectTask(q, t) EXCEPT !.zombie = @ \cup {t},
                                             !.killTimers = @ \cup {t}] IN
           /\ Sound(r)
           /\ Pumped(q) => Pumped(r)
  <1> DEFINE g == RejectTask(q, t)
             zo == q.zombie \cup {t}
             ki == g.killTimers \cup {t}
             r == [g EXCEPT !.zombie = @ \cup {t}, !.killTimers = @ \cup {t}]
  <1>1. q \in Pools /\ Counted(q) /\ Placed(q) /\ Retired(q)
    BY DEF Sound
  <1>2. q.settled[t] = 0
    BY <1>1, CountsOf
  <1>4. /\ g \in Pools
        /\ g.state = [q.state EXCEPT ![t] = "done"]
        /\ g.settled = [q.settled EXCEPT ![t] = @ + 1]
        /\ g.failed = q.failed + 1
        /\ g.killTimers = q.killTimers \ {t}
        /\ g.zombie = q.zombie /\ g.queue = q.queue /\ g.queuedCount = q.queuedCount
        /\ g.running = q.running /\ g.completed = q.completed
        /\ SameSlots(q, g)
    BY <1>1, <1>2, RejectTaskFields
  <1>5. /\ r = [g EXCEPT !.zombie = zo, !.killTimers = ki]
        /\ zo \in SUBSET Tasks /\ ki \in SUBSET Tasks
    BY <1>4 DEF Pools
  <1>6. ki = q.killTimers \cup {t}
    BY <1>4
  <1> HIDE DEF g, r, ki
  <1>7. /\ r \in Pools /\ r.queuedCount = g.queuedCount
        /\ r.state = g.state /\ r.settled = g.settled /\ r.failed = g.failed
        /\ r.killTimers = ki /\ r.zombie = zo /\ r.queue = g.queue
        /\ r.running = g.running /\ r.completed = g.completed /\ SameSlots(g, r)
    BY <1>4, <1>5 DEF Pools, SameSlots
  <1>8. r.worker = q.worker /\ r.crashes = q.crashes
    BY <1>4, <1>7 DEF SameSlots
  <1>9. \A u \in Tasks : r.state[u] = IF u = t THEN "done" ELSE q.state[u]
    BY <1>1, <1>4, <1>7 DEF Pools
  <1>10. Counted(r)
    <2> DEFINE S == {t}
    <2>1. S \in SUBSET Tasks /\ Cardinality(S) = 1 /\ Cardinality(S \cap Queued(q)) = 0
      <3>1. S \cap Queued(q) = {}
        BY DEF Queued
      <3> QED BY <3>1, FS_Singleton, FS_EmptySet
    <2>2. \A u \in S : q.state[u] \in {"queued", "running"}
      OBVIOUS
    <2>3. /\ \A u \in Tasks : r.state[u] = IF u \in S THEN "done" ELSE q.state[u]
          /\ \A u \in Tasks : r.settled[u] = IF u \in S THEN q.settled[u] + 1 ELSE q.settled[u]
      BY <1>1, <1>4, <1>7, <1>9 DEF Pools
    <2> HIDE DEF S
    <2>4. r.completed + r.failed = q.completed + q.failed + Cardinality(S)
      BY <1>1, <1>4, <1>7, <2>1 DEF Pools
    <2>5. r.queuedCount = q.queuedCount - Cardinality(S \cap Queued(q))
      BY <1>1, <1>4, <1>7, <2>1 DEF Pools
    <2> QED BY <1>1, <1>7, <2>1, <2>2, <2>3, <2>4, <2>5, SettlingCounts
  <1>11. Placed(r)
    <2>1. q.zombie \subseteq Tasks /\ \E s \in Slots : t \in q.running[s]
      BY <1>1 DEF Pools, Placed
    <2> QED BY <1>1, <1>4, <1>6, <1>7, <1>8, <1>9, <2>1 DEF Placed
  <1>12. Retired(r)
    BY <1>1, <1>8 DEF Retired
  <1>13. Pumped(q) => Pumped(r)
    BY <1>1, <1>4, <1>7, <1>8, StillPumped
  <1> QED BY <1>7, <1>10, <1>11, <1>12, <1>13 DEF Sound, r, g

---------------------------------------------------------------------------
(* onMessage(): an answer frees the place, and settles a task that is not a *)
(* zombie.                                                                  *)
LEMMA AnsweredSound ==
    ASSUME NEW q, Sound(q), NEW s \in Slots, NEW t \in Tasks, t \in q.running[s],
           NEW ok \in BOOLEAN
    PROVE  Sound(Answered(q, s, t, ok))
  <1> DEFINE ru == [q.running EXCEPT ![s] = @ \ {t}]
             ki == q.killTimers \ {t}
             g == [q EXCEPT !.running[s] = @ \ {t}, !.killTimers = @ \ {t}]
             r == Answered(q, s, t, ok)
  <1>1. q \in Pools /\ Counted(q) /\ Placed(q) /\ Retired(q)
    BY DEF Sound
  <1>2. /\ g = [q EXCEPT !.running = ru, !.killTimers = ki]
        /\ ru \in [Slots -> SUBSET Tasks] /\ ki \in SUBSET Tasks
    BY <1>1 DEF Pools
  <1>3. \A v \in Slots, u \in Tasks :
           u \in ru[v] <=> (u \in q.running[v] /\ ~(v = s /\ u = t))
    BY <1>1 DEF Pools
  <1>4. \A v \in Slots : t \notin ru[v]
    BY <1>1, <1>3 DEF Placed
  <1>5. \A u \in ki : u \in q.zombie /\ \E v \in Slots : u \in ru[v]
    <2>1. q.killTimers \subseteq Tasks
      BY <1>1 DEF Pools
    <2> QED BY <1>1, <1>3, <2>1 DEF Placed
  <1> HIDE DEF ru, ki, g
  <1>6. /\ g \in Pools /\ g.running = ru /\ g.killTimers = ki
        /\ g.state = q.state /\ g.settled = q.settled /\ g.failed = q.failed
        /\ g.zombie = q.zombie /\ g.queue = q.queue /\ g.queuedCount = q.queuedCount
        /\ g.completed = q.completed /\ g.worker = q.worker /\ g.crashes = q.crashes
    BY <1>1, <1>2 DEF Pools
  <1>7. CASE t \in q.zombie
    <2>1. r = g
      BY <1>7 DEF Answered, g
    <2>2. q.state[t] = "done"
      BY <1>1, <1>7 DEF Placed
    <2>3. Counted(g)
      BY <1>1, <1>6, SameCounts
    <2>4. Placed(g)
      <3>1. \A u \in Tasks : g.state[u] = "running" => \E v \in Slots : u \in g.running[v]
        BY <1>1, <1>3, <1>6, <2>2 DEF Placed
      <3>2. \A v \in Slots, u \in Tasks :
               u \in g.running[v] => /\ g.state[u] = "running" \/ u \in g.zombie
                                     /\ g.worker[v] = "ready"
                                     /\ \A w \in Slots : u \in g.running[w] => w = v
        BY <1>1, <1>3, <1>6 DEF Placed
      <3> QED BY <1>1, <1>5, <1>6, <3>1, <3>2 DEF Placed
    <2>5. Retired(g)
      BY <1>1, <1>6 DEF Retired
    <2> QED BY <1>6, <2>1, <2>3, <2>4, <2>5 DEF Sound
  <1>8. CASE t \notin q.zombie
    <2> DEFINE st == [q.state EXCEPT ![t] = "done"]
               se == [q.settled EXCEPT ![t] = @ + 1]
               co == IF ok THEN q.completed + 1 ELSE q.completed
               fa == IF ok THEN q.failed ELSE q.failed + 1
    <2>1. q.state[t] = "running" /\ q.settled[t] = 0
      <3>1. q.state[t] = "running"
        BY <1>1, <1>8 DEF Placed
      <3> QED BY <1>1, <3>1, CountsOf
    <2>2. /\ st \in [Tasks -> {"new", "queued", "running", "done"}]
          /\ se \in [Tasks -> 0..2] /\ co \in Nat /\ fa \in Nat
      BY <1>1, <2>1 DEF Pools
    <2>3. r = [g EXCEPT !.state = st, !.settled = se, !.completed = co, !.failed = fa]
      <3>1. r = [g EXCEPT !.state[t] = "done", !.settled[t] = @ + 1,
                          !.completed = IF ok THEN @ + 1 ELSE @,
                          !.failed = IF ok THEN @ ELSE @ + 1]
        BY <1>8 DEF Answered, g
      <3>2. /\ st = [g.state EXCEPT ![t] = "done"]
            /\ se = [g.settled EXCEPT ![t] = @ + 1]
            /\ co = IF ok THEN g.completed + 1 ELSE g.completed
            /\ fa = IF ok THEN g.failed ELSE g.failed + 1
        BY <1>6
      <3> HIDE DEF r, st, se, co, fa
      <3> QED BY <3>1, <3>2
    <2>4. /\ \A u \in Tasks : st[u] = IF u = t THEN "done" ELSE q.state[u]
          /\ \A u \in Tasks : se[u] = IF u = t THEN q.settled[u] + 1 ELSE q.settled[u]
          /\ co + fa = q.completed + q.failed + 1
      BY <1>1, <2>1 DEF Pools
    <2> HIDE DEF st, se, co, fa, r
    <2>5. /\ r \in Pools /\ r.running = ru /\ r.killTimers = ki
          /\ r.state = st /\ r.settled = se /\ r.failed = fa /\ r.completed = co
          /\ r.zombie = q.zombie /\ r.queue = q.queue /\ r.queuedCount = q.queuedCount
          /\ r.worker = q.worker /\ r.crashes = q.crashes
      BY <1>6, <2>2, <2>3 DEF Pools
    <2>6. Counted(r)
      <3> DEFINE S == {t}
      <3>1. S \in SUBSET Tasks /\ Cardinality(S) = 1 /\ Cardinality(S \cap Queued(q)) = 0
        <4>1. S \cap Queued(q) = {}
          BY <2>1 DEF Queued
        <4> QED BY <4>1, FS_Singleton, FS_EmptySet
      <3>2. \A u \in S : q.state[u] \in {"queued", "running"}
        BY <2>1
      <3>3. /\ \A u \in Tasks : r.state[u] = IF u \in S THEN "done" ELSE q.state[u]
            /\ \A u \in Tasks : r.settled[u] = IF u \in S THEN q.settled[u] + 1 ELSE q.settled[u]
        BY <2>4, <2>5
      <3> HIDE DEF S
      <3>4. r.completed + r.failed = q.completed + q.failed + Cardinality(S)
        BY <2>4, <2>5, <3>1
      <3>5. r.queuedCount = q.queuedCount - Cardinality(S \cap Queued(q))
        BY <1>1, <2>5, <3>1 DEF Pools
      <3> QED BY <1>1, <2>5, <3>1, <3>2, <3>3, <3>4, <3>5, SettlingCounts
    <2>7. Placed(r)
      <3>1. \A u \in Tasks : r.state[u] = "running" => \E v \in Slots : u \in r.running[v]
        BY <1>1, <1>3, <2>4, <2>5 DEF Placed
      <3>2. \A v \in Slots, u \in Tasks :
               u \in r.running[v] => /\ r.state[u] = "running" \/ u \in r.zombie
                                     /\ r.worker[v] = "ready"
                                     /\ \A w \in Slots : u \in r.running[w] => w = v
        BY <1>1, <1>3, <1>4, <2>4, <2>5 DEF Placed
      <3>3. \A u \in r.zombie : r.state[u] = "done"
        <4>1. q.zombie \subseteq Tasks
          BY <1>1 DEF Pools
        <4> QED BY <1>1, <2>4, <2>5, <4>1 DEF Placed
      <3> QED BY <1>1, <1>5, <2>4, <2>5, <3>1, <3>2, <3>3 DEF Placed
    <2>8. Retired(r)
      BY <1>1, <2>5 DEF Retired
    <2> QED BY <2>5, <2>6, <2>7, <2>8 DEF Sound, r
  <1> QED BY <1>7, <1>8

---------------------------------------------------------------------------
(* onExit() *)

\* What onExit() does to the tasks of the slot, before it looks at the worker
Vacated(q, s) ==
    [RejectAll(q, {t \in q.running[s] : t \notin q.zombie}) EXCEPT
        !.worker[s] = "exited",
        !.killTimers = @ \ q.running[s],
        !.running[s] = {}]

LEMMA VacatedSound ==
    ASSUME NEW q, Sound(q), NEW s \in Slots, q.worker[s] \in {"starting", "ready"}
    PROVE  LET r == Vacated(q, s) IN
           /\ Sound(r)
           /\ r.running = [q.running EXCEPT ![s] = {}]
           /\ r.worker = [q.worker EXCEPT ![s] = "exited"]
           /\ r.queuedCount = q.queuedCount
           /\ r.crashes = q.crashes
           /\ r.crashes[s] <= MaxRestarts
  <1> DEFINE live == {t \in q.running[s] : t \notin q.zombie}
             g == RejectAll(q, live)
             wo == [q.worker EXCEPT ![s] = "exited"]
             ki == q.killTimers \ q.running[s]
             ru == [q.running EXCEPT ![s] = {}]
             r == Vacated(q, s)
  <1>1. q \in Pools /\ Counted(q) /\ Placed(q) /\ Retired(q)
    BY DEF Sound
  <1>2. live \in SUBSET Tasks
    BY <1>1 DEF Pools
  <1>3. \A t \in live : q.state[t] = "running"
    BY <1>1, <1>2 DEF Placed
  <1>4. IsFiniteSet(live) /\ \A t \in live : q.settled[t] < 2
    <2>1. IsFiniteSet(live)
      BY <1>1, <1>2, <1>3, CountsOf
    <2>2. \A t \in live : q.settled[t] = 0
      BY <1>1, <1>2, <1>3, CountsOf
    <2> QED BY <2>1, <2>2
  <1>5. \A t \in Tasks : t \in live <=> (t \in q.running[s] /\ t \notin q.zombie)
    OBVIOUS
  <1> HIDE DEF live
  <1>6. /\ g \in Pools
        /\ g.state = [t \in Tasks |-> IF t \in live THEN "done" ELSE q.state[t]]
        /\ g.settled = [t \in Tasks |-> IF t \in live THEN q.settled[t] + 1 ELSE q.settled[t]]
        /\ g.failed = q.failed + Cardinality(live)
        /\ g.killTimers = q.killTimers
        /\ g.zombie = q.zombie /\ g.queue = q.queue /\ g.queuedCount = q.queuedCount
        /\ g.running = q.running /\ g.completed = q.completed
        /\ SameSlots(q, g)
    BY <1>1, <1>2, <1>4, RejectAllFields
  <1>7. r = [g EXCEPT !.worker = wo, !.killTimers = ki, !.running = ru]
    <2>1. /\ wo = [g.worker EXCEPT ![s] = "exited"]
          /\ ki = g.killTimers \ q.running[s]
          /\ ru = [g.running EXCEPT ![s] = {}]
      BY <1>6 DEF SameSlots
    <2>2. r = [g EXCEPT !.worker[s] = "exited",
                        !.killTimers = @ \ q.running[s],
                        !.running[s] = {}]
      BY DEF Vacated, live
    <2> HIDE DEF r, wo, ki, ru, g
    <2> QED BY <2>1, <2>2
  <1>8. /\ wo \in [Slots -> {"starting", "ready", "waiting", "exited", "dead"}]
        /\ ki \in SUBSET Tasks
        /\ ru \in [Slots -> SUBSET Tasks]
    BY <1>1 DEF Pools
  <1>9. /\ \A v \in Slots : wo[v] = IF v = s THEN "exited" ELSE q.worker[v]
        /\ \A v \in Slots : ru[v] = IF v = s THEN {} ELSE q.running[v]
        /\ \A t \in Tasks : t \in ki <=> (t \in q.killTimers /\ t \notin q.running[s])
    BY <1>1 DEF Pools
  <1> HIDE DEF r, wo, ki, ru, g
  <1>10. /\ r \in Pools /\ r.worker = wo /\ r.killTimers = ki /\ r.running = ru
         /\ r.state = g.state /\ r.settled = g.settled /\ r.failed = g.failed
         /\ r.zombie = g.zombie /\ r.queue = g.queue /\ r.queuedCount = g.queuedCount
         /\ r.completed = g.completed /\ r.crashes = g.crashes
    BY <1>6, <1>7, <1>8 DEF Pools
  <1>11. /\ \A t \in Tasks : r.state[t] = IF t \in live THEN "done" ELSE q.state[t]
         /\ \A t \in Tasks : r.settled[t] = IF t \in live THEN q.settled[t] + 1 ELSE q.settled[t]
         /\ r.zombie = q.zombie /\ r.queue = q.queue /\ r.queuedCount = q.queuedCount
         /\ r.crashes = q.crashes
    BY <1>6, <1>10 DEF SameSlots
  <1>12. Counted(r)
    <2>1. \A t \in live : q.state[t] \in {"queued", "running"}
      BY <1>3
    <2>2. r.completed + r.failed = q.completed + q.failed + Cardinality(live)
      <3>1. Cardinality(live) \in Nat
        BY <1>4, FS_CardinalityType
      <3> QED BY <1>1, <1>6, <1>10, <3>1 DEF Pools
    <2>3. r.queuedCount = q.queuedCount - Cardinality(live \cap Queued(q))
      <3>1. live \cap Queued(q) = {}
        BY <1>3 DEF Queued
      <3>2. Cardinality(live \cap Queued(q)) = 0
        BY <3>1, FS_EmptySet
      <3> QED BY <1>1, <1>11, <3>2 DEF Pools
    <2> QED BY <1>1, <1>2, <1>10, <1>11, <2>1, <2>2, <2>3, SettlingCounts
  <1>13. Placed(r)
    <2>1. \A t \in Tasks : r.state[t] = "queued" => \E i \in DOMAIN r.queue : r.queue[i] = t
      BY <1>1, <1>11 DEF Placed
    <2>2. \A t \in Tasks : r.state[t] = "running" => \E v \in Slots : t \in r.running[v]
      <3>1. SUFFICES ASSUME NEW t \in Tasks, r.state[t] = "running"
                     PROVE  \E v \in Slots : t \in r.running[v]
        OBVIOUS
      <3>2. q.state[t] = "running" /\ t \notin live
        BY <1>11, <3>1
      <3>3. t \notin q.zombie
        BY <1>1, <3>2 DEF Placed
      <3>4. PICK v \in Slots : t \in q.running[v]
        BY <1>1, <3>2 DEF Placed
      <3>5. v # s
        BY <1>5, <3>2, <3>3, <3>4
      <3> QED BY <1>9, <1>10, <3>4, <3>5
    <2>3. \A t \in r.zombie : r.state[t] = "done"
      <3>1. q.zombie \subseteq Tasks
        BY <1>1 DEF Pools
      <3> QED BY <1>1, <1>11, <3>1 DEF Placed
    <2>4. \A t \in r.killTimers : t \in r.zombie /\ \E v \in Slots : t \in r.running[v]
      <3>1. SUFFICES ASSUME NEW t \in r.killTimers
                     PROVE  t \in r.zombie /\ \E v \in Slots : t \in r.running[v]
        OBVIOUS
      <3>2. t \in q.killTimers /\ t \notin q.running[s]
        BY <1>8, <1>9, <1>10, <3>1
      <3>3. t \in q.zombie /\ \E v \in Slots : t \in q.running[v]
        BY <1>1, <3>2 DEF Placed
      <3> QED BY <1>9, <1>10, <1>11, <3>2, <3>3
    <2>5. \A v \in Slots, t \in Tasks :
             t \in r.running[v] => /\ r.state[t] = "running" \/ t \in r.zombie
                                   /\ r.worker[v] = "ready"
                                   /\ \A w \in Slots : t \in r.running[w] => w = v
      <3>1. SUFFICES ASSUME NEW v \in Slots, NEW t \in Tasks, t \in r.running[v]
                     PROVE  /\ r.state[t] = "running" \/ t \in r.zombie
                            /\ r.worker[v] = "ready"
                            /\ \A w \in Slots : t \in r.running[w] => w = v
        OBVIOUS
      <3>2. v # s /\ t \in q.running[v]
        BY <1>9, <1>10, <3>1
      <3>3. /\ q.state[t] = "running" \/ t \in q.zombie
            /\ q.worker[v] = "ready"
            /\ \A w \in Slots : t \in q.running[w] => w = v
        BY <1>1, <3>2 DEF Placed
      <3>4. t \notin live
        BY <1>5, <3>2, <3>3
      <3> QED BY <1>9, <1>10, <1>11, <3>2, <3>3, <3>4
    <2> QED BY <2>1, <2>2, <2>3, <2>4, <2>5 DEF Placed
  <1>14. Retired(r)
    BY <1>1, <1>9, <1>10, <1>11 DEF Retired
  <1>15. r.crashes[s] <= MaxRestarts
    <2>1. ~(q.crashes[s] > MaxRestarts) /\ q.crashes[s] \in Nat
      BY <1>1 DEF Retired, Pools
    <2> QED BY <1>11, <2>1, PoolAssumption
  <1> QED BY <1>10, <1>11, <1>12, <1>13, <1>14, <1>15 DEF Sound, r, wo, ru

LEMMA SpawnSound ==
    ASSUME NEW q, Sound(q), NEW s \in Slots, q.worker[s] \in {"exited", "waiting"}
    PROVE  LET r == Spawn(q, s) IN
           /\ Sound(r)
           /\ Pumped(q) => Pumped(r)
  <1> DEFINE wo == [q.worker EXCEPT ![s] = "starting"]
             et == q.expectTerminate \ {s}
             r == Spawn(q, s)
  <1>1. q \in Pools /\ Retired(q)
    BY DEF Sound
  <1>2. /\ r = [q EXCEPT !.worker = wo, !.expectTerminate = et]
        /\ wo \in [Slots -> {"starting", "ready", "waiting", "exited", "dead"}]
        /\ et \in SUBSET Slots
    BY <1>1 DEF Spawn, Pools
  <1>3. \A v \in Slots : wo[v] = IF v = s THEN "starting" ELSE q.worker[v]
    BY <1>1 DEF Pools
  <1> HIDE DEF r, wo, et
  <1>4. /\ r \in Pools /\ r.worker = wo
        /\ r.state = q.state /\ r.zombie = q.zombie /\ r.settled = q.settled
        /\ r.killTimers = q.killTimers /\ r.queue = q.queue
        /\ r.queuedCount = q.queuedCount /\ r.running = q.running
        /\ r.completed = q.completed /\ r.failed = q.failed /\ r.crashes = q.crashes
    BY <1>1, <1>2 DEF Pools
  <1>5. Retired(r)
    BY <1>1, <1>3, <1>4 DEF Retired
  <1>6. \A v \in Slots : q.worker[v] = "ready" <=> r.worker[v] = "ready"
    BY <1>3, <1>4
  <1>7. Sound(r)
    BY <1>4, <1>5, <1>6, SameTasks
  <1>8. Pumped(q) => Pumped(r)
    BY <1>1, <1>4, <1>6, StillPumped
  <1> QED BY <1>7, <1>8 DEF r

(* What happens to the slots alone, none of which stops being ready *)
LEMMA SlotsSound ==
    ASSUME NEW q, Sound(q),
           NEW wo \in [Slots -> {"starting", "ready", "waiting", "exited", "dead"}],
           NEW cr \in [Slots -> 0..(MaxRestarts + 1)],
           NEW er \in SUBSET Slots, NEW rp \in {"pending", "resolved", "rejected"},
           \A s \in Slots : q.worker[s] = "ready" => wo[s] = "ready",
           \A s \in Slots : cr[s] > MaxRestarts => wo[s] = "dead"
    PROVE  LET r == [q EXCEPT !.worker = wo, !.crashes = cr, !.everReady = er,
                              !.readyPromise = rp] IN
           /\ Sound(r)
           /\ (\A s \in Slots : wo[s] = "ready" => q.worker[s] = "ready") /\ Pumped(q)
                  => Pumped(r)
  <1> DEFINE r == [q EXCEPT !.worker = wo, !.crashes = cr, !.everReady = er,
                            !.readyPromise = rp]
  <1>1. q \in Pools
    BY DEF Sound
  <1>2. /\ r \in Pools /\ r.worker = wo /\ r.crashes = cr
        /\ r.state = q.state /\ r.zombie = q.zombie /\ r.settled = q.settled
        /\ r.killTimers = q.killTimers /\ r.queue = q.queue
        /\ r.queuedCount = q.queuedCount /\ r.running = q.running
        /\ r.completed = q.completed /\ r.failed = q.failed
    BY <1>1 DEF Pools
  <1> HIDE DEF r
  <1>3. Retired(r)
    BY <1>2 DEF Retired
  <1>4. Sound(r)
    BY <1>2, <1>3, SameTasks
  <1>5. ASSUME \A s \in Slots : wo[s] = "ready" => q.worker[s] = "ready", Pumped(q)
        PROVE  Pumped(r)
    BY <1>1, <1>2, <1>5, StillPumped
  <1> QED BY <1>4, <1>5 DEF r

LEMMA OnExitSound ==
    ASSUME NEW q, Sound(q), Pumped(q), NEW s \in Slots,
           q.worker[s] \in {"starting", "ready"}
    PROVE  Sound(OnExit(q, s)) /\ Pumped(OnExit(q, s))
  <1> DEFINE r == Vacated(q, s)
             crashed == [r EXCEPT !.crashes[s] = @ + 1]
             dead == [crashed EXCEPT !.worker[s] = "dead"]
  <1>1. /\ Sound(r)
        /\ r.running = [q.running EXCEPT ![s] = {}]
        /\ r.worker = [q.worker EXCEPT ![s] = "exited"]
        /\ r.queuedCount = q.queuedCount
        /\ r.crashes[s] <= MaxRestarts
    BY VacatedSound
  <1>2. q \in Pools /\ r \in Pools /\ Retired(r)
    BY <1>1 DEF Sound
  <1>3. /\ r.worker[s] = "exited"
        /\ \A v \in Slots : r.worker[v] = "ready" =>
              q.worker[v] = "ready" /\ r.running[v] = q.running[v]
    BY <1>1, <1>2 DEF Pools
  <1>4. Pumped(r)
    <2> HIDE DEF r
    <2> QED BY <1>1, <1>2, <1>3, StillPumped
  <1>5. OnExit(q, s) =
           IF q.closing
           THEN CheckCloseDone(r)
           ELSE IF s \in q.expectTerminate
           THEN Spawn(r, s)
           ELSE IF crashed.crashes[s] <= MaxRestarts
           THEN [crashed EXCEPT !.worker[s] = "waiting"]
           ELSE IF Dead(dead) = Slots
           THEN [FailAllQueued(dead) EXCEPT
                    !.readyPromise = IF @ = "pending" THEN "rejected" ELSE @]
           ELSE dead
    BY DEF OnExit, Vacated
  <1> HIDE DEF r
  <1>6. Sound(CheckCloseDone(r)) /\ Pumped(CheckCloseDone(r))
    BY <1>1, <1>4, CheckCloseDoneSound
  <1>7. Sound(Spawn(r, s)) /\ Pumped(Spawn(r, s))
    BY <1>1, <1>3, <1>4, SpawnSound
  <1> DEFINE n == r.crashes[s] + 1
             cr == [r.crashes EXCEPT ![s] = n]
             wa == [r.worker EXCEPT ![s] = "waiting"]
             de == [r.worker EXCEPT ![s] = "dead"]
  <1>8. /\ n \in 0..(MaxRestarts + 1)
        /\ cr \in [Slots -> 0..(MaxRestarts + 1)]
        /\ wa \in [Slots -> {"starting", "ready", "waiting", "exited", "dead"}]
        /\ de \in [Slots -> {"starting", "ready", "waiting", "exited", "dead"}]
    <2>1. n \in 0..(MaxRestarts + 1)
      BY <1>1, <1>2, PoolAssumption DEF Pools
    <2> QED BY <1>2, <2>1 DEF Pools
  <1>9. /\ \A v \in Slots : cr[v] = IF v = s THEN n ELSE r.crashes[v]
        /\ \A v \in Slots : wa[v] = IF v = s THEN "waiting" ELSE r.worker[v]
        /\ \A v \in Slots : de[v] = IF v = s THEN "dead" ELSE r.worker[v]
    BY <1>2 DEF Pools
  <1>10. /\ crashed.crashes[s] = n
         /\ [crashed EXCEPT !.worker[s] = "waiting"]
               = [r EXCEPT !.worker = wa, !.crashes = cr, !.everReady = r.everReady,
                           !.readyPromise = r.readyPromise]
         /\ dead = [r EXCEPT !.worker = de, !.crashes = cr, !.everReady = r.everReady,
                             !.readyPromise = r.readyPromise]
    BY <1>2 DEF Pools
  <1>11. r.everReady \in SUBSET Slots /\ r.readyPromise \in {"pending", "resolved", "rejected"}
    BY <1>2 DEF Pools
  <1>12. /\ \A v \in Slots : r.worker[v] = "ready" <=> de[v] = "ready"
         /\ \A v \in Slots : cr[v] > MaxRestarts => de[v] = "dead"
         /\ \A v \in Slots : r.worker[v] = "ready" <=> wa[v] = "ready"
         /\ n <= MaxRestarts => \A v \in Slots : cr[v] > MaxRestarts => wa[v] = "dead"
    <2>1. \A v \in Slots : r.crashes[v] > MaxRestarts => r.worker[v] = "dead"
      BY <1>2 DEF Retired
    <2> HIDE DEF cr, wa, de, n
    <2>2. \A v \in Slots : v = s \/ (cr[v] = r.crashes[v] /\ wa[v] = r.worker[v] /\ de[v] = r.worker[v])
      BY <1>9
    <2>3. cr[s] = n /\ wa[s] = "waiting" /\ de[s] = "dead"
      BY <1>9
    <2>4. n <= MaxRestarts => ~(cr[s] > MaxRestarts)
      BY <1>8, <2>3, PoolAssumption
    <2> QED BY <1>3, <2>1, <2>2, <2>3, <2>4
  <1> HIDE DEF crashed, dead, cr, wa, de, n
  <1>13. Sound(dead) /\ Pumped(dead)
    BY <1>1, <1>4, <1>8, <1>10, <1>11, <1>12, SlotsSound
  <1>14. ASSUME crashed.crashes[s] <= MaxRestarts
         PROVE  /\ Sound([crashed EXCEPT !.worker[s] = "waiting"])
                /\ Pumped([crashed EXCEPT !.worker[s] = "waiting"])
    <2>1. \A v \in Slots : cr[v] > MaxRestarts => wa[v] = "dead"
      BY <1>10, <1>12, <1>14
    <2>2. /\ \A v \in Slots : r.worker[v] = "ready" => wa[v] = "ready"
          /\ \A v \in Slots : wa[v] = "ready" => r.worker[v] = "ready"
      BY <1>12
    <2> DEFINE w == [r EXCEPT !.worker = wa, !.crashes = cr, !.everReady = r.everReady,
                              !.readyPromise = r.readyPromise]
    <2>3. Sound(w) /\ Pumped(w)
      BY <1>1, <1>4, <1>8, <1>11, <2>1, <2>2, SlotsSound
    <2> HIDE DEF w
    <2>4. [crashed EXCEPT !.worker[s] = "waiting"] = w
      BY <1>10 DEF w
    <2> QED BY <2>3, <2>4
  <1> DEFINE last == FailAllQueued(dead)
             gone == [last EXCEPT !.readyPromise = IF @ = "pending" THEN "rejected" ELSE @]
  <1>15. Sound(gone) /\ Pumped(gone)
    <2>1. Sound(last) /\ last.queuedCount = 0
      BY <1>13, FailAllQueuedSound
    <2> HIDE DEF last
    <2>2. last \in Pools /\ Retired(last)
      BY <2>1 DEF Sound
    <2> DEFINE rp == IF last.readyPromise = "pending" THEN "rejected" ELSE last.readyPromise
    <2>3. /\ gone = [last EXCEPT !.worker = last.worker, !.crashes = last.crashes,
                                 !.everReady = last.everReady, !.readyPromise = rp]
          /\ last.worker \in [Slots -> {"starting", "ready", "waiting", "exited", "dead"}]
          /\ last.crashes \in [Slots -> 0..(MaxRestarts + 1)]
          /\ last.everReady \in SUBSET Slots
          /\ rp \in {"pending", "resolved", "rejected"}
      BY <2>2 DEF Pools
    <2>4. Pumped(last)
      BY <2>1 DEF Pumped
    <2> HIDE DEF gone, rp
    <2> QED BY <2>1, <2>2, <2>3, <2>4, SlotsSound DEF Retired
  <1> QED BY <1>5, <1>6, <1>7, <1>13, <1>14, <1>15

LEMMA WorkerReadySound ==
    ASSUME NEW q, Sound(q), NEW s \in Slots, q.worker[s] = "starting"
    PROVE  LET g == [q EXCEPT !.worker[s] = "ready", !.crashes[s] = 0,
                              !.everReady = @ \cup {s}] IN
           Sound([g EXCEPT !.readyPromise =
                      IF @ = "pending" /\ g.everReady = Slots THEN "resolved" ELSE @])
  <1> DEFINE g == [q EXCEPT !.worker[s] = "ready", !.crashes[s] = 0,
                            !.everReady = @ \cup {s}]
             r == [g EXCEPT !.readyPromise =
                      IF @ = "pending" /\ g.everReady = Slots THEN "resolved" ELSE @]
             wo == [q.worker EXCEPT ![s] = "ready"]
             cr == [q.crashes EXCEPT ![s] = 0]
             er == q.everReady \cup {s}
             rp == IF q.readyPromise = "pending" /\ er = Slots THEN "resolved" ELSE q.readyPromise
  <1>1. q \in Pools /\ Retired(q)
    BY DEF Sound
  <1>2. /\ wo \in [Slots -> {"starting", "ready", "waiting", "exited", "dead"}]
        /\ cr \in [Slots -> 0..(MaxRestarts + 1)]
        /\ er \in SUBSET Slots /\ rp \in {"pending", "resolved", "rejected"}
    BY <1>1, PoolAssumption DEF Pools
  <1>3. /\ \A v \in Slots : q.worker[v] = "ready" => wo[v] = "ready"
        /\ \A v \in Slots : cr[v] > MaxRestarts => wo[v] = "dead"
    <2>1. /\ \A v \in Slots : wo[v] = IF v = s THEN "ready" ELSE q.worker[v]
          /\ \A v \in Slots : cr[v] = IF v = s THEN 0 ELSE q.crashes[v]
      BY <1>1 DEF Pools
    <2>2. ~(0 > MaxRestarts)
      BY PoolAssumption
    <2> HIDE DEF wo, cr
    <2> QED BY <1>1, <2>1, <2>2 DEF Retired
  <1>4. r = [q EXCEPT !.worker = wo, !.crashes = cr, !.everReady = er, !.readyPromise = rp]
    <2>1. g = [q EXCEPT !.worker = wo, !.crashes = cr, !.everReady = er]
      OBVIOUS
    <2> HIDE DEF wo, cr, er, g
    <2>2. g.everReady = er /\ g.readyPromise = q.readyPromise
      BY <1>1, <2>1 DEF Pools
    <2>3. r = [g EXCEPT !.readyPromise = rp]
      BY <2>2
    <2> HIDE DEF rp, r
    <2> QED BY <1>1, <2>1, <2>3 DEF Pools
  <1> HIDE DEF wo, cr, er, rp, r
  <1>5. Sound(r)
    BY <1>2, <1>3, <1>4, SlotsSound
  <1> QED BY <1>5 DEF r, g

(* The timers that are dropped, the workers that are terminated, the flags *)
LEMMA FlagsSound ==
    ASSUME NEW q, Sound(q), Pumped(q),
           NEW ki \in SUBSET q.killTimers, NEW et \in SUBSET Slots,
           NEW cg \in BOOLEAN, NEW cd \in BOOLEAN
    PROVE  LET r == [q EXCEPT !.killTimers = ki, !.expectTerminate = et,
                              !.closing = cg, !.closed = cd]
           IN Sound(r) /\ Pumped(r)
  <1> DEFINE r == [q EXCEPT !.killTimers = ki, !.expectTerminate = et,
                            !.closing = cg, !.closed = cd]
  <1>1. q \in Pools /\ Retired(q)
    BY DEF Sound
  <1>2. ki \in SUBSET Tasks
    BY <1>1 DEF Pools
  <1>3. /\ r \in Pools /\ r.worker = q.worker /\ r.crashes = q.crashes
        /\ r.state = q.state /\ r.zombie = q.zombie /\ r.settled = q.settled
        /\ r.killTimers = ki /\ r.queue = q.queue
        /\ r.queuedCount = q.queuedCount /\ r.running = q.running
        /\ r.completed = q.completed /\ r.failed = q.failed
    BY <1>1, <1>2 DEF Pools
  <1> HIDE DEF r
  <1>4. Retired(r)
    BY <1>1, <1>3 DEF Retired
  <1>5. Sound(r)
    BY <1>3, <1>4, SameTasks
  <1>6. Pumped(r)
    BY <1>1, <1>3, StillPumped
  <1> QED BY <1>5, <1>6 DEF r

---------------------------------------------------------------------------
(* The invariant *)

LEMMA InitSound == Init => IInv
  <1> SUFFICES ASSUME Init  PROVE IInv
    OBVIOUS
  <1>1. p \in Pools
    <2>1. <<>> \in Seq(Tasks)
      OBVIOUS
    <2> QED BY <2>1, PoolAssumption DEF Init, Pools
  <1>2. /\ \A t \in Tasks : p.state[t] = "new" /\ p.settled[t] = 0
        /\ p.zombie = {} /\ p.killTimers = {} /\ p.queuedCount = 0
        /\ p.completed = 0 /\ p.failed = 0
        /\ \A s \in Slots : p.running[s] = {} /\ p.crashes[s] = 0
    BY DEF Init
  <1>3. Counted(p)
    <2>1. Queued(p) = {} /\ Done(p) = {} /\ Begun(p) = {}
      BY <1>2 DEF Queued, Done, Begun
    <2>2. IsFiniteSet(Begun(p)) /\ Cardinality(Queued(p)) = 0 /\ Cardinality(Done(p)) = 0
      BY <2>1, FS_EmptySet
    <2> QED BY <1>2, <2>2 DEF Counted
  <1>4. Placed(p)
    BY <1>2 DEF Placed
  <1>5. Retired(p)
    BY <1>2, PoolAssumption DEF Retired
  <1>6. Pumped(p)
    BY <1>2 DEF Pumped
  <1>7. deaths \in 0..MaxDeaths
    BY PoolAssumption DEF Init
  <1> QED BY <1>1, <1>3, <1>4, <1>5, <1>6, <1>7 DEF IInv, Sound

LEMMA NextSound == IInv /\ [Next]_vars => IInv'
  <1> SUFFICES ASSUME IInv, [Next]_vars  PROVE IInv'
    OBVIOUS
  <1>1. Sound(p) /\ Pumped(p) /\ deaths \in 0..MaxDeaths
    BY DEF IInv
  <1>2. p \in Pools /\ Placed(p)
    BY <1>1 DEF Sound
  <1>3. ASSUME NEW t \in Tasks, Run(t)  PROVE IInv'
    <2> DEFINE q == [p EXCEPT !.state[t] = "queued", !.queue = Append(@, t),
                              !.queuedCount = @ + 1]
    <2>1. Sound(q)
      BY <1>1, <1>3, EnqueueSound DEF Run
    <2>2. p' = Pump(q) /\ deaths' = deaths
      BY <1>3 DEF Run
    <2> HIDE DEF q
    <2> QED BY <1>1, <2>1, <2>2, PumpSound DEF IInv
  <1>4. ASSUME NEW t \in Tasks, AbortQueued(t)  PROVE IInv'
    BY <1>1, <1>4, AbortQueuedSound DEF AbortQueued, IInv
  <1>5. ASSUME NEW t \in Tasks, AbortRunning(t)  PROVE IInv'
    BY <1>1, <1>5, AbortRunningSound DEF AbortRunning, IInv
  <1>6. ASSUME NEW t \in Tasks, KillTimer(t)  PROVE IInv'
    <2> DEFINE ki == p.killTimers \ {t}
               et == p.expectTerminate \cup {s \in Slots : t \in p.running[s]}
    <2>1. /\ ki \in SUBSET p.killTimers /\ et \in SUBSET Slots
          /\ p.closing \in BOOLEAN /\ p.closed \in BOOLEAN
      BY <1>2 DEF Pools
    <2>2. p' = [p EXCEPT !.killTimers = ki, !.expectTerminate = et,
                         !.closing = p.closing, !.closed = p.closed]
      BY <1>2, <1>6 DEF KillTimer, Pools
    <2>3. deaths' = deaths
      BY <1>6 DEF KillTimer
    <2> HIDE DEF ki, et
    <2> QED BY <1>1, <2>1, <2>2, <2>3, FlagsSound DEF IInv
  <1>7. ASSUME NEW t \in Tasks, Answer(t)  PROVE IInv'
    <2>1. PICK s \in Slots, ok \in BOOLEAN : WorkerAnswers(s, t, ok)
      BY <1>7 DEF Answer
    <2> DEFINE q == Answered(p, s, t, ok)
    <2>2. Sound(q)
      BY <1>1, <2>1, AnsweredSound DEF WorkerAnswers
    <2>3. p' = CheckCloseDone(Pump(q)) /\ deaths' = deaths
      BY <2>1 DEF WorkerAnswers
    <2> HIDE DEF q
    <2>4. Sound(Pump(q)) /\ Pumped(Pump(q))
      BY <2>2, PumpSound
    <2> QED BY <1>1, <2>3, <2>4, CheckCloseDoneSound DEF IInv
  <1>8. ASSUME NEW s \in Slots, WorkerReady(s)  PROVE IInv'
    <2> DEFINE g == [p EXCEPT !.worker[s] = "ready", !.crashes[s] = 0,
                              !.everReady = @ \cup {s}]
               q == [g EXCEPT !.readyPromise =
                        IF @ = "pending" /\ g.everReady = Slots THEN "resolved" ELSE @]
    <2>1. Sound(q)
      BY <1>1, <1>8, WorkerReadySound DEF WorkerReady
    <2>2. p' = Pump(q) /\ deaths' = deaths
      BY <1>8 DEF WorkerReady
    <2> HIDE DEF q
    <2> QED BY <1>1, <2>1, <2>2, PumpSound DEF IInv
  <1>9. ASSUME NEW s \in Slots, MessageError(s)  PROVE IInv'
    <2> DEFINE et == p.expectTerminate \cup {s}
    <2>1. /\ p.killTimers \in SUBSET p.killTimers /\ et \in SUBSET Slots
          /\ p.closing \in BOOLEAN /\ p.closed \in BOOLEAN
      BY <1>2 DEF Pools
    <2>2. p' = [p EXCEPT !.killTimers = p.killTimers, !.expectTerminate = et,
                         !.closing = p.closing, !.closed = p.closed]
      BY <1>2, <1>9 DEF MessageError, Pools
    <2>3. deaths' \in 0..MaxDeaths
      BY <1>1, <1>9, PoolAssumption DEF MessageError
    <2> HIDE DEF et
    <2> QED BY <1>1, <2>1, <2>2, <2>3, FlagsSound DEF IInv
  <1>10. ASSUME NEW s \in Slots, WorkerCrashes(s) \/ WorkerKilled(s)  PROVE IInv'
    <2>1. p' = OnExit(p, s) /\ p.worker[s] \in {"starting", "ready"}
      BY <1>10 DEF WorkerCrashes, WorkerKilled
    <2>2. deaths' \in 0..MaxDeaths
      BY <1>1, <1>10, PoolAssumption DEF WorkerCrashes, WorkerKilled
    <2> QED BY <1>1, <2>1, <2>2, OnExitSound DEF IInv
  <1>11. ASSUME NEW s \in Slots, RespawnTimer(s)  PROVE IInv'
    <2>1. p.worker[s] = "waiting" /\ deaths' = deaths
      BY <1>11 DEF RespawnTimer
    <2>2. CASE p.closing
      <3> DEFINE wo == [p.worker EXCEPT ![s] = "exited"]
      <3>1. p' = [p EXCEPT !.worker = wo, !.crashes = p.crashes,
                           !.everReady = p.everReady, !.readyPromise = p.readyPromise]
        BY <1>2, <1>11, <2>2 DEF RespawnTimer, Pools
      <3>2. /\ wo \in [Slots -> {"starting", "ready", "waiting", "exited", "dead"}]
            /\ p.crashes \in [Slots -> 0..(MaxRestarts + 1)]
            /\ p.everReady \in SUBSET Slots
            /\ p.readyPromise \in {"pending", "resolved", "rejected"}
        BY <1>2 DEF Pools
      <3>3. /\ \A v \in Slots : p.worker[v] = "ready" <=> wo[v] = "ready"
            /\ \A v \in Slots : p.crashes[v] > MaxRestarts => wo[v] = "dead"
        BY <1>1, <1>2, <2>1 DEF Pools, Sound, Retired
      <3> HIDE DEF wo
      <3>4. Sound(p') /\ Pumped(p')
        BY <1>1, <3>1, <3>2, <3>3, SlotsSound
      <3> QED BY <1>1, <2>1, <3>4 DEF IInv
    <2>3. CASE ~p.closing
      <3>1. p' = Spawn(p, s)
        BY <1>11, <2>3 DEF RespawnTimer
      <3> QED BY <1>1, <2>1, <3>1, SpawnSound DEF IInv
    <2> QED BY <2>2, <2>3
  <1>12. CASE Close
    <2> DEFINE q == [p EXCEPT !.closing = TRUE]
    <2>1. q = [p EXCEPT !.killTimers = p.killTimers, !.expectTerminate = p.expectTerminate,
                        !.closing = TRUE, !.closed = p.closed]
      BY <1>2 DEF Pools
    <2>2. /\ p.killTimers \in SUBSET p.killTimers /\ p.expectTerminate \in SUBSET Slots
          /\ TRUE \in BOOLEAN /\ p.closed \in BOOLEAN
      BY <1>2 DEF Pools
    <2>3. p' = CheckCloseDone(q) /\ deaths' = deaths
      BY <1>12 DEF Close
    <2> HIDE DEF q
    <2>4. Sound(q) /\ Pumped(q)
      BY <1>1, <2>1, <2>2, FlagsSound
    <2> QED BY <1>1, <2>3, <2>4, CheckCloseDoneSound DEF IInv
  <1>13. CASE Destroy \/ CloseTimer
    <2>1. p' = DestroyInternal(p) /\ deaths' = deaths
      BY <1>13 DEF Destroy, CloseTimer
    <2>2. Sound(p') /\ p'.queuedCount = 0
      BY <1>1, <2>1, DestroyInternalSound
    <2>3. Pumped(p')
      BY <2>2 DEF Pumped
    <2> QED BY <1>1, <2>1, <2>2, <2>3 DEF IInv
  <1>14. CASE Terminated
    <2>1. p' = [p EXCEPT !.killTimers = p.killTimers, !.expectTerminate = p.expectTerminate,
                         !.closing = p.closing, !.closed = TRUE]
      BY <1>2, <1>14 DEF Terminated, Pools
    <2>2. /\ p.killTimers \in SUBSET p.killTimers /\ p.expectTerminate \in SUBSET Slots
          /\ TRUE \in BOOLEAN /\ p.closing \in BOOLEAN
      BY <1>2 DEF Pools
    <2>3. deaths' = deaths
      BY <1>14 DEF Terminated
    <2> QED BY <1>1, <2>1, <2>2, <2>3, FlagsSound DEF IInv
  <1>15. CASE UNCHANGED vars
    BY <1>1, <1>15 DEF vars, IInv
  <1> QED BY <1>3, <1>4, <1>5, <1>6, <1>7, <1>8, <1>9, <1>10, <1>11, <1>12, <1>13, <1>14,
             <1>15 DEF Next

LEMMA Invariance == Spec => []IInv
  BY InitSound, NextSound, PTL DEF Spec
---------------------------------------------------------------------------
(* The type of the pool, for every number of slots, capacity and queue: what *)
(* the functions of createPool() compute stays a pool, no promise is settled *)
(* twice and no count becomes negative.                                      *)
THEOREM TypeCorrect == Spec => []TypeOK
  <1>1. IInv => TypeOK
    BY DEF IInv, Sound, Pools, TypeOK
  <1> QED BY Invariance, <1>1, PTL

(* stats() tells the truth, and every promise of run() is settled exactly   *)
(* once, however answers, aborts, timeouts, crashes, close() and destroy()  *)
(* race.                                                                    *)
THEOREM StatsTrue == Spec => []Accounting
  <1>1. IInv => Accounting
    BY DEF IInv, Sound, Counted, Queued, Done, Accounting
  <1> QED BY Invariance, <1>1, PTL

(* No task waits while a ready worker has room: every event that frees a    *)
(* place runs pump(), and pump() goes on until the queue or the room ends.  *)
THEOREM NoIdleRoom == Spec => []WorkConserving
  <1>1. IInv => WorkConserving
    BY DEF IInv, Pumped, WorkConserving
  <1> QED BY Invariance, <1>1, PTL

(* A running task and a zombie with a kill timer are with exactly one       *)
(* worker, and that worker is alive.                                        *)
THEOREM TasksWithLiveWorkers == Spec => []NothingStranded
  <1>1. ASSUME IInv  PROVE NothingStranded
    <2>1. p \in Pools /\ Placed(p)
      BY <1>1 DEF IInv, Sound
    <2>2. SUFFICES ASSUME NEW t \in Tasks
                   PROVE  LET at == {s \in Slots : t \in p.running[s]}
                          IN /\ Cardinality(at) <= 1
                             /\ at \cap Exited(p) = {}
                             /\ p.state[t] = "running" => at # {}
                             /\ t \in p.killTimers => at # {}
      BY DEF NothingStranded
    <2> DEFINE at == {s \in Slots : t \in p.running[s]}
    <2>3. Cardinality(at) <= 1
      <3>1. CASE at = {}
        BY <3>1, FS_EmptySet
      <3>2. CASE at # {}
        <4>1. PICK s \in Slots : t \in p.running[s]
          BY <3>2
        <4>2. at = {s}
          BY <2>1, <4>1 DEF Placed
        <4>3. Cardinality({s}) = 1
          BY FS_Singleton
        <4> QED BY <4>2, <4>3
      <3> QED BY <3>1, <3>2
    <2>4. at \cap Exited(p) = {}
      BY <2>1 DEF Placed, Exited
    <2>5. p.state[t] = "running" => at # {}
      BY <2>1 DEF Placed
    <2>6. t \in p.killTimers => at # {}
      BY <2>1 DEF Placed
    <2> QED BY <2>3, <2>4, <2>5, <2>6
  <1> QED BY Invariance, <1>1, PTL
---------------------------------------------------------------------------
(* The order in which tasks begin *)

\* Nothing gets ahead of another in the queue.
NoneAhead(q, r) == \A t, u \in Tasks : Ahead(r, u, t) => Ahead(q, u, t)

\* Nothing begins, nothing waits that did not, and the queue stays or is emptied.
NoneBegins(q, r) ==
    /\ \A t \in Tasks : r.state[t] = "running" => q.state[t] = "running"
    /\ \A t \in Tasks : r.state[t] = "queued" => q.state[t] = "queued"
    /\ r.queue = q.queue \/ r.queue = <<>>

\* What begins was in the queue, before everything that goes on waiting.
InOrder(q, r) ==
    /\ \A i \in DOMAIN q.queue, t \in Tasks :
          /\ q.state[q.queue[i]] = "queued" /\ r.state[q.queue[i]] = "queued"
          /\ q.state[t] # "running" /\ r.state[t] = "running"
          => \E j \in 1..(i - 1) : q.queue[j] = t
    /\ NoneAhead(q, r)

(* One turn takes its entry off the wait, and touches nothing else. *)
LEMMA PumpOneStates ==
    ASSUME NEW q \in Pools, NEW t \in Tasks, ~Blocked(q)
    PROVE  LET r == PumpOne(q, t) IN
           /\ r.state[t] # "queued"
           /\ \A u \in Tasks : u # t => r.state[u] = q.state[u]
           /\ r.queue = Tail(q.queue)
  <1> DEFINE g == [q EXCEPT !.queue = Tail(@)]
             h == [g EXCEPT !.queuedCount = @ - 1]
             s == PickSlot(q)
  <1>1. PumpOne(q, t) = IF q.state[t] = "queued" THEN Dispatch(h, s, t) ELSE g
    BY DEF PumpOne, Blocked
  <1>0. g.queue = Tail(q.queue) /\ h.queue = Tail(q.queue) /\ DOMAIN h = DOMAIN q
    BY DEF Pools
  <1>2. g.state = q.state /\ h.state = q.state /\ q.state \in [Tasks -> {"new", "queued", "running", "done"}]
    BY DEF Pools
  <1> HIDE DEF g, h, s
  <1>3. Dispatch(h, s, t).state = [h.state EXCEPT ![t] = IF t \in Unclonable THEN "done" ELSE "running"]
    <2>2. "state" \in DOMAIN h
      BY <1>0 DEF Pools
    <2> QED BY <2>2 DEF Dispatch, RejectTask
  <1>4. Dispatch(h, s, t).queue = h.queue
    <2>1. "queue" \in DOMAIN h
      BY <1>0 DEF Pools
    <2> QED BY <2>1 DEF Dispatch, RejectTask
  <1> QED BY <1>0, <1>1, <1>2, <1>3, <1>4

(* Taking the first entry puts nothing ahead of another. *)
LEMMA TailAhead ==
    ASSUME NEW q, NEW r, q.queue \in Seq(Tasks),
           r.queue = q.queue \/ r.queue = <<>> \/ (q.queue # <<>> /\ r.queue = Tail(q.queue))
    PROVE  NoneAhead(q, r)
  <1>1. CASE r.queue = q.queue
    BY <1>1 DEF NoneAhead, Ahead
  <1>2. CASE r.queue = <<>>
    BY <1>2 DEF NoneAhead, Ahead
  <1>3. CASE q.queue # <<>> /\ r.queue = Tail(q.queue)
    <2>1. SUFFICES ASSUME NEW t \in Tasks, NEW u \in Tasks,
                          NEW i \in DOMAIN r.queue, NEW j \in DOMAIN r.queue, i < j,
                          r.queue[i] = u, r.queue[j] = t
                   PROVE  Ahead(q, u, t)
      BY DEF NoneAhead, Ahead
    <2>2. DOMAIN q.queue = 1..Len(q.queue) /\ DOMAIN r.queue = 1..(Len(q.queue) - 1)
      BY <1>3
    <2>3. /\ i + 1 \in DOMAIN q.queue /\ j + 1 \in DOMAIN q.queue /\ i + 1 < j + 1
          /\ q.queue[i + 1] = u /\ q.queue[j + 1] = t
      BY <1>3, <2>1, <2>2
    <2> QED BY <2>3 DEF Ahead
  <1> QED BY <1>1, <1>2, <1>3

LEMMA PumpOrder ==
    ASSUME NEW q, Sound(q)
    PROVE  InOrder(q, Pump(q))
  <1> DEFINE n == Len(q.queue)
  <1>1. q \in Pools /\ q.queue \in Seq(Tasks) /\ n \in Nat
    BY DEF Sound, Pools
  <1>2. PICK f : /\ f[0] = q /\ f[n] = Pump(q)
                 /\ \A i \in 1..n : f[i] = PumpOne(f[i - 1], q.queue[i])
                 /\ \A i \in 0..n : /\ Sound(f[i])
                                    /\ Blocked(f[i]) \/ f[i].queue = SubSeq(q.queue, i + 1, n)
    BY PumpTurns
  <1>3. \A i \in 1..n : q.queue[i] \in Tasks
    BY <1>1
  <1> DEFINE Past(i, j) == \A k \in 1..j : f[i].state[q.queue[k]] # "queued"
             J(i) == /\ Blocked(f[i]) \/ Past(i, i)
                     /\ \A t \in Tasks : q.state[t] # "running" /\ f[i].state[t] = "running"
                           => \E j \in 1..i : q.queue[j] = t /\ Past(i, j)
                     /\ NoneAhead(q, f[i])
  <1> HIDE DEF n
  <1>4. J(0)
    <2>1. NoneAhead(q, f[0])
      BY <1>2 DEF NoneAhead
    <2> QED BY <1>2, <2>1
  <1>5. ASSUME NEW i \in 1..n, J(i - 1)
        PROVE  J(i)
    <2> DEFINE g == f[i - 1]
               u == q.queue[i]
    <2>1. f[i] = PumpOne(g, u) /\ u \in Tasks /\ g \in Pools
      <3>1. i - 1 \in 0..n
        BY <1>1
      <3> QED BY <1>2, <1>3, <3>1 DEF Sound
    <2>2. CASE Blocked(g)
      <3>1. f[i] = g
        BY <2>1, <2>2 DEF PumpOne, Blocked
      <3>2. Blocked(f[i])
        BY <2>2, <3>1
      <3>3. ASSUME NEW t \in Tasks, q.state[t] # "running", f[i].state[t] = "running"
            PROVE  \E j \in 1..i : q.queue[j] = t /\ Past(i, j)
        <4>1. PICK j \in 1..(i - 1) : q.queue[j] = t /\ Past(i - 1, j)
          BY <1>5, <3>1, <3>3
        <4>2. Past(i, j) /\ j \in 1..i
          BY <1>1, <3>1, <4>1
        <4> QED BY <4>1, <4>2
      <3>4. NoneAhead(q, f[i])
        BY <1>5, <3>1
      <3> QED BY <3>2, <3>3, <3>4
    <2>3. CASE ~Blocked(g)
      <3>1. f[i].state[u] # "queued" /\ \A t \in Tasks : t # u => f[i].state[t] = g.state[t]
        BY <2>1, <2>3, PumpOneStates
      <3>2. \A k \in 1..n : g.state[q.queue[k]] # "queued" => f[i].state[q.queue[k]] # "queued"
        BY <1>3, <3>1
      <3>3. \A j \in 1..(i - 1) : Past(i - 1, j) => Past(i, j)
        <4>1. \A j \in 1..(i - 1) : \A k \in 1..j : k \in 1..n
          BY <1>1
        <4> QED BY <3>2, <4>1
      <3>4. Past(i, i)
        <4>1. Past(i - 1, i - 1)
          BY <1>5, <2>3
        <4>2. \A k \in 1..i : k = i \/ (k \in 1..(i - 1) /\ k \in 1..n)
          BY <1>1
        <4> QED BY <3>1, <3>2, <4>1, <4>2
      <3>5. ASSUME NEW t \in Tasks, q.state[t] # "running", f[i].state[t] = "running"
            PROVE  \E j \in 1..i : q.queue[j] = t /\ Past(i, j)
        <4>1. CASE t = u
          <5>1. i \in 1..i
            BY <1>1
          <5> QED BY <3>4, <4>1, <5>1
        <4>2. CASE t # u
          <5>1. g.state[t] = "running"
            BY <3>1, <3>5, <4>2
          <5>2. PICK j \in 1..(i - 1) : q.queue[j] = t /\ Past(i - 1, j)
            BY <1>5, <3>5, <5>1
          <5>3. Past(i, j) /\ j \in 1..i
            BY <1>1, <3>3, <5>2
          <5> QED BY <5>2, <5>3
        <4> QED BY <4>1, <4>2
      <3>6. NoneAhead(q, f[i])
        <4>1. g.queue = SubSeq(q.queue, i, n) /\ g.queue \in Seq(Tasks)
          <5>1. i - 1 \in 0..n /\ (i - 1) + 1 = i
            BY <1>1
          <5> QED BY <1>2, <2>1, <2>3, <5>1 DEF Pools
        <4>2. Len(g.queue) = n - i + 1
          BY <1>1, <1>3, <4>1, SubSeqProperties
        <4>3. g.queue # <<>> /\ f[i].queue = Tail(g.queue)
          <5>1. g.queue # <<>>
            <6>1. Len(g.queue) > 0
              BY <1>1, <4>2
            <6> QED BY <6>1
          <5>2. f[i].queue = Tail(g.queue)
            BY <2>1, <2>3, PumpOneStates
          <5> QED BY <5>1, <5>2
        <4>4. NoneAhead(g, f[i])
          BY <4>1, <4>3, TailAhead
        <4> QED BY <1>5, <4>4 DEF NoneAhead
      <3> QED BY <3>4, <3>5, <3>6
    <2> QED BY <2>2, <2>3
  <1>6. J(n)
    <2> DEFINE S == {i \in 0..n : J(i)}
    <2> HIDE DEF J
    <2>1. S \in SUBSET (0..n) /\ 0 \in S
      BY <1>1, <1>4
    <2>2. \A i \in 1..n : i - 1 \in S => i \in S
      BY <1>1, <1>5
    <2>3. n \in 0..n
      BY <1>1
    <2> HIDE DEF S
    <2>4. S = 0..n
      BY <1>1, <2>1, <2>2, UpTo
    <2> QED BY <2>3, <2>4 DEF S
  <1>7. SUFFICES ASSUME NEW i \in DOMAIN q.queue, NEW t \in Tasks,
                        f[n].state[q.queue[i]] = "queued",
                        q.state[t] # "running", f[n].state[t] = "running"
                 PROVE  \E j \in 1..(i - 1) : q.queue[j] = t
    BY <1>2, <1>6 DEF InOrder
  <1>8. PICK j \in 1..n : q.queue[j] = t /\ Past(n, j)
    BY <1>6, <1>7
  <1>9. i \in 1..n /\ ~(i \in 1..j)
    BY <1>1, <1>7, <1>8 DEF n
  <1>10. j \in 1..(i - 1)
    BY <1>1, <1>9
  <1> QED BY <1>8, <1>10

(* Everything but pump() begins nothing. *)
LEMMA OthersBeginNone ==
    ASSUME NEW q, Sound(q)
    PROVE  /\ \A t \in Tasks : NoneBegins(q, RejectTask(q, t))
           /\ NoneBegins(q, FailAllQueued(q))
           /\ NoneBegins(q, CheckCloseDone(q))
           /\ NoneBegins(q, DestroyInternal(q))
           /\ \A s \in Slots : q.worker[s] \in {"starting", "ready"} => NoneBegins(q, OnExit(q, s))
  <1>1. ASSUME NEW r \in Pools, NEW S  PROVE NoneBegins(r, RejectAll(r, S))
    BY DEF NoneBegins, RejectAll, Pools
  <1>2. ASSUME NEW r, Sound(r)
        PROVE  /\ NoneBegins(r, FailAllQueued(r)) /\ NoneBegins(r, CheckCloseDone(r))
               /\ r \in Pools
    <2>1. r \in Pools
      BY <1>2 DEF Sound
    <2> DEFINE live == {t \in Tasks : r.state[t] = "queued"}
               g == RejectAll(r, live)
               e == FailAllQueued(r)
    <2>2. e.state = g.state /\ e.queue = <<>>
      BY <2>1 DEF FailAllQueued, RejectAll, Pools
    <2>3. NoneBegins(r, e)
      BY <1>1, <2>1, <2>2 DEF NoneBegins
    <2>4. NoneBegins(r, CheckCloseDone(r))
      <3> DEFINE h == IF r.queuedCount > 0 /\ Slots \ Exited(r) = {} THEN e ELSE r
                 over == h.queuedCount = 0 /\ \A s \in Slots : h.running[s] = {}
      <3>1. CheckCloseDone(r) = r \/ CheckCloseDone(r) = [h EXCEPT !.closeDone = over]
        BY DEF CheckCloseDone
      <3>2. h \in Pools
        BY <1>2, <2>1, FailAllQueuedSound DEF Sound
      <3>3. NoneBegins(r, h)
        BY <2>3 DEF NoneBegins
      <3> HIDE DEF h, over
      <3>4. /\ [h EXCEPT !.closeDone = over].state = h.state
            /\ [h EXCEPT !.closeDone = over].queue = h.queue
        BY <3>2 DEF Pools
      <3> QED BY <3>1, <3>3, <3>4 DEF NoneBegins
    <2> QED BY <2>1, <2>3, <2>4
  <1>3. q \in Pools
    BY <1>2
  <1>4. ASSUME NEW t \in Tasks  PROVE NoneBegins(q, RejectTask(q, t))
    BY <1>3 DEF NoneBegins, RejectTask, Pools
  <1>5. NoneBegins(q, DestroyInternal(q))
    <2> DEFINE live == {t \in UNION {q.running[s] : s \in Slots} : t \notin q.zombie}
               e == FailAllQueued(q)
               g == RejectAll(e, live)
    <2>1. NoneBegins(q, e) /\ e \in Pools
      BY <1>2, FailAllQueuedSound DEF Sound
    <2>2. DestroyInternal(q).state = g.state /\ DestroyInternal(q).queue = g.queue
      <3> HIDE DEF e, live
      <3>1. DOMAIN g = DOMAIN e /\ "state" \in DOMAIN e /\ "queue" \in DOMAIN e
        BY <2>1 DEF RejectAll, Pools
      <3> QED BY <3>1 DEF DestroyInternal, e, live
    <2> HIDE DEF e, live, g
    <2>3. NoneBegins(e, g)
      BY <1>1, <2>1 DEF g
    <2> QED BY <2>1, <2>2, <2>3 DEF NoneBegins
  <1>6. ASSUME NEW s \in Slots, q.worker[s] \in {"starting", "ready"}
        PROVE  NoneBegins(q, OnExit(q, s))
    <2> DEFINE live == {t \in q.running[s] : t \notin q.zombie}
               g == RejectAll(q, live)
               r == Vacated(q, s)
               crashed == [r EXCEPT !.crashes[s] = @ + 1]
               dead == [crashed EXCEPT !.worker[s] = "dead"]
               waiting == [crashed EXCEPT !.worker[s] = "waiting"]
               rest == FailAllQueued(dead)
    <2>1. Sound(r)
      BY <1>6, VacatedSound
    <2>2. r.state = g.state /\ r.queue = g.queue
      BY <1>3 DEF Vacated, RejectAll, Pools
    <2>3. NoneBegins(q, r)
      <3> HIDE DEF live, r
      <3> QED BY <1>1, <1>3, <2>2 DEF NoneBegins
    <2>4. \/ OnExit(q, s) = CheckCloseDone(r) \/ OnExit(q, s) = Spawn(r, s)
          \/ OnExit(q, s) = waiting \/ OnExit(q, s) = dead
          \/ OnExit(q, s) = [rest EXCEPT !.readyPromise = IF @ = "pending" THEN "rejected" ELSE @]
      BY DEF OnExit, Vacated
    <2> HIDE DEF r
    <2>5. r \in Pools
      BY <1>2, <2>1
    <2>6. /\ Spawn(r, s).state = r.state /\ waiting.state = r.state /\ dead.state = r.state
          /\ Spawn(r, s).queue = r.queue /\ waiting.queue = r.queue /\ dead.queue = r.queue
      BY <2>5 DEF Spawn, Pools
    <2>7. dead.queuedCount = r.queuedCount /\ DOMAIN dead = DOMAIN r
      BY <2>5 DEF Pools
    <2> HIDE DEF dead, waiting
    <2>8. /\ \A t \in Tasks : rest.state[t] = IF r.state[t] = "queued" THEN "done" ELSE r.state[t]
          /\ [rest EXCEPT !.readyPromise = IF @ = "pending" THEN "rejected" ELSE @].state = rest.state
          /\ [rest EXCEPT !.readyPromise = IF @ = "pending" THEN "rejected" ELSE @].queue = <<>>
      <3>1. "state" \in DOMAIN dead /\ "queue" \in DOMAIN dead
        BY <2>5, <2>7 DEF Pools
      <3>2. rest.state = RejectAll(dead, {t \in Tasks : dead.state[t] = "queued"}).state
        BY <3>1 DEF FailAllQueued, RejectAll
      <3>3. rest.state = [t \in Tasks |-> IF t \in {u \in Tasks : dead.state[u] = "queued"}
                                         THEN "done" ELSE dead.state[t]]
        BY <3>1, <3>2 DEF RejectAll
      <3>4. "state" \in DOMAIN rest /\ "queue" \in DOMAIN rest /\ rest.queue = <<>>
        BY <3>1 DEF FailAllQueued, RejectAll
      <3> HIDE DEF rest
      <3> QED BY <2>6, <3>3, <3>4
    <2> HIDE DEF rest
    <2>9. NoneBegins(r, CheckCloseDone(r))
      BY <1>2, <2>1
    <2>10. NoneBegins(r, OnExit(q, s))
      <3> DEFINE gone == [rest EXCEPT !.readyPromise = IF @ = "pending" THEN "rejected" ELSE @]
      <3>1. NoneBegins(r, gone)
        <4> HIDE DEF gone
        <4> QED BY <2>8 DEF NoneBegins, gone
      <3>2. \A x : x.state = r.state /\ x.queue = r.queue => NoneBegins(r, x)
        BY DEF NoneBegins
      <3>3. NoneBegins(r, Spawn(r, s)) /\ NoneBegins(r, waiting) /\ NoneBegins(r, dead)
        BY <2>6, <3>2
      <3> HIDE DEF gone
      <3> QED BY <2>4, <2>9, <3>1, <3>3 DEF gone
    <2> QED BY <2>3, <2>10 DEF NoneBegins
  <1> QED BY <1>2, <1>4, <1>5, <1>6

(* First come, first served: whatever frees a place, a task that begins was *)
(* not preceded in the queue by one that is left waiting.                   *)
THEOREM FirstComeFirstServed == Spec => ServedInOrder
  <1> DEFINE Served == \A t, u \in Tasks :
                          p.state[t] = "queued" /\ p'.state[t] = "queued" /\ ~Ahead(p, u, t)
                          => /\ ~Ahead(p', u, t)
                             /\ p'.state[u] = "running" => p.state[u] = "running"
  <1>1. ASSUME IInv, [Next]_vars  PROVE [Served]_vars
    <2>1. Sound(p) /\ p \in Pools /\ Placed(p) /\ p.queue \in Seq(Tasks)
      BY <1>1 DEF IInv, Sound, Pools
    <2>2. SUFFICES Served \/ UNCHANGED vars
      OBVIOUS
    <2>15. ASSUME InOrder(p, p')  PROVE Served
      <3>1. SUFFICES ASSUME NEW t \in Tasks, NEW u \in Tasks, p.state[t] = "queued",
                            p'.state[t] = "queued", ~Ahead(p, u, t)
                     PROVE  ~Ahead(p', u, t) /\ (p'.state[u] = "running" => p.state[u] = "running")
        OBVIOUS
      <3>2. ~Ahead(p', u, t)
        BY <2>15, <3>1 DEF InOrder, NoneAhead
      <3>3. ASSUME p'.state[u] = "running", p.state[u] # "running"  PROVE FALSE
        <4>1. PICK i \in DOMAIN p.queue : p.queue[i] = t
          BY <2>1, <3>1 DEF Placed
        <4>2. PICK j \in 1..(i - 1) : p.queue[j] = u
          BY <2>15, <3>1, <3>3, <4>1 DEF InOrder
        <4>3. i \in 1..Len(p.queue) /\ j \in DOMAIN p.queue /\ j < i
          BY <2>1, <4>1
        <4> QED BY <3>1, <4>1, <4>2, <4>3 DEF Ahead
      <3> QED BY <3>2, <3>3
    <2>3. ASSUME NoneBegins(p, p')  PROVE Served
      <3>1. NoneAhead(p, p')
        BY <2>1, <2>3, TailAhead DEF NoneBegins
      <3> QED BY <2>3, <2>15, <3>1 DEF NoneBegins, InOrder
    <2>4. ASSUME NEW q, Sound(q), NEW r, NoneBegins(Pump(q), r), q.queue = p.queue,
                 \A t \in Tasks : p.state[t] # "running" => q.state[t] = p.state[t]
          PROVE  InOrder(p, r)
      <3>1. InOrder(q, Pump(q))
        BY <2>4, PumpOrder
      <3>2. \A i \in DOMAIN p.queue : p.queue[i] \in Tasks
        BY <2>1
      <3>3. NoneAhead(Pump(q), r)
        <4>1. Pump(q).queue \in Seq(Tasks)
          BY <2>4, PumpSound DEF Sound, Pools
        <4> QED BY <2>4, <4>1, TailAhead DEF NoneBegins
      <3>4. NoneAhead(p, r)
        BY <2>4, <3>1, <3>3 DEF InOrder, NoneAhead, Ahead
      <3> QED BY <2>4, <3>1, <3>2, <3>4 DEF InOrder, NoneBegins
    <2>5. ASSUME NEW t \in Tasks, Run(t)  PROVE Served
      <3> DEFINE q == [p EXCEPT !.state[t] = "queued", !.queue = Append(@, t),
                                !.queuedCount = @ + 1]
      <3>1. Sound(q) /\ p' = Pump(q) /\ p.state[t] = "new"
        BY <2>1, <2>5, EnqueueSound DEF Run
      <3>2. q.queue = Append(p.queue, t) /\ q.state = [p.state EXCEPT ![t] = "queued"]
        BY <2>1 DEF Pools
      <3>3. \A u \in Tasks : q.state[u] = IF u = t THEN "queued" ELSE p.state[u]
        BY <2>1, <3>2 DEF Pools
      <3> HIDE DEF q
      <3>4. InOrder(q, p')
        BY <3>1, PumpOrder
      <3>5. SUFFICES ASSUME NEW v \in Tasks, NEW u \in Tasks, p.state[v] = "queued",
                            p'.state[v] = "queued", ~Ahead(p, u, v)
                     PROVE  ~Ahead(p', u, v) /\ (p'.state[u] = "running" => p.state[u] = "running")
        OBVIOUS
      <3>6. /\ Len(q.queue) = Len(p.queue) + 1 /\ q.queue[Len(p.queue) + 1] = t
            /\ \A j \in 1..Len(p.queue) : q.queue[j] = p.queue[j]
            /\ DOMAIN q.queue = 1..(Len(p.queue) + 1) /\ DOMAIN p.queue = 1..Len(p.queue)
            /\ Len(p.queue) \in Nat
        BY <2>1, <3>2, AppendProperties
      <3>7. ~Ahead(q, u, v)
        <4>1. SUFFICES ASSUME NEW i \in DOMAIN q.queue, NEW j \in DOMAIN q.queue, i < j,
                              q.queue[i] = u, q.queue[j] = v
                       PROVE  FALSE
          BY DEF Ahead
        <4>2. j # Len(p.queue) + 1
          BY <3>1, <3>5, <3>6, <4>1
        <4>3. i \in 1..Len(p.queue) /\ j \in 1..Len(p.queue)
          BY <3>6, <4>1, <4>2
        <4> QED BY <3>5, <3>6, <4>1, <4>3 DEF Ahead
      <3>8. ~Ahead(p', u, v)
        BY <3>4, <3>7 DEF InOrder, NoneAhead
      <3>9. ASSUME p'.state[u] = "running", p.state[u] # "running"  PROVE FALSE
        <4>1. PICK i \in DOMAIN p.queue : p.queue[i] = v
          BY <2>1, <3>5 DEF Placed
        <4>2. i \in DOMAIN q.queue /\ q.queue[i] = v
          BY <3>6, <4>1
        <4>3. q.state[v] = "queued" /\ q.state[u] # "running"
          BY <3>3, <3>5, <3>9
        <4>4. PICK j \in 1..(i - 1) : q.queue[j] = u
          BY <3>4, <3>5, <3>9, <4>2, <4>3 DEF InOrder
        <4>5. j \in DOMAIN q.queue /\ j < i
          BY <3>6, <4>2, <4>4
        <4> QED BY <3>7, <4>2, <4>4, <4>5 DEF Ahead
      <3> QED BY <3>8, <3>9
    <2>6. ASSUME NEW t \in Tasks, Answer(t)  PROVE InOrder(p, p')
      <3>1. PICK s \in Slots, ok \in BOOLEAN : WorkerAnswers(s, t, ok)
        BY <2>6 DEF Answer
      <3> DEFINE q == Answered(p, s, t, ok)
      <3>2. Sound(q) /\ p' = CheckCloseDone(Pump(q)) /\ t \in p.running[s]
        BY <2>1, <3>1, AnsweredSound DEF WorkerAnswers
      <3>3. q.queue = p.queue /\ \A u \in Tasks : u # t \/ t \in p.zombie => q.state[u] = p.state[u]
        BY <2>1 DEF Answered, Pools
      <3>4. t \notin p.zombie => p.state[t] = "running"
        BY <2>1, <3>2 DEF Placed
      <3>5. \A u \in Tasks : p.state[u] # "running" => q.state[u] = p.state[u]
        BY <3>3, <3>4
      <3> HIDE DEF q
      <3>6. NoneBegins(Pump(q), p')
        BY <3>2, PumpSound, OthersBeginNone
      <3> QED BY <2>4, <3>2, <3>3, <3>5, <3>6
    <2>7. ASSUME NEW s \in Slots, WorkerReady(s)  PROVE InOrder(p, p')
      <3> DEFINE g == [p EXCEPT !.worker[s] = "ready", !.crashes[s] = 0,
                                !.everReady = @ \cup {s}]
                 q == [g EXCEPT !.readyPromise =
                          IF @ = "pending" /\ g.everReady = Slots THEN "resolved" ELSE @]
      <3>1. Sound(q) /\ p' = Pump(q)
        BY <2>1, <2>7, WorkerReadySound DEF WorkerReady
      <3>2. q.queue = p.queue /\ q.state = p.state
        BY <2>1 DEF Pools
      <3> HIDE DEF q
      <3>3. NoneBegins(Pump(q), p')
        BY <3>1 DEF NoneBegins
      <3> QED BY <2>4, <3>1, <3>2, <3>3
    <2>8. ASSUME NEW t \in Tasks, AbortQueued(t) \/ AbortRunning(t)  PROVE NoneBegins(p, p')
      <3>1. p'.state = RejectTask(p, t).state /\ p'.queue = RejectTask(p, t).queue
        BY <2>1, <2>8 DEF AbortQueued, AbortRunning, RejectTask, Pools
      <3> QED BY <2>1, <3>1, OthersBeginNone DEF NoneBegins
    <2>9. ASSUME NEW t \in Tasks, KillTimer(t)  PROVE NoneBegins(p, p')
      BY <2>1, <2>9 DEF KillTimer, NoneBegins, Pools
    <2>10. ASSUME NEW s \in Slots, MessageError(s) \/ RespawnTimer(s)  PROVE NoneBegins(p, p')
      <3>1. p'.state = p.state /\ p'.queue = p.queue
        BY <2>1, <2>10 DEF MessageError, RespawnTimer, Spawn, Pools
      <3> QED BY <3>1 DEF NoneBegins
    <2>11. ASSUME NEW s \in Slots, WorkerCrashes(s) \/ WorkerKilled(s)  PROVE NoneBegins(p, p')
      BY <2>1, <2>11, OthersBeginNone DEF WorkerCrashes, WorkerKilled
    <2>12. CASE Close
      <3> DEFINE q == [p EXCEPT !.closing = TRUE]
      <3>1. q = [p EXCEPT !.killTimers = p.killTimers, !.expectTerminate = p.expectTerminate,
                          !.closing = TRUE, !.closed = p.closed]
        BY <2>1 DEF Pools
      <3>2. /\ p.killTimers \in SUBSET p.killTimers /\ p.expectTerminate \in SUBSET Slots
            /\ TRUE \in BOOLEAN /\ p.closed \in BOOLEAN
        BY <2>1 DEF Pools
      <3>3. p' = CheckCloseDone(q) /\ q.state = p.state /\ q.queue = p.queue
        BY <2>1, <2>12 DEF Close, Pools
      <3> HIDE DEF q
      <3>4. Sound(q)
        BY <1>1, <3>1, <3>2, FlagsSound DEF IInv
      <3> QED BY <2>3, <3>3, <3>4, OthersBeginNone DEF NoneBegins
    <2>13. CASE Destroy \/ CloseTimer
      BY <2>1, <2>3, <2>13, OthersBeginNone DEF Destroy, CloseTimer
    <2>14. CASE Terminated
      BY <2>1, <2>3, <2>14 DEF Terminated, NoneBegins, Pools
    <2> QED BY <1>1, <2>3, <2>5, <2>6, <2>7, <2>8, <2>9, <2>10, <2>11, <2>12, <2>13, <2>14,
               <2>15 DEF Next
  <1>2. Spec => [][Served]_vars
    BY Invariance, <1>1, PTL DEF Spec
  <1> QED BY <1>2 DEF ServedInOrder
---------------------------------------------------------------------------
(* The end of a drain *)

(* A drain that has ended left nothing, and it has ended once no worker is   *)
(* left.                                                                     *)
Drained(q) ==
    /\ q.closeDone => q.closing /\ q.queuedCount = 0 /\ ~Busy(q)
    /\ q.closing /\ ~q.destroyed /\ Exited(q) = Slots => q.closeDone

(* A step from q to r notices the end of a drain. *)
Notices(q, r) ==
    r.closing /\ ~r.destroyed /\ Busy(q) /\ ~Busy(r) /\ r.queuedCount = 0 => r.closeDone

(* A slot whose worker is gone has no tasks. *)
LEMMA GoneIsIdle ==
    ASSUME NEW q, Sound(q), Exited(q) = Slots
    PROVE  ~Busy(q)
  <1>1. SUFFICES ASSUME NEW s \in Slots, NEW t \in q.running[s]  PROVE FALSE
    BY DEF Busy
  <1>2. t \in Tasks /\ q.worker[s] = "ready"
    BY DEF Sound, Pools, Placed
  <1>3. s \in Exited(q)
    OBVIOUS
  <1> QED BY <1>2, <1>3 DEF Exited

(* checkCloseDone() ends a drain exactly when it is over. *)
LEMMA CheckCloseDoneEnds ==
    ASSUME NEW q, Sound(q)
    PROVE  LET r == CheckCloseDone(q) IN
           /\ ~q.closing \/ q.closeDone \/ q.destroyed => r = q
           /\ r.closing = q.closing /\ r.destroyed = q.destroyed
           /\ q.closing /\ ~q.closeDone /\ ~q.destroyed =>
                 /\ r.closeDone <=> r.queuedCount = 0 /\ ~Busy(r)
                 /\ Exited(r) = Slots => r.closeDone
  <1> DEFINE alive == Slots \ Exited(q)
             g == IF q.queuedCount > 0 /\ alive = {} THEN FailAllQueued(q) ELSE q
             over == g.queuedCount = 0 /\ \A s \in Slots : g.running[s] = {}
             r == CheckCloseDone(q)
  <1>1. /\ Sound(g) /\ g.running = q.running /\ SameSlots(q, g) /\ SameFlags(q, g)
        /\ Exited(q) = Slots => g.queuedCount = 0
    <2>1. CASE q.queuedCount > 0 /\ alive = {}
      BY <2>1, FailAllQueuedSound
    <2>2. CASE ~(q.queuedCount > 0 /\ alive = {})
      <3>1. q.queuedCount \in Nat
        BY DEF Sound, Pools
      <3> QED BY <2>2, <3>1 DEF SameSlots, SameFlags
    <2> QED BY <2>1, <2>2
  <1>2. CASE ~q.closing \/ q.closeDone \/ q.destroyed
    BY <1>2 DEF CheckCloseDone
  <1>3. CASE ~(~q.closing \/ q.closeDone \/ q.destroyed)
    <2>1. r = [g EXCEPT !.closeDone = over] /\ over \in BOOLEAN
      BY <1>3 DEF CheckCloseDone
    <2>2. g \in Pools
      BY <1>1 DEF Sound
    <2> HIDE DEF r, over, g
    <2>3. /\ r.closeDone = over /\ r.closing = g.closing /\ r.destroyed = g.destroyed
          /\ r.queuedCount = g.queuedCount /\ r.running = g.running /\ r.worker = g.worker
      BY <2>1, <2>2 DEF Pools
    <2>4. over <=> r.queuedCount = 0 /\ ~Busy(r)
      BY <2>3 DEF over, Busy
    <2>5. Exited(r) = Slots => over
      <3>1. SUFFICES ASSUME Exited(r) = Slots  PROVE over
        OBVIOUS
      <3>2. Exited(q) = Slots
        BY <1>1, <2>3, <3>1 DEF Exited, SameSlots
      <3>3. ~Busy(q)
        BY <3>2, GoneIsIdle
      <3> QED BY <1>1, <3>2, <3>3 DEF over, Busy
    <2>6. r.closing = q.closing /\ r.destroyed = q.destroyed
      BY <1>1, <2>3 DEF SameFlags
    <2> QED BY <1>3, <2>3, <2>4, <2>5, <2>6 DEF r
  <1> QED BY <1>2, <1>3

(* ... so that it leaves a drain that was sound so far sound, and noticed. *)
LEMMA CheckCloseDoneDrains ==
    ASSUME NEW q, Sound(q),
           q.closeDone => q.closing /\ q.queuedCount = 0 /\ ~Busy(q)
    PROVE  LET r == CheckCloseDone(q) IN
           /\ Drained(r)
           /\ r.closing /\ ~r.destroyed /\ ~Busy(r) /\ r.queuedCount = 0 => r.closeDone
  <1> DEFINE r == CheckCloseDone(q)
  <1>1. /\ ~q.closing \/ q.closeDone \/ q.destroyed => r = q
        /\ r.closing = q.closing /\ r.destroyed = q.destroyed
        /\ q.closing /\ ~q.closeDone /\ ~q.destroyed =>
              /\ r.closeDone <=> r.queuedCount = 0 /\ ~Busy(r)
              /\ Exited(r) = Slots => r.closeDone
    BY CheckCloseDoneEnds
  <1> HIDE DEF r
  <1>2. CASE ~q.closing \/ q.closeDone \/ q.destroyed
    BY <1>1, <1>2 DEF Drained, r
  <1>3. CASE q.closing /\ ~q.closeDone /\ ~q.destroyed
    BY <1>1, <1>3 DEF Drained, r
  <1> QED BY <1>2, <1>3

(* pump() changes neither slots nor flags, and takes no task from a worker. *)
LEMMA PumpOneLeaves ==
    ASSUME NEW q, Sound(q), NEW t \in Tasks
    PROVE  LET r == PumpOne(q, t) IN
           /\ SameFlags(q, r) /\ r.worker = q.worker
           /\ Busy(q) => Busy(r)
  <1> DEFINE g == [q EXCEPT !.queue = Tail(@)]
             h == [g EXCEPT !.queuedCount = @ - 1]
             s == PickSlot(q)
  <1>1. CASE Blocked(q)
    BY <1>1 DEF PumpOne, Blocked, SameFlags
  <1>2. CASE ~Blocked(q)
    <2>1. PumpOne(q, t) = IF q.state[t] = "queued" THEN Dispatch(h, s, t) ELSE g
      BY <1>2 DEF PumpOne, Blocked
    <2>2. q \in Pools
      BY DEF Sound
    <2>3. /\ SameFlags(q, g) /\ g.worker = q.worker /\ g.running = q.running
          /\ SameFlags(q, h) /\ h.worker = q.worker /\ h.running = q.running
          /\ DOMAIN h = DOMAIN q
      BY <2>2 DEF SameFlags, Pools
    <2> HIDE DEF g, h, s
    <2> DEFINE d == Dispatch(h, s, t)
    <2>4. /\ d.readyPromise = h.readyPromise /\ d.closing = h.closing
          /\ d.closeDone = h.closeDone /\ d.destroyed = h.destroyed /\ d.closed = h.closed
          /\ d.worker = h.worker
          /\ d.running = h.running \/ d.running = [h.running EXCEPT ![s] = @ \cup {t}]
      <3>1. CASE t \in Unclonable
        BY <2>2, <2>3, <3>1 DEF Dispatch, RejectTask, Pools
      <3>2. CASE t \notin Unclonable
        BY <2>2, <2>3, <3>2 DEF Dispatch, Pools
      <3> QED BY <3>1, <3>2
    <2> HIDE DEF d
    <2>5. \A v \in Slots : q.running[v] \subseteq d.running[v]
      BY <2>2, <2>3, <2>4 DEF Pools
    <2>6. Busy(q) => Busy(d) /\ Busy(g)
      BY <2>3, <2>5 DEF Busy
    <2>7. SameFlags(q, d) /\ d.worker = q.worker
      BY <2>3, <2>4 DEF SameFlags
    <2> QED BY <2>1, <2>3, <2>6, <2>7 DEF d
  <1> QED BY <1>1, <1>2

LEMMA PumpLeaves ==
    ASSUME NEW q, Sound(q)
    PROVE  LET r == Pump(q) IN
           /\ SameFlags(q, r) /\ r.worker = q.worker
           /\ Busy(q) => Busy(r)
           /\ q.queuedCount = 0 => r = q
  <1> DEFINE n == Len(q.queue)
  <1>1. q.queue \in Seq(Tasks) /\ n \in Nat
    BY DEF Sound, Pools
  <1>2. PICK f : /\ f[0] = q /\ f[n] = Pump(q)
                 /\ \A i \in 1..n : f[i] = PumpOne(f[i - 1], q.queue[i])
                 /\ \A i \in 0..n : Sound(f[i])
    BY PumpTurns
  <1>3. \A i \in 1..n : q.queue[i] \in Tasks
    BY <1>1
  <1> DEFINE J(i) == /\ SameFlags(q, f[i]) /\ f[i].worker = q.worker
                     /\ Busy(q) => Busy(f[i])
                     /\ q.queuedCount = 0 => f[i] = q
             S == {i \in 0..n : J(i)}
  <1> HIDE DEF n
  <1>4. J(0)
    BY <1>2 DEF SameFlags
  <1>5. ASSUME NEW i \in 1..n, J(i - 1)
        PROVE  J(i)
    <2>1. i - 1 \in 0..n
      BY <1>1
    <2> DEFINE g == f[i - 1]
               r == PumpOne(g, q.queue[i])
    <2>2. f[i] = r /\ Sound(g)
      BY <1>2, <2>1
    <2>3. /\ SameFlags(g, r) /\ r.worker = g.worker
          /\ Busy(g) => Busy(r)
      BY <1>3, <2>2, PumpOneLeaves
    <2>4. g.queuedCount = 0 => r = g
      BY DEF PumpOne
    <2> HIDE DEF r
    <2>5. SameFlags(q, r) /\ r.worker = q.worker
      BY <1>5, <2>3 DEF SameFlags
    <2>6. Busy(q) => Busy(r)
      BY <1>5, <2>3
    <2>7. q.queuedCount = 0 => r = q
      BY <1>5, <2>4
    <2> QED BY <2>2, <2>5, <2>6, <2>7
  <1>6. J(n)
    <2> HIDE DEF J
    <2>1. S \in SUBSET (0..n) /\ 0 \in S
      BY <1>1, <1>4
    <2>2. \A i \in 1..n : i - 1 \in S => i \in S
      BY <1>1, <1>5
    <2>3. n \in 0..n
      BY <1>1
    <2> HIDE DEF S
    <2>4. S = 0..n
      BY <1>1, <2>1, <2>2, UpTo
    <2> QED BY <2>3, <2>4 DEF S
  <1> QED BY <1>2, <1>6

(* destroyInternal() takes every task from the workers. *)
LEMMA DestroyInternalEmpties ==
    ASSUME NEW q, Sound(q)
    PROVE  LET r == DestroyInternal(q) IN
           /\ ~Busy(r) /\ r.destroyed
           /\ r.closing = q.closing /\ r.closeDone = q.closeDone
  <1> DEFINE live == {t \in UNION {q.running[s] : s \in Slots} : t \notin q.zombie}
             e == FailAllQueued(q)
             g == RejectAll(e, live)
  <1>1. e \in Pools /\ SameFlags(q, e)
    BY FailAllQueuedSound DEF Sound
  <1>2. DestroyInternal(q) = [g EXCEPT
            !.destroyed = TRUE,
            !.killTimers = {},
            !.running = [s \in Slots |-> {}],
            !.readyPromise = IF @ = "pending" THEN "rejected" ELSE @]
    BY DEF DestroyInternal
  <1> HIDE DEF e, live
  <1>3. DOMAIN g = DOMAIN e /\ g.closing = e.closing /\ g.closeDone = e.closeDone
    BY <1>1 DEF RejectAll, Pools
  <1>4. /\ "destroyed" \in DOMAIN e /\ "running" \in DOMAIN e
        /\ "closing" \in DOMAIN e /\ "closeDone" \in DOMAIN e
    BY <1>1 DEF Pools
  <1> HIDE DEF g
  <1> DEFINE r == DestroyInternal(q)
  <1>5. /\ r.destroyed /\ r.running = [s \in Slots |-> {}]
        /\ r.closing = g.closing /\ r.closeDone = g.closeDone
    BY <1>2, <1>3, <1>4
  <1> HIDE DEF r
  <1>6. ~Busy(r)
    BY <1>5 DEF Busy
  <1> QED BY <1>1, <1>3, <1>5, <1>6 DEF SameFlags, r

LEMMA OnExitDrains ==
    ASSUME NEW q, Sound(q), NEW s \in Slots, q.worker[s] \in {"starting", "ready"}, Drained(q)
    PROVE  Drained(OnExit(q, s)) /\ Notices(q, OnExit(q, s))
  <1> DEFINE live == {t \in q.running[s] : t \notin q.zombie}
             g == RejectAll(q, live)
             v == Vacated(q, s)
             crashed == [v EXCEPT !.crashes[s] = @ + 1]
             waiting == [crashed EXCEPT !.worker[s] = "waiting"]
             dead == [crashed EXCEPT !.worker[s] = "dead"]
             last == [FailAllQueued(dead) EXCEPT
                        !.readyPromise = IF @ = "pending" THEN "rejected" ELSE @]
             r == OnExit(q, s)
  <1>1. q \in Pools
    BY DEF Sound
  <1>2. /\ Sound(v) /\ v.running = [q.running EXCEPT ![s] = {}]
        /\ v.queuedCount = q.queuedCount
    BY VacatedSound
  <1>3. v \in Pools
    BY <1>2 DEF Sound
  <1>4. v.closing = q.closing /\ v.closeDone = q.closeDone
    <2>1. v = [g EXCEPT !.worker[s] = "exited", !.killTimers = @ \ q.running[s],
                        !.running[s] = {}]
      BY DEF Vacated
    <2> HIDE DEF live, v
    <2>2. DOMAIN g = DOMAIN q /\ g.closing = q.closing /\ g.closeDone = q.closeDone
      BY <1>1 DEF RejectAll, Pools
    <2>3. "closing" \in DOMAIN q /\ "closeDone" \in DOMAIN q
      BY <1>1 DEF Pools
    <2> HIDE DEF g
    <2> QED BY <2>1, <2>2, <2>3
  <1>5. r = IF q.closing
            THEN CheckCloseDone(v)
            ELSE IF s \in q.expectTerminate
            THEN Spawn(v, s)
            ELSE IF crashed.crashes[s] <= MaxRestarts
            THEN waiting
            ELSE IF Dead(dead) = Slots THEN last ELSE dead
    BY DEF OnExit, Vacated
  <1> HIDE DEF v
  <1>6. CASE q.closing
    <2>1. v.closeDone => v.closing /\ v.queuedCount = 0 /\ ~Busy(v)
      BY <1>1, <1>2, <1>4, <1>6 DEF Drained, Busy, Pools
    <2> QED BY <1>2, <1>5, <1>6, <2>1, CheckCloseDoneDrains DEF Notices
  <1>7. CASE ~q.closing
    <2>1. v.closing = FALSE /\ v.closeDone = FALSE
      BY <1>1, <1>4, <1>7 DEF Drained, Pools
    <2>2. Spawn(v, s).closing = FALSE /\ Spawn(v, s).closeDone = FALSE
      BY <1>3, <2>1 DEF Spawn, Pools
    <2>3. /\ waiting.closing = FALSE /\ waiting.closeDone = FALSE
          /\ dead.closing = FALSE /\ dead.closeDone = FALSE /\ DOMAIN dead = DOMAIN v
      BY <1>3, <2>1 DEF Pools
    <2>4. last.closing = FALSE /\ last.closeDone = FALSE
      <3>1. "closing" \in DOMAIN dead /\ "closeDone" \in DOMAIN dead
        BY <1>3, <2>3 DEF Pools
      <3> HIDE DEF dead
      <3> QED BY <2>3, <3>1 DEF FailAllQueued, RejectAll
    <2> HIDE DEF waiting, dead, last, crashed
    <2>5. r.closing = FALSE /\ r.closeDone = FALSE
      BY <1>5, <1>7, <2>2, <2>3, <2>4
    <2> HIDE DEF r
    <2>6. Drained(r) /\ Notices(q, r)
      BY <2>5 DEF Drained, Notices
    <2> QED BY <2>6 DEF r
  <1> QED BY <1>6, <1>7

(* A step that changes neither flags, places nor the gone workers *)
LEMMA ElsewhereDrains ==
    ASSUME NEW q, NEW r, Drained(q),
           r.closing = q.closing, r.closeDone = q.closeDone, r.destroyed = q.destroyed,
           r.running = q.running, Exited(r) = Exited(q),
           r.queuedCount = q.queuedCount \/ ~q.closeDone
    PROVE  Drained(r) /\ Notices(q, r)
  BY DEF Drained, Notices, Busy

(* Every step keeps the drain sound and notices its end. *)
LEMMA NextDrains ==
    ASSUME IInv, Drained(p), [Next]_vars
    PROVE  Drained(p') /\ (Notices(p, p') \/ UNCHANGED vars)
  <1>1. Sound(p) /\ p \in Pools /\ Placed(p) /\ Counted(p)
    BY DEF IInv, Sound
  <1>2. ASSUME NEW t \in Tasks, Run(t)  PROVE Drained(p') /\ Notices(p, p')
    <2> DEFINE q == [p EXCEPT !.state[t] = "queued", !.queue = Append(@, t),
                              !.queuedCount = @ + 1]
    <2>1. Sound(q) /\ p' = Pump(q) /\ ~p.closing
      BY <1>1, <1>2, EnqueueSound DEF Run
    <2>2. q.closing = p.closing /\ q.closeDone = p.closeDone
      BY <1>1 DEF Pools
    <2> HIDE DEF q
    <2>3. ~p'.closing /\ ~p'.closeDone
      BY <2>1, <2>2, PumpLeaves DEF SameFlags, Drained
    <2> QED BY <2>3 DEF Drained, Notices
  <1>3. ASSUME NEW t \in Tasks, AbortQueued(t) \/ AbortRunning(t)
        PROVE  Drained(p') /\ Notices(p, p')
    <2>1. ~p.closeDone
      <3>1. CASE AbortQueued(t)
        <4>1. t \in Queued(p)
          BY <3>1 DEF AbortQueued, Queued
        <4>2. p.queuedCount > 0
          BY <1>1, <4>1, CountsOf
        <4> QED BY <4>2 DEF Drained
      <3>2. CASE AbortRunning(t)
        BY <1>1, <3>2 DEF AbortRunning, Placed, Drained, Busy
      <3> QED BY <1>3, <3>1, <3>2
    <2>2. /\ p'.closing = p.closing /\ p'.closeDone = p.closeDone
          /\ p'.destroyed = p.destroyed /\ p'.running = p.running /\ p'.worker = p.worker
      <3> DEFINE g == RejectTask(p, t)
      <3>1. /\ g.closing = p.closing /\ g.closeDone = p.closeDone
            /\ g.destroyed = p.destroyed /\ g.running = p.running /\ g.worker = p.worker
            /\ DOMAIN g = DOMAIN p
        BY <1>1 DEF RejectTask, Pools
      <3>2. \/ p' = [g EXCEPT !.queuedCount = @ - 1]
            \/ p' = [g EXCEPT !.zombie = @ \cup {t}, !.killTimers = @ \cup {t}]
        BY <1>3 DEF AbortQueued, AbortRunning
      <3> HIDE DEF g
      <3>3. {"closing", "closeDone", "destroyed", "running", "worker"} \subseteq DOMAIN g
        BY <1>1, <3>1 DEF Pools
      <3>4. CASE p' = [g EXCEPT !.queuedCount = @ - 1]
        BY <3>1, <3>3, <3>4
      <3>5. CASE p' = [g EXCEPT !.zombie = @ \cup {t}, !.killTimers = @ \cup {t}]
        BY <3>1, <3>3, <3>5
      <3> QED BY <3>2, <3>4, <3>5
    <2>3. Exited(p') = Exited(p)
      BY <2>2 DEF Exited
    <2> QED BY <2>1, <2>2, <2>3, ElsewhereDrains
  <1>4. ASSUME NEW t \in Tasks, Answer(t)  PROVE Drained(p') /\ Notices(p, p')
    <2>1. PICK s \in Slots, ok \in BOOLEAN : WorkerAnswers(s, t, ok)
      BY <1>4 DEF Answer
    <2> DEFINE q == Answered(p, s, t, ok)
    <2>2. Sound(q) /\ p' = CheckCloseDone(Pump(q)) /\ t \in p.running[s]
      BY <1>1, <2>1, AnsweredSound DEF WorkerAnswers
    <2>3. q.closeDone = p.closeDone
      BY <1>1 DEF Answered, Pools
    <2> HIDE DEF q
    <2>4. ~p.closeDone
      BY <2>2 DEF Drained, Busy
    <2>5. Sound(Pump(q)) /\ ~Pump(q).closeDone
      BY <2>2, <2>3, <2>4, PumpSound, PumpLeaves DEF SameFlags
    <2> QED BY <2>2, <2>5, CheckCloseDoneDrains DEF Notices
  <1>5. ASSUME NEW s \in Slots, WorkerReady(s)  PROVE Drained(p') /\ Notices(p, p')
    <2> DEFINE g == [p EXCEPT !.worker[s] = "ready", !.crashes[s] = 0,
                              !.everReady = @ \cup {s}]
               q == [g EXCEPT !.readyPromise =
                        IF @ = "pending" /\ g.everReady = Slots THEN "resolved" ELSE @]
    <2>1. Sound(q) /\ p' = Pump(q)
      BY <1>1, <1>5, WorkerReadySound DEF WorkerReady
    <2>2. /\ q.closing = p.closing /\ q.closeDone = p.closeDone /\ q.destroyed = p.destroyed
          /\ q.running = p.running /\ q.queuedCount = p.queuedCount
          /\ q.worker[s] = "ready"
      BY <1>1 DEF Pools
    <2> HIDE DEF q
    <2>3. /\ SameFlags(q, p') /\ p'.worker = q.worker
          /\ Busy(q) => Busy(p')
          /\ q.queuedCount = 0 => p' = q
      BY <2>1, PumpLeaves
    <2>4. Busy(q) <=> Busy(p)
      BY <2>2 DEF Busy
    <2>5. s \notin Exited(p')
      BY <2>2, <2>3 DEF Exited
    <2> QED BY <2>2, <2>3, <2>4, <2>5 DEF Drained, Notices, SameFlags
  <1>6. ASSUME NEW s \in Slots, RespawnTimer(s)  PROVE Drained(p') /\ Notices(p, p')
    <2>1. CASE p.closing
      <3>1. p' = [p EXCEPT !.worker[s] = "exited"] /\ p.worker[s] = "waiting"
        BY <1>6, <2>1 DEF RespawnTimer
      <3>2. /\ p'.closing = p.closing /\ p'.closeDone = p.closeDone
            /\ p'.destroyed = p.destroyed /\ p'.running = p.running
            /\ p'.queuedCount = p.queuedCount
            /\ \A v \in Slots : p'.worker[v] = IF v = s THEN "exited" ELSE p.worker[v]
        BY <1>1, <3>1 DEF Pools
      <3>3. Exited(p') = Exited(p)
        BY <3>1, <3>2 DEF Exited
      <3> QED BY <3>2, <3>3, ElsewhereDrains
    <2>2. CASE ~p.closing
      <3>1. p' = Spawn(p, s)
        BY <1>6, <2>2 DEF RespawnTimer
      <3>2. ~p'.closing /\ ~p'.closeDone
        BY <1>1, <2>2, <3>1 DEF Spawn, Pools, Drained
      <3> QED BY <3>2 DEF Drained, Notices
    <2> QED BY <2>1, <2>2
  <1>7. ASSUME \/ \E t \in Tasks : KillTimer(t)
               \/ \E s \in Slots : MessageError(s)
               \/ Terminated
        PROVE  Drained(p') /\ Notices(p, p')
    <2>1. /\ p'.closing = p.closing /\ p'.closeDone = p.closeDone
          /\ p'.destroyed = p.destroyed /\ p'.running = p.running /\ p'.worker = p.worker
          /\ p'.queuedCount = p.queuedCount
      BY <1>1, <1>7 DEF KillTimer, MessageError, Terminated, Pools
    <2>2. Exited(p') = Exited(p)
      BY <2>1 DEF Exited
    <2> QED BY <2>1, <2>2, ElsewhereDrains
  <1>8. ASSUME NEW s \in Slots, WorkerCrashes(s) \/ WorkerKilled(s)
        PROVE  Drained(p') /\ Notices(p, p')
    <2>1. p' = OnExit(p, s) /\ p.worker[s] \in {"starting", "ready"}
      BY <1>8 DEF WorkerCrashes, WorkerKilled
    <2> QED BY <1>1, <2>1, OnExitDrains
  <1>9. CASE Close
    <2> DEFINE q == [p EXCEPT !.closing = TRUE]
    <2>1. q = [p EXCEPT !.killTimers = p.killTimers, !.expectTerminate = p.expectTerminate,
                        !.closing = TRUE, !.closed = p.closed]
      BY <1>1 DEF Pools
    <2>2. /\ p.killTimers \in SUBSET p.killTimers /\ p.expectTerminate \in SUBSET Slots
          /\ TRUE \in BOOLEAN /\ p.closed \in BOOLEAN
      BY <1>1 DEF Pools
    <2>3. p' = CheckCloseDone(q) /\ q.closeDone = p.closeDone /\ ~p.closing
      BY <1>1, <1>9 DEF Close, Pools
    <2> HIDE DEF q
    <2>4. Sound(q)
      BY <2>1, <2>2, FlagsSound DEF IInv
    <2>5. ~q.closeDone
      BY <2>3 DEF Drained
    <2> QED BY <2>3, <2>4, <2>5, CheckCloseDoneDrains DEF Notices
  <1>10. CASE Destroy \/ CloseTimer
    <2>1. p' = DestroyInternal(p)
      BY <1>10 DEF Destroy, CloseTimer
    <2>2. /\ ~Busy(p') /\ p'.destroyed /\ p'.queuedCount = 0
          /\ p'.closing = p.closing /\ p'.closeDone = p.closeDone
      BY <1>1, <2>1, DestroyInternalEmpties, DestroyInternalSound
    <2> QED BY <2>2 DEF Drained, Notices
  <1>11. CASE UNCHANGED vars
    BY <1>11 DEF vars
  <1> QED BY <1>2, <1>3, <1>4, <1>5, <1>6, <1>7, <1>8, <1>9, <1>10, <1>11 DEF Next

(* A close() that drains ends by itself when the last place becomes empty   *)
(* while nothing is queued, and when no worker is left, and never before:   *)
(* checkCloseDone() is called wherever a place is emptied.                  *)
THEOREM DrainsEnd == Spec => DrainNoticed
  <1> DEFINE Noticed ==
               /\ p'.closeDone => p'.queuedCount = 0 /\ ~Busy(p')
               /\ /\ p'.closing /\ ~p'.destroyed
                  /\ \/ Exited(p') = Slots
                     \/ Busy(p) /\ ~Busy(p') /\ p'.queuedCount = 0
                  => p'.closeDone
             D == Drained(p)
  <1>1. Init => D
    <2> SUFFICES ASSUME Init  PROVE D
      OBVIOUS
    <2>1. p.closing = FALSE /\ p.closeDone = FALSE
      BY DEF Init
    <2> QED BY <2>1 DEF Drained
  <1>2. IInv /\ D /\ [Next]_vars => D' /\ [Noticed]_vars
    <2> SUFFICES ASSUME IInv, D, [Next]_vars  PROVE D' /\ (Noticed \/ UNCHANGED vars)
      OBVIOUS
    <2>1. Drained(p') /\ (Notices(p, p') \/ UNCHANGED vars)
      BY NextDrains
    <2>2. Notices(p, p') => Noticed
      BY <2>1 DEF Drained, Notices
    <2> QED BY <2>1, <2>2
  <1> HIDE DEF D, Noticed
  <1>3. Spec => [][Noticed]_vars
    BY Invariance, <1>1, <1>2, PTL DEF Spec
  <1> QED BY <1>3 DEF DrainNoticed, Noticed
=============================================================================
