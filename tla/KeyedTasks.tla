----------------------------- MODULE KeyedTasks -----------------------------
(***************************************************************************)
(* What a keyed scheduler promises: tasks that share a key run one at a    *)
(* time, in the order they were submitted, and at most Concurrency tasks   *)
(* run at once.  Tasks are submitted in increasing order.                  *)
(***************************************************************************)
EXTENDS Naturals, FiniteSets

CONSTANTS Tasks, KeyOf, NoKey, Concurrency

VARIABLE phase   \* of each task: new, waiting, running, done

Running == {i \in Tasks : phase[i] = "running"}

KeyedInit == phase = [i \in Tasks |-> "new"]

Submitted(i) ==
    /\ phase[i] = "new"
    /\ \A j \in Tasks : j > i => phase[j] = "new"
    /\ phase' = [phase EXCEPT ![i] = "waiting"]

\* The earlier tasks of its key are over.
Free(i) ==
    \A j \in Tasks : j < i /\ KeyOf[j] = KeyOf[i] /\ KeyOf[i] # NoKey
                        => phase[j] = "done"

\* Tasks begin: submitted just now or earlier, as many as there are slots.
Begun(new, ended) ==
    /\ \A i \in new : phase[i] \in {"new", "waiting"} /\ Free(i)
    /\ \A i \in ended : phase[i] = "running"
    /\ phase' = [i \in Tasks |-> IF i \in new THEN "running"
                                 ELSE IF i \in ended THEN "done" ELSE phase[i]]
    /\ Cardinality(Running') <= Concurrency

\* At most one task ends, and at most one begins with it: a slot handed over.
KeyedNext ==
    \/ \E i \in Tasks : Submitted(i)
    \/ \E i \in Tasks : Begun({i}, {})
    \/ \E i \in Tasks : Begun({}, {i})
    \/ \E i, j \in Tasks : i # j /\ Begun({i}, {j})

KeyedSpec == KeyedInit /\ [][KeyedNext]_phase
=============================================================================
