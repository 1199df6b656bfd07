------------------------------- MODULE Cache --------------------------------
(***************************************************************************)
(* One key of createCache() in packages/cache/src/cache.ts: reads that     *)
(* slide or drop what they find, wrap() with its flights, stale values and *)
(* tombstones, and set(), delete() and clear() among them.  Keys share     *)
(* nothing but the loops of clear(), getMany() and the sweep.              *)
(*                                                                         *)
(* The storage applies calls in the order they are made; the code goes on  *)
(* when it hears of it.  So a step makes a call, which takes effect, and   *)
(* anything may happen before the next step of the same operation.         *)
(***************************************************************************)
EXTENDS Naturals, FiniteSets

CONSTANTS
    Calls,         \* bound: the calls of get() and wrap()
    NoCall,
    Options,       \* what is configured: sliding, stale (a staleTtl) and
                   \* negative (an errorTtl), as explored
    MaxEdits       \* bound: calls of set(), delete() and clear()

ASSUME CacheAssumption ==
    /\ NoCall \notin Calls
    /\ Options \subseteq [sliding : BOOLEAN, stale : BOOLEAN, negative : BOOLEAN]
    /\ MaxEdits \in Nat

VARIABLES
    options,
    stored,        \* the entry in the storage
    written,       \* the number of entries written
    call,          \* the calls of get() and wrap()
    flight,        \* the flights, named after the call that began them
    inflight,
    epoch,         \* set(), delete() and clear() calls so far
    floor,         \* history: the epoch of the last one that was carried out
    clearing       \* a clear() that awaits keys()

readVars == <<options, epoch, floor, clearing>>
vars == <<options, stored, written, call, flight, inflight, epoch, floor,
          clearing>>

(* window: it has a staleTtl.  born: the epoch in which the value was      *)
(* asked for.  back: a sliding refresh wrote it over another entry, or     *)
(* after it was dropped.                                                   *)
Entry == [id : Nat, kind : {"none", "value", "error"}, age : {"fresh", "stale", "expired"},
          window : BOOLEAN, born : Nat, back : BOOLEAN]

NoEntry == [id |-> 0, kind |-> "none", age |-> "fresh", window |-> FALSE, born |-> 0,
            back |-> FALSE]

Running == {"fn", "writing", "refused", "failing"}

TypeOK ==
    /\ options \in Options
    /\ stored \in Entry /\ written \in Nat
    /\ call \in [Calls ->
          [op : {"get", "wrap"},
           pc : {"idle", "read", "dropping", "refreshing", "missed", "stale", "waiting", "done"},
           since : Nat, snap : Entry, on : Calls \cup {NoCall},
           answer : {"none", "stored", "fetched", "missing", "rejected"}]]
    /\ flight \in [Calls -> [pc : Running \cup {"none", "returned", "failed"},
                             superseded : BOOLEAN, born : Nat]]
    /\ inflight \in Calls \cup {NoCall}
    /\ epoch \in Nat /\ floor \in Nat
    /\ clearing \in [on : BOOLEAN, present : BOOLEAN, epoch : Nat]

NoClear == [on |-> FALSE, present |-> FALSE, epoch |-> 0]

Init ==
    /\ options \in Options
    /\ stored = NoEntry /\ written = 0
    /\ call = [c \in Calls |-> [op |-> "get", pc |-> "idle", since |-> 0, snap |-> NoEntry,
                                on |-> NoCall, answer |-> "none"]]
    /\ flight = [c \in Calls |-> [pc |-> "none", superseded |-> FALSE, born |-> 0]]
    /\ inflight = NoCall
    /\ epoch = 0 /\ floor = 0
    /\ clearing = NoClear

---------------------------------------------------------------------------
(* storage.set() and storage.delete() *)
Stores(kind, window, born, back) ==
    /\ stored' = [id |-> written + 1, kind |-> kind, age |-> "fresh", window |-> window,
                  born |-> born, back |-> back]
    /\ written' = written + 1

Drops == stored' = NoEntry /\ UNCHANGED written

Goes(c, pc) == call' = [call EXCEPT ![c].pc = pc]

Answers(c, answer) == call' = [call EXCEPT ![c].pc = "done", ![c].answer = answer]

(* get(), peek(), has() and wrap() begin by reading the entry. *)
Begin(c, op) ==
    /\ call[c].pc = "idle"
    /\ call' = [call EXCEPT ![c].op = op, ![c].pc = "read", ![c].since = floor,
                            ![c].snap = stored]
    /\ UNCHANGED <<readVars, stored, written, flight, inflight>>

ReadMissing(c) == call[c].snap.kind = "none" /\ Goes(c, "missed") /\ UNCHANGED <<stored, written>>

(* An expired entry is dropped, or what is there by now. *)
ReadExpired(c) == call[c].snap.age = "expired" /\ Goes(c, "dropping") /\ Drops

ReadTombstone(c) ==
    /\ call[c].snap.kind = "error" /\ call[c].snap.age # "expired"
    /\ Answers(c, IF call[c].op = "wrap" THEN "rejected" ELSE "missing")
    /\ UNCHANGED <<stored, written>>

(* A fresh hit of a sliding entry writes it back with a new expiry. *)
ReadFresh(c) ==
    LET e == call[c].snap IN
    /\ e.kind = "value" /\ e.age = "fresh"
    /\ IF options.sliding
       THEN Goes(c, "refreshing") /\ Stores("value", e.window, e.born, e.back \/ stored.id # e.id)
       ELSE Answers(c, "stored") /\ UNCHANGED <<stored, written>>

ReadStale(c) ==
    LET e == call[c].snap IN
    /\ e.kind = "value" /\ e.age = "stale"
    /\ IF call[c].op = "wrap" THEN Goes(c, "stale") ELSE Answers(c, "stored")
    /\ UNCHANGED <<stored, written>>

(* storage.get() fails, or the call that would follow it. *)
ReadFails(c) == Answers(c, "rejected") /\ UNCHANGED <<stored, written>>

(* readEntry(), when storage.get() has answered *)
ReadEntry(c) ==
    /\ call[c].pc = "read"
    /\ \/ ReadMissing(c) \/ ReadExpired(c) \/ ReadTombstone(c)
       \/ ReadFresh(c) \/ ReadStale(c) \/ ReadFails(c)
    /\ UNCHANGED <<readVars, flight, inflight>>

(* ... and when storage.delete() or storage.set() has *)
ReadEnds(c) ==
    /\ \/ call[c].pc = "dropping" /\ Goes(c, "missed")
       \/ call[c].pc = "refreshing" /\ Answers(c, "stored")
    /\ UNCHANGED <<readVars, stored, written, flight, inflight>>

---------------------------------------------------------------------------
(* runFetch() registers the flight before fn runs. *)
TakesOff(c) ==
    /\ flight' = [flight EXCEPT ![c] = [pc |-> "fn", superseded |-> FALSE, born |-> epoch]]
    /\ inflight' = c

(* wrap() after a miss joins the flight of the key, or begins one. *)
Miss(c) ==
    /\ call[c].pc = "missed"
    /\ IF call[c].op = "get"
       THEN Answers(c, "missing") /\ UNCHANGED <<flight, inflight>>
       ELSE IF inflight # NoCall
       THEN /\ call' = [call EXCEPT ![c].pc = "waiting", ![c].on = inflight]
            /\ UNCHANGED <<flight, inflight>>
       ELSE /\ call' = [call EXCEPT ![c].pc = "waiting", ![c].on = c]
            /\ TakesOff(c)
    /\ UNCHANGED <<readVars, stored, written>>

(* wrap() serves a stale value and sees to its revalidation. *)
ServeStale(c) ==
    /\ call[c].pc = "stale"
    /\ Answers(c, "stored")
    /\ IF inflight = NoCall THEN TakesOff(c) ELSE UNCHANGED <<flight, inflight>>
    /\ UNCHANGED <<readVars, stored, written>>

(* Mutant: a flight that fails leaves those who joined it waiting.        *)
LandUnlessFailed(c) ==
    /\ call[c].pc = "waiting"
    /\ flight[call[c].on].pc = "returned" /\ Answers(c, "fetched")
    /\ UNCHANGED <<readVars, stored, written, flight, inflight>>

(* The promise a wrap() was given settles. *)
Land(c) ==
    /\ call[c].pc = "waiting"
    /\ \/ flight[call[c].on].pc = "returned" /\ Answers(c, "fetched")
       \/ flight[call[c].on].pc = "failed" /\ Answers(c, "rejected")
    /\ UNCHANGED <<readVars, stored, written, flight, inflight>>

FlightGoes(f, pc) == flight' = [flight EXCEPT ![f].pc = pc] /\ UNCHANGED inflight

(* Mutant: a flight that lands forgets the flight of the key, whose ever.  *)
LandsForgetful(f, pc) ==
    /\ flight' = [flight EXCEPT ![f].pc = pc]
    /\ inflight' = NoCall

(* finally: a flight that is still the one of the key is forgotten. *)
Lands(f, pc) ==
    /\ flight' = [flight EXCEPT ![f].pc = pc]
    /\ inflight' = IF inflight = f THEN NoCall ELSE inflight

(* Mutant: the value is written, superseded or not. *)
FnReturnsAnyway(f) ==
    /\ flight[f].pc = "fn"
    /\ FlightGoes(f, "writing")
    /\ Stores("value", options.stale, flight[f].born, FALSE)
    /\ UNCHANGED <<readVars, call>>

(* The value is written unless the flight was superseded; the storage may  *)
(* refuse it.                                                              *)
FnReturns(f) ==
    /\ flight[f].pc = "fn"
    /\ \/ flight[f].superseded /\ Lands(f, "returned") /\ UNCHANGED <<stored, written>>
       \/ ~flight[f].superseded /\ FlightGoes(f, "writing")
             /\ Stores("value", options.stale, flight[f].born, FALSE)
       \/ ~flight[f].superseded /\ FlightGoes(f, "refused") /\ UNCHANGED <<stored, written>>
    /\ UNCHANGED <<readVars, call>>

(* fn throws, or the storage refused its value: the error is remembered if *)
(* the options say so, and if the storage takes it.  A revalidation, which *)
(* its caller does not wait for, reports it first.                         *)
Remembered(f) == options.negative /\ ~flight[f].superseded
Revalidation(f) == call[f].on # f

FnThrows(f) ==
    /\ flight[f].pc \in {"fn", "refused"}
    /\ IF Remembered(f) \/ Revalidation(f) THEN FlightGoes(f, "failing") ELSE Lands(f, "failed")
    /\ \/ Remembered(f) /\ Stores("error", FALSE, flight[f].born, FALSE)
       \/ UNCHANGED <<stored, written>>
    /\ UNCHANGED <<readVars, call>>

FlightEnds(f) ==
    /\ \/ flight[f].pc = "writing" /\ Lands(f, "returned")
       \/ flight[f].pc = "failing" /\ Lands(f, "failed")
    /\ UNCHANGED <<readVars, stored, written, call>>

---------------------------------------------------------------------------
(* supersede() *)
Supersedes ==
    /\ flight' = [f \in Calls |->
          IF f = inflight THEN [flight[f] EXCEPT !.superseded = TRUE] ELSE flight[f]]
    /\ inflight' = NoCall

Edit ==
    /\ epoch < MaxEdits /\ epoch' = epoch + 1
    /\ Supersedes
    /\ UNCHANGED <<options, call>>

Set ==
    /\ Edit
    /\ Stores("value", FALSE, epoch + 1, FALSE)
    /\ floor' = epoch + 1
    /\ UNCHANGED clearing

Delete ==
    /\ Edit
    /\ Drops
    /\ floor' = epoch + 1
    /\ UNCHANGED clearing

(* The storage refuses the call, and so does the promise. *)
EditFails == Edit /\ UNCHANGED <<stored, written, floor, clearing>>

(* clear() and invalidatePrefix() ask for the keys first. *)
Clear ==
    /\ ~clearing.on
    /\ Edit
    /\ clearing' = [on |-> TRUE, present |-> stored.kind # "none", epoch |-> epoch + 1]
    /\ UNCHANGED <<stored, written, floor>>

ClearEnds ==
    /\ clearing.on
    /\ IF clearing.present THEN Drops ELSE UNCHANGED <<stored, written>>
    /\ floor' = IF floor < clearing.epoch THEN clearing.epoch ELSE floor
    /\ clearing' = NoClear
    /\ UNCHANGED <<options, call, flight, inflight, epoch>>

ClearFails ==
    /\ clearing.on
    /\ clearing' = NoClear
    /\ UNCHANGED <<options, stored, written, call, flight, inflight, epoch, floor>>

---------------------------------------------------------------------------
(* Time passes for an entry in the storage or just read: until is over, or *)
(* staleUntil.                                                             *)
Older(e) ==
    [e EXCEPT !.age = IF e.age = "fresh" /\ e.window THEN "stale" ELSE "expired"]

Reading == {c \in Calls : call[c].pc = "read"}

Ages(id) ==
    /\ stored' = IF stored.id = id THEN Older(stored) ELSE stored
    /\ call' = [c \in Calls |->
          IF c \in Reading /\ call[c].snap.id = id
          THEN [call[c] EXCEPT !.snap = Older(@)] ELSE call[c]]
    /\ UNCHANGED <<readVars, written, flight, inflight>>

TimePasses ==
    \E e \in {stored} \cup {call[c].snap : c \in Reading} :
       e.kind # "none" /\ e.age # "expired" /\ Ages(e.id)

(* The storage evicts the entry, or the delete() of a sweep comes, which   *)
(* saw an expired one here.                                                *)
Evict ==
    /\ stored.kind # "none"
    /\ Drops
    /\ UNCHANGED <<readVars, call, flight, inflight>>

CallStep(c) == ReadEntry(c) \/ ReadEnds(c) \/ Miss(c) \/ ServeStale(c) \/ Land(c)
FlightStep(f) == FnReturns(f) \/ FnThrows(f) \/ FlightEnds(f)

Next ==
    \/ \E c \in Calls : \/ \E op \in {"get", "wrap"} : Begin(c, op)
                        \/ CallStep(c) \/ FlightStep(c)
    \/ Set \/ Delete \/ EditFails \/ Clear \/ ClearEnds \/ ClearFails
    \/ TimePasses \/ Evict

Spec == Init /\ [][Next]_vars

(* The storage answers, and fn returns or throws. *)
FairSpec ==
    /\ Spec
    /\ \A c \in Calls : WF_vars(CallStep(c)) /\ WF_vars(FlightStep(c))

---------------------------------------------------------------------------
(* No value from before an invalidation that was carried out is in the     *)
(* storage, however long its fetch took ("so the (now outdated) result is  *)
(* never written back"); but for one a sliding refresh brought back.       *)
StoredIsCurrent ==
    stored.kind # "none" => stored.born >= floor \/ stored.back

(* Nor is one served to a call made after it: not from the storage, and    *)
(* not by joining a flight that took off before.                           *)
ServedIsCurrent ==
    \A c \in Calls :
       /\ call[c].answer = "stored" => call[c].snap.born >= call[c].since \/ call[c].snap.back
       /\ call[c].answer = "fetched" => flight[call[c].on].born >= call[c].since

NothingOutdated == StoredIsCurrent /\ ServedIsCurrent

(* "share one in-flight call": of the flights no edit has superseded, one  *)
(* at most is under way, and it is the one that further calls will join:   *)
(* none joins a flight that is over, or begins a second one.               *)
OneFetch ==
    \A f \in Calls : flight[f].pc \in Running /\ ~flight[f].superseded <=> inflight = f

(* Every call is answered, whatever happens to the flight it joined. *)
CallsReturn == \A c \in Calls : call[c].pc = "read" ~> call[c].pc = "done"

=============================================================================
