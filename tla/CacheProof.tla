----------------------------- MODULE CacheProof -----------------------------
(***************************************************************************)
(* Proofs about Cache, for every set of calls, every choice of options and *)
(* any number of invalidations: nothing outdated is stored or served, and  *)
(* misses share one fetch.                                                 *)
(***************************************************************************)
EXTENDS Cache, TLAPS

\* No copy is from a later epoch than the history tells.
Epochs ==
    /\ floor <= epoch /\ clearing.epoch <= epoch
    /\ \A c \in Calls : call[c].since <= floor

\* The flight that calls may join was begun in this epoch.
Flights ==
    /\ OneFetch
    /\ \A f \in Calls : inflight = f => flight[f].born = epoch

\* What is stored is from the last invalidation, and from a clear() under
\* way that found no entry, for it will not drop this one.
Current ==
    /\ StoredIsCurrent
    /\ clearing.on /\ ~clearing.present /\ stored.kind # "none"
          => stored.born >= clearing.epoch \/ stored.back

\* Entries are told apart by their numbers.
Numbered(e) == e.kind # "none" => 0 < e.id /\ e.id <= written
SameAsStored(e) ==
    e.kind # "none" /\ e.id = stored.id
       => stored.kind # "none" /\ stored.born = e.born /\ stored.back = e.back

Copies ==
    /\ Numbered(stored)
    /\ \A c \in Calls : Numbered(call[c].snap) /\ SameAsStored(call[c].snap)

Early == {"idle", "read", "dropping", "refreshing", "missed", "stale"}

\* A call begins no second flight, joins none older than itself, and acts on
\* a copy that is not outdated for it.
CallOK(c) ==
    /\ call[c].pc # "done" => call[c].answer = "none"
    /\ call[c].pc \in Early => flight[c].pc = "none"
    /\ call[c].pc = "waiting" \/ call[c].answer = "fetched"
          => /\ call[c].on \in Calls /\ flight[call[c].on].pc # "none"
             /\ flight[call[c].on].born >= call[c].since
    /\ call[c].snap.kind # "none" => call[c].snap.born >= call[c].since \/ call[c].snap.back
    /\ call[c].pc \in {"stale", "refreshing"} \/ call[c].answer = "stored"
          => call[c].snap.kind = "value"

Calling == \A c \in Calls : CallOK(c)

IInv == TypeOK /\ Epochs /\ Flights /\ Current /\ Copies /\ Calling

USE DEF readVars
-----------------------------------------------------------------------------
(* What a step can do to the storage, and to the flights *)

StorageStep ==
    \/ UNCHANGED <<stored, written>>
    \/ Drops
    \/ stored' = Older(stored) /\ UNCHANGED written
    \/ \E kind \in {"value", "error"}, window \in BOOLEAN :
          Stores(kind, window, epoch', FALSE)
    \/ \E c \in Calls :
          LET e == call[c].snap IN
          /\ e.kind = "value"
          /\ Stores("value", e.window, e.born, e.back \/ stored.id # e.id)

SkyStep ==
    \/ UNCHANGED <<flight, inflight, epoch>>
    \/ \E c \in Calls : /\ flight[c].pc = "none" /\ inflight = NoCall /\ TakesOff(c)
                        /\ call'[c].pc \notin Early /\ epoch' = epoch
    \/ \E f \in Calls, pc \in Running :
          flight[f].pc \in Running /\ FlightGoes(f, pc) /\ epoch' = epoch
    \/ \E f \in Calls, pc \in {"returned", "failed"} :
          flight[f].pc \in Running /\ Lands(f, pc) /\ epoch' = epoch
    \/ Supersedes /\ epoch' = epoch + 1

LEMMA StepOfStorage ==
    ASSUME IInv, [Next]_vars
    PROVE  StorageStep
<1> USE DEF StorageStep
<1>1. ASSUME NEW c \in Calls, NEW op \in {"get", "wrap"}, Begin(c, op)
      PROVE  StorageStep
  BY <1>1 DEF Begin
<1>2. ASSUME NEW c \in Calls, ReadEntry(c)
      PROVE  StorageStep
  BY <1>2 DEF ReadEntry, ReadMissing, ReadExpired, ReadTombstone, ReadFresh, ReadStale, ReadFails
<1>3. ASSUME NEW c \in Calls, ReadEnds(c) \/ Miss(c) \/ ServeStale(c) \/ Land(c) \/ FlightEnds(c)
      PROVE  StorageStep
  BY <1>3 DEF ReadEnds, Miss, ServeStale, Land, FlightEnds
<1>4. ASSUME NEW c \in Calls, FnReturns(c) \/ FnThrows(c)
      PROVE  StorageStep
  <2>1. flight[c].pc \in Running /\ epoch' = epoch
    BY <1>4 DEF FnReturns, FnThrows, Running
  <2>2. ~flight[c].superseded => flight[c].born = epoch'
    BY <2>1 DEF IInv, Flights, OneFetch
  <2>3. options.stale \in BOOLEAN
    BY CacheAssumption DEF IInv, TypeOK
  <2> QED
    BY <1>4, <2>2, <2>3 DEF FnReturns, FnThrows, Remembered
<1>5. CASE Set \/ Delete \/ EditFails \/ Clear \/ ClearEnds \/ ClearFails
  BY <1>5 DEF Set, Delete, EditFails, Clear, ClearEnds, ClearFails, Edit
<1>6. CASE TimePasses \/ Evict
  BY <1>6 DEF TimePasses, Ages, Evict
<1>7. CASE UNCHANGED vars
  BY <1>7 DEF vars
<1> QED
  BY <1>1, <1>2, <1>3, <1>4, <1>5, <1>6, <1>7 DEF Next, CallStep, FlightStep

LEMMA StepOfFlights ==
    ASSUME IInv, [Next]_vars
    PROVE  SkyStep
<1> USE DEF SkyStep
<1>1. ASSUME NEW c \in Calls, NEW op \in {"get", "wrap"}, Begin(c, op)
      PROVE  SkyStep
  BY <1>1 DEF Begin
<1>2. ASSUME NEW c \in Calls, ReadEntry(c) \/ ReadEnds(c) \/ Land(c)
      PROVE  SkyStep
  BY <1>2 DEF ReadEntry, ReadEnds, Land
<1>3. ASSUME NEW c \in Calls, Miss(c) \/ ServeStale(c)
      PROVE  SkyStep
  <2>1. flight[c].pc = "none"
    BY <1>3 DEF IInv, Calling, CallOK, Early, Miss, ServeStale
  <2>2. TakesOff(c) => call'[c].pc \in {"waiting", "done"}
    BY <1>3 DEF Miss, ServeStale, Answers, TakesOff, IInv, TypeOK
  <2> QED
    BY <1>3, <2>1, <2>2 DEF Miss, ServeStale, Early
<1>4. ASSUME NEW c \in Calls, FnReturns(c) \/ FnThrows(c) \/ FlightEnds(c)
      PROVE  SkyStep
  BY <1>4 DEF FnReturns, FnThrows, FlightEnds, Running
<1>5. CASE Set \/ Delete \/ EditFails \/ Clear
  BY <1>5 DEF Set, Delete, EditFails, Clear, Edit
<1>6. CASE ClearEnds \/ ClearFails \/ TimePasses \/ Evict
  BY <1>6 DEF ClearEnds, ClearFails, TimePasses, Ages, Evict
<1>7. CASE UNCHANGED vars
  BY <1>7 DEF vars
<1> QED
  BY <1>1, <1>2, <1>3, <1>4, <1>5, <1>6, <1>7 DEF Next, CallStep, FlightStep

\* What a step can do to the history.
HistoryStep ==
    /\ options' = options
    /\ \/ UNCHANGED <<epoch, floor, clearing>>
       \/ epoch' = epoch + 1 /\ floor' \in {floor, epoch + 1} /\ clearing' = clearing
       \/ /\ epoch' = epoch + 1 /\ floor' = floor
          /\ clearing' = [on |-> TRUE, present |-> stored.kind # "none", epoch |-> epoch + 1]
       \/ /\ epoch' = epoch /\ floor' \in {floor, clearing.epoch} /\ floor <= floor'
          /\ clearing' = NoClear

LEMMA StepOfHistory ==
    ASSUME IInv, [Next]_vars
    PROVE  HistoryStep
<1> USE DEF HistoryStep
<1>1. CASE Set \/ Delete \/ EditFails
  BY <1>1, Zenon DEF Set, Delete, EditFails, Edit
<1>2. CASE Clear
  BY <1>2 DEF Clear, Edit
<1>3. CASE ClearEnds \/ ClearFails
  BY <1>3 DEF ClearEnds, ClearFails, IInv, TypeOK
<1>4. CASE ~(Set \/ Delete \/ EditFails \/ Clear \/ ClearEnds \/ ClearFails)
  <2>1. UNCHANGED <<options, epoch, floor, clearing>>
    BY <1>4 DEF Next, vars, Begin, CallStep, ReadEntry, ReadEnds, Miss, ServeStale, Land,
                FlightStep, FnReturns, FnThrows, FlightEnds, TimePasses, Ages, Evict
  <2> QED
    BY <2>1
<1> QED
  BY <1>1, <1>2, <1>3, <1>4

\* What a step can do to the calls.
CallsStep ==
    \/ UNCHANGED call
    \/ \E c \in Calls, op \in {"get", "wrap"} : Begin(c, op)
    \/ \E c \in Calls, pc \in {"missed", "dropping", "refreshing", "stale"} :
          /\ call[c].pc \in Early /\ Goes(c, pc)
          /\ pc \in {"refreshing", "stale"} => call[c].snap.kind = "value"
    \/ \E c \in Calls, answer \in {"stored", "missing", "rejected"} :
          /\ Answers(c, answer)
          /\ answer = "stored" => call[c].snap.kind = "value"
    \/ \E c \in Calls : call[c].pc = "waiting" /\ Answers(c, "fetched")
    \/ \E c, f \in Calls :
          /\ call' = [call EXCEPT ![c].pc = "waiting", ![c].on = f]
          /\ call[c].pc = "missed"
          /\ flight'[f].pc # "none" /\ flight'[f].born = epoch
    \/ \E id \in Nat : Ages(id)

LEMMA StepOfCalls ==
    ASSUME IInv, [Next]_vars
    PROVE  CallsStep
<1> USE DEF CallsStep
<1>1. ASSUME NEW c \in Calls, NEW op \in {"get", "wrap"}, Begin(c, op)
      PROVE  CallsStep
  BY <1>1
<1>2. ASSUME NEW c \in Calls, ReadEntry(c)
      PROVE  CallsStep
  BY <1>2 DEF ReadEntry, ReadMissing, ReadExpired, ReadTombstone, ReadFresh, ReadStale, ReadFails,
              Early
<1>3. ASSUME NEW c \in Calls, ReadEnds(c) \/ ServeStale(c) \/ Land(c)
      PROVE  CallsStep
  <2>1. CASE ReadEnds(c) \/ ServeStale(c)
    <3>1. call[c].snap.kind = "value" \/ call[c].pc = "dropping"
      BY <2>1 DEF ReadEnds, ServeStale, IInv, Calling, CallOK
    <3> QED
      BY <2>1, <3>1 DEF ReadEnds, ServeStale, Early
  <2>2. CASE Land(c)
    BY <2>2 DEF Land
  <2> QED
    BY <1>3, <2>1, <2>2
<1>4. ASSUME NEW c \in Calls, Miss(c)
      PROVE  CallsStep
  <2>1. CASE call[c].op = "get"
    BY <1>4, <2>1 DEF Miss
  <2>2. CASE call[c].op # "get" /\ inflight # NoCall
    <3>1. /\ inflight \in Calls
          /\ flight[inflight].pc \in Running /\ flight[inflight].born = epoch
      BY <2>2 DEF IInv, TypeOK, Flights, OneFetch
    <3>2. flight[inflight].pc # "none"
      BY <3>1 DEF Running
    <3> QED
      BY <1>4, <2>2, <3>1, <3>2 DEF Miss
  <2>3. CASE call[c].op # "get" /\ inflight = NoCall
    <3>1. flight'[c].pc = "fn" /\ flight'[c].born = epoch
      BY <1>4, <2>3 DEF Miss, TakesOff, IInv, TypeOK
    <3> QED
      BY <1>4, <2>3, <3>1 DEF Miss
  <2> QED
    BY <2>1, <2>2, <2>3
<1>5. ASSUME NEW c \in Calls, FlightStep(c)
      PROVE  CallsStep
  BY <1>5 DEF FlightStep, FlightEnds, FnReturns, FnThrows
<1>6. CASE Set \/ Delete \/ EditFails \/ Clear \/ ClearEnds \/ ClearFails
  BY <1>6 DEF Set, Delete, EditFails, Clear, ClearEnds, ClearFails, Edit
<1>7. CASE TimePasses
  <2>1. stored.id \in Nat /\ \A c \in Calls : call[c].snap.id \in Nat
    BY DEF IInv, TypeOK, Entry
  <2> QED
    BY <1>7, <2>1 DEF TimePasses, Reading
<1>8. CASE Evict \/ UNCHANGED vars
  BY <1>8 DEF Evict, vars
<1> QED
  BY <1>1, <1>2, <1>3, <1>4, <1>5, <1>6, <1>7, <1>8 DEF Next, CallStep

-----------------------------------------------------------------------------
(* Types *)

LEMMA EntryTyped ==
    ASSUME TypeOK, StorageStep, epoch' \in Nat
    PROVE  stored' \in Entry /\ written' \in Nat
<1> USE DEF Entry, TypeOK
<1>1. CASE UNCHANGED <<stored, written>>
  BY <1>1
<1>2. CASE Drops
  BY <1>2 DEF Drops, NoEntry
<1>3. CASE stored' = Older(stored) /\ UNCHANGED written
  BY <1>3 DEF Older
<1>4. ASSUME NEW kind \in {"value", "error"}, NEW window \in BOOLEAN,
             Stores(kind, window, epoch', FALSE)
      PROVE  stored' \in Entry /\ written' \in Nat
  BY <1>4 DEF Stores
<1>5. ASSUME NEW c \in Calls, NEW e \in Entry,
             Stores("value", e.window, e.born, e.back \/ stored.id # e.id)
      PROVE  stored' \in Entry /\ written' \in Nat
  BY <1>5 DEF Stores
<1>6. \A c \in Calls : call[c].snap \in Entry
  OBVIOUS
<1> QED
  BY <1>1, <1>2, <1>3, <1>4, <1>5, <1>6 DEF StorageStep

Call == [op : {"get", "wrap"},
         pc : {"idle", "read", "dropping", "refreshing", "missed", "stale", "waiting", "done"},
         since : Nat, snap : Entry, on : Calls \cup {NoCall},
         answer : {"none", "stored", "fetched", "missing", "rejected"}]

LEMMA TypeCall ==
    ASSUME TypeOK, CallsStep
    PROVE  call' \in [Calls -> Call]
<1>1. call \in [Calls -> Call]
  BY DEF TypeOK, Call
<1>2. ASSUME NEW c \in Calls, NEW op \in {"get", "wrap"}, Begin(c, op)
      PROVE  call' \in [Calls -> Call]
  BY <1>2 DEF Begin, TypeOK, Call
<1>3. ASSUME NEW c \in Calls, NEW pc \in {"missed", "dropping", "refreshing", "stale"}, Goes(c, pc)
      PROVE  call' \in [Calls -> Call]
  BY <1>3 DEF Goes, TypeOK, Call
<1>4. ASSUME NEW c \in Calls, NEW answer \in {"stored", "missing", "rejected", "fetched"},
             Answers(c, answer)
      PROVE  call' \in [Calls -> Call]
  <2> DEFINE g == [call[c] EXCEPT !.pc = "done", !.answer = answer]
  <2>1. g \in Call
    BY <1>1 DEF Call
  <2>2. call' = [call EXCEPT ![c] = g]
    BY <1>1, <1>4 DEF Answers
  <2> HIDE DEF g
  <2> QED
    BY <1>1, <2>1, <2>2
<1>5. ASSUME NEW c \in Calls, NEW f \in Calls,
             call' = [call EXCEPT ![c].pc = "waiting", ![c].on = f]
      PROVE  call' \in [Calls -> Call]
  <2> DEFINE g == [call[c] EXCEPT !.pc = "waiting", !.on = f]
  <2>1. g \in Call
    BY <1>1 DEF Call
  <2>2. call' = [call EXCEPT ![c] = g]
    BY <1>1, <1>5
  <2> HIDE DEF g
  <2> QED
    BY <1>1, <2>1, <2>2
<1>6. ASSUME NEW id \in Nat, Ages(id)
      PROVE  call' \in [Calls -> Call]
  <2>1. \A e \in Entry : Older(e) \in Entry
    BY DEF Older, Entry
  <2>2. \A c \in Calls : call'[c] \in Call
    BY <1>6, <2>1 DEF Ages, TypeOK, Call
  <2> QED
    BY <1>6, <2>2 DEF Ages
<1>7. CASE UNCHANGED call
  BY <1>1, <1>7
<1> QED
  BY <1>2, <1>3, <1>4, <1>5, <1>6, <1>7 DEF CallsStep

LEMMA TypeRest ==
    ASSUME TypeOK, HistoryStep
    PROVE  /\ options' \in Options /\ epoch' \in Nat /\ floor' \in Nat
           /\ clearing' \in [on : BOOLEAN, present : BOOLEAN, epoch : Nat]
<1> USE DEF TypeOK
<1>1. CASE UNCHANGED <<epoch, floor, clearing>>
  BY <1>1 DEF HistoryStep
<1>2. CASE epoch' = epoch + 1 /\ floor' \in {floor, epoch + 1} /\ clearing' = clearing
  BY <1>2 DEF HistoryStep
<1>3. CASE /\ epoch' = epoch + 1 /\ floor' = floor
           /\ clearing' = [on |-> TRUE, present |-> stored.kind # "none", epoch |-> epoch + 1]
  BY <1>3 DEF HistoryStep
<1>4. CASE /\ epoch' = epoch /\ floor' \in {floor, clearing.epoch} /\ floor <= floor'
           /\ clearing' = NoClear
  BY <1>4 DEF HistoryStep, NoClear
<1> QED
  BY <1>1, <1>2, <1>3, <1>4 DEF HistoryStep

Flight == [pc : Running \cup {"none", "returned", "failed"}, superseded : BOOLEAN, born : Nat]

LEMMA TypeFlights ==
    ASSUME TypeOK, SkyStep
    PROVE  flight' \in [Calls -> Flight] /\ inflight' \in Calls \cup {NoCall}
<1> USE DEF TypeOK, Flight
<1>1. CASE UNCHANGED <<flight, inflight, epoch>>
  BY <1>1
<1>2. ASSUME NEW c \in Calls, TakesOff(c)
      PROVE  flight' \in [Calls -> Flight] /\ inflight' \in Calls \cup {NoCall}
  BY <1>2 DEF TakesOff, Running
<1>3. ASSUME NEW f \in Calls, NEW pc \in Running, FlightGoes(f, pc)
      PROVE  flight' \in [Calls -> Flight] /\ inflight' \in Calls \cup {NoCall}
  BY <1>3 DEF FlightGoes
<1>4. ASSUME NEW f \in Calls, NEW pc \in {"returned", "failed"}, Lands(f, pc)
      PROVE  flight' \in [Calls -> Flight] /\ inflight' \in Calls \cup {NoCall}
  BY <1>4 DEF Lands
<1>5. CASE Supersedes
  <2>1. \A f \in Calls : [flight[f] EXCEPT !.superseded = TRUE] \in Flight
    OBVIOUS
  <2> QED
    BY <1>5, <2>1 DEF Supersedes
<1> QED
  BY <1>1, <1>2, <1>3, <1>4, <1>5 DEF SkyStep

LEMMA TypeStep ==
    ASSUME IInv, [Next]_vars
    PROVE  TypeOK'
<1>1. TypeOK
  BY DEF IInv
<1>2. flight' \in [Calls -> Flight] /\ inflight' \in Calls \cup {NoCall}
  BY <1>1, StepOfFlights, TypeFlights
<1>3. call' \in [Calls -> Call]
  BY <1>1, StepOfCalls, TypeCall
<1>4. stored' \in Entry /\ written' \in Nat
  BY <1>1, StepOfStorage, StepOfHistory, TypeRest, EntryTyped
<1> QED
  BY <1>1, <1>2, <1>3, <1>4, StepOfHistory, TypeRest DEF TypeOK, Call, Flight

-----------------------------------------------------------------------------
(* The parts of the invariant *)

LEMMA FlightsStep ==
    ASSUME TypeOK, Flights, SkyStep
    PROVE  Flights'
<1> USE DEF TypeOK, Flights, OneFetch
<1>1. NoCall \notin Calls
  BY CacheAssumption
<1>2. CASE UNCHANGED <<flight, inflight, epoch>>
  BY <1>2
<1>3. ASSUME NEW c \in Calls, flight[c].pc = "none", inflight = NoCall, TakesOff(c), epoch' = epoch
      PROVE  Flights'
  BY <1>1, <1>3 DEF TakesOff, Running
<1>4. ASSUME NEW f \in Calls, NEW pc \in Running, flight[f].pc \in Running,
             FlightGoes(f, pc), epoch' = epoch
      PROVE  Flights'
  BY <1>4 DEF FlightGoes
<1>5. ASSUME NEW f \in Calls, NEW pc \in {"returned", "failed"}, flight[f].pc \in Running,
             Lands(f, pc), epoch' = epoch
      PROVE  Flights'
  BY <1>1, <1>5 DEF Lands, Running
<1>6. CASE Supersedes /\ epoch' = epoch + 1
  BY <1>1, <1>6 DEF Supersedes
<1> QED
  BY <1>2, <1>3, <1>4, <1>5, <1>6 DEF SkyStep

LEMMA Floors ==
    ASSUME IInv, HistoryStep
    PROVE  floor <= floor' /\ floor' <= epoch' /\ clearing'.epoch <= epoch' /\ epoch <= epoch'
BY DEF IInv, TypeOK, Epochs, HistoryStep, NoClear

LEMMA EpochsStep ==
    ASSUME IInv, [Next]_vars
    PROVE  Epochs'
<1> USE DEF IInv, TypeOK
<1>1. ASSUME NEW c \in Calls
      PROVE  call'[c].since <= floor'
  <2>1. call[c].since \in Nat /\ floor \in Nat /\ floor' \in Nat /\ call[c].since <= floor
    BY StepOfHistory, TypeRest DEF Epochs
  <2>2. call'[c].since \in {call[c].since, floor}
    <3>1. CASE UNCHANGED call
      BY <3>1
    <3>2. ASSUME NEW d \in Calls, NEW op \in {"get", "wrap"}, Begin(d, op)
          PROVE  call'[c].since \in {call[c].since, floor}
      BY <3>2 DEF Begin
    <3>3. ASSUME NEW d \in Calls, NEW pc, Goes(d, pc)
          PROVE  call'[c].since \in {call[c].since, floor}
      BY <3>3 DEF Goes
    <3>4. ASSUME NEW d \in Calls, NEW answer, Answers(d, answer)
          PROVE  call'[c].since \in {call[c].since, floor}
      BY <3>4 DEF Answers
    <3>5. ASSUME NEW d \in Calls, NEW f, call' = [call EXCEPT ![d].pc = "waiting", ![d].on = f]
          PROVE  call'[c].since \in {call[c].since, floor}
      BY <3>5
    <3>6. ASSUME NEW id, Ages(id)
          PROVE  call'[c].since \in {call[c].since, floor}
      BY <3>6 DEF Ages
    <3> QED
      BY <3>1, <3>2, <3>3, <3>4, <3>5, <3>6, StepOfCalls DEF CallsStep
  <2> QED
    BY <2>1, <2>2, StepOfHistory, Floors
<1> QED
  BY <1>1, StepOfHistory, Floors DEF Epochs

\* A step that carries no invalidation out keeps what is stored current.
LEMMA StorageKept ==
    ASSUME IInv, StorageStep, UNCHANGED <<floor, clearing>>, epoch' \in Nat, epoch <= epoch'
    PROVE  Current'
<1> USE DEF IInv, TypeOK, Entry, Current, StoredIsCurrent
<1>1. CASE UNCHANGED <<stored, written>>
  BY <1>1
<1>2. CASE Drops
  BY <1>2 DEF Drops, NoEntry
<1>3. CASE stored' = Older(stored)
  BY <1>3 DEF Older
<1>4. ASSUME NEW kind, NEW window, Stores(kind, window, epoch', FALSE)
      PROVE  Current'
  BY <1>4 DEF Stores, Epochs
<1>5. ASSUME NEW c \in Calls, call[c].snap.kind = "value",
             Stores("value", call[c].snap.window, call[c].snap.born,
                    call[c].snap.back \/ stored.id # call[c].snap.id)
      PROVE  Current'
  <2>1. stored'.born = call[c].snap.born
    BY <1>5 DEF Stores
  <2>2. stored'.back = (call[c].snap.back \/ stored.id # call[c].snap.id)
    BY <1>5 DEF Stores
  <2>3. CASE call[c].snap.back \/ stored.id # call[c].snap.id
    BY <2>2, <2>3
  <2>4. CASE ~call[c].snap.back /\ stored.id = call[c].snap.id
    <3>1. /\ stored.kind # "none" /\ stored.born = call[c].snap.born
          /\ stored.back = call[c].snap.back
      BY <1>5, <2>4 DEF Copies, SameAsStored
    <3> QED
      BY <2>1, <2>4, <3>1
  <2> QED
    BY <2>3, <2>4
<1> QED
  BY <1>1, <1>2, <1>3, <1>4, <1>5 DEF StorageStep

LEMMA CurrentStep ==
    ASSUME IInv, [Next]_vars
    PROVE  Current'
<1>1. epoch' \in Nat /\ epoch <= epoch'
  BY StepOfHistory, TypeRest, Floors DEF IInv
<1>2. CASE UNCHANGED <<floor, clearing>>
  BY <1>1, <1>2, StepOfStorage, StorageKept
<1> USE DEF IInv, TypeOK, Entry, Current, StoredIsCurrent
<1>3. CASE Set
  <2>1. stored'.born = epoch + 1
    BY <1>3 DEF Set, Stores
  <2>2. floor' = epoch + 1 /\ clearing' = clearing
    BY <1>3, Zenon DEF Set
  <2> QED
    BY <2>1, <2>2 DEF Epochs
<1>4. CASE Delete
  BY <1>4 DEF Delete, Drops, NoEntry
<1>5. CASE Clear
  BY <1>5 DEF Clear
<1>6. CASE ClearEnds
  BY <1>6 DEF ClearEnds, Drops, NoEntry, NoClear
<1>7. CASE ClearFails
  BY <1>7 DEF ClearFails, NoClear
<1>8. CASE ~(Set \/ Delete \/ Clear \/ ClearEnds \/ ClearFails)
  <2>1. UNCHANGED <<floor, clearing>>
    BY <1>8 DEF Next, vars, Begin, CallStep, ReadEntry, ReadEnds, Miss, ServeStale, Land,
                FlightStep, FnReturns, FnThrows, FlightEnds, TimePasses, Ages, Evict, EditFails
  <2> QED
    BY <1>2, <2>1
<1> QED
  BY <1>3, <1>4, <1>5, <1>6, <1>7, <1>8

\* The copies that calls hold change when they read, and with time.
LEMMA SnapsKept ==
    ASSUME TypeOK, CallsStep
    PROVE  \/ \A c \in Calls : call'[c].snap = call[c].snap
           \/ \E c \in Calls, op \in {"get", "wrap"} : Begin(c, op)
           \/ \E id \in Nat : Ages(id)
<1> USE DEF TypeOK
<1>1. ASSUME NEW c \in Calls, NEW d \in Calls, NEW pc, Goes(d, pc)
      PROVE  call'[c].snap = call[c].snap
  BY <1>1 DEF Goes
<1>2. ASSUME NEW c \in Calls, NEW d \in Calls, NEW answer, Answers(d, answer)
      PROVE  call'[c].snap = call[c].snap
  BY <1>2 DEF Answers
<1>3. ASSUME NEW c \in Calls, NEW d \in Calls, NEW f,
             call' = [call EXCEPT ![d].pc = "waiting", ![d].on = f]
      PROVE  call'[c].snap = call[c].snap
  BY <1>3
<1> HIDE DEF TypeOK
<1> QED
  BY <1>1, <1>2, <1>3 DEF CallsStep

LEMMA CopiesStep ==
    ASSUME IInv, [Next]_vars
    PROVE  Copies'
<1> USE DEF Numbered, SameAsStored
<1>0. /\ stored \in Entry /\ written \in Nat
      /\ \A c \in Calls : call[c].snap \in Entry
      /\ Copies
  BY DEF IInv, TypeOK
<1>1. CASE \A c \in Calls : call'[c].snap = call[c].snap
  <2>1. CASE UNCHANGED <<stored, written>>
    BY <1>0, <1>1, <2>1 DEF Copies
  <2>2. CASE Drops
    BY <1>0, <1>1, <2>2 DEF Copies, Drops, NoEntry, Entry
  <2>3. CASE stored' = Older(stored) /\ UNCHANGED written
    BY <1>0, <1>1, <2>3 DEF Copies, Older, Entry
  <2>4. ASSUME NEW kind, NEW window, NEW born, NEW back, Stores(kind, window, born, back)
        PROVE  Copies'
    <3>1. written' = written + 1 /\ stored'.id = written + 1
      BY <2>4 DEF Stores
    <3> QED
      BY <1>0, <1>1, <3>1 DEF Copies, Entry
  <2> QED
    BY <2>1, <2>2, <2>3, <2>4, StepOfStorage DEF StorageStep
<1>2. ASSUME NEW c \in Calls, NEW op \in {"get", "wrap"}, Begin(c, op)
      PROVE  Copies'
  <2>1. UNCHANGED <<stored, written>>
    BY <1>2 DEF Begin
  <2>2. \A d \in Calls : call'[d].snap \in {call[d].snap, stored}
    BY <1>2 DEF Begin, IInv, TypeOK
  <2> QED
    BY <1>0, <2>1, <2>2 DEF Copies
<1>3. ASSUME NEW id \in Nat, Ages(id)
      PROVE  Copies'
  <2>1. stored' \in {stored, Older(stored)} /\ written' = written
    BY <1>3 DEF Ages
  <2>2. \A d \in Calls : call'[d].snap \in {call[d].snap, Older(call[d].snap)}
    BY <1>3 DEF Ages, IInv, TypeOK
  <2>3. \A e \in Entry : /\ Older(e).id = e.id /\ Older(e).kind = e.kind
                         /\ Older(e).born = e.born /\ Older(e).back = e.back
    BY DEF Older, Entry
  <2> QED
    BY <1>0, <2>1, <2>2, <2>3 DEF Copies
<1> QED
  BY <1>1, <1>2, <1>3, StepOfCalls, SnapsKept DEF IInv

LEMMA FlightKept ==
    ASSUME TypeOK, SkyStep, NEW f \in Calls
    PROVE  /\ flight[f].pc # "none"
                 => flight'[f].pc # "none" /\ flight'[f].born = flight[f].born
           /\ flight[f].pc = "none" /\ call'[f].pc \in Early => flight'[f].pc = "none"
<1> USE DEF TypeOK
<1>1. CASE UNCHANGED <<flight, inflight, epoch>>
  BY <1>1
<1>2. ASSUME NEW c \in Calls, flight[c].pc = "none", call'[c].pc \notin Early, TakesOff(c)
      PROVE  /\ flight[f].pc # "none"
                   => flight'[f].pc # "none" /\ flight'[f].born = flight[f].born
             /\ flight[f].pc = "none" /\ call'[f].pc \in Early => flight'[f].pc = "none"
  BY <1>2 DEF TakesOff
<1>3. ASSUME NEW c \in Calls, flight[c].pc \in Running, NEW pc \in Running \cup {"returned", "failed"},
             flight' = [flight EXCEPT ![c].pc = pc]
      PROVE  /\ flight[f].pc # "none"
                   => flight'[f].pc # "none" /\ flight'[f].born = flight[f].born
             /\ flight[f].pc = "none" /\ call'[f].pc \in Early => flight'[f].pc = "none"
  BY <1>3 DEF Running
<1>4. CASE Supersedes
  BY <1>4 DEF Supersedes
<1> QED
  BY <1>1, <1>2, <1>3, <1>4 DEF SkyStep, FlightGoes, Lands

\* A call that stays where it is stays well.
LEMMA CallKept ==
    ASSUME IInv, [Next]_vars, NEW c \in Calls,
           \/ call'[c] = call[c]
           \/ \E id \in Nat : Ages(id)
    PROVE  CallOK(c)'
<1>1. /\ CallOK(c) /\ call[c].snap \in Entry
      /\ call[c].on \in Calls
            => /\ flight[call[c].on].pc # "none" => flight'[call[c].on].pc # "none"
               /\ flight[call[c].on].pc # "none"
                     => flight'[call[c].on].born = flight[call[c].on].born
      /\ flight[c].pc = "none" /\ call'[c].pc \in Early => flight'[c].pc = "none"
  BY StepOfFlights, FlightKept DEF IInv, TypeOK, Calling
<1>2. CASE call'[c] = call[c]
  BY <1>1, <1>2 DEF CallOK
<1>3. ASSUME NEW id \in Nat, Ages(id)
      PROVE  CallOK(c)'
  <2>1. call'[c] \in {call[c], [call[c] EXCEPT !.snap = Older(call[c].snap)]}
    BY <1>3 DEF Ages, IInv, TypeOK
  <2>2. /\ call'[c].pc = call[c].pc /\ call'[c].answer = call[c].answer
        /\ call'[c].since = call[c].since /\ call'[c].on = call[c].on
        /\ call'[c].snap \in {call[c].snap, Older(call[c].snap)}
    BY <2>1 DEF IInv, TypeOK
  <2>3. /\ call'[c].snap.kind = call[c].snap.kind /\ call'[c].snap.born = call[c].snap.born
        /\ call'[c].snap.back = call[c].snap.back
    BY <1>1, <2>2 DEF Older, Entry
  <2> QED
    BY <1>1, <2>2, <2>3 DEF CallOK
<1> QED
  BY <1>2, <1>3

LEMMA CallingStep ==
    ASSUME IInv, [Next]_vars
    PROVE  Calling'
<1> SUFFICES ASSUME NEW c \in Calls
             PROVE  CallOK(c)'
  BY DEF Calling
<1>0. CallOK(c) /\ TypeOK /\ SkyStep
  BY StepOfFlights DEF IInv, Calling
<1>1. CASE call'[c] = call[c] \/ \E id \in Nat : Ages(id)
  BY <1>1, CallKept
<1>2. ASSUME NEW op \in {"get", "wrap"}, Begin(c, op)
      PROVE  CallOK(c)'
  <2>1. /\ call[c].pc = "idle" /\ call'[c].pc = "read" /\ call'[c].answer = call[c].answer
        /\ call'[c].since = floor /\ call'[c].snap = stored
        /\ UNCHANGED flight
    BY <1>0, <1>2 DEF Begin, TypeOK
  <2>2. stored.kind # "none" => stored.born >= floor \/ stored.back
    BY DEF IInv, Current, StoredIsCurrent
  <2> QED
    BY <1>0, <2>1, <2>2 DEF CallOK, Early
<1>3. ASSUME NEW pc \in {"missed", "dropping", "refreshing", "stale"},
             call[c].pc \in Early, Goes(c, pc),
             pc \in {"refreshing", "stale"} => call[c].snap.kind = "value"
      PROVE  CallOK(c)'
  <2>1. /\ call'[c].pc = pc /\ call'[c].answer = call[c].answer
        /\ call'[c].since = call[c].since /\ call'[c].snap = call[c].snap
    BY <1>0, <1>3 DEF Goes, TypeOK
  <2>2. pc \in Early
    BY DEF Early
  <2>3. call[c].answer = "none" /\ flight'[c].pc = "none"
    BY <1>0, <1>3, <2>1, <2>2, FlightKept DEF CallOK, Early
  <2> QED
    BY <1>0, <1>3, <2>1, <2>3 DEF CallOK
<1>4. ASSUME NEW answer \in {"stored", "missing", "rejected", "fetched"}, Answers(c, answer),
             answer = "stored" => call[c].snap.kind = "value",
             answer = "fetched" => call[c].pc = "waiting"
      PROVE  CallOK(c)'
  <2> DEFINE g == [call[c] EXCEPT !.pc = "done", !.answer = answer]
  <2>1. call' = [call EXCEPT ![c] = g]
    BY <1>0, <1>4 DEF Answers, TypeOK
  <2>2. /\ g.pc = "done" /\ g.answer = answer /\ g.since = call[c].since
        /\ g.snap = call[c].snap /\ g.on = call[c].on
    BY <1>0 DEF TypeOK
  <2> HIDE DEF g
  <2>3. /\ call'[c].pc = "done" /\ call'[c].answer = answer
        /\ call'[c].since = call[c].since /\ call'[c].snap = call[c].snap
        /\ call'[c].on = call[c].on
    BY <1>0, <2>1, <2>2 DEF TypeOK
  <2>4. answer = "fetched"
           => /\ call[c].on \in Calls /\ flight'[call[c].on].pc # "none"
              /\ flight'[call[c].on].born >= call[c].since
    BY <1>0, <1>4, FlightKept DEF CallOK
  <2> QED
    BY <1>0, <1>4, <2>3, <2>4 DEF CallOK, Early
<1>5. ASSUME NEW f \in Calls,
             call' = [call EXCEPT ![c].pc = "waiting", ![c].on = f],
             call[c].pc = "missed",
             flight'[f].pc # "none", flight'[f].born = epoch
      PROVE  CallOK(c)'
  <2> DEFINE g == [call[c] EXCEPT !.pc = "waiting", !.on = f]
  <2>1. call' = [call EXCEPT ![c] = g]
    BY <1>0, <1>5 DEF TypeOK
  <2>2. /\ g.pc = "waiting" /\ g.on = f /\ g.since = call[c].since
        /\ g.snap = call[c].snap /\ g.answer = call[c].answer
    BY <1>0 DEF TypeOK
  <2> HIDE DEF g
  <2>3. /\ call'[c].pc = "waiting" /\ call'[c].answer = call[c].answer
        /\ call'[c].since = call[c].since /\ call'[c].snap = call[c].snap
        /\ call'[c].on = f
    BY <1>0, <2>1, <2>2 DEF TypeOK
  <2>4. epoch >= call[c].since
    BY DEF IInv, TypeOK, Epochs
  <2> QED
    BY <1>0, <1>5, <2>3, <2>4 DEF CallOK, Early
<1>6. ASSUME NEW d \in Calls, d # c,
             \/ \E op \in {"get", "wrap"} : Begin(d, op)
             \/ \E pc \in {"missed", "dropping", "refreshing", "stale"} : Goes(d, pc)
             \/ \E answer \in {"stored", "missing", "rejected", "fetched"} : Answers(d, answer)
             \/ \E f \in Calls : call' = [call EXCEPT ![d].pc = "waiting", ![d].on = f]
      PROVE  call'[c] = call[c]
  BY <1>0, <1>6 DEF TypeOK, Begin, Goes, Answers
<1>7. CallsStep
  BY StepOfCalls
<1> QED
  BY <1>1, <1>2, <1>3, <1>4, <1>5, <1>6, <1>7 DEF CallsStep

-----------------------------------------------------------------------------
(* The theorems *)

LEMMA InitHolds == Init => IInv
<1> SUFFICES ASSUME Init
             PROVE  IInv
  OBVIOUS
<1>1. NoCall \notin Calls
  BY CacheAssumption
<1>2. NoEntry \in Entry
  BY DEF NoEntry, Entry
<1>3. TypeOK
  BY <1>2 DEF Init, TypeOK, NoClear
<1>4. Epochs /\ Flights
  BY <1>1 DEF Init, Epochs, Flights, OneFetch, NoClear, Running
<1>5. Current /\ Copies
  BY DEF Init, Current, StoredIsCurrent, Copies, Numbered, SameAsStored, NoEntry, NoClear
<1>6. Calling
  BY DEF Init, Calling, CallOK, Early, NoEntry
<1> QED
  BY <1>3, <1>4, <1>5, <1>6 DEF IInv

LEMMA StepHolds == IInv /\ [Next]_vars => IInv'
<1> SUFFICES ASSUME IInv, [Next]_vars
             PROVE  IInv'
  OBVIOUS
<1>1. TypeOK /\ Flights
  BY DEF IInv
<1>2. Flights'
  BY <1>1, StepOfFlights, FlightsStep
<1> QED
  BY <1>2, TypeStep, EpochsStep, CurrentStep, CopiesStep, CallingStep DEF IInv

\* The invariant holds in every reachable state.
THEOREM Inductive == Spec => []IInv
BY InitHolds, StepHolds, PTL DEF Spec

\* Every variable of the cache keeps its type.
THEOREM TypeCorrect == Spec => []TypeOK
<1>1. IInv => TypeOK
  BY DEF IInv
<1> QED
  BY <1>1, Inductive, PTL

\* The superseding of flights in set(), delete() and clear() keeps whatever
\* was asked for before out of the storage and from every later call, but
\* for what a sliding refresh of readEntry() brings back.
THEOREM NothingOld == Spec => []NothingOutdated
<1>1. IInv => NothingOutdated
  <2> SUFFICES ASSUME IInv
               PROVE  NothingOutdated
    OBVIOUS
  <2>1. StoredIsCurrent
    BY DEF IInv, Current
  <2>2. \A c \in Calls : CallOK(c)
    BY DEF IInv, Calling
  <2>3. ServedIsCurrent
    BY <2>2 DEF ServedIsCurrent, CallOK
  <2> QED
    BY <2>1, <2>3 DEF NothingOutdated
<1> QED
  BY <1>1, Inductive, PTL

\* inflight is the one flight that is under way and not superseded: callers
\* share it, and none joins a flight that is over.
THEOREM FetchesShared == Spec => []OneFetch
<1>1. IInv => OneFetch
  BY DEF IInv, Flights
<1> QED
  BY <1>1, Inductive, PTL

=============================================================================
