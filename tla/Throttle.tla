----------------------------- MODULE Throttle ------------------------------
(***************************************************************************)
(* ThrottleController of packages/throttle/src/index.ts: the queue of the  *)
(* API calls that wait for a token, the pump that asks the storage for     *)
(* tokens by priority, its timer, cancellation, overflow, learned          *)
(* retry_after freezes, and the sliding windows of MemoryThrottleStorage.  *)
(*                                                                         *)
(* Time is kept as what is left of it: of a stamp until it leaves its      *)
(* window, of a freeze, of the timer.  take() runs when the pump calls it  *)
(* and is awaited, so that anything may happen before its answer is used.  *)
(***************************************************************************)
EXTENDS Naturals, Sequences, FiniteSets, SequencesExt, FiniteSetsExt

CONSTANTS
    Jobs,          \* bound: the acquire() calls
    Bucket,
    BucketsOf,     \* the buckets of a call
    Priority,      \* its priority
    Limit,         \* the limit of a bucket
    Window,        \* its window
    MaxQueueSize,
    MaxQueueDepth, \* of the calls queued in one bucket
    Modes,         \* the overflow options to be explored
    RetryAfter,    \* a learned retry_after, with its padding
    MaxFreezes     \* bound: how often one is learned

ASSUME ThrottleAssumption ==
    /\ BucketsOf \in [Jobs -> (SUBSET Bucket) \ {{}}]
    /\ IsFiniteSet(Jobs) /\ IsFiniteSet(Bucket)
    /\ Priority \in [Jobs -> Nat]
    /\ Limit \in [Bucket -> Nat \ {0}]
    /\ Window \in [Bucket -> Nat \ {0}]
    /\ MaxQueueSize \in Nat \ {0} /\ MaxQueueDepth \in Nat \ {0}
    /\ Modes \subseteq {"queue", "reject", "drop-oldest"}
    /\ RetryAfter \in Nat \ {0} /\ MaxFreezes \in Nat

VARIABLES
    mode,          \* the overflow option
    queue,         \* #jobs, in order of arrival
    outcome,       \* what became of each call
    pass,          \* the #pump() that is running, and the take() it awaits
    runAgain,
    timer,         \* the time left of the timer, or none
    stamps,        \* the storage: the stamps of each bucket, oldest first
    frozen,        \* the storage: the time each bucket stays frozen
    note,          \* a noteRetryAfter() in progress
    freezes,
    aborted,       \* the calls whose signal is aborted
    tokens,        \* history: the tokens each call was given
    granted,       \* history: the tokens of each bucket, while in its window
    late           \* history: the calls withdrawn too late for a pass to notice

waitVars == <<queue, outcome, aborted, late>>
passVars == <<pass, runAgain, timer>>
storeVars == <<stamps, frozen, tokens, granted>>
noteVars == <<note, freezes>>
vars == <<mode, queue, outcome, pass, runAgain, timer, stamps, frozen, note, freezes,
          aborted, tokens, granted, late>>

NoPass == [busy |-> FALSE, order |-> <<>>, minWait |-> 0, kind |-> "none", wait |-> 0]

TypeOK ==
    /\ mode \in Modes
    /\ queue \in Seq(Jobs) /\ IsInjective(queue)
    /\ outcome \in [Jobs -> {"new", "queued", "acquired", "rejected", "cancelled"}]
    /\ \A j \in Jobs : outcome[j] = "queued" <=> \E i \in DOMAIN queue : queue[i] = j
    /\ pass \in [busy : BOOLEAN, order : Seq(Jobs), minWait : Nat,
                 kind : {"none", "ok", "refused", "error"}, wait : Nat]
    /\ pass.busy <=> pass.order # <<>>
    /\ runAgain \in BOOLEAN
    /\ timer \in [armed : BOOLEAN, left : Nat]
    /\ stamps \in [Bucket -> Seq(Nat)]
    /\ frozen \in [Bucket -> Nat]
    /\ note \in [buckets : SUBSET Bucket, left : Nat]
    /\ freezes \in 0..MaxFreezes
    /\ aborted \in SUBSET Jobs
    /\ tokens \in [Jobs -> Nat]
    /\ granted \in [Bucket -> Seq(Nat)]
    /\ late \in SUBSET Jobs

Init ==
    /\ mode \in Modes
    /\ queue = <<>>
    /\ outcome = [j \in Jobs |-> "new"]
    /\ pass = NoPass
    /\ runAgain = FALSE
    /\ timer = [armed |-> FALSE, left |-> 0]
    /\ stamps = [b \in Bucket |-> <<>>]
    /\ frozen = [b \in Bucket |-> 0]
    /\ note = [buckets |-> {}, left |-> 0]
    /\ freezes = 0
    /\ aborted = {}
    /\ tokens = [j \in Jobs |-> 0]
    /\ granted = [b \in Bucket |-> <<>>]
    /\ late = {}

---------------------------------------------------------------------------
(* #armTimer(): an earlier timer is kept. *)
Armed(t, delay) ==
    IF t.armed /\ t.left <= delay THEN t ELSE [armed |-> TRUE, left |-> delay]

(* Mutant: a pass in which every call was refused arms no timer. *)
SleepingNot(t, least) == t

(* The timer a pass leaves, that of the shortest wait if there was one *)
Sleeping(t, least) == IF least > 0 THEN Armed(t, least) ELSE t

(* #requestPump(0), as acquire() calls it *)
RequestPump ==
    IF pass.busy
    THEN runAgain' = TRUE /\ UNCHANGED timer
    ELSE timer' = Armed(timer, 0) /\ UNCHANGED runAgain

Position(q, j) == CHOOSE i \in DOMAIN q : q[i] = j

Before(q, j, k) == \/ Priority[j] > Priority[k]
                   \/ Priority[j] = Priority[k] /\ Position(q, j) < Position(q, k)

(* The order in which a pass asks for tokens, by priority, then by age:    *)
(* the call in place r has r - 1 others before it.                         *)
Ordered(q) ==
    [r \in DOMAIN q |-> CHOOSE j \in ToSet(q) :
                          Cardinality({k \in ToSet(q) : Before(q, k, j)}) = r - 1]

(* #removeJob() *)
Withdrawn(q, j) == IF j \in ToSet(q) THEN RemoveAt(q, Position(q, j)) ELSE q

Queued(j) == j \in ToSet(queue)

---------------------------------------------------------------------------
(* How many of the first stamps have no more than this left *)
Expired(s, left) ==
    CHOOSE n \in 0..Len(s) : /\ \A i \in 1..n : s[i] <= left
                             /\ n < Len(s) => s[n + 1] > left

(* Mutant: a stamp is dropped one unit too early. *)
PrunedEarly(s) == SubSeq(s, Expired(s, 1) + 1, Len(s))

(* MemoryThrottleStorage.take(): every bucket is looked at before any is   *)
(* charged.  Stamps that left their window are pruned here only.           *)
Pruned(s) == SubSeq(s, Expired(s, 0) + 1, Len(s))

WaitFor(b) ==
    LET s == Pruned(stamps[b]) IN
    IF frozen[b] > 0 THEN frozen[b]
    ELSE IF Len(s) >= Limit[b] THEN s[Len(s) - Limit[b] + 1] ELSE 0

WaitOf(j) == Max({WaitFor(b) : b \in BucketsOf[j]})

Stamped(s, b) == Append(Pruned(s), Window[b])

Take(j) ==
    IF WaitOf(j) = 0
    THEN /\ stamps' = [b \in Bucket |->
                         IF b \in BucketsOf[j] THEN Stamped(stamps[b], b) ELSE stamps[b]]
         /\ tokens' = [tokens EXCEPT ![j] = @ + 1]
         /\ granted' = [b \in Bucket |->
                         IF b \in BucketsOf[j] THEN Append(granted[b], Window[b])
                         ELSE granted[b]]
    ELSE /\ stamps' = [b \in Bucket |->
                         IF b \in BucketsOf[j] /\ frozen[b] = 0 THEN Pruned(stamps[b])
                         ELSE stamps[b]]
         /\ UNCHANGED <<tokens, granted>>

(* Mutant: the signals are not looked at. *)
NeverStartsOver(order) == FALSE

(* A call whose signal is aborted has left the queue: the pass starts over.*)
StartsOver(order) == order # <<>> /\ Head(order) \in aborted

(* #pump() goes on with the calls in order.  It stops at the next take(),  *)
(* which may throw, or leaves and serves runAgain.                         *)
PassGoesOn(q, order, minWait, t) ==
    LET over == StartsOver(order)
        todo == IF over THEN Ordered(q) ELSE order
        least == IF over THEN 0 ELSE minWait
        slept == Sleeping(t, least)
        serve == runAgain /\ q # <<>> IN
    IF todo = <<>>
    THEN /\ pass' = NoPass
         /\ timer' = IF serve THEN Armed(slept, 0) ELSE slept
         /\ runAgain' = (runAgain /\ ~serve)
         /\ UNCHANGED <<stamps, tokens, granted>>
    ELSE /\ \/ /\ Take(Head(todo))
               /\ pass' = [busy |-> TRUE, order |-> todo, minWait |-> least,
                           kind |-> IF WaitOf(Head(todo)) = 0 THEN "ok" ELSE "refused",
                           wait |-> WaitOf(Head(todo))]
            \/ /\ pass' = [busy |-> TRUE, order |-> todo, minWait |-> least,
                           kind |-> "error", wait |-> 0]
               /\ UNCHANGED <<stamps, tokens, granted>>
         /\ timer' = t
         /\ UNCHANGED runAgain

TimerFires ==
    /\ timer.armed /\ timer.left = 0
    /\ LET off == [armed |-> FALSE, left |-> 0] IN
       IF pass.busy
       THEN /\ runAgain' = TRUE
            /\ timer' = off
            /\ UNCHANGED <<pass, stamps, tokens, granted>>
       ELSE PassGoesOn(queue, Ordered(queue), 0, off)
    /\ UNCHANGED <<mode, waitVars, frozen, noteVars>>

(* The token is granted: #acquireJob(), whether the job is still queued or *)
(* not; a promise rejected meanwhile stays rejected.                       *)
Granted ==
    LET j == Head(pass.order)
        q == Withdrawn(queue, j) IN
    /\ pass.kind = "ok"
    /\ queue' = q
    /\ outcome' = IF Queued(j) THEN [outcome EXCEPT ![j] = "acquired"] ELSE outcome
    /\ PassGoesOn(q, Ordered(q), 0, timer)
    /\ UNCHANGED <<mode, frozen, noteVars, aborted, late>>

(* take() threw: the job is rejected. *)
TakeFailed ==
    LET j == Head(pass.order)
        q == Withdrawn(queue, j) IN
    /\ pass.kind = "error"
    /\ queue' = q
    /\ outcome' = IF Queued(j) THEN [outcome EXCEPT ![j] = "rejected"] ELSE outcome
    /\ PassGoesOn(q, Ordered(q), 0, timer)
    /\ UNCHANGED <<mode, frozen, noteVars, aborted, late>>

(* No token yet: the pass remembers the shortest wait and tries the next.  *)
Refused ==
    LET least == IF pass.minWait = 0 THEN pass.wait ELSE Min({pass.minWait, pass.wait}) IN
    /\ pass.kind = "refused"
    /\ PassGoesOn(queue, Tail(pass.order), least, timer)
    /\ UNCHANGED <<mode, waitVars, frozen, noteVars>>

---------------------------------------------------------------------------
Depth(b) == Cardinality({j \in Jobs : Queued(j) /\ b \in BucketsOf[j]})

Overflow(j) == \/ Len(queue) >= MaxQueueSize
               \/ \E b \in BucketsOf[j] : Depth(b) >= MaxQueueDepth

(* #dropOldest(): the lowest priority, then the oldest *)
Oldest == CHOOSE j \in ToSet(queue) :
             \A k \in ToSet(queue) \ {j} :
                \/ Priority[j] < Priority[k]
                \/ Priority[j] = Priority[k] /\ Position(queue, j) < Position(queue, k)

(* Whether the pass under way may still give a token to a call withdrawn   *)
(* now: it is awaiting it, or has it in its order and no signal to tell.   *)
Exposed(j, bySignal) ==
    /\ pass.busy
    /\ IF bySignal THEN Head(pass.order) = j ELSE j \in ToSet(pass.order)

(* acquire() of a call that is not excluded *)
Acquire(j) ==
    /\ outcome[j] = "new"
    /\ \/ /\ Overflow(j) /\ mode = "reject"
          /\ outcome' = [outcome EXCEPT ![j] = "rejected"]
          /\ UNCHANGED <<queue, late, timer, runAgain>>
       \/ /\ Overflow(j) /\ mode = "drop-oldest"
          /\ queue' = Append(Withdrawn(queue, Oldest), j)
          /\ outcome' = [outcome EXCEPT ![j] = "queued", ![Oldest] = "rejected"]
          /\ late' = IF Exposed(Oldest, FALSE) THEN late \cup {Oldest} ELSE late
          /\ RequestPump
       \/ /\ ~Overflow(j) \/ mode = "queue"
          /\ queue' = Append(queue, j)
          /\ outcome' = [outcome EXCEPT ![j] = "queued"]
          /\ RequestPump
          /\ UNCHANGED late
    /\ UNCHANGED <<mode, pass, storeVars, noteVars, aborted>>

(* cancel() of the handle, or the abort of the call's own signal *)
Cancel(j, bySignal) ==
    /\ Queued(j)
    /\ queue' = Withdrawn(queue, j)
    /\ outcome' = [outcome EXCEPT ![j] = "cancelled"]
    /\ aborted' = IF bySignal THEN aborted \cup {j} ELSE aborted
    /\ late' = IF Exposed(j, bySignal) THEN late \cup {j} ELSE late
    /\ UNCHANGED <<mode, passVars, storeVars, noteVars>>

(* noteRetryAfter() of an acquired call freezes its buckets one by one.    *)
NoteRetryAfter(j) ==
    /\ outcome[j] = "acquired"
    /\ note.buckets = {} /\ freezes < MaxFreezes
    /\ note' = [buckets |-> BucketsOf[j], left |-> RetryAfter]
    /\ freezes' = freezes + 1
    /\ UNCHANGED <<mode, waitVars, passVars, storeVars>>

Freeze(b) ==
    /\ b \in note.buckets
    /\ frozen' = [frozen EXCEPT ![b] = Max({@, note.left})]
    /\ IF note.buckets = {b}
       THEN /\ note' = [buckets |-> {}, left |-> 0]
            /\ timer' = Armed(timer, RetryAfter)
       ELSE /\ note' = [note EXCEPT !.buckets = @ \ {b}]
            /\ UNCHANGED timer
    /\ UNCHANGED <<mode, waitVars, pass, runAgain, stamps, tokens, granted, freezes>>

(* One unit of time passes. *)
Less(n) == IF n = 0 THEN 0 ELSE n - 1

Aged(s) == [i \in DOMAIN s |-> Less(s[i])]

InWindow(s) == SubSeq(s, Expired(s, 0) + 1, Len(s))

Tick ==
    /\ stamps' = [b \in Bucket |-> Aged(stamps[b])]
    /\ granted' = [b \in Bucket |-> InWindow(Aged(granted[b]))]
    /\ frozen' = [b \in Bucket |-> Less(frozen[b])]
    /\ timer' = [timer EXCEPT !.left = Less(@)]
    /\ note' = [note EXCEPT !.left = Less(@)]
    /\ UNCHANGED <<mode, waitVars, pass, runAgain, freezes, tokens>>

Next ==
    \/ \E j \in Jobs : \/ Acquire(j) \/ NoteRetryAfter(j)
                       \/ \E bySignal \in BOOLEAN : Cancel(j, bySignal)
    \/ \E b \in Bucket : Freeze(b)
    \/ TimerFires \/ Granted \/ TakeFailed \/ Refused
    \/ Tick

Spec == Init /\ [][Next]_vars

(* Timers fire, the storage answers, time passes, freeze() returns. *)
FairSpec ==
    /\ Spec
    /\ WF_vars(TimerFires)
    /\ WF_vars(Granted \/ TakeFailed \/ Refused)
    /\ WF_vars(Tick)
    /\ \A b \in Bucket : WF_vars(Freeze(b))

---------------------------------------------------------------------------
(* No bucket gives more than limit tokens in any window, whatever take()   *)
(* has pruned and whenever it was called.                                  *)
WindowBound == \A b \in Bucket : Len(granted[b]) <= Limit[b]

(* A call gets one token at most, and none if its promise is rejected,     *)
(* unless it was withdrawn while a pass was awaiting its token, or had it  *)
(* in its order and no signal to look at; a token given to a queued call   *)
(* is on its way to it.                                                    *)
SettledOnce ==
    \A j \in Jobs :
       /\ tokens[j] <= 1
       /\ tokens[j] = 1 /\ outcome[j] \in {"rejected", "cancelled"} => j \in late
       /\ tokens[j] = 1 /\ outcome[j] = "queued"
             => pass.kind = "ok" /\ Head(pass.order) = j

(* Every queued call is let through or rejected in the end: no wakeup is   *)
(* lost between the timer, a pass under way and the calls that arrive or   *)
(* leave during it.                                                        *)
JobsSettle == \A j \in Jobs : outcome[j] = "queued" ~> outcome[j] # "queued"

=============================================================================
