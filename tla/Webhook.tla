------------------------------- MODULE Webhook -------------------------------
(***************************************************************************)
(* webhookCallback() of packages/core/src/webhook.ts under concurrent      *)
(* deliveries, in front of the chain a webhook bot installs: the           *)
(* sequentialize() and dedupe() middlewares of packages/web and session()  *)
(* of packages/session, whose record the handler reads, changes and        *)
(* writes back.  Telegram delivers an update again until it is answered    *)
(* with 200.                                                               *)
(*                                                                         *)
(* A request is at one of these points:                                    *)
(*   free    the handler function returned, or was never called            *)
(*   init    await bot.init()                                              *)
(*   lane    await previous, in sequentialize()                            *)
(*   load    storage.get() of the session                                  *)
(*   body    the bot's own middleware                                      *)
(*   flush   storage.set() of the session, on its way                      *)
(*   saved   ... and done                                                  *)
(* and its HTTP connection is open or closed: answered, or lost.           *)
(***************************************************************************)
EXTENDS Naturals, Sequences

CONSTANTS
    Updates,     \* bound: the updates users send
    Requests,    \* bound: requests at work at a time
    ChatOf,      \* the chat of an update, which is its session's key too
    Keyed,       \* the chats whose updates sequentialize() orders
    Capacity,    \* of dedupe()
    OnTimeout,   \* the policies: ack or fail
    OnError,
    NoUpdate,
    MaxFaults    \* bound: connections that break and crashes, together

Chats == {ChatOf[u] : u \in Updates}

ASSUME WebhookAssumption ==
    /\ NoUpdate \notin Updates
    /\ Keyed \subseteq Chats
    /\ Capacity \in Nat \ {0}
    /\ {OnTimeout, OnError} \subseteq {"ack", "fail"}
    /\ MaxFaults \in Nat

VARIABLES
    delivery,     \* Telegram's side of an update: new, queued, sent, done
    initialized,
    at,           \* where each request is
    update,       \* the update of a request
    open,         \* the requests whose connection is open
    lane,         \* the requests of each chat's lane, in order
    seen, order,  \* of dedupe()
    value,        \* the session a request read: the updates applied to it
    store,        \* the session of each chat
    faults,
    \* history
    applied,      \* updates a session was saved with
    excused       \* updates whose id dedupe() dropped, or had when it crashed

dedupeVars == <<seen, order>>
sessionVars == <<value, store, applied>>
vars == <<delivery, initialized, at, update, open, lane, dedupeVars, sessionVars,
          faults, excused>>

Points == {"free", "init", "lane", "load", "body", "flush", "saved"}

TypeOK ==
    /\ delivery \in [Updates -> {"new", "queued", "sent", "done"}]
    /\ initialized \in BOOLEAN
    /\ at \in [Requests -> Points]
    /\ update \in [Requests -> Updates \cup {NoUpdate}]
    /\ open \subseteq Requests
    /\ lane \in [Chats -> Seq(Requests)]
    /\ seen \subseteq Updates
    /\ order \in Seq(Updates) /\ Len(order) <= Capacity
    /\ value \in [Requests -> SUBSET Updates]
    /\ store \in [Chats -> SUBSET Updates]
    /\ faults \in 0..MaxFaults
    /\ applied \subseteq Updates
    /\ excused \subseteq Updates

Init ==
    /\ delivery = [u \in Updates |-> "new"]
    /\ initialized = FALSE
    /\ at = [r \in Requests |-> "free"]
    /\ update = [r \in Requests |-> NoUpdate]
    /\ open = {}
    /\ lane = [c \in Chats |-> <<>>]
    /\ seen = {}
    /\ order = <<>>
    /\ value = [r \in Requests |-> {}]
    /\ store = [c \in Chats |-> {}]
    /\ faults = 0
    /\ applied = {}
    /\ excused = {}

ChatAt(r) == ChatOf[update[r]]

\* The request's update is past dedupe(), in the handler or the session.
Inside(r) == at[r] \in {"load", "body", "flush", "saved"}
-----------------------------------------------------------------------------
(* Telegram *)

UserSends(u) ==
    /\ delivery[u] = "new"
    /\ delivery' = [delivery EXCEPT ![u] = "queued"]
    /\ UNCHANGED <<initialized, at, update, open, lane, dedupeVars, sessionVars,
                   faults, excused>>

\* The connection of r breaks, or Telegram stops waiting.
ConnectionLost(r) ==
    /\ r \in open
    /\ faults < MaxFaults
    /\ faults' = faults + 1
    /\ open' = open \ {r}
    /\ delivery' = [delivery EXCEPT ![update[r]] = "queued"]
    /\ UNCHANGED <<initialized, at, update, lane, dedupeVars, sessionVars,
                   excused>>

\* The HTTP answer, if anyone still waits for it: 200 confirms the update,
\* 500 has it delivered again.
Answer(r, policy) ==
    /\ open' = open \ {r}
    /\ delivery' = IF r \in open
                   THEN [delivery EXCEPT ![update[r]] =
                            IF policy = "ack" THEN "done" ELSE "queued"]
                   ELSE delivery
-----------------------------------------------------------------------------
(* sequentialize() *)

\* The call of handleUpdate: an update of a keyed chat joins its lane.
JoinLane(r, u) ==
    IF ChatOf[u] \in Keyed
    THEN lane' = [lane EXCEPT ![ChatOf[u]] = Append(@, r)]
    ELSE UNCHANGED lane

\* previous has settled, or there is no lane to wait in.
IsTurn(r) == ChatAt(r) \in Keyed => Head(lane[ChatAt(r)]) = r

\* release(): the next of the lane takes its turn.
LeaveLane(r) ==
    IF ChatAt(r) \in Keyed
    THEN lane' = [lane EXCEPT ![ChatAt(r)] = Tail(@)]
    ELSE UNCHANGED lane

\* The handler function returned.
Leave(r) ==
    /\ at' = [at EXCEPT ![r] = "free"]
    /\ update' = [update EXCEPT ![r] = NoUpdate]
    /\ value' = [value EXCEPT ![r] = {}]
-----------------------------------------------------------------------------
(* webhookCallback() *)

\* A request comes in: bot.init() first, if it has not succeeded yet.
Deliver(r, u) ==
    /\ at[r] = "free"
    /\ delivery[u] = "queued"
    /\ delivery' = [delivery EXCEPT ![u] = "sent"]
    /\ open' = open \cup {r}
    /\ update' = [update EXCEPT ![r] = u]
    /\ IF initialized
       THEN /\ at' = [at EXCEPT ![r] = "lane"]
            /\ JoinLane(r, u)
       ELSE /\ at' = [at EXCEPT ![r] = "init"]
            /\ UNCHANGED lane
    /\ UNCHANGED <<initialized, dedupeVars, sessionVars, faults, excused>>

InitDone(r) ==
    /\ at[r] = "init"
    /\ initialized' = TRUE
    /\ at' = [at EXCEPT ![r] = "lane"]
    /\ JoinLane(r, update[r])
    /\ UNCHANGED <<delivery, update, open, dedupeVars, sessionVars, faults, excused>>

InitFails(r) ==
    /\ at[r] = "init"
    /\ Leave(r)
    /\ Answer(r, OnError)
    /\ UNCHANGED <<initialized, lane, dedupeVars, store, applied, faults, excused>>

\* timeoutMs is over: the request is answered and its work goes on.  A
\* request whose turn has come is past await previous before any timer fires.
Timeout(r) ==
    /\ r \in open
    /\ Inside(r) \/ (at[r] = "lane" /\ ~IsTurn(r))
    /\ Answer(r, OnTimeout)
    /\ UNCHANGED <<initialized, at, update, lane, dedupeVars, sessionVars, faults,
                   excused>>
-----------------------------------------------------------------------------
(* dedupe() *)

\* The id enters the window, which may push the oldest one out.
Remember(u) ==
    LET longer == Append(order, u)
    IN IF Len(longer) > Capacity
       THEN /\ order' = Tail(longer)
            /\ seen' = (seen \cup {u}) \ {Head(longer)}
            /\ excused' = excused \cup {Head(longer)}
       ELSE /\ order' = longer
            /\ seen' = seen \cup {u}
            /\ excused' = excused

\* Mutant: the turn comes at once.
TurnAtOnce(r) ==
    /\ at[r] = "lane"
    /\ update[r] \notin seen
    /\ Remember(update[r])
    /\ at' = [at EXCEPT ![r] = "load"]
    /\ UNCHANGED <<delivery, initialized, update, open, lane, sessionVars, faults>>

\* The update's turn comes, and it is new.
Turn(r) ==
    /\ at[r] = "lane"
    /\ IsTurn(r)
    /\ update[r] \notin seen
    /\ Remember(update[r])
    /\ at' = [at EXCEPT ![r] = "load"]
    /\ UNCHANGED <<delivery, initialized, update, open, lane, sessionVars, faults>>

\* ... or a duplicate, which is swallowed.
Swallow(r) ==
    /\ at[r] = "lane"
    /\ IsTurn(r)
    /\ update[r] \in seen
    /\ Leave(r)
    /\ LeaveLane(r)
    /\ Answer(r, "ack")
    /\ UNCHANGED <<initialized, dedupeVars, store, applied, faults, excused>>
-----------------------------------------------------------------------------
(* The session and the handler *)

Load(r) ==
    /\ at[r] = "load"
    /\ at' = [at EXCEPT ![r] = "body"]
    /\ value' = [value EXCEPT ![r] = store[ChatAt(r)]]
    /\ UNCHANGED <<delivery, initialized, update, open, lane, dedupeVars, store, applied,
                   faults, excused>>

\* The handler changes the session and returns.
BodyDone(r) ==
    /\ at[r] = "body"
    /\ at' = [at EXCEPT ![r] = "flush"]
    /\ value' = [value EXCEPT ![r] = @ \cup {update[r]}]
    /\ UNCHANGED <<delivery, initialized, update, open, lane, dedupeVars, store, applied,
                   faults, excused>>

\* flush(): the whole record is written.
Flush(r) ==
    /\ at[r] = "flush"
    /\ at' = [at EXCEPT ![r] = "saved"]
    /\ store' = [store EXCEPT ![ChatAt(r)] = value[r]]
    /\ applied' = applied \cup {update[r]}
    /\ UNCHANGED <<delivery, initialized, update, open, lane, dedupeVars, value,
                   faults, excused>>

\* Mutant: the id is forgotten however the run ended.
ReturnForgetful(r) ==
    /\ at[r] = "saved"
    /\ Leave(r)
    /\ LeaveLane(r)
    /\ Answer(r, "ack")
    /\ seen' = seen \ {update[r]}
    /\ UNCHANGED <<initialized, order, store, applied, faults, excused>>

\* The chain returns.
Return(r) ==
    /\ at[r] = "saved"
    /\ Leave(r)
    /\ LeaveLane(r)
    /\ Answer(r, "ack")
    /\ UNCHANGED <<initialized, dedupeVars, store, applied, faults, excused>>

\* Mutant: the id of a failed run is kept.
ThrowRemembered(r) ==
    /\ at[r] \in {"load", "body", "flush"}
    /\ Leave(r)
    /\ LeaveLane(r)
    /\ Answer(r, OnError)
    /\ UNCHANGED <<initialized, dedupeVars, store, applied, faults, excused>>

\* Mutant: the lane is not released.
ThrowHolding(r) ==
    /\ at[r] \in {"load", "body", "flush"}
    /\ Leave(r)
    /\ Answer(r, OnError)
    /\ seen' = seen \ {update[r]}
    /\ UNCHANGED <<initialized, lane, order, store, applied, faults, excused>>

\* The storage or the handler throws and the error handler rethrows: nothing
\* is written, the id is forgotten and the lane released.
Throw(r) ==
    /\ at[r] \in {"load", "body", "flush"}
    /\ Leave(r)
    /\ LeaveLane(r)
    /\ Answer(r, OnError)
    /\ seen' = seen \ {update[r]}
    /\ UNCHANGED <<initialized, order, store, applied, faults, excused>>

\* The process dies: the sessions are in an external store, the rest is gone.
Crash ==
    /\ faults < MaxFaults
    /\ faults' = faults + 1
    /\ delivery' = [u \in Updates |->
                        IF \E r \in open : update[r] = u THEN "queued" ELSE delivery[u]]
    /\ initialized' = FALSE
    /\ at' = [r \in Requests |-> "free"]
    /\ update' = [r \in Requests |-> NoUpdate]
    /\ open' = {}
    /\ lane' = [c \in Chats |-> <<>>]
    /\ seen' = {}
    /\ order' = <<>>
    /\ value' = [r \in Requests |-> {}]
    /\ excused' = excused \cup seen
    /\ UNCHANGED <<store, applied>>
-----------------------------------------------------------------------------
Next ==
    \/ \E u \in Updates : UserSends(u)
    \/ \E r \in Requests :
        \/ \E u \in Updates : Deliver(r, u)
        \/ ConnectionLost(r) \/ Timeout(r)
        \/ InitDone(r) \/ InitFails(r)
        \/ Turn(r) \/ Swallow(r) \/ Load(r) \/ BodyDone(r) \/ Flush(r)
        \/ Return(r) \/ Throw(r)
    \/ Crash

\* Promises settle, and storage and handlers return or throw.
Fairness ==
    \A r \in Requests :
        /\ WF_vars(Turn(r) \/ Swallow(r))
        /\ WF_vars(Load(r))
        /\ WF_vars(BodyDone(r) \/ Throw(r))
        /\ WF_vars(Flush(r))
        /\ WF_vars(Return(r))

Spec == Init /\ [][Next]_vars
FairSpec == Spec /\ Fairness
-----------------------------------------------------------------------------
\* Updates of a chat that sequentialize() orders are never inside the handler
\* together, however requests time out, fail or are delivered again.
OneAtATime ==
    \A r, s \in Requests :
        Inside(r) /\ Inside(s) /\ ChatAt(r) = ChatAt(s) /\ ChatAt(r) \in Keyed => r = s

\* The session of a chat that is kept in order holds every update that was
\* applied to it: no read-modify-write clobbers another.
NothingClobbered ==
    \A u \in applied : ChatOf[u] \in Keyed => u \in store[ChatOf[u]]

\* An update that was applied is run again only if dedupe() dropped its id, or
\* had it in its window when a crash took that: never because Telegram delivered
\* it again.  A crash excuses nothing that is first run after it.
AppliedOnce ==
    [][\A r \in Requests :
        Turn(r) /\ update[r] \in applied => update[r] \in excused]_vars

\* An update Telegram will not deliver again was applied.  A duplicate that
\* is swallowed and answered with 200 never stands in for a run that fails.
AckedIsApplied == \A u \in Updates : delivery[u] = "done" => u \in applied

\* dedupe(): "a failed run must stay retryable ... never a lost update".  An
\* update that is not applied yet is being run, or will be delivered again.
StaysRetryable ==
    \A u \in Updates :
        delivery[u] = "done" => u \in applied \/ \E r \in Requests : update[r] = u

\* A request that joined a lane gets its turn, whatever becomes of those
\* before it.
TurnComes == \A r \in Requests : at[r] = "lane" ~> at[r] # "lane"
=============================================================================
