---------------------------- MODULE WebhookProof ----------------------------
(***************************************************************************)
(* Proofs about Webhook, for every set of updates, requests and chats,     *)
(* every window of dedupe() and every number of faults: the lane of a chat *)
(* admits one update at a time, its session is never clobbered, an applied *)
(* update is not applied again, and an acknowledged one was applied.       *)
(***************************************************************************)
EXTENDS Webhook, SequenceTheorems, TLAPS

\* The steps of one request.
RequestStep(r) ==
    \/ \E u \in Updates : Deliver(r, u)
    \/ ConnectionLost(r) \/ Timeout(r)
    \/ InitDone(r) \/ InitFails(r)
    \/ Turn(r) \/ Swallow(r) \/ Load(r) \/ BodyDone(r) \/ Flush(r)
    \/ Return(r) \/ Throw(r)

\* A request at work has an update, and only such a request is connected.
Owning ==
    /\ \A r \in Requests : at[r] # "free" => update[r] \in Updates
    /\ \A r \in open : at[r] # "free"

InLine(r, c) == \E i \in 1..Len(lane[c]) : lane[c][i] = r

\* A request of a keyed chat is in its lane from joining it until it leaves
\* the chain, and past dedupe() only at the lane's head.
Lanes ==
    \A r \in Requests :
        ChatAt(r) \in Keyed =>
            /\ at[r] \notin {"free", "init"} => InLine(r, ChatAt(r))
            /\ Inside(r) => Head(lane[ChatAt(r)]) = r

LaneInv == TypeOK /\ Owning /\ Lanes

USE DEF dedupeVars, sessionVars
-----------------------------------------------------------------------------
(* Lanes as sequences. *)

LEMMA ChatKnown == \A u \in Updates : ChatOf[u] \in Chats
BY DEF Chats

\* Joining a lane disturbs nobody in it.
LEMMA Joining ==
    ASSUME TypeOK, NEW r \in Requests, NEW u \in Updates, JoinLane(r, u)
    PROVE  /\ lane' \in [Chats -> Seq(Requests)]
           /\ ChatOf[u] \in Keyed => InLine(r, ChatOf[u])'
           /\ \A c \in Chats, s \in Requests :
                 InLine(s, c) => InLine(s, c)' /\ Head(lane'[c]) = Head(lane[c])
<1>1. CASE ChatOf[u] \notin Keyed
  BY <1>1 DEF TypeOK, JoinLane, InLine
<1>2. CASE ChatOf[u] \in Keyed
  <2> DEFINE c0 == ChatOf[u]
  <2>1. c0 \in Chats /\ lane[c0] \in Seq(Requests)
    BY ChatKnown DEF TypeOK
  <2>2. lane' = [lane EXCEPT ![c0] = Append(lane[c0], r)]
    BY <1>2 DEF JoinLane
  <2>3. /\ Append(lane[c0], r) \in Seq(Requests)
        /\ Len(Append(lane[c0], r)) = Len(lane[c0]) + 1
        /\ \A i \in 1..Len(lane[c0]) : Append(lane[c0], r)[i] = lane[c0][i]
        /\ Append(lane[c0], r)[Len(lane[c0]) + 1] = r
    BY <2>1, AppendProperties
  <2>4. Len(lane[c0]) \in Nat
    BY <2>1
  <2>5. lane' \in [Chats -> Seq(Requests)]
    BY <2>2, <2>3 DEF TypeOK
  <2>6. lane'[c0] = Append(lane[c0], r)
    BY <2>1, <2>2 DEF TypeOK
  <2>7. InLine(r, c0)'
    BY <2>3, <2>4, <2>6 DEF InLine
  <2>8. ASSUME NEW c \in Chats, NEW s \in Requests, InLine(s, c)
        PROVE  InLine(s, c)' /\ Head(lane'[c]) = Head(lane[c])
    <3>1. CASE c # c0
      BY <2>2, <2>8, <3>1 DEF TypeOK, InLine
    <3>2. CASE c = c0
      <4>1. InLine(s, c)'
        BY <2>3, <2>4, <2>6, <2>8, <3>2 DEF InLine
      <4>2. lane[c0] # <<>>
        BY <2>8, <3>2 DEF InLine
      <4>3. Head(Append(lane[c0], r)) = Head(lane[c0])
        BY <2>1, <4>2, HeadTailAppend
      <4>4. QED BY <2>6, <3>2, <4>1, <4>3
    <3>3. QED BY <3>1, <3>2
  <2>9. QED BY <2>5, <2>7, <2>8
<1>3. QED BY <1>1, <1>2

\* The head of a lane leaves it, and nobody else does.
LEMMA Leaving ==
    ASSUME TypeOK, NEW r \in Requests, update[r] \in Updates, LeaveLane(r),
           ChatAt(r) \in Keyed => InLine(r, ChatAt(r)) /\ Head(lane[ChatAt(r)]) = r
    PROVE  /\ lane' \in [Chats -> Seq(Requests)]
           /\ \A c \in Chats, s \in Requests : InLine(s, c) /\ s # r => InLine(s, c)'
           /\ \A c \in Chats \ {ChatAt(r)} : lane'[c] = lane[c]
           /\ ChatAt(r) \notin Keyed => lane' = lane
<1>1. CASE ChatAt(r) \notin Keyed
  BY <1>1 DEF TypeOK, LeaveLane, InLine
<1>2. CASE ChatAt(r) \in Keyed
  <2> DEFINE c0 == ChatAt(r)
  <2>1. c0 \in Chats /\ lane[c0] \in Seq(Requests)
    BY ChatKnown DEF TypeOK, ChatAt
  <2>2. lane' = [lane EXCEPT ![c0] = Tail(lane[c0])]
    BY <1>2 DEF LeaveLane
  <2>3. lane[c0] # <<>>
    BY <1>2 DEF InLine
  <2>4. /\ Tail(lane[c0]) \in Seq(Requests)
        /\ Len(Tail(lane[c0])) = Len(lane[c0]) - 1
        /\ \A i \in 1..Len(Tail(lane[c0])) : Tail(lane[c0])[i] = lane[c0][i + 1]
    BY <2>1, <2>3, HeadTailProperties
  <2>5. lane' \in [Chats -> Seq(Requests)]
    BY <2>2, <2>4 DEF TypeOK
  <2>6. \A c \in Chats \ {c0} : lane'[c] = lane[c]
    BY <2>2 DEF TypeOK
  <2>7. ASSUME NEW c \in Chats, NEW s \in Requests, InLine(s, c), s # r
        PROVE  InLine(s, c)'
    <3>1. CASE c # c0
      BY <2>6, <2>7, <3>1 DEF InLine
    <3>2. CASE c = c0
      <4>1. PICK i \in 1..Len(lane[c0]) : lane[c0][i] = s
        BY <2>7, <3>2 DEF InLine
      <4>2. lane[c0][1] = r
        BY <1>2, <2>1, <2>3
      <4>3. Len(lane[c0]) \in Nat /\ i # 1
        BY <2>1, <2>7, <4>1, <4>2
      <4>4. i - 1 \in 1..Len(Tail(lane[c0])) /\ Tail(lane[c0])[i - 1] = s
        BY <2>4, <4>1, <4>3
      <4>5. lane'[c0] = Tail(lane[c0])
        BY <2>1, <2>2 DEF TypeOK
      <4>6. QED BY <3>2, <4>4, <4>5 DEF InLine
    <3>3. QED BY <3>1, <3>2
  <2>8. QED BY <1>2, <2>5, <2>6, <2>7
<1>3. QED BY <1>1, <1>2

\* dedupe() never remembers more than its capacity.
LEMMA Remembering ==
    ASSUME TypeOK, NEW u \in Updates, Remember(u)
    PROVE  /\ order' \in Seq(Updates) /\ Len(order') <= Capacity
           /\ seen' \subseteq Updates /\ excused' \subseteq Updates
           /\ excused \subseteq excused'
           /\ u \in seen' \cup excused'
           /\ seen \subseteq seen' \cup excused'
           /\ seen' \subseteq seen \cup {u}
<1> DEFINE longer == Append(order, u)
<1>1. /\ longer \in Seq(Updates) /\ longer # <<>>
      /\ Len(longer) = Len(order) + 1
  BY AppendProperties DEF TypeOK
<1>2. /\ Head(longer) \in Updates /\ Tail(longer) \in Seq(Updates)
      /\ Len(Tail(longer)) = Len(longer) - 1
  BY <1>1, HeadTailProperties
<1>3. Len(order) \in Nat /\ Len(order) <= Capacity /\ Capacity \in Nat
  BY WebhookAssumption DEF TypeOK, WebhookAssumption
<1> HIDE DEF longer
<1>4. CASE Len(longer) > Capacity
  <2>1. /\ order' = Tail(longer)
        /\ seen' = (seen \cup {u}) \ {Head(longer)}
        /\ excused' = excused \cup {Head(longer)}
    BY <1>4 DEF Remember, longer
  <2>2. QED BY <1>1, <1>2, <1>3, <2>1 DEF TypeOK
<1>5. CASE ~(Len(longer) > Capacity)
  <2>1. order' = longer /\ seen' = seen \cup {u} /\ excused' = excused
    BY <1>5 DEF Remember, longer
  <2>2. Len(longer) <= Capacity
    BY <1>1, <1>3, <1>5
  <2>3. QED BY <1>1, <2>1, <2>2 DEF TypeOK
<1>6. QED BY <1>4, <1>5
-----------------------------------------------------------------------------
(* Typing, ownership and the lanes. *)

LEMMA AnswerType ==
    ASSUME TypeOK, NEW r \in Requests, NEW policy, Answer(r, policy)
    PROVE  /\ open' = open \ {r}
           /\ delivery' \in [Updates -> {"new", "queued", "sent", "done"}]
BY DEF TypeOK, Answer

\* What is to be shown when r leaves the chain.
LEMMA LeavingStep ==
    ASSUME LaneInv, NEW r \in Requests, at[r] # "free", Leave(r), LeaveLane(r),
           open' = open \ {r},
           delivery' \in [Updates -> {"new", "queued", "sent", "done"}],
           ChatAt(r) \in Keyed => InLine(r, ChatAt(r)) /\ Head(lane[ChatAt(r)]) = r,
           UNCHANGED <<initialized, order, store, applied, faults, excused>>,
           seen' \subseteq seen
    PROVE  LaneInv'
<1>1. update[r] \in Updates
  BY DEF LaneInv, Owning
<1>2. /\ lane' \in [Chats -> Seq(Requests)]
      /\ \A c \in Chats, s \in Requests : InLine(s, c) /\ s # r => InLine(s, c)'
      /\ \A c \in Chats \ {ChatAt(r)} : lane'[c] = lane[c]
      /\ ChatAt(r) \notin Keyed => lane' = lane
  BY <1>1, Leaving DEF LaneInv
<1>3. TypeOK'
  BY <1>2 DEF LaneInv, TypeOK, Leave, Points
<1>4. Owning'
  BY DEF LaneInv, TypeOK, Owning, Leave
<1>5. ASSUME NEW s \in Requests, ChatAt(s)' \in Keyed
      PROVE  /\ at'[s] \notin {"free", "init"} => InLine(s, ChatAt(s))'
             /\ Inside(s)' => Head(lane'[ChatAt(s)']) = s
  <2>1. CASE s = r
    BY <2>1 DEF Leave, LaneInv, TypeOK, Inside
  <2>2. CASE s # r
    <3>1. at'[s] = at[s] /\ update'[s] = update[s]
      BY <2>2 DEF Leave, LaneInv, TypeOK
    <3>2. ChatAt(s)' = ChatAt(s) /\ (Inside(s)' <=> Inside(s))
      BY <3>1 DEF ChatAt, Inside
    <3>3. CASE at[s] \notin {"free", "init"}
      <4>1. ChatAt(s) \in Chats
        BY <3>3, ChatKnown DEF LaneInv, Owning, ChatAt
      <4>2. InLine(s, ChatAt(s)) /\ (Inside(s) => Head(lane[ChatAt(s)]) = s)
        BY <1>5, <3>2, <3>3 DEF LaneInv, Lanes
      <4>3. InLine(s, ChatAt(s))'
        BY <1>2, <2>2, <3>2, <4>1, <4>2 DEF InLine
      <4>4. Inside(s) => lane'[ChatAt(s)] = lane[ChatAt(s)]
        BY <1>2, <1>5, <2>2, <3>2, <4>1, <4>2
      <4>5. QED BY <3>2, <4>2, <4>3, <4>4
    <3>4. CASE at[s] \in {"free", "init"}
      BY <3>1, <3>4 DEF Inside
    <3>5. QED BY <3>3, <3>4
  <2>3. QED BY <2>1, <2>2
<1>6. QED BY <1>3, <1>4, <1>5 DEF LaneInv, Lanes

\* ... and when r joins its lane for update u.
LEMMA JoiningStep ==
    ASSUME LaneInv, NEW r \in Requests, NEW u \in Updates, JoinLane(r, u),
           at[r] \in {"free", "init"}, at' = [at EXCEPT ![r] = "lane"],
           update' = [update EXCEPT ![r] = u]
    PROVE  lane' \in [Chats -> Seq(Requests)] /\ Lanes'
<1>1. /\ lane' \in [Chats -> Seq(Requests)]
      /\ ChatOf[u] \in Keyed => InLine(r, ChatOf[u])'
      /\ \A c \in Chats, s \in Requests :
            InLine(s, c) => InLine(s, c)' /\ Head(lane'[c]) = Head(lane[c])
  BY Joining DEF LaneInv
<1>2. ASSUME NEW s \in Requests, ChatAt(s)' \in Keyed
      PROVE  /\ at'[s] \notin {"free", "init"} => InLine(s, ChatAt(s))'
             /\ Inside(s)' => Head(lane'[ChatAt(s)']) = s
  <2>1. CASE s = r
    <3>1. at'[s] = "lane" /\ ChatAt(s)' = ChatOf[u]
      BY <2>1 DEF LaneInv, TypeOK, ChatAt
    <3>2. QED BY <1>1, <1>2, <2>1, <3>1 DEF Inside, InLine
  <2>2. CASE s # r
    <3>1. at'[s] = at[s] /\ update'[s] = update[s]
      BY <2>2 DEF LaneInv, TypeOK
    <3>2. ChatAt(s)' = ChatAt(s) /\ (Inside(s)' <=> Inside(s))
      BY <3>1 DEF ChatAt, Inside
    <3>3. CASE at[s] \notin {"free", "init"}
      <4>1. ChatAt(s) \in Chats
        BY <3>3, ChatKnown DEF LaneInv, Owning, ChatAt
      <4>2. InLine(s, ChatAt(s)) /\ (Inside(s) => Head(lane[ChatAt(s)]) = s)
        BY <1>2, <3>2, <3>3 DEF LaneInv, Lanes
      <4>3. InLine(s, ChatAt(s))' /\ Head(lane'[ChatAt(s)]) = Head(lane[ChatAt(s)])
        BY <1>1, <3>2, <4>1, <4>2 DEF InLine
      <4>4. QED BY <3>2, <4>2, <4>3
    <3>4. CASE at[s] \in {"free", "init"}
      BY <3>1, <3>4 DEF Inside
    <3>5. QED BY <3>3, <3>4
  <2>3. QED BY <2>1, <2>2
<1>3. QED BY <1>1, <1>2 DEF Lanes

\* ... and when r moves on inside the chain.
LEMMA MovingStep ==
    ASSUME LaneInv, NEW r \in Requests, NEW point \in Points \ {"free", "init"},
           at[r] \notin {"free", "init"}, at' = [at EXCEPT ![r] = point],
           IsTurn(r), UNCHANGED <<update, lane>>
    PROVE  Lanes'
<1>1. ASSUME NEW s \in Requests, ChatAt(s)' \in Keyed
      PROVE  /\ at'[s] \notin {"free", "init"} => InLine(s, ChatAt(s))'
             /\ Inside(s)' => Head(lane'[ChatAt(s)']) = s
  <2>1. ChatAt(s)' = ChatAt(s)
    BY DEF ChatAt
  <2>2. CASE s = r
    BY <1>1, <2>1, <2>2 DEF LaneInv, Lanes, IsTurn, InLine, ChatAt
  <2>3. CASE s # r
    <3>1. at'[s] = at[s]
      BY <2>3 DEF LaneInv, TypeOK
    <3>2. QED
      BY <1>1, <2>1, <3>1 DEF LaneInv, Lanes, InLine, Inside
  <2>4. QED BY <2>2, <2>3
<1>2. QED BY <1>1 DEF Lanes

LEMMA InsideIsTurn == LaneInv => \A r \in Requests : Inside(r) => IsTurn(r)
BY DEF LaneInv, Lanes, IsTurn

LEMMA Unmoved ==
    ASSUME LaneInv, UNCHANGED <<at, update, lane>>
    PROVE  Lanes'
BY DEF LaneInv, Lanes, InLine, Inside, ChatAt

LEMMA LaneInit == Init => LaneInv
<1> SUFFICES ASSUME Init PROVE LaneInv
  OBVIOUS
<1>1. TypeOK
  <2>1. initialized \in BOOLEAN
    BY Zenon DEF Init
  <2>2. /\ order \in Seq(Updates) /\ Len(order) <= Capacity
        /\ lane \in [Chats -> Seq(Requests)] /\ faults \in 0..MaxFaults
    BY WebhookAssumption DEF Init, WebhookAssumption
  <2>3. /\ delivery \in [Updates -> {"new", "queued", "sent", "done"}]
        /\ at \in [Requests -> Points] /\ open \subseteq Requests
        /\ update \in [Requests -> Updates \cup {NoUpdate}]
        /\ seen \subseteq Updates /\ value \in [Requests -> SUBSET Updates]
        /\ store \in [Chats -> SUBSET Updates]
        /\ applied \subseteq Updates /\ excused \subseteq Updates
    BY DEF Init, Points
  <2>4. QED BY <2>1, <2>2, <2>3 DEF TypeOK
<1>2. Owning /\ Lanes
  BY DEF Init, Owning, Lanes, Inside
<1>3. QED BY <1>1, <1>2 DEF LaneInv

LEMMA LaneRequest ==
    ASSUME LaneInv, NEW r \in Requests, RequestStep(r)
    PROVE  LaneInv'
<1>0. TypeOK /\ Owning
  BY DEF LaneInv
<1>1. ASSUME NEW u \in Updates, Deliver(r, u) PROVE LaneInv'
  <2>1. CASE initialized
    <3>1. lane' \in [Chats -> Seq(Requests)] /\ Lanes'
      BY <1>1, <2>1, JoiningStep DEF Deliver
    <3>2. TypeOK' /\ Owning'
      BY <1>0, <1>1, <2>1, <3>1 DEF Deliver, TypeOK, Owning, Points
    <3>3. QED BY <3>1, <3>2 DEF LaneInv
  <2>2. CASE ~initialized
    <3>1. TypeOK' /\ Owning'
      BY <1>0, <1>1, <2>2 DEF Deliver, TypeOK, Owning, Points
    <3>2. Lanes'
      BY <1>1, <2>2 DEF Deliver, LaneInv, TypeOK, Lanes, InLine, Inside, ChatAt
    <3>3. QED BY <3>1, <3>2 DEF LaneInv
  <2>3. QED BY <2>1, <2>2
<1>2. CASE ConnectionLost(r)
  <2>1. TypeOK' /\ Owning'
    BY <1>0, <1>2, WebhookAssumption
       DEF ConnectionLost, TypeOK, Owning, WebhookAssumption
  <2>2. QED BY <1>2, <2>1, Unmoved DEF ConnectionLost, LaneInv
<1>3. CASE Timeout(r)
  <2>1. TypeOK' /\ Owning'
    BY <1>0, <1>3, AnswerType DEF Timeout, TypeOK, Owning
  <2>2. QED BY <1>3, <2>1, Unmoved DEF Timeout, LaneInv
<1>4. CASE InitDone(r)
  <2>1. update[r] \in Updates /\ update' = [update EXCEPT ![r] = update[r]]
    BY <1>0, <1>4 DEF InitDone, Owning, TypeOK
  <2>2. lane' \in [Chats -> Seq(Requests)] /\ Lanes'
    BY <1>4, <2>1, JoiningStep DEF InitDone
  <2>3. TypeOK' /\ Owning'
    BY <1>0, <1>4, <2>1, <2>2 DEF InitDone, TypeOK, Owning, Points
  <2>4. QED BY <2>2, <2>3 DEF LaneInv
<1>5. CASE InitFails(r)
  <2>1. TypeOK' /\ Owning'
    BY <1>0, <1>5, AnswerType DEF InitFails, Leave, TypeOK, Owning, Points
  <2>2. Lanes'
    BY <1>5 DEF InitFails, Leave, LaneInv, TypeOK, Lanes, InLine, Inside, ChatAt
  <2>3. QED BY <2>1, <2>2 DEF LaneInv
<1>6. CASE Turn(r)
  <2>1. update[r] \in Updates
    BY <1>0, <1>6 DEF Turn, Owning
  <2>2. /\ order' \in Seq(Updates) /\ Len(order') <= Capacity
        /\ seen' \subseteq Updates /\ excused' \subseteq Updates
    BY <1>0, <1>6, <2>1, Remembering DEF Turn
  <2>3. TypeOK' /\ Owning'
    BY <1>0, <1>6, <2>1, <2>2 DEF Turn, TypeOK, Owning, Points
  <2>4. Lanes'
    BY <1>6, MovingStep DEF Turn, Points
  <2>5. QED BY <2>3, <2>4 DEF LaneInv
<1>7. CASE Swallow(r)
  <2>1. ChatAt(r) \in Keyed => InLine(r, ChatAt(r)) /\ Head(lane[ChatAt(r)]) = r
    BY <1>7 DEF Swallow, IsTurn, LaneInv, Lanes
  <2>2. QED BY <1>0, <1>7, <2>1, AnswerType, LeavingStep DEF Swallow
<1>8. ASSUME Load(r) \/ BodyDone(r) \/ Flush(r) PROVE LaneInv'
  <2>1. update[r] \in Updates /\ ChatAt(r) \in Chats /\ IsTurn(r)
    BY <1>0, <1>8, ChatKnown, InsideIsTurn
       DEF Load, BodyDone, Flush, Owning, ChatAt, Inside
  <2>2. TypeOK' /\ Owning'
    <3>1. CASE Load(r)
      BY <1>0, <2>1, <3>1 DEF Load, TypeOK, Owning, Points
    <3>2. CASE BodyDone(r)
      BY <1>0, <2>1, <3>2 DEF BodyDone, TypeOK, Owning, Points
    <3>3. CASE Flush(r)
      BY <1>0, <2>1, <3>3 DEF Flush, TypeOK, Owning, Points
    <3>4. QED BY <1>8, <3>1, <3>2, <3>3
  <2>3. Lanes'
    BY <1>8, <2>1, MovingStep DEF Load, BodyDone, Flush, Points
  <2>4. QED BY <2>2, <2>3 DEF LaneInv
<1>9. ASSUME Return(r) \/ Throw(r) PROVE LaneInv'
  <2>1. Inside(r) /\ at[r] # "free"
    BY <1>9 DEF Return, Throw, Inside
  <2>2. ChatAt(r) \in Keyed => InLine(r, ChatAt(r)) /\ Head(lane[ChatAt(r)]) = r
    BY <2>1 DEF LaneInv, Lanes, Inside
  <2>3. seen' \subseteq seen
    BY <1>9 DEF Return, Throw
  <2>4. QED
    BY <1>0, <1>9, <2>1, <2>2, <2>3, AnswerType, LeavingStep DEF Return, Throw
<1>10. QED
  BY <1>1, <1>2, <1>3, <1>4, <1>5, <1>6, <1>7, <1>8, <1>9 DEF RequestStep

LEMMA LaneNext == LaneInv /\ [Next]_vars => LaneInv'
<1> SUFFICES ASSUME LaneInv, [Next]_vars PROVE LaneInv'
  OBVIOUS
<1>1. ASSUME NEW u \in Updates, UserSends(u) PROVE LaneInv'
  <2>1. TypeOK' /\ Owning'
    BY <1>1 DEF UserSends, LaneInv, TypeOK, Owning
  <2>2. QED BY <1>1, <2>1, Unmoved DEF UserSends, LaneInv
<1>2. ASSUME NEW r \in Requests, RequestStep(r) PROVE LaneInv'
  BY <1>2, LaneRequest
<1>3. CASE Crash
  <2>1. TypeOK'
    <3>1. initialized' \in BOOLEAN
      BY <1>3, Zenon DEF Crash
    <3>2. /\ order' \in Seq(Updates) /\ Len(order') <= Capacity
          /\ lane' \in [Chats -> Seq(Requests)] /\ faults' \in 0..MaxFaults
      BY <1>3, WebhookAssumption DEF Crash, LaneInv, TypeOK, WebhookAssumption
    <3>3. /\ delivery' \in [Updates -> {"new", "queued", "sent", "done"}]
          /\ at' \in [Requests -> Points] /\ open' \subseteq Requests
          /\ update' \in [Requests -> Updates \cup {NoUpdate}]
          /\ seen' \subseteq Updates /\ value' \in [Requests -> SUBSET Updates]
          /\ store' \in [Chats -> SUBSET Updates]
          /\ applied' \subseteq Updates /\ excused' \subseteq Updates
      BY <1>3 DEF Crash, LaneInv, TypeOK, Points
    <3>4. QED BY <3>1, <3>2, <3>3 DEF TypeOK
  <2>2. Owning' /\ Lanes'
    BY <1>3 DEF Crash, Owning, Lanes, Inside
  <2>3. QED BY <2>1, <2>2 DEF LaneInv
<1>4. CASE UNCHANGED vars
  <2>1. TypeOK' /\ Owning'
    BY <1>4 DEF vars, LaneInv, TypeOK, Owning
  <2>2. QED BY <1>4, <2>1, Unmoved DEF vars, LaneInv
<1>5. QED BY <1>1, <1>2, <1>3, <1>4 DEF Next, RequestStep

LEMMA LaneAlways == Spec => []LaneInv
BY LaneInit, LaneNext, PTL DEF Spec

\* Every reachable state is well typed; in particular dedupe()'s window never
\* outgrows its capacity.
THEOREM WellTyped == Spec => []TypeOK
<1>1. LaneInv => TypeOK
  BY DEF LaneInv
<1>2. QED BY <1>1, LaneAlways, PTL

LEMMA LaneExcludes == LaneInv => OneAtATime
BY DEF LaneInv, Lanes, OneAtATime

\* Updates of a chat in order are never inside the handler together.
THEOREM LaneHolds == Spec => []OneAtATime
BY LaneExcludes, LaneAlways, PTL
-----------------------------------------------------------------------------
(* Sessions. *)

\* A keyed session, once read, stays up to date until it is written back:
\* nobody else of its chat is inside.
ReadIsFresh ==
    \A r \in Requests :
        at[r] \in {"body", "flush"} /\ ChatAt(r) \in Keyed =>
            \A u \in applied : ChatOf[u] = ChatAt(r) => u \in value[r]

FlushedIsApplied ==
    \A r \in Requests :
        /\ at[r] = "flush" => update[r] \in value[r]
        /\ at[r] = "saved" => update[r] \in applied

SessionInv == NothingClobbered /\ ReadIsFresh /\ FlushedIsApplied

\* Steps that leave the sessions alone and let no request in.
LEMMA SessionIdle ==
    ASSUME SessionInv, UNCHANGED <<store, applied>>,
           \A r \in Requests :
               at'[r] \in {"body", "flush", "saved"} =>
                  at'[r] = at[r] /\ update'[r] = update[r] /\ value'[r] = value[r]
    PROVE  SessionInv'
BY DEF SessionInv, NothingClobbered, ReadIsFresh, FlushedIsApplied, ChatAt

LEMMA SessionRequest ==
    ASSUME LaneInv, SessionInv, NEW r \in Requests, RequestStep(r)
    PROVE  SessionInv'
<1>0. TypeOK /\ Owning /\ OneAtATime
  BY LaneExcludes DEF LaneInv
<1>1. ASSUME NEW u \in Updates, Deliver(r, u) PROVE SessionInv'
  BY <1>0, <1>1, SessionIdle DEF Deliver, TypeOK
<1>2. ASSUME \/ ConnectionLost(r) \/ Timeout(r) \/ InitDone(r) \/ InitFails(r)
             \/ Turn(r) \/ Swallow(r) \/ Return(r) \/ Throw(r)
      PROVE  SessionInv'
  BY <1>0, <1>2, SessionIdle
     DEF ConnectionLost, Timeout, InitDone, InitFails, Turn, Swallow, Return,
         Throw, Leave, TypeOK
<1>3. CASE Load(r)
  <2>1. update[r] \in Updates /\ ChatAt(r) \in Chats
    BY <1>0, <1>3, ChatKnown DEF Load, Owning, ChatAt
  <2>2. value'[r] = store[ChatAt(r)] /\ \A s \in Requests \ {r} : value'[s] = value[s]
    BY <1>0, <1>3 DEF Load, TypeOK
  <2>3. at'[r] = "body" /\ \A s \in Requests \ {r} : at'[s] = at[s]
    BY <1>0, <1>3 DEF Load, TypeOK
  <2>4. UNCHANGED <<update, store, applied>>
    BY <1>3 DEF Load
  <2>5. QED
    BY <2>2, <2>3, <2>4
       DEF SessionInv, NothingClobbered, ReadIsFresh, FlushedIsApplied, ChatAt
<1>4. CASE BodyDone(r)
  <2>1. /\ value'[r] = value[r] \cup {update[r]}
        /\ \A s \in Requests \ {r} : value'[s] = value[s]
    BY <1>0, <1>4 DEF BodyDone, TypeOK
  <2>2. at[r] = "body" /\ at'[r] = "flush" /\ \A s \in Requests \ {r} : at'[s] = at[s]
    BY <1>0, <1>4 DEF BodyDone, TypeOK
  <2>3. UNCHANGED <<update, store, applied>>
    BY <1>4 DEF BodyDone
  <2>4. QED
    BY <2>1, <2>2, <2>3
       DEF SessionInv, NothingClobbered, ReadIsFresh, FlushedIsApplied, ChatAt
<1>5. CASE Flush(r)
  <2>1. update[r] \in Updates /\ ChatAt(r) \in Chats
    BY <1>0, <1>5, ChatKnown DEF Flush, Owning, ChatAt
  <2>2. /\ store'[ChatAt(r)] = value[r]
        /\ \A c \in Chats \ {ChatAt(r)} : store'[c] = store[c]
    BY <1>0, <1>5, <2>1 DEF Flush, TypeOK
  <2>3. at[r] = "flush" /\ at'[r] = "saved" /\ \A s \in Requests \ {r} : at'[s] = at[s]
    BY <1>0, <1>5 DEF Flush, TypeOK
  <2>4. UNCHANGED <<update, value>> /\ applied' = applied \cup {update[r]}
    BY <1>5 DEF Flush
  <2>5. NothingClobbered'
    <3>1. ASSUME NEW u \in applied', ChatOf[u] \in Keyed
          PROVE  u \in store'[ChatOf[u]]
      <4>1. ChatOf[u] \in Chats
        BY <3>1, WebhookAssumption DEF WebhookAssumption
      <4>2. CASE ChatOf[u] = ChatAt(r)
        BY <2>2, <2>3, <2>4, <3>1, <4>2
           DEF SessionInv, ReadIsFresh, FlushedIsApplied
      <4>3. CASE ChatOf[u] # ChatAt(r)
        <5>1. u \in applied
          BY <2>4, <4>3 DEF ChatAt
        <5>2. QED
          BY <2>2, <3>1, <4>1, <4>3, <5>1 DEF SessionInv, NothingClobbered
      <4>4. QED BY <4>2, <4>3
    <3>2. QED BY <3>1 DEF NothingClobbered
  <2>6. ReadIsFresh'
    <3>1. ASSUME NEW s \in Requests, at'[s] \in {"body", "flush"}, ChatAt(s) \in Keyed,
                 NEW u \in applied', ChatOf[u] = ChatAt(s)
          PROVE  u \in value[s]
      <4>1. s # r /\ at'[s] = at[s]
        BY <2>3, <3>1
      <4>2. ChatAt(s) # ChatAt(r)
        BY <1>0, <2>3, <3>1, <4>1 DEF OneAtATime, Inside
      <4>3. u \in applied
        BY <2>4, <3>1, <4>2 DEF ChatAt
      <4>4. QED BY <3>1, <4>1, <4>3 DEF SessionInv, ReadIsFresh
    <3>2. QED BY <2>4, <3>1 DEF ReadIsFresh, ChatAt
  <2>7. FlushedIsApplied'
    BY <2>3, <2>4 DEF SessionInv, FlushedIsApplied
  <2>8. QED BY <2>5, <2>6, <2>7 DEF SessionInv
<1>6. QED BY <1>1, <1>2, <1>3, <1>4, <1>5 DEF RequestStep

LEMMA SessionInit == Init => SessionInv
BY DEF Init, SessionInv, NothingClobbered, ReadIsFresh, FlushedIsApplied

LEMMA SessionNext == LaneInv /\ SessionInv /\ [Next]_vars => SessionInv'
<1> SUFFICES ASSUME LaneInv, SessionInv, [Next]_vars PROVE SessionInv'
  OBVIOUS
<1>1. ASSUME NEW u \in Updates, UserSends(u) PROVE SessionInv'
  BY <1>1, SessionIdle DEF UserSends
<1>2. ASSUME NEW r \in Requests, RequestStep(r) PROVE SessionInv'
  BY <1>2, SessionRequest
<1>3. CASE Crash
  BY <1>3, SessionIdle DEF Crash
<1>4. CASE UNCHANGED vars
  BY <1>4, SessionIdle DEF vars
<1>5. QED BY <1>1, <1>2, <1>3, <1>4 DEF Next, RequestStep

LEMMA SessionAlways == Spec => []SessionInv
BY SessionInit, SessionNext, LaneAlways, PTL DEF Spec

\* No read-modify-write of a session clobbers another one.
THEOREM SessionsKept == Spec => []NothingClobbered
<1>1. SessionInv => NothingClobbered
  BY DEF SessionInv
<1>2. QED BY <1>1, SessionAlways, PTL
-----------------------------------------------------------------------------
(* The window of dedupe(). *)

\* What is inside or applied is remembered, or excused; and an update is
\* inside twice, or again after it was applied, only when it is excused.
WindowInv ==
    /\ applied \subseteq seen \cup excused
    /\ \A r \in Requests :
          Inside(r) =>
             /\ update[r] \in seen \cup excused
             /\ at[r] # "saved" /\ update[r] \in applied => update[r] \in excused
    /\ \A r, s \in Requests :
          Inside(r) /\ Inside(s) /\ r # s /\ update[r] = update[s] =>
             update[r] \in excused

\* Steps that remember and forget nothing, and let no request in.
LEMMA WindowIdle ==
    ASSUME WindowInv, UNCHANGED <<seen, applied>>, excused \subseteq excused',
           \A r \in Requests :
               Inside(r)' => at'[r] = at[r] /\ update'[r] = update[r]
    PROVE  WindowInv'
BY DEF WindowInv, Inside

LEMMA WindowRequest ==
    ASSUME LaneInv, WindowInv, NEW r \in Requests, RequestStep(r)
    PROVE  WindowInv'
<1>0. TypeOK /\ Owning
  BY DEF LaneInv
<1>1. ASSUME NEW u \in Updates, Deliver(r, u) PROVE WindowInv'
  BY <1>0, <1>1, WindowIdle DEF Deliver, TypeOK, Inside
<1>2. ASSUME \/ ConnectionLost(r) \/ Timeout(r) \/ InitDone(r) \/ InitFails(r)
             \/ Swallow(r) \/ Return(r)
      PROVE  WindowInv'
  BY <1>0, <1>2, WindowIdle
     DEF ConnectionLost, Timeout, InitDone, InitFails, Swallow, Return, Leave,
         TypeOK, Inside
<1>3. ASSUME Load(r) \/ BodyDone(r) PROVE WindowInv'
  BY <1>0, <1>3 DEF Load, BodyDone, TypeOK, WindowInv, Inside
<1>4. CASE Turn(r)
  <2>1. update[r] \in Updates /\ update[r] \notin seen
    BY <1>0, <1>4 DEF Turn, Owning
  <2>2. /\ excused \subseteq excused'
        /\ update[r] \in seen' \cup excused'
        /\ seen \subseteq seen' \cup excused'
    BY <1>0, <1>4, <2>1, Remembering DEF Turn
  <2>3. at'[r] = "load" /\ \A s \in Requests \ {r} : at'[s] = at[s]
    BY <1>0, <1>4 DEF Turn, TypeOK
  <2>4. UNCHANGED <<update, applied>>
    BY <1>4 DEF Turn
  <2>5. QED BY <2>1, <2>2, <2>3, <2>4 DEF WindowInv, Inside
<1>5. CASE Flush(r)
  <2>1. at[r] = "flush" /\ at'[r] = "saved" /\ \A s \in Requests \ {r} : at'[s] = at[s]
    BY <1>0, <1>5 DEF Flush, TypeOK
  <2>2. UNCHANGED <<update, seen, excused>> /\ applied' = applied \cup {update[r]}
    BY <1>5 DEF Flush
  <2>3. QED BY <2>1, <2>2 DEF WindowInv, Inside
<1>6. CASE Throw(r)
  <2>1. at[r] \in {"load", "body", "flush"} /\ at'[r] = "free"
    BY <1>0, <1>6 DEF Throw, Leave, TypeOK
  <2>2. \A s \in Requests \ {r} : at'[s] = at[s] /\ update'[s] = update[s]
    BY <1>0, <1>6 DEF Throw, Leave, TypeOK
  <2>3. seen' = seen \ {update[r]} /\ UNCHANGED <<applied, excused>>
    BY <1>6 DEF Throw
  <2>4. QED BY <2>1, <2>2, <2>3 DEF WindowInv, Inside
<1>7. QED BY <1>1, <1>2, <1>3, <1>4, <1>5, <1>6 DEF RequestStep

LEMMA WindowInit == Init => WindowInv
BY DEF Init, WindowInv, Inside

LEMMA WindowNext == LaneInv /\ WindowInv /\ [Next]_vars => WindowInv'
<1> SUFFICES ASSUME LaneInv, WindowInv, [Next]_vars PROVE WindowInv'
  OBVIOUS
<1>1. ASSUME NEW u \in Updates, UserSends(u) PROVE WindowInv'
  BY <1>1, WindowIdle DEF UserSends
<1>2. ASSUME NEW r \in Requests, RequestStep(r) PROVE WindowInv'
  BY <1>2, WindowRequest
<1>3. CASE Crash
  <2>1. applied' \subseteq excused' /\ seen' = {}
    BY <1>3 DEF Crash, WindowInv
  <2>2. \A r \in Requests : ~Inside(r)'
    BY <1>3 DEF Crash, Inside
  <2>3. QED BY <2>1, <2>2 DEF WindowInv
<1>4. CASE UNCHANGED vars
  BY <1>4, WindowIdle DEF vars
<1>5. QED BY <1>1, <1>2, <1>3, <1>4 DEF Next, RequestStep

LEMMA WindowAlways == Spec => []WindowInv
BY WindowInit, WindowNext, LaneAlways, PTL DEF Spec

\* An update that was applied is not run again for a redelivery: only when
\* the window has dropped its id.
THEOREM NotAppliedAgain == Spec => AppliedOnce
<1>1. WindowInv /\ [Next]_vars =>
        [\A r \in Requests :
            Turn(r) /\ update[r] \in applied => update[r] \in excused]_vars
  BY DEF WindowInv, Turn
<1>2. QED BY <1>1, WindowAlways, PTL DEF Spec, AppliedOnce
-----------------------------------------------------------------------------
(* Acknowledged updates. *)

\* The policies under which Telegram only forgets what was handled.
Strict == OnTimeout = "fail" /\ OnError = "fail" /\ Keyed = Chats

\* What dedupe() remembers was applied or is being run, and what Telegram
\* was told to forget was applied.
AckInv ==
    /\ \A u \in seen :
          u \in applied \/ \E r \in Requests : Inside(r) /\ update[r] = u
    /\ AckedIsApplied

\* A duplicate is judged after the run before it ended: it was applied.
LEMMA SwallowedIsApplied ==
    ASSUME Strict, LaneInv, AckInv, NEW r \in Requests, Swallow(r)
    PROVE  update[r] \in applied
<1>1. SUFFICES ASSUME update[r] \notin applied PROVE FALSE
  OBVIOUS
<1>2. at[r] = "lane" /\ IsTurn(r) /\ update[r] \in seen
  BY DEF Swallow
<1>3. ChatAt(r) \in Keyed
  BY <1>2, ChatKnown DEF Strict, LaneInv, Owning, ChatAt
<1>4. PICK s \in Requests : Inside(s) /\ update[s] = update[r]
  BY <1>1, <1>2 DEF AckInv
<1>5. s # r
  BY <1>2, <1>4 DEF Inside
<1>6. Head(lane[ChatAt(r)]) = r /\ Head(lane[ChatAt(r)]) = s
  BY <1>2, <1>3, <1>4 DEF IsTurn, LaneInv, Lanes, ChatAt
<1>7. QED BY <1>5, <1>6

\* Steps after which what was applied or inside still is, and that have
\* nothing forgotten by Telegram and nothing remembered.
LEMMA AckIdle ==
    ASSUME AckInv, seen' \subseteq seen, applied \subseteq applied',
           \A u \in Updates : delivery'[u] = "done" => delivery[u] = "done",
           \A r \in Requests :
               Inside(r) => \/ Inside(r)' /\ update'[r] = update[r]
                            \/ update[r] \in applied
                            \/ update[r] \notin seen'
    PROVE  AckInv'
BY DEF AckInv, AckedIsApplied

LEMMA FailedAnswer ==
    ASSUME TypeOK, NEW r \in Requests, Answer(r, "fail")
    PROVE  \A u \in Updates : delivery'[u] = "done" => delivery[u] = "done"
BY DEF TypeOK, Answer

LEMMA AckRequest ==
    ASSUME Strict, LaneInv, FlushedIsApplied, AckInv, NEW r \in Requests, RequestStep(r)
    PROVE  AckInv'
<1>0. TypeOK /\ Owning
  BY DEF LaneInv
<1>1. ASSUME NEW u \in Updates, Deliver(r, u) PROVE AckInv'
  BY <1>0, <1>1, AckIdle DEF Deliver, TypeOK, Inside
<1>2. CASE ConnectionLost(r)
  BY <1>0, <1>2, AckIdle DEF ConnectionLost, TypeOK, Inside
<1>3. CASE Timeout(r)
  BY <1>0, <1>3, AckIdle, FailedAnswer DEF Timeout, Strict, Inside
<1>4. CASE InitDone(r)
  BY <1>0, <1>4, AckIdle DEF InitDone, TypeOK, Inside
<1>5. CASE InitFails(r)
  BY <1>0, <1>5, AckIdle, FailedAnswer DEF InitFails, Leave, Strict, TypeOK, Inside
<1>6. CASE Turn(r)
  <2>1. update[r] \in Updates
    BY <1>0, <1>6 DEF Turn, Owning
  <2>2. seen' \subseteq seen \cup {update[r]}
    BY <1>0, <1>6, <2>1, Remembering DEF Turn
  <2>3. Inside(r)' /\ \A s \in Requests : Inside(s) => Inside(s)'
    BY <1>0, <1>6 DEF Turn, TypeOK, Inside
  <2>4. UNCHANGED <<update, applied, delivery>>
    BY <1>6 DEF Turn
  <2>5. QED BY <2>2, <2>3, <2>4 DEF AckInv, AckedIsApplied
<1>7. ASSUME Swallow(r) \/ Return(r) PROVE AckInv'
  <2>1. update[r] \in applied
    BY <1>7, SwallowedIsApplied DEF Return, FlushedIsApplied
  <2>2. \A u \in Updates : delivery'[u] = "done" => delivery[u] = "done" \/ u = update[r]
    BY <1>0, <1>7 DEF Swallow, Return, Answer, TypeOK
  <2>3. \A s \in Requests \ {r} : at'[s] = at[s] /\ update'[s] = update[s]
    BY <1>0, <1>7 DEF Swallow, Return, Leave, TypeOK
  <2>4. UNCHANGED <<seen, applied>>
    BY <1>7 DEF Swallow, Return
  <2>5. QED BY <2>1, <2>2, <2>3, <2>4 DEF AckInv, AckedIsApplied, Inside
<1>8. CASE Load(r) \/ BodyDone(r) \/ Flush(r)
  BY <1>0, <1>8, AckIdle DEF Load, BodyDone, Flush, TypeOK, Inside
<1>9. CASE Throw(r)
  <2>1. \A u \in Updates : delivery'[u] = "done" => delivery[u] = "done"
    BY <1>0, <1>9, FailedAnswer DEF Throw, Strict
  <2>2. \A s \in Requests \ {r} : at'[s] = at[s] /\ update'[s] = update[s]
    BY <1>0, <1>9 DEF Throw, Leave, TypeOK
  <2>3. seen' = seen \ {update[r]} /\ UNCHANGED applied
    BY <1>9 DEF Throw
  <2>4. QED BY <2>1, <2>2, <2>3, AckIdle DEF Inside
<1>10. QED
  BY <1>1, <1>2, <1>3, <1>4, <1>5, <1>6, <1>7, <1>8, <1>9 DEF RequestStep

LEMMA AckInit == Init => AckInv
BY DEF Init, AckInv, AckedIsApplied

LEMMA AckNext ==
    ASSUME Strict
    PROVE  LaneInv /\ SessionInv /\ AckInv /\ [Next]_vars => AckInv'
<1> SUFFICES ASSUME LaneInv, SessionInv, AckInv, [Next]_vars PROVE AckInv'
  OBVIOUS
<1>1. ASSUME NEW u \in Updates, UserSends(u) PROVE AckInv'
  BY <1>1, AckIdle DEF UserSends, LaneInv, TypeOK, Inside
<1>2. ASSUME NEW r \in Requests, RequestStep(r) PROVE AckInv'
  BY <1>2, AckRequest DEF SessionInv
<1>3. CASE Crash
  BY <1>3 DEF Crash, AckInv, AckedIsApplied
<1>4. CASE UNCHANGED vars
  BY <1>4, AckIdle DEF vars, Inside
<1>5. QED BY <1>1, <1>2, <1>3, <1>4 DEF Next, RequestStep

\* With a lane for every chat and both policies at "fail", an update that
\* Telegram was told to forget was applied.
THEOREM AcknowledgedIsApplied ==
    ASSUME Strict
    PROVE  Spec => []AckedIsApplied
<1>1. AckInv => AckedIsApplied
  BY DEF AckInv
<1>2. LaneInv /\ SessionInv /\ AckInv /\ [Next]_vars => AckInv'
  BY AckNext
<1>3. QED BY <1>1, <1>2, AckInit, LaneAlways, SessionAlways, PTL DEF Spec
=============================================================================
