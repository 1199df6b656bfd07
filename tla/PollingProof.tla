---------------------------- MODULE PollingProof ----------------------------
(***************************************************************************)
(* Proofs about Polling: its type invariant, that no update is lost, that  *)
(* none is handled twice in a process, and that the driver implements      *)
(* UpdateFeed, for every number of updates, batch size, queue of start()   *)
(* calls, set of getMe requests and number of crashes.                     *)
(***************************************************************************)
EXTENDS Polling, TLAPS

\* The server's part is small enough to be expanded everywhere.
USE TelegramAssumption
    DEF TelegramAssumption, TelegramType, TelegramInit, UpdateArrives,
        RequestAnswered, LateRequestArrives, Greater, Lesser
-----------------------------------------------------------------------------
(* Typing.  One lemma per group of actions. *)

\* The Boolean variables are a lemma of their own: arithmetic and Booleans
\* are for different provers.
LEMMA FlagsNext == TypeOK /\ [Next]_vars => FlagsOK'
<1> SUFFICES ASSUME FlagsOK, [Next]_vars PROVE FlagsOK'
  BY DEF TypeOK
<1> USE DEF FlagsOK, initVars, lifeVars, loopVars
<1>1. CASE StopCall
  BY <1>1, Zenon DEF StopCall
<1>2. CASE StartCall
  BY <1>2, Zenon DEF StartCall, BeginCycle
<1>3. CASE CycleEnds
  BY <1>3, Zenon DEF CycleEnds, BeginCycle
<1>4. ASSUME NEW p \in Probes, NEW ok \in BOOLEAN, ProbeSettles(p, ok)
      PROVE  FlagsOK'
  BY <1>4, Zenon DEF ProbeSettles
<1>5. ASSUME NEW hang \in BOOLEAN, PollFails(hang)
      PROVE  FlagsOK'
  BY <1>5, Zenon DEF PollFails
<1>6. CASE Crash
  BY <1>6, PollingAssumption, Zenon DEF Crash, PollingAssumption
<1>7. CASE UNCHANGED vars
  BY <1>7, Zenon DEF vars
<1>8. CASE \/ Arrive \/ Answer \/ OrphanArrives \/ InitCall \/ InitAborted
           \/ StopHandlersFinish \/ StartHandlersFinish \/ LoopExit \/ PollSend
           \/ PollReceive \/ PollAborted \/ ReportDone \/ BackoffDone
           \/ HandleBegin \/ HandleDone \/ EnterFinally \/ ConfirmDone
  BY <1>8, Zenon DEF Arrive, Answer, OrphanArrives, InitCall, InitAborted,
     StopHandlersFinish, StartHandlersFinish, LoopExit, PollSend, PollReceive,
     PollAborted, ReportDone, BackoffDone, HandleBegin, HandleDone,
     EnterFinally, ConfirmDone
<1>9. QED
  BY <1>1, <1>2, <1>3, <1>4, <1>5, <1>6, <1>7, <1>8 DEF Next, Probe, PollFailure

LEMMA AbandonType ==
    ASSUME TypeOK, Abandon
    PROVE  /\ request' \in {"none", "sent", "answered"}
           /\ orphans' \subseteq Offsets
           /\ bnext' \in 1..(MaxUpdate + 1)
           /\ bend' \in 0..MaxUpdate
BY PollingAssumption DEF TypeOK, Abandon, PollingAssumption

LEMMA InitializeType ==
    ASSUME TypeOK, NEW signal \in {"none", "live"}, Initialize(signal)
    PROVE  /\ initPromise' \in Probes \cup {NoProbe}
           /\ initSignal' \in {"none", "live", "aborted"}
           /\ probes' \subseteq Probes
           /\ probes \subseteq probes'
BY DEF TypeOK, Initialize

LEMMA BeginCycleType ==
    ASSUME TypeOK, BeginCycle, FlagsOK', UNCHANGED <<telegramVars, handled, crashes>>,
           queued' \in 0..MaxQueued, wanted' \in {"start", "stop"}
    PROVE  TypeOK'
<1>1. /\ initPromise' \in Probes \cup {NoProbe}
      /\ initSignal' \in {"none", "live", "aborted"}
      /\ probes' \subseteq Probes
      /\ probes \subseteq probes'
      /\ waiting' \in Probes \cup {NoProbe}
  <2>1. CASE info
    BY <2>1 DEF BeginCycle, TypeOK
  <2>2. CASE ~info
    <3>1. Initialize("live") /\ waiting' = initPromise'
      BY <2>2 DEF BeginCycle
    <3>2. QED BY <3>1, InitializeType
  <2>3. QED BY <2>1, <2>2
<1>2. pc' \in Points
  BY DEF BeginCycle, Points, Abortable
<1>3. cancelled' \subseteq probes'
  BY <1>1 DEF BeginCycle, TypeOK
<1>4. QED
  BY <1>1, <1>2, <1>3, PollingAssumption
     DEF BeginCycle, TypeOK, telegramVars, PollingAssumption

\* The update being handled is an id: the step that ends it needs this.
InFlight == pc = "handling" => offset \in 2..(MaxUpdate + 1)

TypeInv == TypeOK /\ InFlight

LEMMA TypeInit == Init => TypeInv
<1>1. Init => FlagsOK
  BY PollingAssumption, Zenon DEF Init, FlagsOK, PollingAssumption
<1>2. QED
  BY <1>1, PollingAssumption
     DEF Init, TypeInv, InFlight, TypeOK, PollingAssumption, Points, Offsets

LEMMA TypeNext == TypeInv /\ [Next]_vars => TypeOK'
<1> SUFFICES ASSUME TypeOK, InFlight, [Next]_vars PROVE TypeOK'
  BY DEF TypeInv
<1>0. FlagsOK'
  BY FlagsNext
<1> USE <1>0, PollingAssumption DEF PollingAssumption
<1> USE DEF telegramVars, wireVars, loopVars, initVars, lifeVars
<1>1. CASE Arrive
  BY <1>1 DEF Arrive, TypeOK
<1>2. CASE Answer
  BY <1>2 DEF Answer, TypeOK, Offsets
<1>3. CASE OrphanArrives
  BY <1>3 DEF OrphanArrives, TypeOK, Offsets
<1>4. CASE InitCall
  BY <1>4, InitializeType DEF InitCall, TypeOK
<1>5. ASSUME NEW p \in Probes, NEW ok \in BOOLEAN, ProbeSettles(p, ok)
      PROVE  TypeOK'
  BY <1>5 DEF ProbeSettles, TypeOK, Points, Abortable
<1>6. CASE InitAborted
  BY <1>6 DEF InitAborted, TypeOK, Points
<1>7. CASE StartCall
  <2>1. CASE pc = "off" /\ BeginCycle /\ UNCHANGED queued
    BY <1>7, <2>1, BeginCycleType DEF StartCall, TypeOK
  <2>2. CASE ~(pc = "off" /\ BeginCycle /\ UNCHANGED queued)
    BY <1>7, <2>2 DEF StartCall, TypeOK
  <2>3. QED BY <2>1, <2>2
<1>8. CASE StopCall
  BY <1>8 DEF StopCall, StopHandlersStarted, TypeOK
<1>9. CASE StopHandlersFinish
  BY <1>9 DEF StopHandlersFinish, TypeOK
<1>10. CASE StartHandlersFinish
  BY <1>10 DEF StartHandlersFinish, TypeOK, Points, Abortable
<1>11. CASE LoopExit
  BY <1>11 DEF LoopExit, TypeOK, Points
<1>12. CASE PollSend
  BY <1>12 DEF PollSend, TypeOK, Points, Abortable
<1>13. CASE PollReceive
  BY <1>13 DEF PollReceive, TypeOK, Points, Abortable
<1>14. ASSUME NEW hang \in BOOLEAN, PollFails(hang)
       PROVE  TypeOK'
  BY <1>14, AbandonType DEF PollFails, TypeOK, Points, Abortable
<1>15. CASE PollAborted
  BY <1>15, AbandonType DEF PollAborted, TypeOK, Points
<1>16. CASE ReportDone
  BY <1>16 DEF ReportDone, TypeOK, Points, Abortable
<1>17. CASE BackoffDone
  BY <1>17 DEF BackoffDone, TypeOK, Points, Abortable
<1>18. CASE HandleBegin
  BY <1>18 DEF HandleBegin, TypeOK, Points, Abortable, Offsets
<1>19. CASE HandleDone
  <2>1. handled' \subseteq Ids
    <3>1. offset - 1 \in 1..MaxUpdate
      BY <1>19 DEF HandleDone, InFlight
    <3>2. handled' = handled \cup {offset - 1} /\ handled \subseteq Ids
      BY <1>19 DEF HandleDone, TypeOK
    <3>3. QED BY <3>1, <3>2 DEF Ids
  <2>2. QED
    BY <1>19, <2>1 DEF HandleDone, TypeOK, Points, Abortable
<1>20. CASE EnterFinally
  BY <1>20 DEF EnterFinally, StopHandlersStarted, TypeOK, Points
<1>21. CASE ConfirmDone
  BY <1>21, AbandonType DEF ConfirmDone, StopHandlersStarted, TypeOK, Points
<1>22. CASE CycleEnds
  <2> DEFINE Restarts == outcome = "ok" /\ stopRun = "done" /\ queued > 0
  <2>1. CASE Restarts
    BY <1>22, <2>1, BeginCycleType DEF CycleEnds, TypeOK
  <2>2. CASE ~Restarts
    BY <1>22, <2>2 DEF CycleEnds, TypeOK, Points
  <2>3. QED BY <2>1, <2>2
<1>23. CASE Crash
  BY <1>23, AbandonType DEF Crash, TypeOK, Points, Offsets
<1>24. CASE UNCHANGED vars
  BY <1>24 DEF vars, TypeOK
<1>25. QED
  BY <1>1, <1>2, <1>3, <1>4, <1>5, <1>6, <1>7, <1>8, <1>9, <1>10, <1>11,
     <1>12, <1>13, <1>14, <1>15, <1>16, <1>17, <1>18, <1>19, <1>20, <1>21,
     <1>22, <1>23, <1>24 DEF Next, Probe, PollFailure

LEMMA InFlightNext == TypeInv /\ [Next]_vars => InFlight'
<1> SUFFICES ASSUME TypeOK, InFlight, [Next]_vars PROVE InFlight'
  BY DEF TypeInv
<1> USE DEF telegramVars, wireVars, loopVars, initVars, lifeVars
<1>1. CASE HandleBegin
  BY <1>1, PollingAssumption DEF HandleBegin, TypeOK, InFlight, PollingAssumption
<1>2. CASE ~HandleBegin
  <2>1. pc' = "handling" => pc = "handling"
    BY <1>2 DEF Next, vars, Arrive, Answer, OrphanArrives, InitCall, Probe,
       ProbeSettles, InitAborted, StartCall, StopCall, StopHandlersFinish,
       StartHandlersFinish, LoopExit, PollSend, PollReceive, PollFailure,
       PollFails, PollAborted, ReportDone, BackoffDone, HandleDone,
       EnterFinally, ConfirmDone, CycleEnds, Crash, BeginCycle
  <2>2. pc = "handling" /\ pc' = "handling" => offset' = offset
    BY <1>2 DEF Next, vars, Arrive, Answer, OrphanArrives, InitCall, Probe,
       ProbeSettles, InitAborted, StartCall, StopCall, StopHandlersFinish,
       StartHandlersFinish, LoopExit, PollSend, PollReceive, PollFailure,
       PollFails, PollAborted, ReportDone, BackoffDone, HandleDone,
       EnterFinally, ConfirmDone, CycleEnds, Crash, BeginCycle
  <2>3. QED BY <2>1, <2>2 DEF InFlight
<1>3. QED BY <1>1, <1>2

\* Every variable keeps its type, and an update in flight has an id
\* Telegram sent: HandleDone's id is in Ids.
THEOREM TypeCorrect == Spec => []TypeOK
<1>1. Init => TypeInv
  BY TypeInit
<1>2. TypeInv /\ [Next]_vars => TypeInv'
  BY TypeNext, InFlightNext DEF TypeInv
<1>3. TypeInv => TypeOK
  BY DEF TypeInv
<1>4. QED
  BY <1>1, <1>2, <1>3, PTL DEF Spec
-----------------------------------------------------------------------------
(* Updates.  NoLoss alone is not inductive: what may confirm an update is  *)
(* the offset of a request in flight or of a late one, which comes from    *)
(* #offset, which comes from the batch.                                    *)

HandledBelow(n) == \A i \in Ids : i < n => i \in handled

\* Whatever confirms updates, now or later, confirms handled ones.
ConfirmsHandled ==
    /\ HandledBelow(confirmed)
    /\ HandledBelow(sentOffset)
    /\ \A o \in orphans : HandledBelow(o)

\* #offset runs one update ahead while that update is being handled.
OffsetHandled == HandledBelow(IF pc = "handling" THEN offset - 1 ELSE offset)

\* The rest of the batch continues where #offset stands or further on.
BatchContinues ==
    IF pc = "handling"
    THEN bnext = offset
    ELSE bnext <= bend => bnext >= offset /\ HandledBelow(bnext)

PollCarriesOffset == pc = "polling" => sentOffset = offset

\* No offset is beyond what arrived.
WithinArrived ==
    /\ confirmed <= arrived + 1
    /\ sentOffset <= arrived + 1
    /\ \A o \in orphans : o <= arrived + 1
    /\ offset <= arrived + 1
    /\ bend <= arrived

FeedInv ==
    /\ ConfirmsHandled
    /\ OffsetHandled
    /\ BatchContinues
    /\ PollCarriesOffset
    /\ WithinArrived

LEMMA FeedInvInit == Init => FeedInv
BY PollingAssumption
   DEF Init, FeedInv, ConfirmsHandled, OffsetHandled, BatchContinues,
       PollCarriesOffset, WithinArrived, HandledBelow, Ids, PollingAssumption

\* A step that at most gives up a request and drops the batch.
LEMMA FeedInvQuiet ==
    ASSUME TypeInv, FeedInv,
           UNCHANGED <<arrived, confirmed, offset, sentOffset, handled>>,
           orphans' \subseteq orphans \cup {sentOffset},
           \/ UNCHANGED <<bnext, bend>>
           \/ bnext' = 1 /\ bend' = 0,
           pc = "handling" /\ pc' = "handling" => UNCHANGED bnext,
           pc' = "handling" => pc = "handling",
           pc = "handling" => pc' = "handling",
           pc' = "polling" => pc = "polling"
    PROVE  FeedInv'
<1>1. ConfirmsHandled'
  BY DEF FeedInv, ConfirmsHandled, HandledBelow
<1>2. OffsetHandled'
  BY DEF FeedInv, OffsetHandled, HandledBelow
<1>3. BatchContinues'
  BY DEF FeedInv, BatchContinues, HandledBelow
<1>4. PollCarriesOffset'
  BY DEF FeedInv, PollCarriesOffset
<1>5. WithinArrived'
  BY DEF FeedInv, WithinArrived, TypeInv, TypeOK
<1>6. QED
  BY <1>1, <1>2, <1>3, <1>4, <1>5 DEF FeedInv

LEMMA FeedInvNext == TypeInv /\ FeedInv /\ [Next]_vars => FeedInv'
<1> SUFFICES ASSUME TypeInv, FeedInv, [Next]_vars PROVE FeedInv'
  OBVIOUS
<1> USE DEF telegramVars, wireVars, loopVars, initVars, lifeVars
<1>1. CASE Arrive
  BY <1>1 DEF Arrive, FeedInv, ConfirmsHandled, OffsetHandled, BatchContinues,
     PollCarriesOffset, WithinArrived, HandledBelow, TypeInv, TypeOK, Offsets
<1>2. CASE Answer
  <2>1. ConfirmsHandled'
    BY <1>2 DEF Answer, FeedInv, ConfirmsHandled, HandledBelow
  <2>2. OffsetHandled' /\ PollCarriesOffset'
    BY <1>2 DEF Answer, FeedInv, OffsetHandled, PollCarriesOffset, HandledBelow
  <2>3. BatchContinues'
    <3>1. CASE pc = "polling"
      BY <1>2, <2>1, <3>1 DEF Answer, FeedInv, BatchContinues, PollCarriesOffset,
         ConfirmsHandled, TypeInv, TypeOK, Offsets
    <3>2. CASE pc # "polling"
      BY <1>2, <3>2 DEF Answer, FeedInv, BatchContinues, HandledBelow
    <3>3. QED BY <3>1, <3>2
  <2>4. WithinArrived'
    <3>1. bend' <= arrived
      BY <1>2, PollingAssumption
         DEF Answer, FeedInv, WithinArrived, TypeInv, TypeOK, Offsets, PollingAssumption
    <3>2. QED
      BY <1>2, <3>1 DEF Answer, FeedInv, WithinArrived
  <2>5. QED BY <2>1, <2>2, <2>3, <2>4 DEF FeedInv
<1>3. CASE OrphanArrives
  BY <1>3 DEF OrphanArrives, FeedInv, ConfirmsHandled, OffsetHandled,
     BatchContinues, PollCarriesOffset, WithinArrived, HandledBelow
<1>4. CASE PollSend
  BY <1>4 DEF PollSend, FeedInv, ConfirmsHandled, OffsetHandled, BatchContinues,
     PollCarriesOffset, WithinArrived, HandledBelow
<1>5. CASE HandleBegin
  BY <1>5 DEF HandleBegin, FeedInv, ConfirmsHandled, OffsetHandled,
     BatchContinues, PollCarriesOffset, WithinArrived, HandledBelow, TypeInv,
     TypeOK
<1>6. CASE HandleDone
  <2>1. ConfirmsHandled'
    BY <1>6 DEF HandleDone, FeedInv, ConfirmsHandled, HandledBelow
  <2>2. HandledBelow(offset)'
    BY <1>6 DEF HandleDone, FeedInv, OffsetHandled, HandledBelow, Ids, TypeInv,
       TypeOK, Offsets
  <2>3. OffsetHandled' /\ PollCarriesOffset' /\ WithinArrived'
    BY <1>6, <2>2 DEF HandleDone, FeedInv, OffsetHandled, PollCarriesOffset,
       WithinArrived, TypeInv, TypeOK
  <2>4. BatchContinues'
    BY <1>6, <2>2 DEF HandleDone, FeedInv, BatchContinues, TypeInv, TypeOK, Offsets
  <2>5. QED BY <2>1, <2>3, <2>4 DEF FeedInv
<1>7. CASE EnterFinally
  BY <1>7 DEF EnterFinally, FeedInv, ConfirmsHandled, OffsetHandled,
     BatchContinues, PollCarriesOffset, WithinArrived, HandledBelow
<1>8. CASE Crash
  BY <1>8 DEF Crash, Abandon, FeedInv, ConfirmsHandled, OffsetHandled,
     BatchContinues, PollCarriesOffset, WithinArrived, HandledBelow, Ids,
     TypeInv, TypeOK
<1>9. CASE PollAborted \/ ConfirmDone \/ \E hang \in BOOLEAN : PollFails(hang)
  BY <1>9, FeedInvQuiet DEF PollAborted, ConfirmDone, PollFails, Abandon
<1>10. CASE StartCall \/ CycleEnds
  BY <1>10, FeedInvQuiet DEF StartCall, CycleEnds, BeginCycle
<1>11. CASE InitCall \/ StopCall \/ InitAborted \/ Probe
  BY <1>11, FeedInvQuiet DEF InitCall, StopCall, InitAborted, Probe, ProbeSettles
<1>12. CASE \/ StopHandlersFinish \/ StartHandlersFinish \/ LoopExit
            \/ PollReceive \/ ReportDone \/ BackoffDone
  BY <1>12, FeedInvQuiet DEF StopHandlersFinish, StartHandlersFinish, LoopExit,
     PollReceive, ReportDone, BackoffDone
<1>13. CASE UNCHANGED vars
  BY <1>13, FeedInvQuiet DEF vars
<1>14. QED
  BY <1>1, <1>2, <1>3, <1>4, <1>5, <1>6, <1>7, <1>8, <1>9, <1>10, <1>11,
     <1>12, <1>13 DEF Next, PollFailure

LEMMA Invariance == Spec => [](TypeInv /\ FeedInv)
<1>1. Init => TypeInv /\ FeedInv
  BY TypeInit, FeedInvInit
<1>2. TypeInv /\ FeedInv /\ [Next]_vars => (TypeInv /\ FeedInv)'
  BY TypeNext, InFlightNext, FeedInvNext DEF TypeInv
<1>3. QED
  BY <1>1, <1>2, PTL DEF Spec

\* No update is confirmed to Telegram before its handling ended.
THEOREM NothingLost == Spec => []NoLoss
<1>1. FeedInv => NoLoss
  BY DEF FeedInv, ConfirmsHandled, HandledBelow, NoLoss
<1>2. QED
  BY <1>1, Invariance, PTL

\* Within a process no update is handled twice.
THEOREM NothingRepeated == Spec => NoRepeat
<1>1. TypeInv /\ FeedInv /\ [Next]_vars => [HandleBegin => offset' > offset]_vars
  BY DEF HandleBegin, FeedInv, BatchContinues, TypeInv, TypeOK, Offsets
<1>2. QED
  BY <1>1, Invariance, PTL DEF Spec, NoRepeat
-----------------------------------------------------------------------------
(* The abstract feed. *)

\* Every step of the driver is a step of the feed, or none of its business.
LEMMA FeedStep ==
    ASSUME TypeInv, FeedInv, FeedInv', TypeOK', [Next]_vars
    PROVE  [Feed!FeedNext]_(Feed!feedVars)
<1> USE DEF Feed!FeedNext, Feed!feedVars, telegramVars
<1>1. CASE Arrive
  BY <1>1 DEF Arrive, Feed!FeedArrive
<1>2. CASE HandleDone
  <2> DEFINE id == offset - 1
  <2>0. id \in 1..arrived /\ arrived \in 0..MaxUpdate
    BY <1>2 DEF HandleDone, FeedInv, WithinArrived, TypeInv, InFlight, TypeOK
  <2>1. \A j \in 1..(id - 1) : j \in handled
    <3>1. HandledBelow(id)
      BY <1>2 DEF HandleDone, FeedInv, OffsetHandled
    <3>2. ASSUME NEW j \in 1..(id - 1) PROVE j \in Ids /\ j < id
      BY <2>0, PollingAssumption DEF Ids, PollingAssumption
    <3>3. QED BY <3>1, <3>2 DEF HandledBelow
  <2>2. handled' = handled \cup {id} /\ UNCHANGED <<arrived, confirmed>>
    BY <1>2 DEF HandleDone
  <2>3. QED BY <2>0, <2>1, <2>2 DEF Feed!FeedHandle
<1>3. CASE UNCHANGED <<arrived, handled>> /\ confirmed' >= confirmed
  <2>1. CASE confirmed' = confirmed
    BY <1>3, <2>1
  <2>2. CASE confirmed' # confirmed
    <3>1. PICK n \in (confirmed + 1)..(arrived + 1) : n = confirmed'
      BY <1>3, <2>2 DEF FeedInv, WithinArrived, TypeInv, TypeOK
    <3>2. arrived \in 0..MaxUpdate /\ confirmed \in 1..(MaxUpdate + 1)
      BY DEF TypeInv, TypeOK
    <3>3. \A i \in Ids : i < n => i \in handled
      BY <1>3, <3>1 DEF FeedInv, ConfirmsHandled, HandledBelow, Ids
    <3>4. \A j \in 1..(n - 1) : j \in Ids /\ j < n
      BY <3>2, PollingAssumption DEF Ids, PollingAssumption
    <3>5. \A j \in 1..(n - 1) : j \in handled
      BY <3>3, <3>4
    <3>6. QED BY <1>3, <3>1, <3>5 DEF Feed!FeedConfirm
  <2>3. QED BY <2>1, <2>2
<1>4. CASE Answer \/ OrphanArrives
  <2>1. UNCHANGED <<arrived, handled>>
    BY <1>4 DEF Answer, OrphanArrives
  <2>2. confirmed' >= confirmed
    <3>1. confirmed \in Nat /\ sentOffset \in Nat /\ orphans \subseteq Nat
      BY DEF TypeInv, TypeOK, Offsets
    <3>2. CASE Answer
      BY <3>1, <3>2 DEF Answer
    <3>3. CASE OrphanArrives
      BY <3>1, <3>3 DEF OrphanArrives
    <3>4. QED BY <1>4, <3>2, <3>3
  <2>3. QED BY <1>3, <2>1, <2>2
<1>5. CASE \/ InitCall \/ Probe \/ InitAborted \/ StartCall \/ StopCall
           \/ StopHandlersFinish \/ StartHandlersFinish \/ LoopExit \/ PollSend
           \/ PollReceive \/ PollFailure \/ PollAborted \/ ReportDone
           \/ BackoffDone \/ HandleBegin \/ EnterFinally \/ ConfirmDone
           \/ CycleEnds \/ Crash \/ UNCHANGED vars
  BY <1>5 DEF InitCall, Probe, ProbeSettles, InitAborted, StartCall, StopCall,
     StopHandlersFinish, StartHandlersFinish, LoopExit, PollSend, PollReceive,
     PollFailure, PollFails, PollAborted, ReportDone, BackoffDone, HandleBegin,
     EnterFinally, ConfirmDone, CycleEnds, Crash, vars
<1>6. QED
  BY <1>1, <1>2, <1>4, <1>5 DEF Next

\* The polling loop implements the abstract feed: in order, nothing skipped,
\* confirmed only after handling.
THEOREM FeedImplemented == Spec => ImplementsFeed
<1>1. Init => Feed!FeedInit
  BY DEF Init, Feed!FeedInit
<1>2. /\ TypeInv /\ FeedInv /\ (TypeInv /\ FeedInv)'
      /\ [Next]_vars
      => [Feed!FeedNext]_(Feed!feedVars)
  BY FeedStep DEF TypeInv
<1>3. QED
  BY <1>1, <1>2, Invariance, PTL DEF Spec, ImplementsFeed, Feed!FeedSpec
-----------------------------------------------------------------------------
(* getMe. *)

\* A cycle waits for #initPromise itself, which is in flight; a request that
\* stop() cancelled is #initPromise only as long as #initSignal shows it.
InitInv ==
    /\ pc = "init" /\ ~aborted => /\ ~info
                                 /\ waiting = initPromise
                                 /\ initPromise # NoProbe
                                 /\ initSignal # "aborted"
    /\ ~info /\ initPromise # NoProbe => initPromise \in probes
    /\ initPromise \in cancelled => initSignal = "aborted"
    /\ pc \in Abortable \ {"init"} => info

LEMMA InitializeInv ==
    ASSUME TypeInv, InitInv, ~info, UNCHANGED cancelled,
           NEW signal \in {"none", "live"}, Initialize(signal)
    PROVE  /\ initPromise' # NoProbe
           /\ initPromise' \in probes'
           /\ initPromise' \notin cancelled'
           /\ initSignal' # "aborted"
           /\ Sharable => UNCHANGED <<initPromise, initSignal, probes>>
BY PollingAssumption DEF PollingAssumption, TypeInv, TypeOK, InitInv, Initialize, Sharable

LEMMA BeginCycleInv ==
    ASSUME TypeInv, InitInv, BeginCycle
    PROVE  InitInv'
<1>1. CASE info
  BY <1>1 DEF BeginCycle, InitInv
<1>2. CASE ~info
  BY <1>2, InitializeInv DEF BeginCycle, InitInv, Abortable
<1>3. QED BY <1>1, <1>2

LEMMA InitInvNext == TypeInv /\ InitInv /\ [Next]_vars => InitInv'
<1> SUFFICES ASSUME TypeInv, InitInv, [Next]_vars PROVE InitInv'
  OBVIOUS
<1> USE DEF telegramVars, wireVars, loopVars, initVars, lifeVars
<1>1. CASE InitCall
  BY <1>1, InitializeInv DEF InitCall, InitInv, Sharable
<1>2. ASSUME NEW p \in Probes, NEW ok \in BOOLEAN, ProbeSettles(p, ok)
      PROVE  InitInv'
  BY <1>2, PollingAssumption
     DEF ProbeSettles, InitInv, Abortable, TypeInv, TypeOK, PollingAssumption
<1>3. CASE StopCall
  BY <1>3 DEF StopCall, InitInv, Abortable, TypeInv, TypeOK
<1>4. CASE StartCall
  BY <1>4, BeginCycleInv DEF StartCall, InitInv
<1>5. CASE CycleEnds
  BY <1>5, BeginCycleInv DEF CycleEnds, InitInv, Abortable
<1>6. CASE Crash
  BY <1>6 DEF Crash, InitInv, Abortable
<1>7. CASE \/ Arrive \/ Answer \/ OrphanArrives \/ InitAborted
           \/ StopHandlersFinish \/ StartHandlersFinish \/ LoopExit \/ PollSend
           \/ PollReceive \/ PollFailure \/ PollAborted \/ ReportDone
           \/ BackoffDone \/ HandleBegin \/ HandleDone \/ EnterFinally
           \/ ConfirmDone \/ UNCHANGED vars
  BY <1>7 DEF InitInv, Abortable, Arrive, Answer, OrphanArrives, InitAborted,
     StopHandlersFinish, StartHandlersFinish, LoopExit, PollSend, PollReceive,
     PollFailure, PollFails, PollAborted, ReportDone, BackoffDone, HandleBegin,
     HandleDone, EnterFinally, ConfirmDone, vars
<1>8. QED
  BY <1>1, <1>2, <1>3, <1>4, <1>5, <1>6, <1>7 DEF Next, Probe

LEMMA InitInvariance == Spec => [](TypeInv /\ InitInv)
<1>1. Init => TypeInv /\ InitInv
  BY TypeInit DEF Init, InitInv, Abortable
<1>2. TypeInv /\ InitInv /\ [Next]_vars => (TypeInv /\ InitInv)'
  BY TypeNext, InFlightNext, InitInvNext DEF TypeInv
<1>3. QED
  BY <1>1, <1>2, PTL DEF Spec

\* A cycle nobody stopped never waits for a getMe that stop() cancelled.
THEOREM FreshProbe == Spec => []NotWaitingForCancelled
<1>1. TypeInv /\ InitInv => NotWaitingForCancelled
  BY DEF TypeInv, InitInv, NotWaitingForCancelled
<1>2. QED
  BY <1>1, InitInvariance, PTL

\* The start handlers and the loop run only once #info is known.
THEOREM KnowsItself == Spec => []MeKnown
<1>1. InitInv => MeKnown
  BY DEF InitInv, MeKnown
<1>2. QED
  BY <1>1, InitInvariance, PTL

=============================================================================
