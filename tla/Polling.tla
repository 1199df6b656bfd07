------------------------------- MODULE Polling -------------------------------
(***************************************************************************)
(* The long-polling life cycle of packages/core/src/bot.ts: start(), the   *)
(* private #poll() loop, stop(), init()/getMe, #confirmHandled() and       *)
(* #runStopHandlers(), against a Telegram server that queues updates,      *)
(* confirms them by offset and whose requests can be answered, fail, hang, *)
(* or reach the server after the bot gave up on them.                      *)
(*                                                                         *)
(* pc is the point the current #poll() call awaits at:                     *)
(*   off        no cycle (#pollingPromise is undefined)                    *)
(*   init       untilAborted(#initialize(signal), signal)                  *)
(*   starting   a start handler                                            *)
(*   loop       between two awaits of the while loop                       *)
(*   polling    getUpdates                                                 *)
(*   reporting  the polling-error handler                                  *)
(*   backoff    delay(retryInMs, signal)                                   *)
(*   handling   handleUpdate(update)                                       *)
(*   finally    entering the finally block                                 *)
(*   confirm    the getUpdates of #confirmHandled()                        *)
(*   cleanup    #runStopHandlers()                                         *)
(***************************************************************************)
EXTENDS Telegram

CONSTANTS
    MaxQueued,   \* bound: start() calls waiting for the previous cycle
    MaxCrashes,  \* bound: crashes of the process
    Probes,      \* bound: getMe requests in flight
    NoProbe,     \* #initPromise is undefined
    QuietAborts, \* POLL_QUIET_ABORTS
    BotInfo      \* the botInfo option was given

ASSUME PollingAssumption ==
    /\ MaxQueued \in Nat
    /\ MaxCrashes \in Nat
    /\ NoProbe \notin Probes
    /\ QuietAborts \in Nat
    /\ BotInfo \in BOOLEAN

VARIABLES
    \* the Bot; its #sentOffset is sentOffset
    pc,
    offset,      \* #offset
    aborted,     \* abort.signal.aborted of the current cycle
    failures,    \* consecutive getUpdates failures, up to QuietAborts + 1
    pause,       \* retryInMs > 0
    outcome,     \* how #poll() is about to end: ok, error
    stopRun,     \* #stopPromise: none, running, done, failed
    queued,      \* start() calls awaiting #pollingPromise
    info,        \* #info is known
    initPromise, \* #initPromise
    initSignal,  \* #initSignal: none, live, aborted
    probes,      \* getMe requests in flight
    cancelled,   \* those of them whose signal was aborted
    waiting,     \* the getMe the current cycle waits for
    \* history
    handled,     \* ids whose handling has ended
    wanted,      \* the last of the user's calls: "start" or "stop"
    crashes

loopVars == <<offset, sentOffset, failures, pause>>
initVars == <<info, initPromise, initSignal, probes, cancelled, waiting>>
lifeVars == <<aborted, outcome, stopRun, queued, wanted>>
vars == <<arrived, confirmed, request, orphans, bnext, bend, pc, offset,
          sentOffset, aborted, failures, pause, outcome, stopRun, queued, info,
          initPromise, initSignal, probes, cancelled, waiting, handled, wanted,
          crashes>>

\* The points at which the cycle's AbortController is the bot's #pollAbort.
Abortable == {"init", "starting", "loop", "polling", "reporting", "backoff",
              "handling"}
Points == Abortable \cup {"off", "finally", "confirm", "cleanup"}

FlagsOK ==
    /\ aborted \in BOOLEAN
    /\ pause \in BOOLEAN
    /\ info \in BOOLEAN

TypeOK ==
    /\ FlagsOK
    /\ TelegramType
    /\ pc \in Points
    /\ offset \in Offsets
    /\ failures \in 0..(QuietAborts + 1)
    /\ outcome \in {"ok", "error"}
    /\ stopRun \in {"none", "running", "done", "failed"}
    /\ queued \in 0..MaxQueued
    /\ initPromise \in Probes \cup {NoProbe}
    /\ initSignal \in {"none", "live", "aborted"}
    /\ probes \subseteq Probes
    /\ cancelled \subseteq probes
    /\ waiting \in Probes \cup {NoProbe}
    /\ handled \subseteq Ids
    /\ wanted \in {"start", "stop"}
    /\ crashes \in 0..MaxCrashes

Init ==
    /\ TelegramInit
    /\ pc = "off"
    /\ offset = 0
    /\ aborted = FALSE
    /\ failures = 0
    /\ pause = FALSE
    /\ outcome = "ok"
    /\ stopRun = "none"
    /\ queued = 0
    /\ info = BotInfo
    /\ initPromise = NoProbe
    /\ initSignal = "none"
    /\ probes = {}
    /\ cancelled = {}
    /\ waiting = NoProbe
    /\ handled = {}
    /\ wanted = "stop"
    /\ crashes = 0
-----------------------------------------------------------------------------
(* Telegram *)

Arrive ==
    /\ UpdateArrives
    /\ UNCHANGED <<pc, offset, failures, pause, handled, crashes>>
    /\ UNCHANGED <<initVars, lifeVars>>

Answer ==
    /\ RequestAnswered(pc = "polling")
    /\ UNCHANGED <<pc, offset, failures, pause, handled, crashes>>
    /\ UNCHANGED <<initVars, lifeVars>>

OrphanArrives ==
    /\ LateRequestArrives
    /\ UNCHANGED <<pc, offset, failures, pause, handled, crashes>>
    /\ UNCHANGED <<initVars, lifeVars>>
-----------------------------------------------------------------------------
(* init() and #initialize(signal) *)

\* Mutant: #initialize shares a getMe that an earlier stop() cancelled.
SharableCancelled == initPromise # NoProbe

\* #initialize finds a request it may share.
Sharable == initPromise # NoProbe /\ initSignal # "aborted"

\* #initialize(signal) when #info is unknown: share the pending getMe or send
\* one.  The promise is initPromise'.
Initialize(signal) ==
    IF Sharable
    THEN UNCHANGED <<initPromise, initSignal, probes>>
    ELSE \E p \in Probes \ probes :
            /\ initPromise' = p
            /\ probes' = probes \cup {p}
            /\ initSignal' = signal

\* init() called by a webhook handler or by the user.
InitCall ==
    /\ ~info
    /\ Initialize("none")
    /\ UNCHANGED <<info, cancelled, waiting, pc, handled, crashes>>
    /\ UNCHANGED <<telegramVars, wireVars, loopVars, lifeVars>>

\* Mutant: a late failure forgets the #initPromise of a newer getMe.
ProbeSettlesForgetful(p, ok) ==
    /\ p \in probes
    /\ probes' = probes \ {p}
    /\ cancelled' = cancelled \ {p}
    /\ info' = (info \/ (ok /\ initPromise = p))
    /\ initPromise' = IF ~ok THEN NoProbe ELSE initPromise
    /\ IF pc = "init" /\ ~aborted /\ waiting = p
       THEN /\ pc' = IF ok THEN "starting" ELSE "finally"
            /\ outcome' = IF ok THEN outcome ELSE "error"
            /\ waiting' = NoProbe
       ELSE UNCHANGED <<pc, outcome, waiting>>
    /\ UNCHANGED <<initSignal, aborted, stopRun, queued, wanted, handled, crashes>>
    /\ UNCHANGED <<telegramVars, wireVars, loopVars>>

\* A getMe settles.  Only the current #initPromise may set #info or be
\* forgotten; the cycle that waits for this one goes on, or fails.
ProbeSettles(p, ok) ==
    /\ p \in probes
    /\ probes' = probes \ {p}
    /\ cancelled' = cancelled \ {p}
    /\ info' = (info \/ (ok /\ initPromise = p))
    /\ initPromise' = IF ~ok /\ initPromise = p THEN NoProbe ELSE initPromise
    /\ IF pc = "init" /\ ~aborted /\ waiting = p
       THEN /\ pc' = IF ok THEN "starting" ELSE "finally"
            /\ outcome' = IF ok THEN outcome ELSE "error"
            /\ waiting' = NoProbe
       ELSE UNCHANGED <<pc, outcome, waiting>>
    /\ UNCHANGED <<initSignal, aborted, stopRun, queued, wanted, handled, crashes>>
    /\ UNCHANGED <<telegramVars, wireVars, loopVars>>

\* Mutant: #poll waits for getMe without untilAborted.
InitNeverAborted == FALSE /\ UNCHANGED vars

\* untilAborted rejects and #poll returns: stop() came during getMe.
InitAborted ==
    /\ pc = "init"
    /\ aborted
    /\ pc' = "finally"
    /\ waiting' = NoProbe
    /\ UNCHANGED <<info, initPromise, initSignal, probes, cancelled, handled, crashes>>
    /\ UNCHANGED <<telegramVars, wireVars, loopVars, lifeVars>>
-----------------------------------------------------------------------------
(* start() and stop() *)

\* #running
Running == pc \in Abortable /\ ~aborted

\* start() past its guards, up to the first await of #poll().
BeginCycle ==
    /\ aborted' = FALSE
    /\ stopRun' = "none"
    /\ outcome' = "ok"
    /\ failures' = 0
    /\ bnext' = 1
    /\ bend' = 0
    /\ IF info
       THEN /\ pc' = "starting"
            /\ UNCHANGED <<initPromise, initSignal, probes, waiting>>
       ELSE /\ pc' = "init"
            /\ Initialize("live")
            /\ waiting' = initPromise'
    /\ UNCHANGED <<info, cancelled, request, orphans, offset, sentOffset, pause>>

\* start(): nothing if the loop runs, wait if a cycle is shutting down.
StartCall ==
    /\ wanted' = "start"
    /\ \/ /\ Running
          /\ UNCHANGED <<pc, aborted, outcome, stopRun, queued>>
          /\ UNCHANGED <<wireVars, loopVars, initVars>>
       \/ /\ ~Running
          /\ pc # "off"
          /\ queued < MaxQueued
          /\ queued' = queued + 1
          /\ UNCHANGED <<pc, aborted, outcome, stopRun>>
          /\ UNCHANGED <<wireVars, loopVars, initVars>>
       \/ /\ pc = "off"
          /\ BeginCycle
          /\ UNCHANGED queued
    /\ UNCHANGED <<handled, crashes, telegramVars>>

\* #runStopHandlers(): at most one run per cycle.
StopHandlersStarted(run) == IF run = "none" THEN "running" ELSE run

\* stop(): abort the cycle, if one can be aborted, and run the stop handlers.
StopCall ==
    /\ wanted' = "stop"
    /\ stopRun' = StopHandlersStarted(stopRun)
    /\ IF pc \in Abortable /\ ~aborted
       THEN /\ aborted' = TRUE
            /\ IF initSignal = "live"
               THEN /\ initSignal' = "aborted"
                    /\ cancelled' = cancelled \cup (probes \cap {initPromise})
               ELSE UNCHANGED <<initSignal, cancelled>>
       ELSE UNCHANGED <<aborted, initSignal, cancelled>>
    /\ UNCHANGED <<pc, outcome, queued, info, initPromise, probes, waiting,
                   handled, crashes>>
    /\ UNCHANGED <<telegramVars, wireVars, loopVars>>

\* The stop handlers end; one or more of them may have thrown.
StopHandlersFinish ==
    /\ stopRun = "running"
    /\ stopRun' \in {"done", "failed"}
    /\ UNCHANGED <<pc, aborted, outcome, queued, wanted, handled, crashes>>
    /\ UNCHANGED <<telegramVars, wireVars, loopVars, initVars>>
-----------------------------------------------------------------------------
(* #poll() *)

\* The start handlers are over, or one of them threw.
StartHandlersFinish ==
    /\ pc = "starting"
    /\ \/ pc' = "loop" /\ outcome' = outcome
       \/ pc' = "finally" /\ outcome' = "error"
    /\ UNCHANGED <<aborted, stopRun, queued, wanted, handled, crashes>>
    /\ UNCHANGED <<telegramVars, wireVars, loopVars, initVars>>

\* The loop sees the abort: what is left of the batch is dropped.
LoopExit ==
    /\ pc = "loop"
    /\ aborted
    /\ pc' = "finally"
    /\ bnext' = 1
    /\ bend' = 0
    /\ UNCHANGED <<request, orphans, handled, crashes>>
    /\ UNCHANGED <<telegramVars, loopVars, initVars, lifeVars>>

PollSend ==
    /\ pc = "loop"
    /\ ~aborted
    /\ bnext > bend
    /\ pc' = "polling"
    /\ sentOffset' = offset
    /\ request' = "sent"
    /\ UNCHANGED <<orphans, bnext, bend, offset, failures, pause, handled, crashes>>
    /\ UNCHANGED <<telegramVars, initVars, lifeVars>>

\* Mutant: #offset moves past the whole batch when it is received.
PollReceiveEager ==
    /\ pc = "polling"
    /\ ~aborted
    /\ request = "answered"
    /\ pc' = "loop"
    /\ request' = "none"
    /\ failures' = 0
    /\ offset' = Greater(offset, bend + 1)
    /\ UNCHANGED <<orphans, bnext, bend, sentOffset, pause, handled, crashes>>
    /\ UNCHANGED <<telegramVars, initVars, lifeVars>>

PollReceive ==
    /\ pc = "polling"
    /\ ~aborted
    /\ request = "answered"
    /\ pc' = "loop"
    /\ request' = "none"
    /\ failures' = 0
    /\ UNCHANGED <<orphans, bnext, bend, offset, sentOffset, pause, handled, crashes>>
    /\ UNCHANGED <<telegramVars, initVars, lifeVars>>

\* getUpdates rejects: the hang timer aborted it, or a real failure.
PollFails(hang) ==
    /\ pc = "polling"
    /\ ~aborted
    /\ Abandon
    /\ failures' = Lesser(failures + 1, QuietAborts + 1)
    /\ pause' = ~hang
    /\ pc' = IF ~hang \/ failures' > QuietAborts THEN "reporting" ELSE "loop"
    /\ UNCHANGED <<offset, sentOffset, handled, crashes>>
    /\ UNCHANGED <<telegramVars, initVars, lifeVars>>

\* stop() aborts the long poll: break.
PollAborted ==
    /\ pc = "polling"
    /\ aborted
    /\ Abandon
    /\ pc' = "finally"
    /\ UNCHANGED <<handled, crashes>>
    /\ UNCHANGED <<telegramVars, loopVars, initVars, lifeVars>>

\* The polling-error handler returns, or throws and ends the loop.
ReportDone ==
    /\ pc = "reporting"
    /\ \/ /\ pc' = IF pause THEN "backoff" ELSE "loop"
          /\ outcome' = outcome
       \/ /\ pc' = "finally"
          /\ outcome' = "error"
    /\ UNCHANGED <<aborted, stopRun, queued, wanted, handled, crashes>>
    /\ UNCHANGED <<telegramVars, wireVars, loopVars, initVars>>

\* Mutant: only the abort ends the delay.
BackoffUntilStop ==
    /\ pc = "backoff"
    /\ aborted
    /\ pc' = "loop"
    /\ UNCHANGED <<handled, crashes>>
    /\ UNCHANGED <<telegramVars, wireVars, loopVars, initVars, lifeVars>>

BackoffDone ==
    /\ pc = "backoff"
    /\ pc' = "loop"
    /\ UNCHANGED <<handled, crashes>>
    /\ UNCHANGED <<telegramVars, wireVars, loopVars, initVars, lifeVars>>

\* Mutant: #offset moves past the whole batch with its first update.
HandleBeginBatch ==
    /\ pc = "loop"
    /\ ~aborted
    /\ bnext <= bend
    /\ pc' = "handling"
    /\ offset' = bend + 1
    /\ bnext' = bnext + 1
    /\ UNCHANGED <<request, orphans, bend, sentOffset, failures, pause, handled, crashes>>
    /\ UNCHANGED <<telegramVars, initVars, lifeVars>>

\* Mutant: #offset becomes the id of the update, not the next one.
HandleBeginSame ==
    /\ pc = "loop"
    /\ ~aborted
    /\ bnext <= bend
    /\ pc' = "handling"
    /\ offset' = bnext
    /\ bnext' = bnext + 1
    /\ UNCHANGED <<request, orphans, bend, sentOffset, failures, pause, handled, crashes>>
    /\ UNCHANGED <<telegramVars, initVars, lifeVars>>

\* #offset moves past the update before its handling begins.
HandleBegin ==
    /\ pc = "loop"
    /\ ~aborted
    /\ bnext <= bend
    /\ pc' = "handling"
    /\ offset' = bnext + 1
    /\ bnext' = bnext + 1
    /\ UNCHANGED <<request, orphans, bend, sentOffset, failures, pause, handled, crashes>>
    /\ UNCHANGED <<telegramVars, initVars, lifeVars>>

\* handleUpdate ends; it rejects only when the error handler itself throws.
HandleDone ==
    /\ pc = "handling"
    /\ handled' = handled \cup {offset - 1}
    /\ \/ /\ pc' = "loop"
          /\ UNCHANGED <<outcome, bnext, bend>>
       \/ /\ pc' = "finally"
          /\ outcome' = "error"
          /\ bnext' = 1
          /\ bend' = 0
    /\ UNCHANGED <<request, orphans, aborted, stopRun, queued, wanted, crashes>>
    /\ UNCHANGED <<telegramVars, loopVars, initVars>>

\* The finally block: #confirmHandled() sends the offset unless the last
\* request already carried it.
EnterFinally ==
    /\ pc = "finally"
    /\ IF offset > sentOffset
       THEN /\ pc' = "confirm"
            /\ sentOffset' = offset
            /\ request' = "sent"
            /\ UNCHANGED stopRun
       ELSE /\ pc' = "cleanup"
            /\ stopRun' = StopHandlersStarted(stopRun)
            /\ UNCHANGED <<sentOffset, request>>
    /\ UNCHANGED <<orphans, bnext, bend, offset, failures, pause, aborted, outcome,
                   queued, wanted, handled, crashes>>
    /\ UNCHANGED <<telegramVars, initVars>>

\* The confirming request is answered, fails, or is cut short after 5 s.
ConfirmDone ==
    /\ pc = "confirm"
    /\ Abandon
    /\ pc' = "cleanup"
    /\ stopRun' = StopHandlersStarted(stopRun)
    /\ UNCHANGED <<aborted, outcome, queued, wanted, handled, crashes>>
    /\ UNCHANGED <<telegramVars, loopVars, initVars>>

\* #poll() settles and start() clears #pollingPromise.  The start() calls
\* queued behind it fail with it, or the first begins the next cycle and the
\* others find it running.
CycleEnds ==
    /\ pc = "cleanup"
    /\ stopRun \in {"done", "failed"}
    /\ queued' = 0
    /\ IF outcome = "ok" /\ stopRun = "done" /\ queued > 0
       THEN BeginCycle
       ELSE /\ pc' = "off"
            /\ UNCHANGED <<aborted, outcome, stopRun>>
            /\ UNCHANGED <<wireVars, loopVars, initVars>>
    /\ UNCHANGED <<telegramVars, wanted, handled, crashes>>

\* The process dies and a new one is started with nothing in memory.
Crash ==
    /\ crashes < MaxCrashes
    /\ crashes' = crashes + 1
    /\ Abandon
    /\ pc' = "off"
    /\ offset' = 0
    /\ sentOffset' = 0
    /\ aborted' = FALSE
    /\ failures' = 0
    /\ pause' = FALSE
    /\ outcome' = "ok"
    /\ stopRun' = "none"
    /\ queued' = 0
    /\ info' = BotInfo
    /\ initPromise' = NoProbe
    /\ initSignal' = "none"
    /\ probes' = {}
    /\ cancelled' = {}
    /\ waiting' = NoProbe
    /\ wanted' = "stop"
    /\ UNCHANGED <<arrived, confirmed, handled>>
-----------------------------------------------------------------------------
Probe == \E p \in Probes, ok \in BOOLEAN : ProbeSettles(p, ok)

PollFailure == \E hang \in BOOLEAN : PollFails(hang)

Next ==
    \/ Arrive \/ Answer \/ OrphanArrives
    \/ InitCall \/ Probe \/ InitAborted
    \/ StartCall \/ StopCall \/ StopHandlersFinish
    \/ StartHandlersFinish \/ LoopExit \/ PollSend \/ PollReceive \/ PollFailure
    \/ PollAborted \/ ReportDone \/ BackoffDone \/ HandleBegin \/ HandleDone
    \/ EnterFinally \/ ConfirmDone \/ CycleEnds \/ Crash

\* An aborted fetch rejects.
CancelledProbeFails == \E p \in cancelled : ProbeSettles(p, FALSE)

\* The bot's own steps are run by the event loop, its timers fire, and the
\* user's handlers return.  The network is only fair: a request that is sent
\* again and again is answered in the end.  Nothing makes users write, call
\* start() or stop(), and nothing makes a getMe settle: it has no timeout.
Fairness ==
    /\ WF_vars(CancelledProbeFails)
    /\ WF_vars(InitAborted)
    /\ WF_vars(StopHandlersFinish)
    /\ WF_vars(StartHandlersFinish)
    /\ WF_vars(LoopExit)
    /\ WF_vars(PollSend)
    /\ WF_vars(PollFailure)
    /\ WF_vars(PollAborted)
    /\ WF_vars(ReportDone)
    /\ WF_vars(BackoffDone)
    /\ WF_vars(HandleBegin)
    /\ WF_vars(HandleDone)
    /\ WF_vars(EnterFinally)
    /\ WF_vars(ConfirmDone)
    /\ WF_vars(CycleEnds)
    /\ SF_vars(Answer)
    /\ SF_vars(PollReceive)

Spec == Init /\ [][Next]_vars
FairSpec == Spec /\ Fairness
-----------------------------------------------------------------------------
\* No update is confirmed, hence forgotten by Telegram, before its handling
\* ended: stops, failed polls, late requests and crashes never lose one.
NoLoss == \A i \in Ids : i < confirmed => i \in handled

\* Within a process the loop never handles the same update twice, nor an
\* older one after a newer one, whatever polls failed or cycles ended.
NoRepeat == [][HandleBegin => offset' > offset]_vars

\* A cycle that nobody stopped never waits for a getMe that an earlier
\* stop() cancelled: #initialize forgets a probe whose signal is aborted.
NotWaitingForCancelled ==
    pc = "init" /\ ~aborted => waiting \in probes \ cancelled

\* The start handlers and the loop only run once the bot knows itself.
MeKnown == pc \in Abortable \ {"init"} => info

Feed == INSTANCE UpdateFeed

\* The driver implements the abstract feed: in order, nothing skipped,
\* confirmed only after handling.
ImplementsFeed == Feed!FeedSpec

\* An update that arrived is handled, unless the loop is stopped or ends, or
\* getMe never answers.
Delivered ==
    \A i \in Ids :
        arrived >= i ~> (i \in handled \/ ~Running \/ pc = "init")

\* A cycle that was told to stop is over in the end.
StopCompletes == aborted ~> (pc = "off" \/ ~aborted)

\* stop(): "stop the polling loop".  No cycle begins while the last thing
\* the user asked for is a stop.
StopHonoured == [][pc \notin {"init", "starting"} /\ pc' \in {"init", "starting"}
                     => wanted' = "start"]_vars

\* #sentOffset: "updates below it are confirmed to telegram".  The closing
\* cycle skips its confirming request only if nothing handled is unconfirmed.
HandledIsConfirmed ==
    [][pc = "finally" /\ pc' = "cleanup" => offset <= confirmed]_vars
=============================================================================
