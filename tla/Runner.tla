------------------------------- MODULE Runner -------------------------------
(***************************************************************************)
(* run() of packages/runner/src/index.ts: a polling loop that submits the  *)
(* updates of a batch to a Scheduler and polls on, and stop(), which ends  *)
(* the loop, drains the scheduler and confirms the last offset.            *)
(*                                                                         *)
(* pc is where loop() is: init (bot.init()), retry (its backoff), top      *)
(* (between two awaits), gate (whenBelow), poll (getUpdates), submit (the  *)
(* for loop over the batch), backoff, done, or failed when onError threw.  *)
(* stopPc is where stop() is: none (not called), loop (await loopDone),    *)
(* idle (await scheduler.idle()), confirm, stopped, or failed.             *)
(***************************************************************************)
EXTENDS Telegram, Scheduler

ASSUME RunnerAssumption == Tasks = Ids

VARIABLES
    pc,
    offset,
    gateOpen,   \* the promise of whenBelow(concurrency) is resolved
    stopped,
    stopPc,
    idleOpen    \* the promise of idle() is resolved

stopVars == <<stopped, stopPc, idleOpen>>
vars == <<telegramVars, wireVars, sentOffset, schedulerVars, pc, offset,
          gateOpen, stopVars>>

TypeOK ==
    /\ TelegramType
    /\ SchedulerType
    /\ pc \in {"init", "retry", "top", "gate", "poll", "submit", "backoff",
               "done", "failed"}
    /\ offset \in Offsets
    /\ gateOpen \in BOOLEAN
    /\ stopped \in BOOLEAN
    /\ stopPc \in {"none", "loop", "idle", "confirm", "stopped", "failed"}
    /\ idleOpen \in BOOLEAN

\* A bot without init() starts at the poll.
Init ==
    /\ TelegramInit
    /\ SchedulerInit
    /\ pc \in {"init", "top"}
    /\ offset = 0
    /\ gateOpen = FALSE
    /\ stopped = FALSE
    /\ stopPc = "none"
    /\ idleOpen = FALSE
-----------------------------------------------------------------------------
(* Telegram *)

Arrive ==
    UpdateArrives /\ UNCHANGED <<schedulerVars, pc, offset, gateOpen, stopVars>>

Answer ==
    /\ RequestAnswered(pc = "poll")
    /\ UNCHANGED <<schedulerVars, pc, offset, gateOpen, stopVars>>

OrphanArrives ==
    LateRequestArrives /\ UNCHANGED <<schedulerVars, pc, offset, gateOpen, stopVars>>
-----------------------------------------------------------------------------
(* loop() *)

\* The step is between two awaits of loop() and touches nothing else.
LoopStep == UNCHANGED <<telegramVars, schedulerVars, stopVars>>

\* An error is reported: onError returns, and the loop backs off, or throws.
Reported(wait) == pc' = wait \/ pc' = "failed"

InitDone ==
    /\ pc = "init"
    /\ \/ pc' = "top"
       \/ stopped /\ pc' = "done"
       \/ ~stopped /\ Reported("retry")
    /\ LoopStep
    /\ UNCHANGED <<wireVars, sentOffset, offset, gateOpen>>

\* The delay is over, or cut short by stop().
RetryDone ==
    /\ pc = "retry"
    /\ pc' = IF stopped THEN "top" ELSE "init"
    /\ LoopStep
    /\ UNCHANGED <<wireVars, sentOffset, offset, gateOpen>>

\* Too much is pending: wait for whenBelow(concurrency).
GateWait ==
    /\ pc = "top"
    /\ ~stopped
    /\ pending >= Concurrency
    /\ pc' = "gate"
    /\ gateOpen' = FALSE
    /\ LoopStep
    /\ UNCHANGED <<wireVars, sentOffset, offset>>

\* The loop is about to poll: there was room, or whenBelow() resolved.
Admitted ==
    \/ pc = "top" /\ pending < Concurrency
    \/ pc = "gate" /\ gateOpen

\* Mutant: no backpressure.
PollSendEagerly ==
    /\ pc \in {"top", "gate"}
    /\ ~stopped
    /\ pc' = "poll"
    /\ sentOffset' = offset
    /\ request' = "sent"
    /\ LoopStep
    /\ UNCHANGED <<orphans, bnext, bend, offset, gateOpen>>

PollSend ==
    /\ Admitted
    /\ ~stopped
    /\ pc' = "poll"
    /\ sentOffset' = offset
    /\ request' = "sent"
    /\ LoopStep
    /\ UNCHANGED <<orphans, bnext, bend, offset, gateOpen>>

LoopEnds ==
    /\ pc = "top" \/ (pc = "gate" /\ gateOpen)
    /\ stopped
    /\ pc' = "done"
    /\ LoopStep
    /\ UNCHANGED <<wireVars, sentOffset, offset, gateOpen>>

\* The reply is here; stop() may have been called while it was on its way.
PollReceive ==
    /\ pc = "poll"
    /\ request = "answered"
    /\ request' = "none"
    /\ pc' = IF bnext <= bend THEN "submit" ELSE "top"
    /\ LoopStep
    /\ UNCHANGED <<orphans, bnext, bend, sentOffset, offset, gateOpen>>

\* getUpdates rejects, because of stop() or for a reason of its own.
PollFails ==
    /\ pc = "poll"
    /\ Abandon
    /\ IF stopped THEN pc' = "done" ELSE Reported("backoff")
    /\ LoopStep
    /\ UNCHANGED <<sentOffset, offset, gateOpen>>

BackoffDone ==
    /\ pc = "backoff"
    /\ pc' = "top"
    /\ LoopStep
    /\ UNCHANGED <<wireVars, sentOffset, offset, gateOpen>>

\* Mutant: the offset skips an update.
SubmitNextPast ==
    /\ pc = "submit"
    /\ offset' = Lesser(bnext + 2, MaxUpdate + 1)
    /\ Submit(bnext)
    /\ bnext' = bnext + 1
    /\ pc' = IF bnext < bend THEN "submit" ELSE "top"
    /\ UNCHANGED <<telegramVars, request, orphans, bend, sentOffset, gateOpen, stopVars>>

\* The next update of the batch goes to the scheduler.
SubmitNext ==
    /\ pc = "submit"
    /\ offset' = bnext + 1
    /\ Submit(bnext)
    /\ bnext' = bnext + 1
    /\ pc' = IF bnext < bend THEN "submit" ELSE "top"
    /\ UNCHANGED <<telegramVars, request, orphans, bend, sentOffset, gateOpen, stopVars>>

\* The for loop over the batch awaits nothing: no other code runs inside it.
Awaiting == pc # "submit"
-----------------------------------------------------------------------------
(* The scheduler *)

\* A chained task's turn comes, or a key is forgotten.
ChainStep ==
    /\ Awaiting
    /\ \/ \E i \in Tasks : ChainTurn(i)
       \/ \E k \in Keys : RetireTail(k)
    /\ UNCHANGED <<telegramVars, wireVars, sentOffset, pc, offset, gateOpen, stopVars>>

\* Mutant: settle() resolves whenBelow() only.
HandlingEndsUnseen(i) ==
    /\ Awaiting
    /\ TaskEnds(i)
    /\ gateOpen' = (gateOpen \/ (pc = "gate" /\ pending' < Concurrency))
    /\ UNCHANGED <<telegramVars, wireVars, sentOffset, pc, offset, stopVars>>

\* An update is handled; settle() resolves who waits for the count.
HandlingEnds(i) ==
    /\ Awaiting
    /\ TaskEnds(i)
    /\ gateOpen' = (gateOpen \/ (pc = "gate" /\ pending' < Concurrency))
    /\ idleOpen' = (idleOpen \/ (stopPc = "idle" /\ pending' = 0))
    /\ UNCHANGED <<telegramVars, wireVars, sentOffset, pc, offset, stopped, stopPc>>

Handling == \E i \in Tasks : HandlingEnds(i)
-----------------------------------------------------------------------------
(* stop() *)

StopCall ==
    /\ Awaiting
    /\ stopPc = "none"
    /\ stopped' = TRUE
    /\ stopPc' = "loop"
    /\ UNCHANGED <<telegramVars, wireVars, sentOffset, schedulerVars, pc, offset,
                   gateOpen, idleOpen>>

\* loopDone settled; its failure is stop()'s.
StopLoopOver ==
    /\ stopPc = "loop"
    /\ pc \in {"done", "failed"}
    /\ stopPc' = IF pc = "done" THEN "idle" ELSE "failed"
    /\ idleOpen' = (pending = 0)
    /\ UNCHANGED <<telegramVars, wireVars, sentOffset, schedulerVars, pc, offset,
                   gateOpen, stopped>>

\* Mutant: stop() does not wait for idle().
StopWithoutIdle ==
    /\ stopPc = "idle"
    /\ IF offset > sentOffset
       THEN /\ stopPc' = "confirm"
            /\ sentOffset' = offset
            /\ request' = "sent"
       ELSE /\ stopPc' = "stopped"
            /\ UNCHANGED <<sentOffset, request>>
    /\ UNCHANGED <<telegramVars, orphans, bnext, bend, schedulerVars, pc, offset,
                   gateOpen, stopped, idleOpen>>

\* idle() resolved: the last offset is sent unless the last poll carried it.
StopDrained ==
    /\ stopPc = "idle"
    /\ idleOpen
    /\ IF offset > sentOffset
       THEN /\ stopPc' = "confirm"
            /\ sentOffset' = offset
            /\ request' = "sent"
       ELSE /\ stopPc' = "stopped"
            /\ UNCHANGED <<sentOffset, request>>
    /\ UNCHANGED <<telegramVars, orphans, bnext, bend, schedulerVars, pc, offset,
                   gateOpen, stopped, idleOpen>>

\* The confirming request is answered, fails, or is cut short after 5 s.
StopConfirmed ==
    /\ stopPc = "confirm"
    /\ Abandon
    /\ stopPc' = "stopped"
    /\ UNCHANGED <<telegramVars, sentOffset, schedulerVars, pc, offset, gateOpen,
                   stopped, idleOpen>>
-----------------------------------------------------------------------------
Next ==
    \/ Arrive \/ Answer \/ OrphanArrives
    \/ InitDone \/ RetryDone \/ GateWait \/ PollSend \/ LoopEnds \/ PollReceive
    \/ PollFails \/ BackoffDone \/ SubmitNext
    \/ ChainStep \/ Handling
    \/ StopCall \/ StopLoopOver \/ StopDrained \/ StopConfirmed

\* The abort rejects the poll.
AbortedPollFails == stopped /\ PollFails

\* The loop's own steps, timers and promises run, and handlers return.  A
\* poll or bot.init() may hang: the runner gives neither a timeout.
Fairness ==
    /\ WF_vars(RetryDone)
    /\ WF_vars(GateWait)
    /\ WF_vars(PollSend)
    /\ WF_vars(LoopEnds)
    /\ WF_vars(AbortedPollFails)
    /\ WF_vars(BackoffDone)
    /\ WF_vars(SubmitNext)
    /\ WF_vars(ChainStep)
    /\ \A i \in Tasks : WF_vars(HandlingEnds(i))
    /\ WF_vars(StopLoopOver)
    /\ WF_vars(StopDrained)
    /\ WF_vars(StopConfirmed)

Spec == Init /\ [][Next]_vars
FairSpec == Spec /\ Fairness
-----------------------------------------------------------------------------
\* Telegram never forgets an update the runner has not taken over.
ConfirmedIsTaken == \A i \in Ids : i < confirmed => task[i] # "new"

\* The runner confirms updates before they are handled, so a crash loses
\* some.  Backpressure bounds how many: a batch on top of a scheduler that
\* had room.
LossBounded ==
    Cardinality({i \in Ids : i < confirmed /\ task[i] # "done"})
        <= Concurrency + Limit - 1

\* stop(): "stop polling and wait for in-flight updates to drain".  Once it
\* returned nothing taken is unhandled and nothing more is taken.
StopDrains ==
    stopPc \in {"confirm", "stopped"} =>
        pc = "done" /\ \A i \in Ids : task[i] \in {"new", "done"}

\* A task that was submitted is handled, whatever its key waits for.
SubmittedIsHandled ==
    \A i \in Ids : task[i] \in {"chained", "slot"} ~> task[i] = "done"

\* stop() returns, unless bot.init() never answers.
StopReturns == stopPc = "loop" ~> stopPc \in {"stopped", "failed"} \/ pc = "init"
=============================================================================
