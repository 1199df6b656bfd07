----------------------------- MODULE Broadcast -----------------------------
(***************************************************************************)
(* A broadcast job of packages/broadcast/src/index.ts: the storage with    *)
(* its atomic claim() and its leases, the processes that share it, each    *)
(* with a pump and delivery tasks, the creation of the job, and the        *)
(* pause(), resume(), cancel() and stop() of an operator.                  *)
(*                                                                         *)
(* Every storage call is one step: the code awaits between them.  The sent,*)
(* failed and skipped counters of the job are their sum, processed; due    *)
(* times and leases are what the clock has made of them so far.            *)
(***************************************************************************)
EXTENDS Naturals, FiniteSets

CONSTANTS
    Delivery,      \* the deliveries of the job
    Worker,        \* the processes sharing the storage
    Home,          \* the process start() was called in
    Concurrency,
    MaxAttempts,
    MaxTrouble     \* bound: calls of the operator, processes that die, storage
                   \* errors, answers lost and leases overrun, taken together

ASSUME BroadcastAssumption ==
    /\ IsFiniteSet(Delivery) /\ Delivery # {}
    /\ Home \in Worker
    /\ Concurrency \in Nat \ {0}
    /\ MaxAttempts \in Nat \ {0}
    /\ MaxTrouble \in Nat

VARIABLES
    job,           \* the stored job
    delivery,      \* the stored deliveries
    creation,      \* where start() is
    call,          \* an operator's call between its read and its write
    up,            \* the processes: running, stopped or down
    timer,         \* the processes with a timer armed
    pump,          \* what #pump() awaits
    again,         \* #pumpAgain
    tasks,         \* the #process() calls in flight, of all processes
    trouble,       \* what has happened of it
    sends,         \* history: the messages Telegram took, of each delivery
    excuse,        \* history: the faults after which it may be sent once more
    lost,          \* history: deliveries whose result was never counted
    unclosed,      \* history: a job with all results was left open
    spoilt,        \* history: a delivery got two holders, or was counted twice
    overwritten,   \* history: a stale copy of the job was written back, or the
                   \* job was resumed before its total was
    missed         \* history: #pump() fell asleep on a claimable delivery

pumpVars == <<up, timer, pump, again, missed>>
damageVars == <<excuse, lost, unclosed, spoilt>>
vars == <<job, delivery, creation, call, up, timer, pump, again, tasks, trouble,
          sends, excuse, lost, unclosed, spoilt, overwritten, missed>>

Finished == {"sent", "failed", "skipped"}

Job == [status : {"none", "creating", "queued", "running", "paused", "completed",
                  "cancelled"},
        total : Nat, processed : Nat]

NoJob == [status |-> "none", total |-> 0, processed |-> 0]

TaskPhase == {"send", "record", "count", "complete",        \* the try block
              "skip", "fail", "retry", "tally", "close"}    \* the catch block

Task == [worker : Worker, on : Delivery, attempt : Nat \ {0}, pc : TaskPhase,
         seen : Job]

TypeOK ==
    /\ job \in Job
    /\ delivery \in [Delivery ->
          [status : {"absent", "queued", "running"} \cup Finished,
           attempts : Nat, due : BOOLEAN, lock : {"none", "held", "expired"}]]
    /\ \A d \in Delivery : delivery[d].status = "running" <=> delivery[d].lock # "none"
    /\ creation \in {"new", "writing", "keep", "queue", "done", "lost"}
    /\ call \in [op : {"none", "pause", "resume", "cancel"}, by : Worker, seen : Job]
    /\ up \in [Worker -> {"running", "stopped", "down"}]
    /\ timer \in SUBSET Worker
    /\ pump \in [Worker -> {"idle", "claim", "ask"}]
    /\ again \in SUBSET Worker
    /\ tasks \in SUBSET Task
    /\ trouble \in Nat
    /\ sends \in [Delivery -> Nat]
    /\ excuse \in [Delivery -> Nat]
    /\ lost \in SUBSET Delivery
    /\ unclosed \in BOOLEAN
    /\ spoilt \in BOOLEAN
    /\ overwritten \in BOOLEAN
    /\ missed \in BOOLEAN

JobTerminal(j) == j.status \in {"completed", "cancelled"}

Terminal == {d \in Delivery : delivery[d].status \in Finished}

Active(w) == Cardinality({t \in tasks : t.worker = w})

CopyJob(j, status) == [j EXCEPT !.status = status]

Init ==
    /\ job = NoJob
    /\ delivery = [d \in Delivery |->
          [status |-> "absent", attempts |-> 0, due |-> FALSE, lock |-> "none"]]
    /\ creation = "new"
    /\ call = [op |-> "none", by |-> Home, seen |-> NoJob]
    /\ up = [w \in Worker |-> "running"]
    /\ timer = Worker
    /\ pump = [w \in Worker |-> "idle"]
    /\ again = {}
    /\ tasks = {}
    /\ trouble = 0
    /\ sends = [d \in Delivery |-> 0]
    /\ excuse = [d \in Delivery |-> 0]
    /\ lost = {}
    /\ unclosed = FALSE /\ spoilt = FALSE
    /\ overwritten = FALSE /\ missed = FALSE

---------------------------------------------------------------------------
(* #schedule(): a timer is armed, or an earlier one is kept, unless the    *)
(* process is stopped.                                                     *)
ArmedOver(timers, w) == timers \cup (IF up[w] = "running" THEN {w} ELSE {})

Scheduled(w) == ArmedOver(timer, w)

TroubleHappens == trouble < MaxTrouble /\ trouble' = trouble + 1

(* Writing back a whole job read earlier, stale or too early *)
WriteBack(seen, status, early) ==
    /\ job' = CopyJob(seen, status)
    /\ overwritten' = (overwritten \/ job # seen \/ early)

---------------------------------------------------------------------------
(* start(): #enqueue() creates the job, adds its deliveries in batches,    *)
(* reads the job back and closes the creation.                             *)
CreateJob ==
    /\ creation = "new"
    /\ up[Home] # "down"
    /\ job' = CopyJob(job, "creating")
    /\ creation' = "writing"
    /\ UNCHANGED <<delivery, call, tasks, sends, overwritten>>
    /\ UNCHANGED <<pumpVars, trouble, damageVars>>

Absent == {d \in Delivery : delivery[d].status = "absent"}

(* addDeliveries() of one batch; a delayed job is not due yet. *)
AddBatch ==
    /\ creation = "writing"
    /\ \E batch \in (SUBSET Absent) \ {{}}, due \in BOOLEAN :
          delivery' = [d \in Delivery |->
             IF d \in batch THEN [delivery[d] EXCEPT !.status = "queued", !.due = due]
             ELSE delivery[d]]
    /\ UNCHANGED <<job, creation, call, tasks, sends, overwritten>>
    /\ UNCHANGED <<pumpVars, trouble, damageVars>>

(* "a pause() or cancel() that landed while the deliveries were being      *)
(* written wins"                                                           *)
ReadBack ==
    /\ creation = "writing" /\ Absent = {}
    /\ creation' = IF job.status \in {"paused", "cancelled"} THEN "keep" ELSE "queue"
    /\ UNCHANGED <<job, delivery, call, tasks, sends, overwritten>>
    /\ UNCHANGED <<pumpVars, trouble, damageVars>>

KeepStatus ==
    /\ creation = "keep"
    /\ job' = [job EXCEPT !.total = Cardinality(Delivery)]
    /\ creation' = "done"
    /\ UNCHANGED <<delivery, call, tasks, sends, overwritten>>
    /\ UNCHANGED <<pumpVars, trouble, damageVars>>

QueueJob ==
    /\ creation = "queue"
    /\ job' = [status |-> "queued", total |-> Cardinality(Delivery), processed |-> 0]
    /\ overwritten' = (overwritten \/ job # CopyJob(NoJob, "creating"))
    /\ creation' = "done"
    /\ timer' = Scheduled(Home)
    /\ UNCHANGED <<delivery, call, up, pump, again, missed, tasks, sends>>
    /\ UNCHANGED <<trouble, damageVars>>

---------------------------------------------------------------------------
(* pause(), resume() and cancel() read the job, await, and write it back.  *)
ReadForCall(w, op) ==
    /\ call.op = "none"
    /\ up[w] # "down"
    /\ job # NoJob
    /\ IF op = "resume" THEN job.status = "paused" ELSE ~JobTerminal(job)
    /\ call' = [op |-> op, by |-> w, seen |-> job]
    /\ IF op = "resume" THEN UNCHANGED trouble ELSE TroubleHappens
    /\ UNCHANGED <<job, delivery, creation, tasks, sends, overwritten>>
    /\ UNCHANGED <<pumpVars, damageVars>>

WriteCall ==
    /\ call.op # "none"
    /\ WriteBack(call.seen, CASE call.op = "pause" -> "paused"
                              [] call.op = "resume" -> "queued"
                              [] OTHER -> "cancelled",
                 call.op = "resume" /\ creation # "done")
    /\ timer' = IF call.op = "resume" THEN Scheduled(call.by) ELSE timer
    /\ call' = [op |-> "none", by |-> Home, seen |-> NoJob]
    /\ UNCHANGED <<delivery, creation, up, pump, again, missed, tasks, sends>>
    /\ UNCHANGED <<trouble, damageVars>>

(* run(), after stop() or in a restarted process *)
Run(w) ==
    /\ up[w] # "running"
    /\ up' = [up EXCEPT ![w] = "running"]
    /\ timer' = timer \cup {w}
    /\ UNCHANGED <<job, delivery, creation, call, pump, again, missed, tasks, sends,
                   overwritten>>
    /\ UNCHANGED <<trouble, damageVars>>

(* stop(): the tasks in flight go on. *)
Stop(w) ==
    /\ up[w] = "running"
    /\ TroubleHappens
    /\ up' = [up EXCEPT ![w] = "stopped"]
    /\ timer' = timer \ {w}
    /\ UNCHANGED <<job, delivery, creation, call, pump, again, missed, tasks, sends,
                   overwritten>>
    /\ UNCHANGED damageVars

---------------------------------------------------------------------------
(* claim() takes a delivery of a queued or running job that is due, or     *)
(* whose lease has run out.                                                *)
JobOpen == job.status \in {"queued", "running"}

(* Mutant: a lease does not protect its holder. *)
CanClaimHeld(d) == \/ delivery[d].status = "queued" /\ delivery[d].due
                   \/ delivery[d].status = "running"

CanClaim(d) == \/ delivery[d].status = "queued" /\ delivery[d].due
               \/ delivery[d].status = "running" /\ delivery[d].lock = "expired"

Claimable == {d \in Delivery : JobOpen /\ CanClaim(d)}

(* What #pump() does next: the while loop, or what follows it. *)
LoopPhase(w, active) ==
    CASE active >= Concurrency -> "idle"
      [] up[w] = "running"     -> "claim"
      [] OTHER                 -> "ask"

(* #pump() goes on to phase; leaving it serves #pumpAgain. *)
PumpGoesOn(w, phase, armed) ==
    LET serve == phase = "idle" /\ w \in again IN
    /\ pump' = [pump EXCEPT ![w] = phase]
    /\ again' = IF serve THEN again \ {w} ELSE again
    /\ timer' = IF serve THEN ArmedOver(armed, w) ELSE armed

TimerFires(w) ==
    /\ w \in timer
    /\ IF pump[w] = "idle"
       THEN PumpGoesOn(w, LoopPhase(w, Active(w)), timer \ {w})
       ELSE /\ again' = again \cup {w}
            /\ timer' = timer \ {w}
            /\ UNCHANGED pump
    /\ UNCHANGED <<job, delivery, creation, call, up, missed, tasks, sends, overwritten>>
    /\ UNCHANGED <<trouble, damageVars>>

(* A claim and the #process() it starts; which claimable delivery comes    *)
(* first (priority, due time, index) is left open.                         *)
Claim(w) ==
    /\ pump[w] = "claim"
    /\ \E d \in Claimable :
          /\ delivery' = [delivery EXCEPT ![d].status = "running", ![d].attempts = @ + 1,
                                          ![d].lock = "held"]
          /\ tasks' = tasks \cup {[worker |-> w, on |-> d, pc |-> "send", seen |-> NoJob,
                                   attempt |-> delivery[d].attempts + 1]}
    /\ job' = CopyJob(job, "running")
    /\ PumpGoesOn(w, LoopPhase(w, Active(w) + 1), timer)
    /\ UNCHANGED <<creation, call, up, missed, sends, overwritten>>
    /\ UNCHANGED <<trouble, damageVars>>

ClaimNothing(w) ==
    /\ pump[w] = "claim" /\ Claimable = {}
    /\ pump' = [pump EXCEPT ![w] = "ask"]
    /\ UNCHANGED <<job, delivery, creation, call, up, timer, again, missed, tasks, sends,
                   overwritten>>
    /\ UNCHANGED <<trouble, damageVars>>

(* nextDueAt() knows the deliveries that are not claimable yet. *)
DueLater == JobOpen /\ \E d \in Delivery :
               \/ delivery[d].status = "queued" /\ ~delivery[d].due
               \/ delivery[d].status = "running" /\ delivery[d].lock = "held"

(* ... and then nothing of w's wakes the pump of w again. *)
AsleepNext(w) == up[w] = "running" /\ Active(w) = 0 /\ w \notin timer'

Ask(w) ==
    /\ pump[w] = "ask"
    /\ PumpGoesOn(w, "idle", IF DueLater THEN Scheduled(w) ELSE timer)
    /\ missed' = (missed \/ (Claimable # {} /\ AsleepNext(w)))
    /\ UNCHANGED <<job, delivery, creation, call, up, tasks, sends, overwritten>>
    /\ UNCHANGED <<trouble, damageVars>>

(* claim() throws: a timer of one second. *)
ClaimFails(w) ==
    /\ pump[w] = "claim"
    /\ TroubleHappens
    /\ pump' = [pump EXCEPT ![w] = "ask"]
    /\ timer' = Scheduled(w)
    /\ UNCHANGED <<job, delivery, creation, call, up, again, missed, tasks, sends,
                   overwritten>>
    /\ UNCHANGED damageVars

(* nextDueAt() throws: nothing catches it, and no timer is armed. *)
AskFails(w) ==
    /\ pump[w] = "ask"
    /\ TroubleHappens
    /\ PumpGoesOn(w, "idle", timer)
    /\ missed' = (missed \/ AsleepNext(w))
    /\ UNCHANGED <<job, delivery, creation, call, up, tasks, sends, overwritten>>
    /\ UNCHANGED damageVars

---------------------------------------------------------------------------
(* #process() of one delivery *)
Goto(t, pc) == (tasks \ {t}) \cup {[t EXCEPT !.pc = pc]}

(* Mutant: the finally block forgets the pump. *)
TaskEndsQuietly(t) ==
    /\ tasks' = tasks \ {t}
    /\ timer' = timer

(* ... ends, and its finally block schedules the pump. *)
TaskEnds(t) ==
    /\ tasks' = tasks \ {t}
    /\ timer' = Scheduled(t.worker)

(* The catch block fails the delivery, or retries it while decideRetry()   *)
(* allows it.                                                              *)
AfterError(t) == {"fail"} \cup (IF t.attempt < MaxAttempts THEN {"retry"} ELSE {})

(* The wait for the rate limit, and the call Telegram answers. *)
SendOk(t) ==
    /\ t.pc = "send"
    /\ sends' = [sends EXCEPT ![t.on] = @ + 1]
    /\ tasks' = Goto(t, "record")
    /\ UNCHANGED <<job, delivery, creation, call, overwritten>>
    /\ UNCHANGED <<pumpVars, trouble, damageVars>>

(* ... that it refuses *)
SendRefused(t) ==
    /\ t.pc = "send"
    /\ \E pc \in AfterError(t) \cup {"skip"} : tasks' = Goto(t, pc)
    /\ UNCHANGED <<job, delivery, creation, call, sends, overwritten>>
    /\ UNCHANGED <<pumpVars, trouble, damageVars>>

(* ... or carries out while its answer is lost *)
AnswerLost(t) ==
    /\ t.pc = "send"
    /\ TroubleHappens
    /\ sends' = [sends EXCEPT ![t.on] = @ + 1]
    /\ excuse' = [excuse EXCEPT ![t.on] = @ + 1]
    /\ \E pc \in AfterError(t) : tasks' = Goto(t, pc)
    /\ UNCHANGED <<job, delivery, creation, call, overwritten, lost, unclosed, spoilt>>
    /\ UNCHANGED pumpVars

(* patchDelivery(): the result is recorded and the lease given up. *)
RecordedAs(d, status) ==
    delivery' = [delivery EXCEPT ![d].status = status, ![d].lock = "none"]

Record(t) ==
    /\ \/ t.pc = "record" /\ RecordedAs(t.on, "sent") /\ tasks' = Goto(t, "count")
       \/ t.pc = "skip" /\ RecordedAs(t.on, "skipped") /\ tasks' = Goto(t, "tally")
       \/ t.pc = "fail" /\ RecordedAs(t.on, "failed") /\ tasks' = Goto(t, "tally")
    /\ UNCHANGED <<job, creation, call, sends, overwritten>>
    /\ UNCHANGED <<pumpVars, trouble, damageVars>>

(* Mutant: a delivery to be retried is counted as processed. *)
RequeueCounted(t) ==
    /\ t.pc = "retry"
    /\ delivery' = [delivery EXCEPT ![t.on].status = "queued", ![t.on].due = FALSE,
                                    ![t.on].lock = "none"]
    /\ job' = [job EXCEPT !.processed = @ + 1]
    /\ TaskEnds(t)
    /\ UNCHANGED <<creation, call, sends, overwritten, up, pump, again, missed>>
    /\ UNCHANGED <<trouble, damageVars>>

(* The delivery is queued again, due after a delay. *)
Requeue(t) ==
    /\ t.pc = "retry"
    /\ delivery' = [delivery EXCEPT ![t.on].status = "queued", ![t.on].due = FALSE,
                                    ![t.on].lock = "none"]
    /\ TaskEnds(t)
    /\ UNCHANGED <<job, creation, call, sends, overwritten, up, pump, again, missed>>
    /\ UNCHANGED <<trouble, damageVars>>

(* Mutant: the job is closed one delivery early. *)
IsLastButOne(j) == ~JobTerminal(j) /\ j.processed + 1 >= j.total

(* #finishDelivery(): incrementJob(), and whether that was the last one. *)
IsLast(j) == ~JobTerminal(j) /\ j.processed >= j.total

Count(t) ==
    LET counted == [job EXCEPT !.processed = @ + 1]
        last == IF t.pc = "count" THEN "complete" ELSE "close" IN
    /\ t.pc \in {"count", "tally"}
    /\ job' = counted
    /\ IF IsLast(counted)
       THEN /\ tasks' = (tasks \ {t}) \cup {[t EXCEPT !.pc = last, !.seen = counted]}
            /\ UNCHANGED timer
       ELSE TaskEnds(t)
    /\ UNCHANGED <<delivery, creation, call, sends, overwritten, up, pump, again, missed>>
    /\ UNCHANGED <<trouble, damageVars>>

Complete(t) ==
    /\ t.pc \in {"complete", "close"}
    /\ WriteBack(t.seen, "completed", FALSE)
    /\ TaskEnds(t)
    /\ UNCHANGED <<delivery, creation, call, sends, up, pump, again, missed>>
    /\ UNCHANGED <<trouble, damageVars>>

TaskStep(t) ==
    SendOk(t) \/ SendRefused(t) \/ Record(t) \/ Requeue(t) \/ Count(t) \/ Complete(t)

(* A storage call of the try block throws: the catch block takes it for a  *)
(* failed send.  A result not yet counted will be; one that was counted    *)
(* will be counted again.                                                  *)
TryFails(t) ==
    /\ t.pc \in {"record", "count", "complete"}
    /\ TroubleHappens
    /\ \E pc \in AfterError(t) :
          tasks' = (tasks \ {t}) \cup {[t EXCEPT !.pc = pc, !.seen = NoJob]}
    /\ excuse' = [excuse EXCEPT ![t.on] = @ + 1]
    /\ spoilt' = (spoilt \/ t.pc = "complete")
    /\ UNCHANGED <<job, delivery, creation, call, sends, overwritten, lost, unclosed>>
    /\ UNCHANGED pumpVars

(* What is lost when a set of tasks ends before its time. *)
Abandons(gone) ==
    /\ lost' = lost \cup {t.on : t \in {t \in gone : t.pc \notin {"complete", "close"}
                                                      /\ t.on \in Terminal}}
    /\ unclosed' = (unclosed \/ \E t \in gone : t.pc \in {"complete", "close"})
    /\ excuse' = [d \in Delivery |->
          IF \E t \in gone : t.on = d /\ t.pc # "send" THEN excuse[d] + 1 ELSE excuse[d]]
    /\ UNCHANGED spoilt

(* A storage call of the catch block throws: the promise of #process() is  *)
(* rejected, its finally block runs.                                       *)
CatchFails(t) ==
    /\ t.pc \in {"skip", "fail", "retry", "tally", "close"}
    /\ TroubleHappens
    /\ TaskEnds(t)
    /\ Abandons({t})
    /\ UNCHANGED <<job, delivery, creation, call, sends, overwritten, up, pump, again, missed>>

---------------------------------------------------------------------------
(* The clock *)
DueArrives(d) ==
    /\ delivery[d].status = "queued" /\ ~delivery[d].due
    /\ delivery' = [delivery EXCEPT ![d].due = TRUE]
    /\ UNCHANGED <<job, creation, call, tasks, sends, overwritten>>
    /\ UNCHANGED <<pumpVars, trouble, damageVars>>

Held(d) == \E t \in tasks : t.on = d

LeaseExpires(d) ==
    /\ delivery[d].lock = "held"
    /\ delivery' = [delivery EXCEPT ![d].lock = "expired"]
    /\ UNCHANGED <<job, creation, call, tasks, sends, overwritten>>
    /\ UNCHANGED pumpVars

(* The lease of a task that is gone *)
OrphanExpires(d) == ~Held(d) /\ LeaseExpires(d) /\ UNCHANGED <<trouble, damageVars>>

(* ... of one that is only slow: nothing renews it *)
Overrun(d) ==
    /\ Held(d)
    /\ LeaseExpires(d)
    /\ TroubleHappens
    /\ spoilt' = TRUE
    /\ excuse' = [excuse EXCEPT ![d] = @ + 1]
    /\ UNCHANGED <<lost, unclosed>>

(* A process dies with its pump, its tasks and the call it was in. *)
Crash(w) ==
    LET gone == {t \in tasks : t.worker = w} IN
    /\ up[w] # "down"
    /\ TroubleHappens
    /\ up' = [up EXCEPT ![w] = "down"]
    /\ timer' = timer \ {w}
    /\ pump' = [pump EXCEPT ![w] = "idle"]
    /\ again' = again \ {w}
    /\ tasks' = tasks \ gone
    /\ Abandons(gone)
    /\ call' = IF call.by = w THEN [op |-> "none", by |-> Home, seen |-> NoJob] ELSE call
    /\ creation' = IF w = Home /\ creation # "done" THEN "lost" ELSE creation
    /\ UNCHANGED <<job, delivery, missed, sends, overwritten>>

Next ==
    \/ CreateJob \/ AddBatch \/ ReadBack \/ KeepStatus \/ QueueJob
    \/ WriteCall
    \/ \E w \in Worker :
          \/ \E op \in {"pause", "resume", "cancel"} : ReadForCall(w, op)
          \/ Run(w) \/ Stop(w) \/ Crash(w)
          \/ TimerFires(w) \/ Claim(w) \/ ClaimNothing(w) \/ Ask(w)
          \/ ClaimFails(w) \/ AskFails(w)
    \/ \E t \in tasks : TaskStep(t) \/ AnswerLost(t) \/ TryFails(t) \/ CatchFails(t)
    \/ \E d \in Delivery : DueArrives(d) \/ OrphanExpires(d) \/ Overrun(d)

Spec == Init /\ [][Next]_vars

(* Storage answers, Telegram answers, the event loop turns, the clock      *)
(* advances, and a process that died is started again.  Operators owe      *)
(* nothing, and a stopped process may stay stopped.                        *)
Fairness ==
    /\ WF_vars(AddBatch) /\ WF_vars(ReadBack) /\ WF_vars(KeepStatus) /\ WF_vars(QueueJob)
    /\ WF_vars(WriteCall)
    /\ \A w \in Worker :
          /\ WF_vars(TimerFires(w))
          /\ WF_vars(Claim(w) \/ ClaimNothing(w) \/ Ask(w))
          /\ WF_vars(up[w] = "down" /\ Run(w))
    /\ \A d \in Delivery :
          /\ WF_vars(\E t \in tasks : t.on = d /\ TaskStep(t))
          /\ WF_vars(DueArrives(d)) /\ WF_vars(OrphanExpires(d))

FairSpec == Spec /\ Fairness

---------------------------------------------------------------------------
(* A message goes out a second time only after a fault that hit its own    *)
(* delivery: a crash or a storage error after the first, a lost answer, or *)
(* a lease that ran out under a slow task.  Pumps, processes, retries and  *)
(* operators never cause it by their interleaving.                         *)
RepeatNeedsFault == \A d \in Delivery : sends[d] <= 1 + excuse[d]

(* The deliveries whose result is in the counters of the job *)
Counted == {d \in Terminal \ lost :
               \A t \in tasks : t.on = d => t.pc \in {"complete", "close"}}

(* sent + failed + skipped is the number of recorded results, but for the  *)
(* ones a task is about to count and the ones a crash or a storage error   *)
(* lost; as long as no stale copy of the job was written back and no       *)
(* delivery had two holders.                                               *)
CountsExact == ~overwritten /\ ~spoilt => job.processed = Cardinality(Counted)

(* "wait until every delivery reaches a terminal state": a job is          *)
(* completed only when no delivery is left.                                *)
CompletedIsFinished ==
    /\ job.status = "completed"
    /\ ~overwritten /\ ~spoilt
    => Terminal = Delivery

(* The damage after which a job may stay open for ever *)
Damaged == missed \/ overwritten \/ unclosed \/ spoilt \/ lost # {}

(* A created job ends, whatever crashed or was answered late, unless it is *)
(* paused, a process is left stopped, or the damage above was done.        *)
JobSettles ==
    creation = "done" ~> \/ JobTerminal(job) \/ job.status = "paused" \/ Damaged
                         \/ \E w \in Worker : up[w] = "stopped"

=============================================================================
