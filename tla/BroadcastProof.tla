--------------------------- MODULE BroadcastProof ---------------------------
(***************************************************************************)
(* Proofs about Broadcast, for every set of deliveries and processes and   *)
(* every number of attempts and faults: a message is repeated only after a *)
(* fault of its own, the counters of the job are exact, and a completed    *)
(* job has no delivery left.                                               *)
(***************************************************************************)
EXTENDS Broadcast, FiniteSetTheorems, TLAPS

USE DEF pumpVars, damageVars
-----------------------------------------------------------------------------
(* Types, in the groups that the steps change together *)

Stored ==
    /\ job \in Job
    /\ call \in [op : {"none", "pause", "resume", "cancel"}, by : Worker, seen : Job]
    /\ creation \in {"new", "writing", "keep", "queue", "done", "lost"}

DeliveryRecord == [status : {"absent", "queued", "running"} \cup Finished,
                   attempts : Nat, due : BOOLEAN, lock : {"none", "held", "expired"}]

Deliveries ==
    /\ delivery \in [Delivery -> DeliveryRecord]
    /\ \A d \in Delivery : delivery[d].status = "running" <=> delivery[d].lock # "none"

Processes ==
    /\ up \in [Worker -> {"running", "stopped", "down"}]
    /\ timer \in SUBSET Worker
    /\ pump \in [Worker -> {"idle", "claim", "ask"}]
    /\ again \in SUBSET Worker

History ==
    /\ trouble \in Nat
    /\ sends \in [Delivery -> Nat]
    /\ excuse \in [Delivery -> Nat]
    /\ lost \in SUBSET Delivery

Flags == unclosed \in BOOLEAN /\ spoilt \in BOOLEAN /\ overwritten \in BOOLEAN
         /\ missed \in BOOLEAN

LEMMA TypeGroups ==
    TypeOK <=> Stored /\ Deliveries /\ Processes /\ tasks \in SUBSET Task /\ History /\ Flags
BY DEF TypeOK, Stored, Deliveries, DeliveryRecord, Processes, History, Flags

LEMMA Sizes ==
    /\ IsFiniteSet(Delivery) /\ Cardinality(Delivery) \in Nat
    /\ Home \in Worker /\ Concurrency \in Nat
BY BroadcastAssumption, FS_CardinalityType

\* Steps of the storage that leave the deliveries and the tasks alone, and
\* steps of the pumps
StorageStep ==
    \/ CreateJob \/ ReadBack \/ KeepStatus \/ QueueJob \/ WriteCall
    \/ \E w \in Worker, op \in {"pause", "resume", "cancel"} : ReadForCall(w, op)

PumpStep ==
    \E w \in Worker : \/ Run(w) \/ Stop(w) \/ TimerFires(w) \/ ClaimNothing(w)
                      \/ Ask(w) \/ ClaimFails(w) \/ AskFails(w)

ClockStep == AddBatch \/ \E d \in Delivery : DueArrives(d)

\* A step of one task, a claim, an expiry or a crash
WorkStep ==
    \/ \E w \in Worker : Claim(w) \/ Crash(w)
    \/ \E t \in tasks : \/ SendOk(t) \/ SendRefused(t) \/ AnswerLost(t)
                        \/ Record(t) \/ Requeue(t) \/ Count(t) \/ Complete(t)
                        \/ TryFails(t) \/ CatchFails(t)
    \/ \E d \in Delivery : OrphanExpires(d) \/ Overrun(d)

LEMMA StepKinds ==
    ASSUME [Next]_vars
    PROVE  StorageStep \/ PumpStep \/ ClockStep \/ WorkStep \/ UNCHANGED vars
BY Zenon DEF Next, StorageStep, PumpStep, ClockStep, WorkStep, TaskStep

LEMMA JobCopied ==
    ASSUME NEW j \in Job,
           NEW status \in {"creating", "queued", "running", "paused", "completed", "cancelled"}
    PROVE  /\ CopyJob(j, status) \in Job
           /\ CopyJob(j, status).status = status
           /\ CopyJob(j, status).processed = j.processed
           /\ CopyJob(j, status).total = j.total
BY DEF Job, CopyJob

LEMMA StoredKept ==
    ASSUME TypeOK, [Next]_vars
    PROVE  Stored'
<1>0. Stored /\ tasks \in SUBSET Task /\ Home \in Worker /\ Cardinality(Delivery) \in Nat
  BY TypeGroups, Sizes
<1>1. NoJob \in Job
  BY DEF NoJob, Job
<1>2. ASSUME StorageStep PROVE Stored'
  <2>1. CASE CreateJob
    BY <1>0, <2>1, JobCopied DEF CreateJob, Stored
  <2>2. CASE ReadBack
    BY <1>0, <2>2 DEF ReadBack, Stored
  <2>3. CASE KeepStatus
    BY <1>0, <2>3 DEF KeepStatus, Stored, Job
  <2>4. CASE QueueJob
    BY <1>0, <2>4 DEF QueueJob, Stored, Job
  <2>5. CASE WriteCall
    <3>1. call.seen \in Job
      BY <1>0 DEF Stored
    <3>2. PICK status \in {"paused", "queued", "cancelled"} : job' = CopyJob(call.seen, status)
      BY <2>5 DEF WriteCall, WriteBack
    <3>3. call' = [op |-> "none", by |-> Home, seen |-> NoJob] /\ UNCHANGED creation
      BY <2>5 DEF WriteCall
    <3> QED
      BY <1>0, <1>1, <3>1, <3>2, <3>3, JobCopied DEF Stored
  <2>6. ASSUME NEW w \in Worker, NEW op \in {"pause", "resume", "cancel"}, ReadForCall(w, op)
        PROVE  Stored'
    BY <1>0, <2>6 DEF ReadForCall, Stored
  <2> QED
    BY <1>2, <2>1, <2>2, <2>3, <2>4, <2>5, <2>6 DEF StorageStep
<1>3. ASSUME PumpStep \/ ClockStep PROVE Stored'
  <2>1. UNCHANGED <<job, call, creation>>
    BY <1>3, Zenon DEF PumpStep, ClockStep, Run, Stop, TimerFires, ClaimNothing, Ask,
                       ClaimFails, AskFails, AddBatch, DueArrives
  <2> QED
    BY <1>0, <2>1 DEF Stored
<1>4. ASSUME NEW w \in Worker, Claim(w) PROVE Stored'
  BY <1>0, <1>4, JobCopied DEF Claim, Stored
<1>5. ASSUME NEW w \in Worker, Crash(w) PROVE Stored'
  <2>1. UNCHANGED job /\ creation' \in {"lost", creation}
        /\ call' \in {call, [op |-> "none", by |-> Home, seen |-> NoJob]}
    BY <1>5 DEF Crash
  <2> QED
    BY <1>0, <1>1, <2>1 DEF Stored
<1>6. ASSUME NEW t \in tasks, Count(t) PROVE Stored'
  BY <1>0, <1>6 DEF Count, Stored, Job
<1>7. ASSUME NEW t \in tasks, Complete(t) PROVE Stored'
  <2>1. t.seen \in Job
    BY <1>0 DEF Task
  <2>2. job' = CopyJob(t.seen, "completed") /\ UNCHANGED <<call, creation>>
    BY <1>7 DEF Complete, WriteBack
  <2> QED
    BY <1>0, <2>1, <2>2, JobCopied DEF Stored
<1>8. ASSUME NEW t \in tasks, \/ SendOk(t) \/ SendRefused(t) \/ AnswerLost(t) \/ Record(t)
                              \/ Requeue(t) \/ TryFails(t) \/ CatchFails(t)
      PROVE  Stored'
  <2>1. UNCHANGED <<job, call, creation>>
    BY <1>8, Zenon DEF SendOk, SendRefused, AnswerLost, Record, Requeue, TryFails, CatchFails
  <2> QED
    BY <1>0, <2>1 DEF Stored
<1>9. ASSUME NEW d \in Delivery, OrphanExpires(d) \/ Overrun(d) PROVE Stored'
  BY <1>0, <1>9 DEF OrphanExpires, Overrun, LeaseExpires, Stored
<1>10. CASE UNCHANGED vars
  BY <1>0, <1>10 DEF vars, Stored
<1> QED
  BY <1>2, <1>3, <1>4, <1>5, <1>6, <1>7, <1>8, <1>9, <1>10, StepKinds DEF WorkStep

\* The lock and the status of one delivery changed together
LEMMA DeliveryChanged ==
    ASSUME Deliveries, NEW d \in Delivery, NEW r \in DeliveryRecord,
           r.status = "running" <=> r.lock # "none",
           delivery' = [delivery EXCEPT ![d] = r]
    PROVE  Deliveries'
BY DEF Deliveries

LEMMA DeliveriesKept ==
    ASSUME TypeOK, [Next]_vars
    PROVE  Deliveries'
<1>0. Deliveries /\ tasks \in SUBSET Task
  BY TypeGroups
<1>1. CASE UNCHANGED delivery
  BY <1>0, <1>1 DEF Deliveries
<1>2. CASE AddBatch
  <2>1. PICK batch \in SUBSET Absent, due \in BOOLEAN :
           delivery' = [d \in Delivery |->
              IF d \in batch THEN [delivery[d] EXCEPT !.status = "queued", !.due = due]
              ELSE delivery[d]]
    BY <1>2 DEF AddBatch
  <2>2. \A d \in batch : d \in Delivery /\ delivery[d].status = "absent"
    BY DEF Absent
  <2>3. ASSUME NEW d \in Delivery
        PROVE  /\ delivery'[d] \in DeliveryRecord
               /\ delivery'[d].status = "running" <=> delivery'[d].lock # "none"
    BY <1>0, <2>1, <2>2 DEF Deliveries, DeliveryRecord
  <2>4. delivery' = [d \in Delivery |-> delivery'[d]]
    BY <2>1
  <2> QED
    BY <2>3, <2>4 DEF Deliveries
<1>3. ASSUME NEW d \in Delivery, DueArrives(d) PROVE Deliveries'
  <2> DEFINE r == [delivery[d] EXCEPT !.due = TRUE]
  <2>1. r \in DeliveryRecord /\ r.status = delivery[d].status /\ r.lock = delivery[d].lock
    BY <1>0 DEF Deliveries, DeliveryRecord
  <2>2. delivery' = [delivery EXCEPT ![d] = r]
    BY <1>3 DEF DueArrives
  <2> HIDE DEF r
  <2> QED
    BY <1>0, <2>1, <2>2, DeliveryChanged DEF Deliveries
<1>4. ASSUME NEW w \in Worker, Claim(w) PROVE Deliveries'
  <2>1. PICK d \in Claimable :
           delivery' = [delivery EXCEPT ![d].status = "running", ![d].attempts = @ + 1,
                                        ![d].lock = "held"]
    BY <1>4 DEF Claim
  <2>2. d \in Delivery
    BY DEF Claimable
  <2> DEFINE r == [delivery[d] EXCEPT !.status = "running", !.attempts = @ + 1,
                                      !.lock = "held"]
  <2>0. delivery[d] \in DeliveryRecord
    BY <1>0, <2>2 DEF Deliveries
  <2>3. r \in DeliveryRecord /\ r.status = "running" /\ r.lock = "held"
    <3>1. delivery[d].attempts + 1 \in Nat
      BY <2>0 DEF DeliveryRecord
    <3>2. r = [delivery[d] EXCEPT !.status = "running",
                                  !.attempts = delivery[d].attempts + 1, !.lock = "held"]
      OBVIOUS
    <3> QED
      BY <2>0, <3>1, <3>2 DEF DeliveryRecord
  <2>4. delivery' = [delivery EXCEPT ![d] = r]
    BY <1>0, <2>1, <2>2 DEF Deliveries, DeliveryRecord
  <2> HIDE DEF r
  <2> QED
    BY <1>0, <2>2, <2>3, <2>4, DeliveryChanged
<1>5. ASSUME NEW d \in Delivery, NEW status \in Finished, RecordedAs(d, status)
      PROVE  Deliveries'
  <2> DEFINE r == [delivery[d] EXCEPT !.status = status, !.lock = "none"]
  <2>1. r \in DeliveryRecord /\ r.status # "running" /\ r.lock = "none"
    BY <1>0 DEF Deliveries, DeliveryRecord, Finished
  <2>2. delivery' = [delivery EXCEPT ![d] = r]
    BY <1>0, <1>5 DEF Deliveries, DeliveryRecord, RecordedAs
  <2> HIDE DEF r
  <2> QED
    BY <1>0, <2>1, <2>2, DeliveryChanged
<1>6. ASSUME NEW t \in tasks, Record(t) PROVE Deliveries'
  BY <1>0, <1>5, <1>6 DEF Record, Finished, Task
<1>7. ASSUME NEW t \in tasks, Requeue(t) PROVE Deliveries'
  <2>1. t.on \in Delivery
    BY <1>0 DEF Task
  <2> DEFINE r == [delivery[t.on] EXCEPT !.status = "queued", !.due = FALSE, !.lock = "none"]
  <2>2. r \in DeliveryRecord /\ r.status = "queued" /\ r.lock = "none"
    BY <1>0, <2>1 DEF Deliveries, DeliveryRecord
  <2>3. delivery' = [delivery EXCEPT ![t.on] = r]
    BY <1>0, <1>7, <2>1 DEF Deliveries, DeliveryRecord, Requeue
  <2> HIDE DEF r
  <2> QED
    BY <1>0, <2>1, <2>2, <2>3, DeliveryChanged
<1>8. ASSUME NEW d \in Delivery, OrphanExpires(d) \/ Overrun(d) PROVE Deliveries'
  <2> DEFINE r == [delivery[d] EXCEPT !.lock = "expired"]
  <2>1. r \in DeliveryRecord /\ r.status = delivery[d].status /\ r.lock = "expired"
    BY <1>0 DEF Deliveries, DeliveryRecord
  <2>2. delivery[d].lock = "held" /\ delivery' = [delivery EXCEPT ![d] = r]
    BY <1>8 DEF OrphanExpires, Overrun, LeaseExpires
  <2> HIDE DEF r
  <2> QED
    BY <1>0, <2>1, <2>2, DeliveryChanged DEF Deliveries
<1>9. ASSUME StorageStep \/ PumpStep \/ UNCHANGED vars PROVE UNCHANGED delivery
  BY <1>9, Zenon DEF StorageStep, PumpStep, vars, CreateJob, ReadBack, KeepStatus, QueueJob,
     WriteCall, ReadForCall, Run, Stop, TimerFires, ClaimNothing, Ask, ClaimFails, AskFails
<1>10. ASSUME NEW t \in tasks, \/ SendOk(t) \/ SendRefused(t) \/ AnswerLost(t) \/ Count(t)
                               \/ Complete(t) \/ TryFails(t) \/ CatchFails(t)
       PROVE  UNCHANGED delivery
  BY <1>10, Zenon DEF SendOk, SendRefused, AnswerLost, Count, Complete, TryFails, CatchFails
<1>11. ASSUME NEW w \in Worker, Crash(w) PROVE UNCHANGED delivery
  BY <1>11 DEF Crash
<1> QED
  BY <1>1, <1>2, <1>3, <1>4, <1>6, <1>7, <1>8, <1>9, <1>10, <1>11, StepKinds
     DEF ClockStep, WorkStep

LEMMA PumpTyped ==
    ASSUME Processes, NEW w \in Worker, NEW phase \in {"idle", "claim", "ask"},
           NEW armed \in SUBSET Worker, PumpGoesOn(w, phase, armed)
    PROVE  /\ timer' \in SUBSET Worker
           /\ pump' \in [Worker -> {"idle", "claim", "ask"}]
           /\ again' \in SUBSET Worker
BY DEF Processes, PumpGoesOn, ArmedOver

LEMMA ScheduledTyped ==
    ASSUME Processes, NEW w \in Worker
    PROVE  Scheduled(w) \in SUBSET Worker
BY DEF Processes, Scheduled, ArmedOver

LEMMA ProcessesKept ==
    ASSUME TypeOK, [Next]_vars
    PROVE  Processes'
<1>0. Processes /\ Stored /\ tasks \in SUBSET Task /\ Home \in Worker
  BY TypeGroups, Sizes
<1>1. CASE UNCHANGED <<up, timer, pump, again>>
  BY <1>0, <1>1 DEF Processes
<1>2. \A w, n : LoopPhase(w, n) \in {"idle", "claim", "ask"}
  BY DEF LoopPhase
<1>3. CASE StorageStep
  <2>1. CASE UNCHANGED <<up, timer, pump, again>>
    BY <1>1, <2>1
  <2>2. CASE QueueJob
    BY <1>0, <2>2, ScheduledTyped DEF QueueJob, Processes
  <2>3. CASE WriteCall
    <3>1. call.by \in Worker
      BY <1>0 DEF Stored
    <3> QED
      BY <1>0, <2>3, <3>1, ScheduledTyped DEF WriteCall, Processes
  <2> QED
    BY <1>3, <2>1, <2>2, <2>3
       DEF StorageStep, CreateJob, ReadBack, KeepStatus, ReadForCall
<1>4. ASSUME NEW w \in Worker, \/ Run(w) \/ Stop(w) \/ TimerFires(w) \/ ClaimNothing(w)
                               \/ Ask(w) \/ ClaimFails(w) \/ AskFails(w)
      PROVE  Processes'
  <2>1. CASE Run(w)
    BY <1>0, <2>1 DEF Run, Processes
  <2>2. CASE Stop(w)
    BY <1>0, <2>2 DEF Stop, Processes
  <2>3. CASE TimerFires(w)
    <3>1. CASE pump[w] = "idle"
      <4>1. PumpGoesOn(w, LoopPhase(w, Active(w)), timer \ {w}) /\ UNCHANGED up
        BY <2>3, <3>1 DEF TimerFires
      <4>2. timer \ {w} \in SUBSET Worker
        BY <1>0 DEF Processes
      <4> QED
        BY <1>0, <1>2, <4>1, <4>2, PumpTyped DEF Processes
    <3>2. CASE pump[w] # "idle"
      BY <1>0, <2>3, <3>2 DEF TimerFires, Processes
    <3> QED
      BY <3>1, <3>2
  <2>4. CASE ClaimNothing(w)
    BY <1>0, <2>4 DEF ClaimNothing, Processes
  <2>5. CASE Ask(w)
    <3>1. /\ PumpGoesOn(w, "idle", IF DueLater THEN Scheduled(w) ELSE timer)
          /\ UNCHANGED up
      BY <2>5 DEF Ask
    <3>2. (IF DueLater THEN Scheduled(w) ELSE timer) \in SUBSET Worker
      BY <1>0, ScheduledTyped DEF Processes
    <3> QED
      BY <1>0, <3>1, <3>2, PumpTyped DEF Processes
  <2>6. CASE ClaimFails(w)
    BY <1>0, <2>6, ScheduledTyped DEF ClaimFails, Processes
  <2>7. CASE AskFails(w)
    <3>1. PumpGoesOn(w, "idle", timer) /\ UNCHANGED up /\ timer \in SUBSET Worker
      BY <1>0, <2>7 DEF AskFails, Processes
    <3> QED
      BY <1>0, <3>1, PumpTyped DEF Processes
  <2> QED
    BY <1>4, <2>1, <2>2, <2>3, <2>4, <2>5, <2>6, <2>7
<1>5. ASSUME NEW w \in Worker, Claim(w) PROVE Processes'
  <2>1. /\ PumpGoesOn(w, LoopPhase(w, Active(w) + 1), timer)
        /\ UNCHANGED up /\ timer \in SUBSET Worker
    BY <1>0, <1>5 DEF Claim, Processes
  <2> QED
    BY <1>0, <1>2, <2>1, PumpTyped DEF Processes
<1>6. ASSUME NEW w \in Worker, Crash(w) PROVE Processes'
  BY <1>0, <1>6 DEF Crash, Processes
<1>7. ASSUME NEW t \in tasks, \/ SendOk(t) \/ SendRefused(t) \/ AnswerLost(t) \/ Record(t)
                              \/ TryFails(t)
      PROVE  UNCHANGED <<up, timer, pump, again>>
  BY <1>7, Zenon DEF SendOk, SendRefused, AnswerLost, Record, TryFails
<1>8. ASSUME NEW t \in tasks, Requeue(t) \/ Count(t) \/ Complete(t) \/ CatchFails(t)
      PROVE  Processes'
  <2>1. UNCHANGED <<up, pump, again>> /\ timer' \in {timer, Scheduled(t.worker)}
    BY <1>8 DEF Requeue, Count, Complete, CatchFails, TaskEnds
  <2>2. t.worker \in Worker
    BY <1>0 DEF Task
  <2> QED
    BY <1>0, <2>1, <2>2, ScheduledTyped DEF Processes
<1>9. ASSUME \/ \E d \in Delivery : OrphanExpires(d) \/ Overrun(d)
             \/ ClockStep \/ UNCHANGED vars
      PROVE  UNCHANGED <<up, timer, pump, again>>
  BY <1>9, Zenon DEF OrphanExpires, Overrun, LeaseExpires, ClockStep, AddBatch, DueArrives, vars
<1> QED
  BY <1>1, <1>3, <1>4, <1>5, <1>6, <1>7, <1>8, <1>9, StepKinds DEF PumpStep, WorkStep



-----------------------------------------------------------------------------
(* What a step does to the tasks *)

\* t goes on to one of the phases.
MovesTo(t, phases) ==
    \E u \in Task : /\ u.on = t.on /\ u.attempt = t.attempt /\ u.pc \in phases
                    /\ tasks' = (tasks \ {t}) \cup {u}

LEMMA GoesTo ==
    ASSUME tasks \in SUBSET Task, NEW t \in tasks, NEW phases \in SUBSET TaskPhase,
           NEW pc \in phases, tasks' = Goto(t, pc)
    PROVE  MovesTo(t, phases)
<1> DEFINE u == [t EXCEPT !.pc = pc]
<1>1. u \in Task /\ u.on = t.on /\ u.attempt = t.attempt /\ u.pc = pc
  BY DEF Task
<1>2. tasks' = (tasks \ {t}) \cup {u}
  BY DEF Goto
<1> HIDE DEF u
<1> QED
  BY <1>1, <1>2 DEF MovesTo

LEMMA Moves ==
    ASSUME tasks \in SUBSET Task, job \in Job, NEW t \in tasks
    PROVE  /\ SendOk(t) => MovesTo(t, {"record"})
           /\ SendRefused(t) => MovesTo(t, {"skip", "fail", "retry"})
           /\ AnswerLost(t) => MovesTo(t, {"fail", "retry"})
           /\ Record(t) => MovesTo(t, {"count", "tally"})
           /\ TryFails(t) => MovesTo(t, {"fail", "retry"})
           /\ Count(t) => tasks' = tasks \ {t} \/ MovesTo(t, {"complete", "close"})
<1>0. AfterError(t) \subseteq {"fail", "retry"}
  BY DEF AfterError
<1>1. ASSUME SendOk(t) PROVE MovesTo(t, {"record"})
  BY <1>1, GoesTo DEF SendOk, TaskPhase
<1>2. ASSUME SendRefused(t) PROVE MovesTo(t, {"skip", "fail", "retry"})
  BY <1>0, <1>2, GoesTo DEF SendRefused, TaskPhase
<1>3. ASSUME AnswerLost(t) PROVE MovesTo(t, {"fail", "retry"})
  BY <1>0, <1>3, GoesTo DEF AnswerLost, TaskPhase
<1>4. ASSUME Record(t) PROVE MovesTo(t, {"count", "tally"})
  BY <1>4, GoesTo DEF Record, TaskPhase
<1>5. ASSUME TryFails(t) PROVE MovesTo(t, {"fail", "retry"})
  <2>1. PICK pc \in {"fail", "retry"} :
           tasks' = (tasks \ {t}) \cup {[t EXCEPT !.pc = pc, !.seen = NoJob]}
    BY <1>0, <1>5 DEF TryFails
  <2>2. NoJob \in Job /\ pc \in TaskPhase /\ t \in Task
    BY DEF NoJob, Job, TaskPhase
  <2> DEFINE u == [t EXCEPT !.pc = pc, !.seen = NoJob]
  <2>3. u \in Task /\ u.on = t.on /\ u.attempt = t.attempt /\ u.pc = pc
    BY <2>2 DEF Task
  <2>4. tasks' = (tasks \ {t}) \cup {u}
    BY <2>1
  <2> HIDE DEF u
  <2> QED
    BY <2>3, <2>4 DEF MovesTo
<1>6. ASSUME Count(t) PROVE tasks' = tasks \ {t} \/ MovesTo(t, {"complete", "close"})
  <2> DEFINE counted == [job EXCEPT !.processed = @ + 1]
             last == IF t.pc = "count" THEN "complete" ELSE "close"
             u == [t EXCEPT !.pc = last, !.seen = counted]
  <2>1. counted \in Job /\ last \in TaskPhase /\ last \in {"complete", "close"} /\ t \in Task
    BY DEF Job, TaskPhase
  <2>2. u \in Task /\ u.on = t.on /\ u.attempt = t.attempt /\ u.pc = last
    <3> HIDE DEF counted, last
    <3> QED BY <2>1 DEF Task
  <2>3. tasks' = (tasks \ {t}) \cup {u} \/ tasks' = tasks \ {t}
    BY <1>6 DEF Count, TaskEnds
  <2> HIDE DEF u, last
  <2> QED
    BY <2>1, <2>2, <2>3 DEF MovesTo
<1> QED
  BY <1>1, <1>2, <1>3, <1>4, <1>5, <1>6

LEMMA Removes ==
    ASSUME NEW t \in tasks, Requeue(t) \/ Complete(t) \/ CatchFails(t)
    PROVE  tasks' = tasks \ {t}
BY DEF Requeue, Complete, CatchFails, TaskEnds

\* Every step that is no claim ...
TaskSteady == StorageStep \/ PumpStep \/ ClockStep \/ UNCHANGED vars
              \/ \E d \in Delivery : OrphanExpires(d) \/ Overrun(d)

LEMMA TasksSteady ==
    ASSUME TaskSteady
    PROVE  UNCHANGED tasks
BY Zenon DEF TaskSteady, StorageStep, PumpStep, ClockStep, vars, CreateJob, ReadBack,
   KeepStatus, QueueJob, WriteCall, ReadForCall, Run, Stop, TimerFires, ClaimNothing, Ask,
   ClaimFails, AskFails, AddBatch, DueArrives, OrphanExpires, Overrun, LeaseExpires

LEMMA TasksKept ==
    ASSUME TypeOK, [Next]_vars
    PROVE  tasks' \in SUBSET Task
<1>0. tasks \in SUBSET Task /\ job \in Job /\ Deliveries
  BY TypeGroups DEF Stored
<1>1. CASE TaskSteady
  BY <1>0, <1>1, TasksSteady
<1>2. ASSUME NEW w \in Worker, Claim(w) PROVE tasks' \in SUBSET Task
  <2>1. PICK d \in Claimable :
           tasks' = tasks \cup {[worker |-> w, on |-> d, pc |-> "send", seen |-> NoJob,
                                 attempt |-> delivery[d].attempts + 1]}
    BY <1>2 DEF Claim
  <2>2. d \in Delivery /\ delivery[d].attempts \in Nat /\ NoJob \in Job
    BY <1>0 DEF Claimable, Deliveries, DeliveryRecord, NoJob, Job
  <2>3. delivery[d].attempts + 1 \in Nat \ {0}
    BY <2>2
  <2>4. [worker |-> w, on |-> d, pc |-> "send", seen |-> NoJob,
         attempt |-> delivery[d].attempts + 1] \in Task
    BY <2>2, <2>3 DEF Task, TaskPhase
  <2> QED
    BY <1>0, <2>1, <2>4
<1>3. ASSUME NEW w \in Worker, Crash(w) PROVE tasks' \in SUBSET Task
  BY <1>0, <1>3 DEF Crash
<1>4. ASSUME NEW t \in tasks, \/ SendOk(t) \/ SendRefused(t) \/ AnswerLost(t) \/ Record(t)
                              \/ TryFails(t) \/ Count(t)
      PROVE  tasks' \in SUBSET Task
  BY <1>0, <1>4, Moves DEF MovesTo
<1>5. ASSUME NEW t \in tasks, Requeue(t) \/ Complete(t) \/ CatchFails(t)
      PROVE  tasks' \in SUBSET Task
  BY <1>0, <1>5, Removes
<1> QED
  BY <1>1, <1>2, <1>3, <1>4, <1>5, StepKinds DEF WorkStep, TaskSteady


LEMMA Bumped ==
    ASSUME NEW f \in [Delivery -> Nat], NEW d \in Delivery
    PROVE  [f EXCEPT ![d] = @ + 1] \in [Delivery -> Nat]
OBVIOUS

LEMMA AbandonsTyped ==
    ASSUME History, NEW gone, gone \subseteq tasks, tasks \in SUBSET Task, Abandons(gone)
    PROVE  excuse' \in [Delivery -> Nat] /\ lost' \in SUBSET Delivery
<1>1. excuse' \in [Delivery -> Nat]
  BY DEF History, Abandons
<1>2. \A t \in gone : t.on \in Delivery
  BY DEF Task
<1>3. lost' = lost \cup {t.on : t \in {t \in gone : t.pc \notin {"complete", "close"}
                                                  /\ t.on \in Terminal}}
  BY DEF Abandons
<1> QED
  BY <1>1, <1>2, <1>3 DEF History

LEMMA HistoryKept ==
    ASSUME TypeOK, [Next]_vars
    PROVE  History'
<1>0. History /\ tasks \in SUBSET Task
  BY TypeGroups
<1>1. trouble' \in Nat
  <2>1. UNCHANGED trouble \/ trouble' = trouble + 1
    <3>1. ASSUME StorageStep \/ PumpStep \/ ClockStep \/ UNCHANGED vars
          PROVE  UNCHANGED trouble \/ trouble' = trouble + 1
      BY <3>1, Zenon DEF StorageStep, PumpStep, ClockStep, vars, CreateJob, ReadBack,
         KeepStatus, QueueJob, WriteCall, ReadForCall, Run, Stop, TimerFires, ClaimNothing,
         Ask, ClaimFails, AskFails, AddBatch, DueArrives, TroubleHappens
    <3>2. ASSUME WorkStep PROVE UNCHANGED trouble \/ trouble' = trouble + 1
      BY <3>2, Zenon DEF WorkStep, Claim, Crash, SendOk, SendRefused, AnswerLost, Record,
         Requeue, Count, Complete, TryFails, CatchFails, OrphanExpires, Overrun,
         TroubleHappens
    <3> QED
      BY <3>1, <3>2, StepKinds
  <2> QED
    BY <1>0, <2>1 DEF History
<1>2. CASE UNCHANGED <<sends, excuse, lost>>
  BY <1>0, <1>1, <1>2 DEF History
<1>3. ASSUME NEW t \in tasks, SendOk(t) PROVE History'
  <2>1. t.on \in Delivery /\ sends' = [sends EXCEPT ![t.on] = @ + 1]
        /\ UNCHANGED <<excuse, lost>>
    BY <1>0, <1>3 DEF SendOk, Task
  <2> QED
    BY <1>0, <1>1, <2>1, Bumped DEF History
<1>4. ASSUME NEW t \in tasks, AnswerLost(t) PROVE History'
  <2>1. /\ t.on \in Delivery
        /\ sends' = [sends EXCEPT ![t.on] = @ + 1]
        /\ excuse' = [excuse EXCEPT ![t.on] = @ + 1]
        /\ UNCHANGED lost
    BY <1>0, <1>4 DEF AnswerLost, Task
  <2> QED
    BY <1>0, <1>1, <2>1, Bumped DEF History
<1>5. ASSUME NEW t \in tasks, TryFails(t) PROVE History'
  <2>1. /\ t.on \in Delivery
        /\ excuse' = [excuse EXCEPT ![t.on] = @ + 1]
        /\ UNCHANGED <<sends, lost>>
    BY <1>0, <1>5 DEF TryFails, Task
  <2> QED
    BY <1>0, <1>1, <2>1, Bumped DEF History
<1>6. ASSUME NEW d \in Delivery, Overrun(d) PROVE History'
  <2>1. excuse' = [excuse EXCEPT ![d] = @ + 1] /\ UNCHANGED <<sends, lost>>
    BY <1>6 DEF Overrun, LeaseExpires
  <2> QED
    BY <1>0, <1>1, <2>1, Bumped DEF History
<1>7. ASSUME NEW t \in tasks, CatchFails(t) PROVE History'
  <2>1. Abandons({t}) /\ UNCHANGED sends
    BY <1>7 DEF CatchFails
  <2> QED
    BY <1>0, <1>1, <2>1, AbandonsTyped DEF History
<1>8. ASSUME NEW w \in Worker, Crash(w) PROVE History'
  <2>1. Abandons({t \in tasks : t.worker = w}) /\ UNCHANGED sends
    BY <1>8 DEF Crash
  <2> QED
    BY <1>0, <1>1, <2>1, AbandonsTyped DEF History
<1>9. ASSUME StorageStep \/ PumpStep \/ ClockStep \/ UNCHANGED vars
      PROVE  UNCHANGED <<sends, excuse, lost>>
  BY <1>9, Zenon DEF StorageStep, PumpStep, ClockStep, vars, CreateJob, ReadBack,
     KeepStatus, QueueJob, WriteCall, ReadForCall, Run, Stop, TimerFires, ClaimNothing,
     Ask, ClaimFails, AskFails, AddBatch, DueArrives
<1>10. ASSUME \/ \E w \in Worker : Claim(w)
              \/ \E d \in Delivery : OrphanExpires(d)
              \/ \E t \in tasks : \/ SendRefused(t) \/ Record(t) \/ Requeue(t)
                                  \/ Count(t) \/ Complete(t)
       PROVE  UNCHANGED <<sends, excuse, lost>>
  BY <1>10, Zenon DEF Claim, OrphanExpires, LeaseExpires, SendRefused, Record, Requeue,
     Count, Complete
<1> QED
  BY <1>2, <1>3, <1>4, <1>5, <1>6, <1>7, <1>8, <1>9, <1>10, StepKinds DEF WorkStep

LEMMA FlagsKept ==
    ASSUME TypeOK, [Next]_vars
    PROVE  Flags'
<1>0. Flags
  BY TypeGroups
<1>1. ASSUME StorageStep \/ PumpStep \/ ClockStep \/ UNCHANGED vars
      PROVE  Flags'
  <2>1. ASSUME StorageStep PROVE Flags'
    BY <1>0, <2>1, Zenon DEF StorageStep, CreateJob, ReadBack, KeepStatus, QueueJob,
       WriteCall, WriteBack, ReadForCall, Flags
  <2>2. ASSUME PumpStep PROVE Flags'
    BY <1>0, <2>2, Zenon DEF PumpStep, Run, Stop, TimerFires, ClaimNothing, Ask,
       ClaimFails, AskFails, Flags
  <2>3. ASSUME ClockStep \/ UNCHANGED vars PROVE Flags'
    BY <1>0, <2>3, Zenon DEF ClockStep, vars, AddBatch, DueArrives, Flags
  <2> QED
    BY <1>1, <2>1, <2>2, <2>3
<1>2. ASSUME WorkStep PROVE Flags'
  <2>1. ASSUME NEW t \in tasks,
               \/ SendOk(t) \/ SendRefused(t) \/ AnswerLost(t) \/ Record(t)
               \/ Requeue(t) \/ Count(t)
        PROVE  Flags'
    BY <1>0, <2>1, Zenon DEF SendOk, SendRefused, AnswerLost, Record, Requeue, Count, Flags
  <2>2. ASSUME NEW t \in tasks, Complete(t) \/ TryFails(t) \/ CatchFails(t)
        PROVE  Flags'
    BY <1>0, <2>2, Zenon DEF Complete, WriteBack, TryFails, CatchFails, Abandons, Flags
  <2>3. ASSUME NEW w \in Worker, Claim(w) \/ Crash(w) PROVE Flags'
    BY <1>0, <2>3, Zenon DEF Claim, Crash, Abandons, Flags
  <2>4. ASSUME NEW d \in Delivery, OrphanExpires(d) \/ Overrun(d) PROVE Flags'
    BY <1>0, <2>4, Zenon DEF OrphanExpires, Overrun, LeaseExpires, Flags
  <2> QED
    BY <1>2, <2>1, <2>2, <2>3, <2>4, Zenon DEF WorkStep
<1> QED
  BY <1>1, <1>2, StepKinds

LEMMA TypeKept ==
    ASSUME TypeOK, [Next]_vars
    PROVE  TypeOK'
<1>1. /\ Stored' /\ Deliveries' /\ Processes' /\ tasks' \in SUBSET Task
      /\ History' /\ Flags'
  BY StoredKept, DeliveriesKept, ProcessesKept, TasksKept, HistoryKept, FlagsKept
<1> QED
  BY <1>1, Zenon DEF TypeOK, Stored, Deliveries, DeliveryRecord, Processes, History, Flags

LEMMA TypeInit ==
    ASSUME Init
    PROVE  TypeOK
BY Sizes DEF Init, TypeOK, Job, NoJob, Finished

(* Every storage record, process, task and counter has its type: in        *)
(* particular a delivery has a lease exactly while it is running.          *)
THEOREM TypeCorrect == Spec => []TypeOK
BY TypeInit, TypeKept, PTL DEF Spec

-----------------------------------------------------------------------------
(* The strengthening.  An attempt is current while its lease holds; every  *)
(* other one is a stray.  Open(d) are the sends d still has before it: one *)
(* for each stray that may yet send, and 0 for the sends of the current    *)
(* and of every later attempt.                                             *)
Sendable(t) == t.pc \in {"send", "retry"}

Current(t) == delivery[t.on].lock = "held" /\ t.attempt = delivery[t.on].attempts

Spent(d) == \/ delivery[d].status \in Finished
            \/ \E t \in tasks : t.on = d /\ Current(t) /\ ~Sendable(t)

Strays(d) == {t \in tasks : t.on = d /\ Sendable(t) /\ ~Current(t)}

Open(d) == {t.attempt : t \in Strays(d)} \cup (IF Spent(d) THEN {} ELSE {0})

Budget == \A d \in Delivery : sends[d] + Cardinality(Open(d)) <= 1 + excuse[d]

\* Attempts are numbered: no two tasks share one, and none is ahead of its
\* delivery.  A task with its result recorded has given up its lease.
Numbered ==
    /\ \A t \in tasks : t.attempt <= delivery[t.on].attempts
    /\ \A t, u \in tasks : t.on = u.on /\ t.attempt = u.attempt => t = u
    /\ \A t \in tasks : t.pc \in {"count", "tally", "complete", "close"} => ~Current(t)

\* As long as no lease was overrun, a delivery has one task, which holds its
\* lease until the result is recorded; a lost delivery is left alone.
Placed(t) == \/ /\ delivery[t.on].lock = "held"
                /\ t.pc \in {"send", "record", "skip", "fail", "retry"}
             \/ /\ delivery[t.on].status \in Finished
                /\ t.pc \in {"fail", "retry", "count", "tally", "complete", "close"}

OneHolder ==
    /\ \A t, u \in tasks : t.on = u.on => t = u
    /\ \A t \in tasks : Placed(t)
    /\ \A d \in lost : delivery[d].status \in Finished /\ ~Held(d)

Sound == ~spoilt => OneHolder

\* The total is there before the first task is.
Totalled ==
    ~overwritten =>
      \/ job.total = Cardinality(Delivery)
      \/ /\ creation # "done" /\ tasks = {}
         /\ job.status \in {"none", "creating", "paused", "cancelled"}

Lasts == \A t \in tasks : t.pc \in {"complete", "close"} => t.seen.processed >= t.seen.total

Closed == job.status = "completed" /\ ~overwritten /\ ~spoilt => Counted = Delivery

-----------------------------------------------------------------------------
\* Only a claim takes a lease and a new attempt; a step that is no claim
NoClaim == \A d \in Delivery : /\ delivery'[d].attempts = delivery[d].attempts
                               /\ delivery'[d].lock = "held" => delivery[d].lock = "held"

LEMMA OnlyClaims ==
    ASSUME TypeOK, [Next]_vars, ~\E w \in Worker : Claim(w)
    PROVE  NoClaim
<1>0. Deliveries /\ tasks \in SUBSET Task
  BY TypeGroups
<1>1. CASE UNCHANGED delivery
  BY <1>1 DEF NoClaim
<1>2. CASE AddBatch
  <2>1. PICK batch, due :
           delivery' = [d \in Delivery |->
              IF d \in batch THEN [delivery[d] EXCEPT !.status = "queued", !.due = due]
              ELSE delivery[d]]
    BY <1>2 DEF AddBatch
  <2>2. ASSUME NEW d \in Delivery
        PROVE  delivery'[d].attempts = delivery[d].attempts /\ delivery'[d].lock = delivery[d].lock
    BY <1>0, <2>1 DEF Deliveries, DeliveryRecord
  <2> QED
    BY <2>2 DEF NoClaim
<1>3. ASSUME NEW d \in Delivery, DueArrives(d) PROVE NoClaim
  BY <1>0, <1>3 DEF DueArrives, NoClaim, Deliveries, DeliveryRecord
<1>4. ASSUME NEW t \in tasks, Record(t) PROVE NoClaim
  <2>1. PICK status \in Finished : RecordedAs(t.on, status)
    BY <1>4 DEF Record, Finished
  <2> QED
    BY <1>0, <2>1 DEF RecordedAs, NoClaim, Deliveries, DeliveryRecord
<1>5. ASSUME NEW t \in tasks, Requeue(t) PROVE NoClaim
  BY <1>0, <1>5 DEF Requeue, NoClaim, Deliveries, DeliveryRecord
<1>6. ASSUME NEW d \in Delivery, OrphanExpires(d) \/ Overrun(d) PROVE NoClaim
  BY <1>0, <1>6 DEF OrphanExpires, Overrun, LeaseExpires, NoClaim, Deliveries, DeliveryRecord
<1>7. ASSUME StorageStep \/ PumpStep \/ UNCHANGED vars PROVE UNCHANGED delivery
  BY <1>7, Zenon DEF StorageStep, PumpStep, vars, CreateJob, ReadBack, KeepStatus, QueueJob,
     WriteCall, ReadForCall, Run, Stop, TimerFires, ClaimNothing, Ask, ClaimFails, AskFails
<1>8. ASSUME \/ \E t \in tasks : \/ SendOk(t) \/ SendRefused(t) \/ AnswerLost(t) \/ Count(t)
                                 \/ Complete(t) \/ TryFails(t) \/ CatchFails(t)
             \/ \E w \in Worker : Crash(w)
      PROVE  UNCHANGED delivery
  BY <1>8, Zenon DEF SendOk, SendRefused, AnswerLost, Count, Complete, TryFails, CatchFails,
     Crash
<1> QED
  BY <1>1, <1>2, <1>3, <1>4, <1>5, <1>6, <1>7, <1>8, StepKinds DEF ClockStep, WorkStep

LEMMA NumberedShrinks ==
    ASSUME Numbered, tasks \in SUBSET Task, tasks' \subseteq tasks, NoClaim
    PROVE  Numbered'
<1>1. \A t \in tasks : t.on \in Delivery
  BY DEF Task
<1> QED
  BY <1>1, Zenon DEF Numbered, NoClaim, Current

LEMMA NumberedMoves ==
    ASSUME Numbered, tasks \in SUBSET Task, NoClaim, NEW t \in tasks,
           NEW phases, MovesTo(t, phases),
           ~Current(t)' \/ phases \cap {"count", "tally", "complete", "close"} = {}
    PROVE  Numbered'
<1>1. PICK u \in Task : /\ u.on = t.on /\ u.attempt = t.attempt /\ u.pc \in phases
                        /\ tasks' = (tasks \ {t}) \cup {u}
  BY DEF MovesTo
<1>2. \A v \in tasks : v.on \in Delivery
  BY DEF Task
<1>3. \A v \in tasks' : v.attempt <= delivery'[v.on].attempts
  BY <1>1, <1>2 DEF Numbered, NoClaim
<1>4. \A v, z \in tasks' : v.on = z.on /\ v.attempt = z.attempt => v = z
  <2>1. \A v \in tasks : v.on = u.on /\ v.attempt = u.attempt => v = t
    BY <1>1 DEF Numbered
  <2>2. \A v \in tasks' : v = u \/ (v \in tasks /\ v # t)
    BY <1>1
  <2> QED
    BY <2>1, <2>2 DEF Numbered
<1>5. \A v \in tasks' : v.pc \in {"count", "tally", "complete", "close"} => ~Current(v)'
  <2>1. ASSUME NEW v \in tasks, v.pc \in {"count", "tally", "complete", "close"}
        PROVE  ~Current(v)'
    BY <1>2, <2>1 DEF Numbered, NoClaim, Current
  <2>2. u.pc \in {"count", "tally", "complete", "close"} => ~Current(u)'
    BY <1>1 DEF Current
  <2> QED
    BY <1>1, <2>1, <2>2
<1> QED
  BY <1>3, <1>4, <1>5 DEF Numbered

LEMMA NumberedKept ==
    ASSUME TypeOK, Numbered, [Next]_vars
    PROVE  Numbered'
<1>0. tasks \in SUBSET Task /\ Deliveries /\ job \in Job
  BY TypeGroups DEF Stored
<1>1. ASSUME NEW w \in Worker, Claim(w) PROVE Numbered'
  <2>1. PICK d \in Claimable :
          /\ delivery' = [delivery EXCEPT ![d].status = "running", ![d].attempts = @ + 1,
                                          ![d].lock = "held"]
          /\ tasks' = tasks \cup {[worker |-> w, on |-> d, pc |-> "send", seen |-> NoJob,
                                   attempt |-> delivery[d].attempts + 1]}
    BY <1>1 DEF Claim
  <2> DEFINE n == [worker |-> w, on |-> d, pc |-> "send", seen |-> NoJob,
                   attempt |-> delivery[d].attempts + 1]
  <2>2. /\ n.on = d /\ n.pc = "send" /\ n.attempt = delivery[d].attempts + 1
        /\ tasks' = tasks \cup {n}
    BY <2>1
  <2> HIDE DEF n
  <2>3. d \in Delivery /\ delivery[d].attempts \in Nat
    BY <1>0 DEF Claimable, Deliveries, DeliveryRecord
  <2>4. /\ delivery'[d].attempts = delivery[d].attempts + 1
        /\ \A e \in Delivery \ {d} : delivery'[e] = delivery[e]
    BY <1>0, <2>1, <2>3 DEF Deliveries, DeliveryRecord
  <2>5. \A t \in tasks : t.on \in Delivery /\ t.attempt \in Nat
    BY <1>0 DEF Task
  <2>6. ASSUME NEW t \in tasks
        PROVE  /\ t.attempt <= delivery'[t.on].attempts
               /\ t.on = d => t.attempt < delivery'[t.on].attempts
               /\ Current(t)' => Current(t)
    BY <2>3, <2>4, <2>5 DEF Numbered, Current
  <2>7. \A t \in tasks' : t.attempt <= delivery'[t.on].attempts
    BY <2>2, <2>3, <2>4, <2>6
  <2>8. \A t \in tasks : ~(t.on = n.on /\ t.attempt = n.attempt)
    BY <2>2, <2>3, <2>4, <2>5, <2>6
  <2>9. \A t, u \in tasks' : t.on = u.on /\ t.attempt = u.attempt => t = u
    BY <2>2, <2>8, Zenon DEF Numbered
  <2>10. \A t \in tasks' : t.pc \in {"count", "tally", "complete", "close"} => ~Current(t)'
    BY <2>2, <2>6 DEF Numbered
  <2> QED
    BY <2>7, <2>9, <2>10 DEF Numbered
<1>2. CASE ~\E w \in Worker : Claim(w)
  <2>0. NoClaim
    BY <1>2, OnlyClaims
  <2>1. CASE tasks' \subseteq tasks
    BY <1>0, <2>0, <2>1, NumberedShrinks
  <2>2. ASSUME NEW t \in tasks, \/ SendOk(t) \/ SendRefused(t) \/ AnswerLost(t) \/ TryFails(t)
        PROVE  Numbered'
    <3>1. PICK phases \in SUBSET {"record", "skip", "fail", "retry"} : MovesTo(t, phases)
      BY <1>0, <2>2, Moves
    <3> QED
      BY <1>0, <2>0, <3>1, NumberedMoves
  <2>3. ASSUME NEW t \in tasks, Record(t) PROVE Numbered'
    <3>1. delivery'[t.on].lock = "none"
      BY <1>0, <2>3 DEF Record, RecordedAs, Deliveries, DeliveryRecord, Task
    <3>2. ~Current(t)'
      BY <3>1 DEF Current
    <3> QED
      BY <1>0, <2>0, <2>3, <3>2, Moves, NumberedMoves
  <2>4. ASSUME NEW t \in tasks, Count(t) PROVE Numbered'
    <3>1. ~Current(t)'
      BY <2>4 DEF Numbered, Count, Current
    <3>2. tasks' \subseteq tasks \/ MovesTo(t, {"complete", "close"})
      BY <1>0, <2>4, Moves
    <3> QED
      BY <1>0, <2>0, <2>1, <3>1, <3>2, NumberedMoves
  <2>5. ASSUME NEW t \in tasks, Requeue(t) \/ Complete(t) \/ CatchFails(t)
        PROVE  tasks' \subseteq tasks
    BY <2>5, Removes
  <2>6. ASSUME NEW w \in Worker, Crash(w) PROVE tasks' \subseteq tasks
    BY <2>6 DEF Crash
  <2>7. CASE TaskSteady
    BY <2>1, <2>7, TasksSteady
  <2> QED
    BY <1>2, <2>1, <2>2, <2>3, <2>4, <2>5, <2>6, <2>7, StepKinds DEF WorkStep, TaskSteady
<1> QED
  BY <1>1, <1>2


-----------------------------------------------------------------------------
(* The budget of sends *)

LEMMA OneMore ==
    ASSUME NEW S, IsFiniteSet(S), NEW x
    PROVE  /\ IsFiniteSet(S \cup {x}) /\ Cardinality(S \cup {x}) \in Nat
           /\ Cardinality(S \cup {x}) <= Cardinality(S) + 1
<1>1. IsFiniteSet(S \cup {x})
  BY FS_AddElement
<1>2. Cardinality(S) \in Nat /\ Cardinality(S \cup {x}) \in Nat
  BY <1>1, FS_CardinalityType
<1>3. Cardinality(S \cup {x}) = IF x \in S THEN Cardinality(S) ELSE Cardinality(S) + 1
  BY FS_AddElement, Zenon
<1> QED
  BY <1>1, <1>2, <1>3

LEMMA OneLess ==
    ASSUME NEW S, IsFiniteSet(S), NEW x \in S
    PROVE  /\ IsFiniteSet(S \ {x}) /\ Cardinality(S \ {x}) \in Nat
           /\ Cardinality(S \ {x}) + 1 = Cardinality(S)
<1>1. IsFiniteSet(S \ {x})
  BY FS_RemoveElement
<1>2. Cardinality(S) \in Nat /\ Cardinality(S \ {x}) \in Nat
  BY <1>1, FS_CardinalityType
<1>3. Cardinality(S \ {x}) = IF x \in S THEN Cardinality(S) - 1 ELSE Cardinality(S)
  BY FS_RemoveElement, Zenon
<1> QED
  BY <1>1, <1>2, <1>3

LEMMA SetBounds ==
    ASSUME NEW A, NEW B, IsFiniteSet(B)
    PROVE  /\ A \subseteq B => Cardinality(A) <= Cardinality(B)
           /\ \A x : A \subseteq B \cup {x} => Cardinality(A) <= Cardinality(B) + 1
           /\ \A x \in B : A \subseteq B \ {x} => Cardinality(A) + 1 <= Cardinality(B)
           /\ \A x \in B : \A y : A \subseteq (B \ {x}) \cup {y} => Cardinality(A) <= Cardinality(B)
<1>1. Cardinality(B) \in Nat
  BY FS_CardinalityType
<1>2. ASSUME NEW C, IsFiniteSet(C), A \subseteq C
      PROVE  Cardinality(A) \in Nat /\ Cardinality(A) <= Cardinality(C)
  BY <1>2, FS_Subset, FS_CardinalityType
<1>3. ASSUME NEW x, A \subseteq B \cup {x} PROVE Cardinality(A) <= Cardinality(B) + 1
  <2> DEFINE C == B \cup {x}
  <2>1. /\ IsFiniteSet(C) /\ Cardinality(C) \in Nat /\ Cardinality(C) <= Cardinality(B) + 1
        /\ A \subseteq C
    BY <1>3, OneMore
  <2> HIDE DEF C
  <2> QED
    BY <1>1, <1>2, <2>1
<1>4. ASSUME NEW x \in B, A \subseteq B \ {x} PROVE Cardinality(A) + 1 <= Cardinality(B)
  <2> DEFINE C == B \ {x}
  <2>1. /\ IsFiniteSet(C) /\ Cardinality(C) \in Nat /\ Cardinality(C) + 1 = Cardinality(B)
        /\ A \subseteq C
    BY <1>4, OneLess
  <2> HIDE DEF C
  <2> QED
    BY <1>1, <1>2, <2>1
<1>5. ASSUME NEW x \in B, NEW y, A \subseteq (B \ {x}) \cup {y}
      PROVE  Cardinality(A) <= Cardinality(B)
  <2> DEFINE C == B \ {x}
             E == C \cup {y}
  <2>1. IsFiniteSet(C) /\ Cardinality(C) \in Nat /\ Cardinality(C) + 1 = Cardinality(B)
    BY <1>5, OneLess
  <2>2. A \subseteq E
    BY <1>5
  <2> HIDE DEF C
  <2>3. IsFiniteSet(E) /\ Cardinality(E) \in Nat /\ Cardinality(E) <= Cardinality(C) + 1
    BY <2>1, OneMore
  <2> HIDE DEF E
  <2> QED
    BY <1>1, <1>2, <2>1, <2>2, <2>3
<1> QED
  BY <1>2, <1>3, <1>4, <1>5

LEMMA OpenFinite ==
    ASSUME Deliveries, tasks \in SUBSET Task, Numbered, NEW d \in Delivery
    PROVE  IsFiniteSet(Open(d))
<1>1. delivery[d].attempts \in Nat
  BY DEF Deliveries, DeliveryRecord
<1>2. \A t \in Strays(d) : t.attempt \in 0..delivery[d].attempts
  BY <1>1 DEF Strays, Task, Numbered
<1>3. Open(d) \subseteq 0..delivery[d].attempts
  BY <1>1, <1>2 DEF Open
<1>4. IsFiniteSet(0..delivery[d].attempts)
  BY <1>1, FS_Interval
<1> QED
  BY <1>3, <1>4, FS_Subset, Zenon

\* The same delivery, the same tasks on it
LEMMA OpenSame ==
    ASSUME NEW d \in Delivery,
           delivery'[d].lock = delivery[d].lock,
           delivery'[d].attempts = delivery[d].attempts,
           delivery'[d].status \in Finished <=> delivery[d].status \in Finished,
           \A t : t.on = d => (t \in tasks' <=> t \in tasks)
    PROVE  Open(d)' = Open(d)
<1>1. \A t : t.on = d => (Current(t)' <=> Current(t))
  BY DEF Current
<1>2. Strays(d)' = Strays(d)
  BY <1>1, Zenon DEF Strays
<1>3. Spent(d)' <=> Spent(d)
  BY <1>1, Zenon DEF Spent
<1> QED
  BY <1>2, <1>3, Zenon DEF Open


LEMMA CurrentIsOne ==
    ASSUME Numbered, NEW t \in tasks, NEW u \in tasks, t.on = u.on, Current(t), Current(u)
    PROVE  t = u
BY DEF Numbered, Current

LEMMA HeldIsRunning ==
    ASSUME Deliveries, NEW d \in Delivery, delivery[d].status \in Finished
    PROVE  delivery[d].lock = "none"
BY DEF Deliveries, DeliveryRecord, Finished

\* One task of d goes on while the deliveries are left alone.
LEMMA OpenMoves ==
    ASSUME Deliveries, tasks \in SUBSET Task, Numbered, UNCHANGED delivery,
           NEW t \in tasks, NEW u \in Task, u.on = t.on, u.attempt = t.attempt,
           tasks' = (tasks \ {t}) \cup {u}
    PROVE  /\ \E x : Open(t.on)' \subseteq Open(t.on) \cup {x}
           /\ Sendable(t) \/ ~Sendable(u) => Open(t.on)' \subseteq Open(t.on)
           /\ Sendable(t) /\ ~Sendable(u) =>
                 \E x \in Open(t.on) : Open(t.on)' \subseteq Open(t.on) \ {x}
<1> DEFINE d == t.on
<1>0. d \in Delivery /\ t.attempt \in Nat \ {0}
  BY DEF Task
<1>1. \A v : Current(v)' <=> Current(v)
  BY DEF Current
<1>2. Current(u) <=> Current(t)
  BY DEF Current
<1>3. \A v \in tasks : v.on = d /\ v.attempt = t.attempt => v = t
  BY DEF Numbered
<1>4. \A v \in Strays(d)' : v = u \/ (v \in Strays(d) /\ v # t)
  BY <1>1 DEF Strays
<1>5. u \in Strays(d)' => Sendable(u) /\ ~Current(t)
  BY <1>1, <1>2 DEF Strays
<1>6. ASSUME ~Spent(d)' PROVE ~Spent(d) \/ (Current(t) /\ ~Sendable(t) /\ Sendable(u))
  BY <1>1, <1>2, <1>6 DEF Spent
<1>7. ASSUME Sendable(t) \/ ~Sendable(u) PROVE Open(d)' \subseteq Open(d)
  <2>1. u \in Strays(d)' => t \in Strays(d)
    BY <1>5, <1>7 DEF Strays
  <2> QED
    BY <1>4, <1>6, <1>7, <2>1 DEF Open
<1>8. ASSUME Sendable(t), ~Sendable(u)
      PROVE  \E x \in Open(d) : Open(d)' \subseteq Open(d) \ {x}
  <2>1. Open(d)' \subseteq Open(d) /\ \A v \in Strays(d)' : v \in Strays(d) /\ v # t
    BY <1>4, <1>5, <1>7, <1>8
  <2>2. CASE Current(t)
    <3>1. Spent(d)'
      BY <1>1, <1>2, <1>8, <2>2 DEF Spent
    <3>2. ~Spent(d)
      <4>1. delivery[d].status \notin Finished
        BY <1>0, <2>2, HeldIsRunning DEF Current
      <4>2. \A v \in tasks : v.on = d /\ Current(v) => Sendable(v)
        BY <1>8, <2>2, CurrentIsOne
      <4> QED
        BY <4>1, <4>2 DEF Spent
    <3>3. \A v \in Strays(d)' : v.attempt # 0
      BY <2>1 DEF Strays, Task
    <3>4. 0 \in Open(d) /\ 0 \notin Open(d)'
      BY <3>1, <3>2, <3>3 DEF Open
    <3> QED
      BY <2>1, <3>4
  <2>3. CASE ~Current(t)
    <3>1. t.attempt \in Open(d)
      BY <1>8, <2>3 DEF Open, Strays
    <3>2. \A v \in Strays(d)' : v.attempt # t.attempt
      BY <1>3, <2>1 DEF Strays
    <3>3. t.attempt \notin Open(d)'
      BY <1>0, <3>2 DEF Open
    <3> QED
      BY <2>1, <3>1, <3>3
  <2> QED
    BY <2>2, <2>3
<1>9. \E x : Open(d)' \subseteq Open(d) \cup {x}
  <2>1. CASE Current(t)
    <3>1. Open(d)' \subseteq Open(d) \cup {0}
      BY <1>4, <1>5, <2>1 DEF Open
    <3> QED
      BY <3>1
  <2>2. CASE ~Current(t)
    <3>1. Open(d)' \subseteq Open(d) \cup {t.attempt}
      BY <1>4, <1>6, <2>2 DEF Open
    <3> QED
      BY <3>1
  <2> QED
    BY <2>1, <2>2
<1> QED
  BY <1>7, <1>8, <1>9

\* Tasks go while the deliveries are left alone.
LEMMA OpenShrinks ==
    ASSUME tasks \in SUBSET Task, UNCHANGED delivery, tasks' \subseteq tasks,
           NEW d \in Delivery
    PROVE  /\ Open(d)' \subseteq Open(d) \cup {0}
           /\ (\A t \in tasks \ tasks' : t.on = d => Sendable(t) \/ ~Current(t))
                 => Open(d)' \subseteq Open(d)
<1>1. \A v : Current(v)' <=> Current(v)
  BY DEF Current
<1>2. Strays(d)' \subseteq Strays(d)
  BY <1>1 DEF Strays
<1>3. ASSUME \A t \in tasks \ tasks' : t.on = d => Sendable(t) \/ ~Current(t)
      PROVE  Spent(d) => Spent(d)'
  BY <1>1, <1>3 DEF Spent
<1> QED
  BY <1>2, <1>3 DEF Open

\* The result of d is recorded.
LEMMA OpenRecorded ==
    ASSUME Deliveries, tasks \in SUBSET Task, Numbered, NEW d \in Delivery,
           \A v \in tasks' : v.on = d => v \in tasks \/ ~Sendable(v),
           delivery'[d].status \in Finished
    PROVE  \/ Open(d)' \subseteq Open(d)
           \/ \E x \in Open(d) : \E y : Open(d)' \subseteq (Open(d) \ {x}) \cup {y}
<1>1. Spent(d)'
  BY DEF Spent
<1>2. Open(d)' = {v.attempt : v \in Strays(d)'}
  BY <1>1, Zenon DEF Open
<1>3. \A v \in Strays(d)' : v \in tasks /\ v.on = d /\ Sendable(v) /\ v.attempt # 0
  BY DEF Strays, Task
<1>4. CASE \E v \in Strays(d)' : Current(v)
  <2>1. PICK v \in Strays(d)' : Current(v)
    BY <1>4
  <2>2. \A z \in Strays(d)' : z = v \/ z \in Strays(d)
    BY <1>3, <2>1, CurrentIsOne DEF Strays
  <2>3. ~Spent(d)
    <3>1. delivery[d].status \notin Finished
      BY <1>3, <2>1, HeldIsRunning DEF Current
    <3>2. \A z \in tasks : z.on = d /\ Current(z) => Sendable(z)
      BY <1>3, <2>1, CurrentIsOne
    <3> QED
      BY <3>1, <3>2 DEF Spent
  <2>4. 0 \in Open(d) /\ Open(d)' \subseteq (Open(d) \ {0}) \cup {v.attempt}
    BY <1>2, <1>3, <2>2, <2>3 DEF Open
  <2> QED
    BY <2>4
<1>5. CASE ~\E v \in Strays(d)' : Current(v)
  <2>1. Strays(d)' \subseteq Strays(d)
    BY <1>3, <1>5 DEF Strays
  <2> QED
    BY <1>2, <2>1 DEF Open
<1> QED
  BY <1>4, <1>5

LEMMA OpenRequeued ==
    ASSUME Deliveries, tasks \in SUBSET Task, Numbered, NEW d \in Delivery,
           NEW t \in tasks, t.on = d, Sendable(t), tasks' = tasks \ {t}
    PROVE  \/ Open(d)' \subseteq Open(d)
           \/ \E x \in Open(d) : \E y : Open(d)' \subseteq (Open(d) \ {x}) \cup {y}
<1>0. \A v \in Strays(d)' : v \in tasks /\ v # t /\ v.on = d /\ Sendable(v)
  BY DEF Strays
<1>1. CASE Current(t)
  <2>1. Strays(d)' \subseteq Strays(d)
    BY <1>0, <1>1, CurrentIsOne DEF Strays
  <2>2. ~Spent(d)
    <3>1. delivery[d].status \notin Finished
      BY <1>1, HeldIsRunning DEF Current
    <3>2. \A z \in tasks : z.on = d /\ Current(z) => Sendable(z)
      BY <1>1, CurrentIsOne
    <3> QED
      BY <3>1, <3>2 DEF Spent
  <2> QED
    BY <2>1, <2>2 DEF Open
<1>2. CASE ~Current(t)
  <2>1. t \in Strays(d) /\ t.attempt \in Open(d)
    BY <1>2 DEF Strays, Open
  <2>2. \A v \in tasks : v.on = d /\ v # t => v.attempt # t.attempt
    BY DEF Numbered
  <2>3. t.attempt # 0
    BY DEF Task
  <2>4. CASE \E v \in Strays(d)' : Current(v)
    <3>1. PICK v \in Strays(d)' : Current(v)
      BY <2>4
    <3>2. \A z \in Strays(d)' : z = v \/ z \in Strays(d) \ {t}
      BY <1>0, <3>1, CurrentIsOne DEF Strays
    <3>3. ~Spent(d)
      <4>1. delivery[d].status \notin Finished
        BY <1>0, <3>1, HeldIsRunning DEF Current
      <4>2. \A z \in tasks : z.on = d /\ Current(z) => Sendable(z)
        BY <1>0, <3>1, CurrentIsOne
      <4> QED
        BY <4>1, <4>2 DEF Spent
    <3>4. \A z \in Strays(d) \ {t} : z.attempt # t.attempt
      BY <2>2 DEF Strays
    <3>5. Open(d)' \subseteq (Open(d) \ {t.attempt}) \cup {v.attempt}
      BY <2>3, <3>2, <3>3, <3>4 DEF Open
    <3> QED
      BY <2>1, <3>5
  <2>5. CASE ~\E v \in Strays(d)' : Current(v)
    <3>1. \A z \in Strays(d)' : z \in Strays(d) /\ z.attempt # t.attempt
      BY <1>0, <2>2, <2>5 DEF Strays
    <3>2. Open(d)' \subseteq (Open(d) \ {t.attempt}) \cup {0}
      BY <3>1 DEF Open
    <3> QED
      BY <2>1, <3>2
  <2> QED
    BY <2>4, <2>5
<1> QED
  BY <1>1, <1>2


\* What a step may do to the budget of one delivery
BudgetStep(d) ==
    \/ /\ UNCHANGED <<sends[d], excuse[d]>>
       /\ \/ Open(d)' \subseteq Open(d)
          \/ \E x \in Open(d) : \E y : Open(d)' \subseteq (Open(d) \ {x}) \cup {y}
    \/ /\ UNCHANGED sends[d] /\ excuse'[d] = excuse[d] + 1
       /\ \E x : Open(d)' \subseteq Open(d) \cup {x}
    \/ /\ sends'[d] = sends[d] + 1 /\ UNCHANGED excuse[d]
       /\ \E x \in Open(d) : Open(d)' \subseteq Open(d) \ {x}
    \/ /\ sends'[d] = sends[d] + 1 /\ excuse'[d] = excuse[d] + 1
       /\ Open(d)' \subseteq Open(d)

LEMMA BudgetHolds ==
    ASSUME TypeOK, TypeOK', Numbered, Numbered', NEW d \in Delivery,
           sends[d] + Cardinality(Open(d)) <= 1 + excuse[d], BudgetStep(d)
    PROVE  sends'[d] + Cardinality(Open(d)') <= 1 + excuse'[d]
<1> DEFINE A == Open(d)'
           B == Open(d)
<1>1. sends[d] \in Nat /\ excuse[d] \in Nat /\ sends'[d] \in Nat /\ excuse'[d] \in Nat
  BY DEF TypeOK
<1>2. IsFiniteSet(B)
  BY OpenFinite, TypeGroups
<1>3. IsFiniteSet(A)
  <2>1. Deliveries' /\ tasks' \in SUBSET Task
    BY Zenon DEF TypeOK, Deliveries, DeliveryRecord
  <2>2. delivery'[d].attempts \in Nat
    BY <2>1 DEF Deliveries, DeliveryRecord
  <2>3. \A t \in Strays(d)' : t.attempt \in 0..delivery'[d].attempts
    BY <2>1, <2>2 DEF Strays, Task, Numbered
  <2>4. A \subseteq 0..delivery'[d].attempts
    BY <2>2, <2>3 DEF Open
  <2>5. IsFiniteSet(0..delivery'[d].attempts)
    BY <2>2, FS_Interval
  <2> QED
    BY <2>4, <2>5, FS_Subset, Zenon
<1>4. Cardinality(A) \in Nat /\ Cardinality(B) \in Nat
  BY <1>2, <1>3, FS_CardinalityType
<1>5. sends[d] + Cardinality(B) <= 1 + excuse[d]
  OBVIOUS
<1>6. \/ /\ sends'[d] = sends[d] /\ excuse'[d] = excuse[d]
         /\ A \subseteq B \/ \E x \in B : \E y : A \subseteq (B \ {x}) \cup {y}
      \/ /\ sends'[d] = sends[d] /\ excuse'[d] = excuse[d] + 1
         /\ \E x : A \subseteq B \cup {x}
      \/ /\ sends'[d] = sends[d] + 1 /\ excuse'[d] = excuse[d]
         /\ \E x \in B : A \subseteq B \ {x}
      \/ /\ sends'[d] = sends[d] + 1 /\ excuse'[d] = excuse[d] + 1
         /\ A \subseteq B
  BY Zenon DEF BudgetStep
<1> HIDE DEF A, B
<1>7. /\ A \subseteq B => Cardinality(A) <= Cardinality(B)
      /\ \A x : A \subseteq B \cup {x} => Cardinality(A) <= Cardinality(B) + 1
      /\ \A x \in B : A \subseteq B \ {x} => Cardinality(A) + 1 <= Cardinality(B)
      /\ \A x \in B : \A y : A \subseteq (B \ {x}) \cup {y} => Cardinality(A) <= Cardinality(B)
  BY <1>2, SetBounds
<1>8. \/ /\ sends'[d] = sends[d] /\ excuse'[d] = excuse[d]
         /\ Cardinality(A) <= Cardinality(B)
      \/ /\ sends'[d] = sends[d] /\ excuse'[d] = excuse[d] + 1
         /\ Cardinality(A) <= Cardinality(B) + 1
      \/ /\ sends'[d] = sends[d] + 1 /\ excuse'[d] = excuse[d]
         /\ Cardinality(A) + 1 <= Cardinality(B)
      \/ /\ sends'[d] = sends[d] + 1 /\ excuse'[d] = excuse[d] + 1
         /\ Cardinality(A) <= Cardinality(B)
  BY <1>6, <1>7, Zenon
<1>9. sends'[d] + Cardinality(A) <= 1 + excuse'[d]
  BY <1>1, <1>4, <1>5, <1>8
<1> QED
  BY <1>9 DEF A

\* A step that leaves alone all that the budget of d depends on
LEMMA BudgetSame ==
    ASSUME NEW d \in Delivery,
           UNCHANGED <<sends[d], excuse[d]>>,
           delivery'[d].lock = delivery[d].lock,
           delivery'[d].attempts = delivery[d].attempts,
           delivery'[d].status \in Finished <=> delivery[d].status \in Finished,
           \A t : t.on = d => (t \in tasks' <=> t \in tasks)
    PROVE  BudgetStep(d)
BY OpenSame DEF BudgetStep

LEMMA BudgetSteps ==
    ASSUME TypeOK, Numbered, [Next]_vars, NEW d \in Delivery
    PROVE  BudgetStep(d)
<1>0. /\ Deliveries /\ tasks \in SUBSET Task /\ job \in Job
      /\ sends \in [Delivery -> Nat] /\ excuse \in [Delivery -> Nat]
      /\ delivery[d] \in DeliveryRecord
  BY TypeGroups DEF Stored, History, Deliveries
<1>1. ASSUME StorageStep \/ PumpStep \/ UNCHANGED vars PROVE BudgetStep(d)
  <2>1. UNCHANGED <<delivery, tasks, sends, excuse>>
    BY <1>1, Zenon DEF StorageStep, PumpStep, vars, CreateJob, ReadBack, KeepStatus, QueueJob,
       WriteCall, ReadForCall, Run, Stop, TimerFires, ClaimNothing, Ask, ClaimFails, AskFails
  <2> QED
    BY <2>1, BudgetSame
<1>2. CASE AddBatch
  <2>1. PICK batch \in SUBSET Absent, due \in BOOLEAN :
           delivery' = [e \in Delivery |->
              IF e \in batch THEN [delivery[e] EXCEPT !.status = "queued", !.due = due]
              ELSE delivery[e]]
    BY <1>2 DEF AddBatch
  <2>2. /\ delivery'[d].lock = delivery[d].lock
        /\ delivery'[d].attempts = delivery[d].attempts
        /\ delivery'[d].status \in Finished <=> delivery[d].status \in Finished
    BY <1>0, <2>1 DEF DeliveryRecord, Finished, Absent
  <2>3. UNCHANGED <<tasks, sends, excuse>>
    BY <1>2 DEF AddBatch
  <2> QED
    BY <2>2, <2>3, BudgetSame
<1>3. ASSUME NEW e \in Delivery, DueArrives(e) PROVE BudgetStep(d)
  <2>1. /\ delivery'[d].lock = delivery[d].lock
        /\ delivery'[d].attempts = delivery[d].attempts
        /\ delivery'[d].status = delivery[d].status
    BY <1>0, <1>3 DEF DueArrives, Deliveries, DeliveryRecord
  <2>2. UNCHANGED <<tasks, sends, excuse>>
    BY <1>3 DEF DueArrives
  <2> QED
    BY <2>1, <2>2, BudgetSame
<1>4. ASSUME NEW w \in Worker, Claim(w) PROVE BudgetStep(d)
  <2>1. PICK e \in Claimable :
          /\ delivery' = [delivery EXCEPT ![e].status = "running", ![e].attempts = @ + 1,
                                          ![e].lock = "held"]
          /\ tasks' = tasks \cup {[worker |-> w, on |-> e, pc |-> "send", seen |-> NoJob,
                                   attempt |-> delivery[e].attempts + 1]}
    BY <1>4 DEF Claim
  <2>2. UNCHANGED <<sends, excuse>>
    BY <1>4 DEF Claim
  <2>3. CASE e # d
    <3>1. delivery'[d] = delivery[d]
      BY <1>0, <2>1, <2>3 DEF Deliveries
    <3>2. \A t : t.on = d => (t \in tasks' <=> t \in tasks)
      BY <2>1, <2>3
    <3> QED
      BY <2>2, <3>1, <3>2, BudgetSame
  <2>4. CASE e = d
    <3>1. PICK n : /\ n.on = d /\ n.pc = "send" /\ n.attempt = delivery[d].attempts + 1
                   /\ tasks' = tasks \cup {n}
      BY <2>1, <2>4
    <3>2. /\ delivery[d].lock # "held" /\ delivery[d].status \notin Finished
          /\ delivery'[d].lock = "held" /\ delivery'[d].attempts = delivery[d].attempts + 1
      BY <1>0, <2>1, <2>4 DEF Claimable, CanClaim, Deliveries, DeliveryRecord, Finished
    <3>3. Current(n)'
      BY <3>1, <3>2 DEF Current
    <3>4. Strays(d)' \subseteq Strays(d)
      BY <3>1, <3>2, <3>3 DEF Strays, Current
    <3>5. ~Spent(d)
      BY <3>2 DEF Spent, Current
    <3>6. Open(d)' \subseteq Open(d)
      BY <3>4, <3>5 DEF Open
    <3> QED
      BY <2>2, <3>6 DEF BudgetStep
  <2> QED
    BY <2>3, <2>4
<1>5. ASSUME NEW t \in tasks, t.on # d,
             \/ SendOk(t) \/ SendRefused(t) \/ AnswerLost(t) \/ Record(t)
             \/ Requeue(t) \/ Count(t) \/ Complete(t) \/ TryFails(t) \/ CatchFails(t)
      PROVE  BudgetStep(d)
  <2>1. \A v : v.on = d => (v \in tasks' <=> v \in tasks)
    <3>1. CASE tasks' = tasks \ {t}
      BY <1>5, <3>1
    <3>2. ASSUME NEW phases, MovesTo(t, phases)
          PROVE  \A v : v.on = d => (v \in tasks' <=> v \in tasks)
      BY <1>5, <3>2 DEF MovesTo
    <3>3. tasks' = tasks \ {t} \/ \E phases : MovesTo(t, phases)
      BY <1>0, <1>5, Moves, Removes
    <3> QED
      BY <3>1, <3>2, <3>3
  <2>2. delivery'[d] = delivery[d]
    <3>1. UNCHANGED delivery \/ Record(t) \/ Requeue(t)
      BY <1>5, Zenon DEF SendOk, SendRefused, AnswerLost, Count, Complete, TryFails, CatchFails
    <3>2. ASSUME Record(t) PROVE delivery'[d] = delivery[d]
      BY <1>0, <1>5, <3>2 DEF Record, RecordedAs, Deliveries
    <3>3. ASSUME Requeue(t) PROVE delivery'[d] = delivery[d]
      BY <1>0, <1>5, <3>3 DEF Requeue, Deliveries
    <3> QED
      BY <3>1, <3>2, <3>3
  <2>3. UNCHANGED <<sends[d], excuse[d]>>
    <3>1. ASSUME SendOk(t) \/ AnswerLost(t) \/ TryFails(t) PROVE UNCHANGED <<sends[d], excuse[d]>>
      BY <1>0, <1>5, <3>1 DEF SendOk, AnswerLost, TryFails
    <3>2. ASSUME CatchFails(t) PROVE UNCHANGED <<sends[d], excuse[d]>>
      BY <1>0, <1>5, <3>2 DEF CatchFails, Abandons
    <3>3. ASSUME SendRefused(t) \/ Record(t) \/ Requeue(t) \/ Count(t) \/ Complete(t)
          PROVE  UNCHANGED <<sends, excuse>>
      BY <3>3, Zenon DEF SendRefused, Record, Requeue, Count, Complete
    <3> QED
      BY <1>5, <3>1, <3>2, <3>3
  <2> QED
    BY <2>1, <2>2, <2>3, BudgetSame
<1>6. ASSUME NEW t \in tasks, t.on = d, SendOk(t) PROVE BudgetStep(d)
  <2>1. PICK u \in Task : /\ u.on = t.on /\ u.attempt = t.attempt /\ u.pc = "record"
                          /\ tasks' = (tasks \ {t}) \cup {u}
    BY <1>0, <1>6, Moves DEF MovesTo
  <2>2. Sendable(t) /\ ~Sendable(u) /\ UNCHANGED delivery
    BY <1>6, <2>1 DEF SendOk, Sendable
  <2>3. sends'[d] = sends[d] + 1 /\ UNCHANGED excuse[d]
    BY <1>0, <1>6 DEF SendOk
  <2>4. \E x \in Open(d) : Open(d)' \subseteq Open(d) \ {x}
    BY <1>0, <1>6, <2>1, <2>2, OpenMoves
  <2> QED
    BY <2>3, <2>4 DEF BudgetStep
<1>7. ASSUME NEW t \in tasks, t.on = d, SendRefused(t) \/ AnswerLost(t) PROVE BudgetStep(d)
  <2>1. PICK u \in Task : /\ u.on = t.on /\ u.attempt = t.attempt
                          /\ tasks' = (tasks \ {t}) \cup {u}
    BY <1>0, <1>7, Moves DEF MovesTo
  <2>2. Sendable(t) /\ UNCHANGED delivery
    BY <1>7 DEF SendRefused, AnswerLost, Sendable
  <2>3. Open(d)' \subseteq Open(d)
    BY <1>0, <1>7, <2>1, <2>2, OpenMoves
  <2>4. \/ UNCHANGED <<sends[d], excuse[d]>>
        \/ sends'[d] = sends[d] + 1 /\ excuse'[d] = excuse[d] + 1
    BY <1>0, <1>7 DEF SendRefused, AnswerLost
  <2> QED
    BY <2>3, <2>4 DEF BudgetStep
<1>8. ASSUME NEW t \in tasks, t.on = d, Record(t) PROVE BudgetStep(d)
  <2>1. PICK u \in Task : /\ u.on = t.on /\ u.attempt = t.attempt /\ u.pc \in {"count", "tally"}
                          /\ tasks' = (tasks \ {t}) \cup {u}
    BY <1>0, <1>8, Moves DEF MovesTo
  <2>2. \A v \in tasks' : v.on = d => v \in tasks \/ ~Sendable(v)
    BY <2>1 DEF Sendable
  <2>3. PICK status \in Finished : RecordedAs(d, status)
    BY <1>8 DEF Record, Finished
  <2>4. delivery'[d].status \in Finished
    BY <1>0, <2>3 DEF RecordedAs, Deliveries, DeliveryRecord
  <2>5. UNCHANGED <<sends[d], excuse[d]>>
    BY <1>8 DEF Record
  <2> QED
    BY <1>0, <2>2, <2>4, <2>5, OpenRecorded DEF BudgetStep
<1>9. ASSUME NEW t \in tasks, t.on = d, Requeue(t) PROVE BudgetStep(d)
  <2>1. Sendable(t) /\ tasks' = tasks \ {t} /\ UNCHANGED <<sends[d], excuse[d]>>
    BY <1>9, Removes DEF Requeue, Sendable
  <2> QED
    BY <1>0, <1>9, <2>1, OpenRequeued DEF BudgetStep
<1>10. ASSUME NEW t \in tasks, t.on = d, Count(t) \/ Complete(t) PROVE BudgetStep(d)
  <2>1. ~Sendable(t) /\ ~Current(t) /\ UNCHANGED delivery /\ UNCHANGED <<sends[d], excuse[d]>>
    BY <1>10 DEF Count, Complete, Sendable, Numbered
  <2>2. CASE tasks' = tasks \ {t}
    <3>1. Open(d)' \subseteq Open(d)
      BY <1>0, <2>1, <2>2, OpenShrinks
    <3> QED
      BY <2>1, <3>1 DEF BudgetStep
  <2>3. CASE MovesTo(t, {"complete", "close"})
    <3>1. PICK u \in Task : /\ u.on = t.on /\ u.attempt = t.attempt
                            /\ u.pc \in {"complete", "close"}
                            /\ tasks' = (tasks \ {t}) \cup {u}
      BY <2>3 DEF MovesTo
    <3>2. ~Sendable(u)
      BY <3>1 DEF Sendable
    <3>3. Open(d)' \subseteq Open(d)
      BY <1>0, <1>10, <2>1, <3>1, <3>2, OpenMoves
    <3> QED
      BY <2>1, <3>3 DEF BudgetStep
  <2> QED
    BY <1>0, <1>10, <2>2, <2>3, Moves, Removes
<1>11. ASSUME NEW t \in tasks, t.on = d, TryFails(t) PROVE BudgetStep(d)
  <2>1. PICK u \in Task : /\ u.on = t.on /\ u.attempt = t.attempt
                          /\ tasks' = (tasks \ {t}) \cup {u}
    BY <1>0, <1>11, Moves DEF MovesTo
  <2>2. UNCHANGED delivery /\ UNCHANGED sends[d] /\ excuse'[d] = excuse[d] + 1
    BY <1>0, <1>11 DEF TryFails
  <2>3. \E x : Open(d)' \subseteq Open(d) \cup {x}
    BY <1>0, <1>11, <2>1, <2>2, OpenMoves
  <2> QED
    BY <2>2, <2>3 DEF BudgetStep
<1>12. ASSUME NEW gone \in SUBSET tasks, Abandons(gone), tasks' = tasks \ gone,
              UNCHANGED delivery, UNCHANGED sends
       PROVE  BudgetStep(d)
  <2>1. CASE \E t \in gone : t.on = d /\ t.pc # "send"
    <3>1. excuse'[d] = excuse[d] + 1
      BY <1>12, <2>1 DEF Abandons
    <3>2. Open(d)' \subseteq Open(d) \cup {0}
      BY <1>0, <1>12, OpenShrinks
    <3> QED
      BY <1>12, <3>1, <3>2 DEF BudgetStep
  <2>2. CASE ~\E t \in gone : t.on = d /\ t.pc # "send"
    <3>1. excuse'[d] = excuse[d]
      BY <1>12, <2>2 DEF Abandons
    <3>2. \A t \in tasks \ tasks' : t.on = d => Sendable(t) \/ ~Current(t)
      BY <1>12, <2>2 DEF Sendable
    <3>3. Open(d)' \subseteq Open(d)
      BY <1>0, <1>12, <3>2, OpenShrinks
    <3> QED
      BY <1>12, <3>1, <3>3 DEF BudgetStep
  <2> QED
    BY <2>1, <2>2
<1>13. ASSUME NEW t \in tasks, CatchFails(t) PROVE BudgetStep(d)
  <2>1. Abandons({t}) /\ tasks' = tasks \ {t} /\ UNCHANGED delivery /\ UNCHANGED sends
    BY <1>13, Removes DEF CatchFails
  <2> QED
    BY <1>12, <2>1
<1>14. ASSUME NEW w \in Worker, Crash(w) PROVE BudgetStep(d)
  <2> DEFINE gone == {t \in tasks : t.worker = w}
  <2>1. Abandons(gone) /\ tasks' = tasks \ gone /\ UNCHANGED delivery /\ UNCHANGED sends
        /\ gone \in SUBSET tasks
    BY <1>14 DEF Crash
  <2> HIDE DEF gone
  <2> QED
    BY <1>12, <2>1
<1>15. ASSUME NEW e \in Delivery, OrphanExpires(e) \/ Overrun(e) PROVE BudgetStep(d)
  <2>1. /\ delivery[e].lock = "held" /\ delivery' = [delivery EXCEPT ![e].lock = "expired"]
        /\ UNCHANGED <<tasks, sends>>
    BY <1>15 DEF OrphanExpires, Overrun, LeaseExpires
  <2>2. CASE e # d
    <3>1. delivery'[d] = delivery[d]
      BY <1>0, <2>1, <2>2 DEF Deliveries
    <3>2. UNCHANGED <<sends[d], excuse[d]>>
      BY <1>0, <1>15, <2>1, <2>2 DEF OrphanExpires, Overrun
    <3> QED
      BY <2>1, <3>1, <3>2, BudgetSame
  <2>3. CASE e = d
    <3>0. delivery[d].status \notin Finished
      BY <1>0, <2>1, <2>3, HeldIsRunning
    <3>1. CASE OrphanExpires(d)
      <4>1. \A t \in tasks : t.on # d
        BY <3>1 DEF OrphanExpires, Held
      <4>2. Strays(d)' = {}
        BY <2>1, <4>1 DEF Strays
      <4>3. Open(d)' \subseteq Open(d)
        BY <3>0, <4>1, <4>2 DEF Open, Spent
      <4> QED
        BY <2>1, <3>1, <4>3 DEF BudgetStep, OrphanExpires
    <3>2. CASE Overrun(d)
      <4>1. excuse'[d] = excuse[d] + 1
        BY <1>0, <3>2 DEF Overrun
      <4>2. CASE \E v \in tasks : v.on = d /\ Current(v) /\ Sendable(v)
        <5>1. PICK v \in tasks : v.on = d /\ Current(v) /\ Sendable(v)
          BY <4>2
        <5>2. ~Spent(d)
          BY <3>0, <5>1, CurrentIsOne DEF Spent
        <5>3. \A z \in Strays(d)' : z = v \/ z \in Strays(d)
          BY <2>1, <5>1, CurrentIsOne DEF Strays
        <5>4. Open(d)' \subseteq Open(d) \cup {v.attempt}
          BY <5>2, <5>3 DEF Open
        <5> QED
          BY <2>1, <4>1, <5>4 DEF BudgetStep
      <4>3. CASE ~\E v \in tasks : v.on = d /\ Current(v) /\ Sendable(v)
        <5>1. Strays(d)' \subseteq Strays(d)
          BY <2>1, <4>3 DEF Strays
        <5>2. Open(d)' \subseteq Open(d) \cup {0}
          BY <5>1 DEF Open
        <5> QED
          BY <2>1, <4>1, <5>2 DEF BudgetStep
      <4> QED
        BY <4>2, <4>3
    <3> QED
      BY <1>15, <2>3, <3>1, <3>2
  <2> QED
    BY <2>2, <2>3
<1> QED
  BY <1>1, <1>2, <1>3, <1>4, <1>5, <1>6, <1>7, <1>8, <1>9, <1>10, <1>11, <1>13, <1>14, <1>15,
     StepKinds DEF ClockStep, WorkStep


(* A message goes out a second time only after a fault that hit its own    *)
(* delivery: no interleaving of pumps, processes, retries and operators    *)
(* repeats one.                                                            *)
THEOREM NoUnexcusedRepeat == Spec => []RepeatNeedsFault
<1> DEFINE Inv == TypeOK /\ Numbered /\ Budget
<1>1. ASSUME Init PROVE Inv
  <2>1. TypeOK /\ tasks = {}
    BY <1>1, TypeInit DEF Init
  <2>2. Numbered
    BY <2>1 DEF Numbered
  <2>3. ASSUME NEW d \in Delivery PROVE sends[d] + Cardinality(Open(d)) <= 1 + excuse[d]
    <3>1. Open(d) = {0} /\ sends[d] = 0 /\ excuse[d] = 0
      BY <1>1 DEF Init, Open, Strays, Spent, Finished
    <3>2. Cardinality({0}) = 1
      BY FS_Singleton
    <3> QED
      BY <3>1, <3>2
  <2> QED
    BY <2>1, <2>2, <2>3 DEF Budget
<1>2. ASSUME Inv, [Next]_vars PROVE Inv'
  <2>1. TypeOK' /\ Numbered'
    BY <1>2, TypeKept, NumberedKept
  <2>2. ASSUME NEW d \in Delivery
        PROVE  sends'[d] + Cardinality(Open(d)') <= 1 + excuse'[d]
    BY <1>2, <2>1, BudgetSteps, BudgetHolds DEF Budget
  <2>3. Budget'
    BY <2>2, Zenon DEF Budget
  <2> QED
    BY <2>1, <2>3
<1>3. ASSUME Inv PROVE RepeatNeedsFault
  <2>1. ASSUME NEW d \in Delivery PROVE sends[d] <= 1 + excuse[d]
    <3>1. sends[d] \in Nat /\ excuse[d] \in Nat
      BY <1>3 DEF TypeOK
    <3>2. Cardinality(Open(d)) \in Nat
      BY <1>3, OpenFinite, TypeGroups, FS_CardinalityType
    <3>3. sends[d] + Cardinality(Open(d)) <= 1 + excuse[d]
      BY <1>3 DEF Budget
    <3> QED
      BY <3>1, <3>2, <3>3
  <2> QED
    BY <2>1 DEF RepeatNeedsFault
<1> QED
  BY <1>1, <1>2, <1>3, PTL DEF Spec

-----------------------------------------------------------------------------
(* The counters of the job *)

LEMMA FlagsGrow ==
    ASSUME [Next]_vars
    PROVE  ~spoilt \/ spoilt'
<1>1. ASSUME StorageStep \/ PumpStep \/ ClockStep \/ UNCHANGED vars PROVE UNCHANGED spoilt
  BY <1>1, Zenon DEF StorageStep, PumpStep, ClockStep, vars, CreateJob, ReadBack, KeepStatus,
     QueueJob, WriteCall, ReadForCall, Run, Stop, TimerFires, ClaimNothing, Ask, ClaimFails,
     AskFails, AddBatch, DueArrives
<1>2. ASSUME WorkStep PROVE ~spoilt \/ spoilt'
  BY <1>2, Zenon DEF WorkStep, Claim, Crash, SendOk, SendRefused, AnswerLost, Record, Requeue,
     Count, Complete, TryFails, CatchFails, Abandons, OrphanExpires, Overrun
<1> QED
  BY <1>1, <1>2, StepKinds

LEMMA HolderSame ==
    ASSUME TypeOK, OneHolder, UNCHANGED <<tasks, lost>>,
           \A d \in Delivery :
              /\ delivery'[d].lock = delivery[d].lock
              /\ delivery'[d].status \in Finished <=> delivery[d].status \in Finished
    PROVE  OneHolder'
<1>1. \A t \in tasks : t.on \in Delivery
  BY DEF TypeOK, Task
<1>2. \A d \in lost : d \in Delivery
  BY DEF TypeOK
<1>3. \A t \in tasks : Placed(t)'
  BY <1>1 DEF OneHolder, Placed
<1>4. \A d \in lost : delivery'[d].status \in Finished /\ ~Held(d)'
  BY <1>2 DEF OneHolder, Held
<1> QED
  BY <1>3, <1>4, Zenon DEF OneHolder

LEMMA HolderMoves ==
    ASSUME TypeOK, OneHolder, UNCHANGED lost, NEW t \in tasks,
           NEW u \in Task, u.on = t.on, tasks' = (tasks \ {t}) \cup {u}, Placed(u)',
           \A d \in Delivery \ {t.on} : delivery'[d] = delivery[d]
    PROVE  OneHolder'
<1>1. \A v \in tasks : v.on \in Delivery /\ (v # t => v.on # t.on)
  BY DEF TypeOK, Task, OneHolder
<1>2. \A v \in tasks' : v = u \/ (v \in tasks /\ v # t)
  OBVIOUS
<1>3. \A v, z \in tasks' : v.on = z.on => v = z
  BY <1>1, <1>2 DEF OneHolder
<1>4. \A v \in tasks' : Placed(v)'
  BY <1>1, <1>2 DEF OneHolder, Placed
<1>5. \A d \in lost : d \in Delivery /\ d # t.on
  BY DEF TypeOK, OneHolder, Held
<1>6. \A d \in lost : delivery'[d].status \in Finished /\ ~Held(d)'
  BY <1>2, <1>5 DEF OneHolder, Held
<1> QED
  BY <1>3, <1>4, <1>6 DEF OneHolder

LEMMA HolderShrinks ==
    ASSUME TypeOK, OneHolder, NEW gone \in SUBSET tasks, tasks' = tasks \ gone,
           lost' \subseteq lost \cup {t.on : t \in {t \in gone : t.on \in Terminal}},
           \A d \in Delivery : delivery'[d] = delivery[d] \/ \E t \in gone : t.on = d,
           UNCHANGED delivery \/ UNCHANGED lost
    PROVE  OneHolder'
<1>1. \A v \in tasks' : v.on \in Delivery /\ ~\E t \in gone : t.on = v.on
  BY DEF TypeOK, Task, OneHolder
<1>2. \A v \in tasks' : Placed(v)'
  BY <1>1 DEF OneHolder, Placed
<1>3. ASSUME NEW d \in lost' PROVE delivery'[d].status \in Finished /\ ~Held(d)'
  <2>1. CASE d \in lost
    <3>1. d \in Delivery /\ ~\E t \in gone : t.on = d
      BY <2>1 DEF TypeOK, OneHolder, Held
    <3> QED
      BY <2>1, <3>1 DEF OneHolder, Held
  <2>2. CASE d \notin lost
    <3>1. PICK t \in gone : t.on = d /\ t.on \in Terminal
      BY <2>2
    <3>2. UNCHANGED delivery
      BY <2>2
    <3> QED
      BY <1>1, <3>1, <3>2 DEF Held, Terminal
  <2> QED
    BY <2>1, <2>2
<1> QED
  BY <1>2, <1>3 DEF OneHolder

LEMMA HolderKept ==
    ASSUME TypeOK, OneHolder, [Next]_vars, ~spoilt'
    PROVE  OneHolder'
<1>0. /\ Deliveries /\ tasks \in SUBSET Task /\ job \in Job
      /\ \A t \in tasks : t.on \in Delivery /\ t \in Task
  BY TypeGroups DEF Stored, Task
<1>1. ASSUME StorageStep \/ PumpStep \/ UNCHANGED vars PROVE OneHolder'
  <2>1. UNCHANGED <<delivery, tasks, lost>>
    BY <1>1, Zenon DEF StorageStep, PumpStep, vars, CreateJob, ReadBack, KeepStatus, QueueJob,
       WriteCall, ReadForCall, Run, Stop, TimerFires, ClaimNothing, Ask, ClaimFails, AskFails
  <2> QED
    BY <2>1, HolderSame
<1>2. CASE AddBatch
  <2>1. PICK batch \in SUBSET Absent, due \in BOOLEAN :
           delivery' = [e \in Delivery |->
              IF e \in batch THEN [delivery[e] EXCEPT !.status = "queued", !.due = due]
              ELSE delivery[e]]
    BY <1>2 DEF AddBatch
  <2>2. ASSUME NEW d \in Delivery
        PROVE  /\ delivery'[d].lock = delivery[d].lock
               /\ delivery'[d].status \in Finished <=> delivery[d].status \in Finished
    BY <1>0, <2>1 DEF Deliveries, DeliveryRecord, Finished, Absent
  <2>3. UNCHANGED <<tasks, lost>>
    BY <1>2 DEF AddBatch
  <2> QED
    BY <2>2, <2>3, HolderSame
<1>3. ASSUME NEW e \in Delivery, DueArrives(e) PROVE OneHolder'
  <2>1. ASSUME NEW d \in Delivery
        PROVE  delivery'[d].lock = delivery[d].lock /\ delivery'[d].status = delivery[d].status
    BY <1>0, <1>3 DEF DueArrives, Deliveries, DeliveryRecord
  <2>2. UNCHANGED <<tasks, lost>>
    BY <1>3 DEF DueArrives
  <2> QED
    BY <2>1, <2>2, HolderSame
<1>4. ASSUME NEW w \in Worker, Claim(w) PROVE OneHolder'
  <2>1. PICK e \in Claimable :
          /\ delivery' = [delivery EXCEPT ![e].status = "running", ![e].attempts = @ + 1,
                                          ![e].lock = "held"]
          /\ tasks' = tasks \cup {[worker |-> w, on |-> e, pc |-> "send", seen |-> NoJob,
                                   attempt |-> delivery[e].attempts + 1]}
    BY <1>4 DEF Claim
  <2>2. PICK n : n.on = e /\ n.pc = "send" /\ tasks' = tasks \cup {n}
    BY <2>1
  <2>3. /\ e \in Delivery /\ delivery[e].lock # "held" /\ delivery[e].status \notin Finished
        /\ delivery'[e].lock = "held"
        /\ \A d \in Delivery \ {e} : delivery'[d] = delivery[d]
    BY <1>0, <2>1 DEF Claimable, CanClaim, Deliveries, DeliveryRecord, Finished
  <2>4. \A t \in tasks : t.on # e
    BY <2>3 DEF OneHolder, Placed
  <2>5. \A t, u \in tasks' : t.on = u.on => t = u
    BY <2>2, <2>4 DEF OneHolder
  <2>6. \A t \in tasks' : Placed(t)'
    BY <1>0, <2>2, <2>3, <2>4 DEF OneHolder, Placed
  <2>7. \A d \in lost : d \in Delivery \ {e}
    BY <2>3 DEF OneHolder, TypeOK
  <2>8. \A d \in lost : delivery'[d].status \in Finished /\ ~Held(d)'
    BY <2>2, <2>3, <2>7 DEF OneHolder, Held
  <2>9. UNCHANGED lost
    BY <1>4 DEF Claim
  <2> QED
    BY <2>5, <2>6, <2>8, <2>9 DEF OneHolder
<1>5. ASSUME NEW t \in tasks, \/ SendOk(t) \/ SendRefused(t) \/ AnswerLost(t) \/ TryFails(t)
      PROVE  OneHolder'
  <2>1. PICK u \in Task : /\ u.on = t.on
                          /\ u.pc \in {"record", "skip", "fail", "retry"}
                          /\ u.pc \in {"fail", "retry"} \/ t.pc = "send"
                          /\ tasks' = (tasks \ {t}) \cup {u}
    <3>1. CASE SendOk(t) \/ SendRefused(t)
      BY <1>0, <3>1, Moves DEF MovesTo, SendOk, SendRefused
    <3>2. CASE AnswerLost(t) \/ TryFails(t)
      BY <1>0, <3>2, Moves DEF MovesTo
    <3> QED
      BY <1>5, <3>1, <3>2
  <2>2. UNCHANGED <<delivery, lost>>
    BY <1>5 DEF SendOk, SendRefused, AnswerLost, TryFails
  <2>3. Placed(t)
    BY DEF OneHolder
  <2>4. Placed(u)'
    BY <2>1, <2>2, <2>3 DEF Placed
  <2> QED
    BY <2>1, <2>2, <2>4, HolderMoves
<1>6. ASSUME NEW t \in tasks, Record(t) PROVE OneHolder'
  <2>1. PICK u \in Task : /\ u.on = t.on /\ u.pc \in {"count", "tally"}
                          /\ tasks' = (tasks \ {t}) \cup {u}
    BY <1>0, <1>6, Moves DEF MovesTo
  <2>2. PICK status \in Finished : RecordedAs(t.on, status)
    BY <1>6 DEF Record, Finished
  <2>3. /\ delivery'[t.on].status \in Finished
        /\ \A d \in Delivery \ {t.on} : delivery'[d] = delivery[d]
    BY <1>0, <2>2 DEF RecordedAs, Deliveries, DeliveryRecord
  <2>4. Placed(u)' /\ UNCHANGED lost
    BY <1>6, <2>1, <2>3 DEF Placed, Record
  <2> QED
    BY <2>1, <2>3, <2>4, HolderMoves
<1>7. ASSUME NEW t \in tasks, Count(t) PROVE OneHolder'
  <2>1. UNCHANGED <<delivery, lost>> /\ t.pc \in {"count", "tally"}
    BY <1>7 DEF Count
  <2>2. CASE tasks' = tasks \ {t}
    BY <2>1, <2>2, HolderShrinks
  <2>3. CASE MovesTo(t, {"complete", "close"})
    <3>1. PICK u \in Task : /\ u.on = t.on /\ u.pc \in {"complete", "close"}
                            /\ tasks' = (tasks \ {t}) \cup {u}
      BY <2>3 DEF MovesTo
    <3>2. Placed(u)'
      BY <2>1, <3>1 DEF OneHolder, Placed
    <3> QED
      BY <2>1, <3>1, <3>2, HolderMoves
  <2> QED
    BY <1>0, <1>7, <2>2, <2>3, Moves
<1>8. ASSUME NEW t \in tasks, Requeue(t) \/ Complete(t) PROVE OneHolder'
  <2>1. tasks' = tasks \ {t} /\ UNCHANGED lost
    BY <1>8, Removes DEF Requeue, Complete
  <2>2. \A d \in Delivery : delivery'[d] = delivery[d] \/ d = t.on
    BY <1>0, <1>8 DEF Requeue, Complete, Deliveries
  <2> QED
    BY <2>1, <2>2, HolderShrinks
<1>9. ASSUME NEW gone \in SUBSET tasks, Abandons(gone), tasks' = tasks \ gone,
             UNCHANGED delivery
      PROVE  OneHolder'
  <2>1. lost' \subseteq lost \cup {t.on : t \in {t \in gone : t.on \in Terminal}}
    BY <1>9 DEF Abandons
  <2> QED
    BY <1>9, <2>1, HolderShrinks
<1>10. ASSUME NEW t \in tasks, CatchFails(t) PROVE OneHolder'
  <2>1. Abandons({t}) /\ tasks' = tasks \ {t} /\ UNCHANGED delivery
    BY <1>10, Removes DEF CatchFails
  <2> QED
    BY <1>9, <2>1
<1>11. ASSUME NEW w \in Worker, Crash(w) PROVE OneHolder'
  <2> DEFINE gone == {t \in tasks : t.worker = w}
  <2>1. Abandons(gone) /\ tasks' = tasks \ gone /\ UNCHANGED delivery /\ gone \in SUBSET tasks
    BY <1>11 DEF Crash
  <2> HIDE DEF gone
  <2> QED
    BY <1>9, <2>1
<1>12. ASSUME NEW e \in Delivery, OrphanExpires(e) PROVE OneHolder'
  <2>1. /\ UNCHANGED <<tasks, lost>> /\ \A t \in tasks : t.on # e
        /\ \A d \in Delivery : /\ delivery'[d].status = delivery[d].status
                               /\ d # e => delivery'[d].lock = delivery[d].lock
    BY <1>0, <1>12 DEF OrphanExpires, LeaseExpires, Held, Deliveries, DeliveryRecord
  <2>2. \A t \in tasks : Placed(t)'
    BY <1>0, <2>1 DEF OneHolder, Placed
  <2>3. \A d \in lost : d \in Delivery
    BY DEF TypeOK
  <2> QED
    BY <2>1, <2>2, <2>3 DEF OneHolder, Held
<1>13. ASSUME NEW e \in Delivery, Overrun(e) PROVE FALSE
  BY <1>13 DEF Overrun
<1> QED
  BY <1>1, <1>2, <1>3, <1>4, <1>5, <1>6, <1>7, <1>8, <1>10, <1>11, <1>12, <1>13,
     StepKinds DEF ClockStep, WorkStep


LEMMA CountedSame ==
    ASSUME UNCHANGED <<tasks, lost>>,
           \A d \in Delivery : delivery'[d].status \in Finished <=> delivery[d].status \in Finished
    PROVE  Counted' = Counted
BY DEF Counted, Terminal

LEMMA CountedMoves ==
    ASSUME TypeOK, UNCHANGED lost, NEW t \in tasks, NEW u, u.on = t.on,
           tasks' = (tasks \ {t}) \cup {u},
           t.pc \notin {"complete", "close"}, u.pc \notin {"complete", "close"},
           \A d \in Delivery \ {t.on} : delivery'[d] = delivery[d]
    PROVE  Counted' = Counted
<1>1. t.on \notin Counted /\ t.on \notin Counted'
  BY DEF Counted
<1>2. ASSUME NEW d \in Delivery \ {t.on} PROVE d \in Counted' <=> d \in Counted
  BY <1>2 DEF Counted, Terminal
<1>3. Counted \subseteq Delivery /\ Counted' \subseteq Delivery
  BY DEF Counted, Terminal
<1> QED
  BY <1>1, <1>2, <1>3

LEMMA CountedShrinks ==
    ASSUME TypeOK, OneHolder, NEW gone \in SUBSET tasks, tasks' = tasks \ gone,
           \A d \in Delivery : ~(\E t \in gone : t.on = d)
              => delivery'[d] = delivery[d] /\ (d \in lost' <=> d \in lost),
           \A t \in gone :
              IF t.pc \in {"complete", "close"}
              THEN delivery'[t.on] = delivery[t.on] /\ (t.on \in lost' <=> t.on \in lost)
              ELSE delivery'[t.on].status \in Finished => t.on \in lost'
    PROVE  Counted' = Counted
<1>1. ASSUME NEW d \in Delivery, ~\E t \in gone : t.on = d
      PROVE  d \in Counted' <=> d \in Counted
  BY <1>1 DEF Counted, Terminal
<1>2. ASSUME NEW t \in gone, t.pc \in {"complete", "close"}
      PROVE  t.on \in Counted' <=> t.on \in Counted
  <2>1. \A v \in tasks : v.on = t.on => v = t
    BY DEF OneHolder
  <2> QED
    BY <1>2, <2>1 DEF Counted, Terminal
<1>3. ASSUME NEW t \in gone, t.pc \notin {"complete", "close"}
      PROVE  t.on \notin Counted' /\ t.on \notin Counted
  BY <1>3 DEF Counted, Terminal
<1>4. Counted \subseteq Delivery /\ Counted' \subseteq Delivery
  BY DEF Counted, Terminal
<1> QED
  BY <1>1, <1>2, <1>3, <1>4

\* The counters and the recorded results change together.
LEMMA CountStep ==
    ASSUME TypeOK, OneHolder, [Next]_vars, ~spoilt', ~overwritten'
    PROVE  /\ ~overwritten
           /\ \/ Counted' = Counted /\ job'.processed = job.processed
              \/ \E d \in Delivery \ Counted : /\ Counted' = Counted \cup {d}
                                               /\ job'.processed = job.processed + 1
<1>0. /\ Deliveries /\ tasks \in SUBSET Task /\ job \in Job /\ call.seen \in Job
      /\ \A t \in tasks : t.on \in Delivery /\ t \in Task /\ t.seen \in Job
  BY TypeGroups DEF Stored, Task
<1>1. ASSUME StorageStep
      PROVE  ~overwritten /\ Counted' = Counted /\ job'.processed = job.processed
  <2>1. UNCHANGED <<delivery, tasks, lost>>
    BY <1>1, Zenon DEF StorageStep, CreateJob, ReadBack, KeepStatus, QueueJob, WriteCall,
       ReadForCall
  <2>2. Counted' = Counted
    BY <2>1, CountedSame
  <2>3. CASE CreateJob
    <3>1. job' = CopyJob(job, "creating") /\ UNCHANGED overwritten
      BY <2>3 DEF CreateJob
    <3>2. job'.processed = job.processed
      BY <1>0, <3>1 DEF CopyJob, Job
    <3> QED
      BY <2>2, <3>1, <3>2, Zenon
  <2>4. CASE KeepStatus
    <3>1. job' = [job EXCEPT !.total = Cardinality(Delivery)] /\ UNCHANGED overwritten
      BY <2>4 DEF KeepStatus
    <3>2. job'.processed = job.processed
      BY <1>0, <3>1 DEF Job
    <3> QED
      BY <2>2, <3>1, <3>2, Zenon
  <2>5. CASE QueueJob
    <3>1. ~overwritten /\ job = CopyJob(NoJob, "creating")
      BY <2>5 DEF QueueJob
    <3>2. job.processed = 0
      BY <3>1 DEF CopyJob, NoJob
    <3>3. job'.processed = 0
      BY <2>5 DEF QueueJob
    <3> QED
      BY <2>2, <3>1, <3>2, <3>3, Zenon
  <2>6. CASE WriteCall
    <3>1. ~overwritten /\ job = call.seen
      BY <2>6 DEF WriteCall, WriteBack
    <3>2. PICK status \in {"paused", "queued", "cancelled"} : job' = CopyJob(job, status)
      BY <2>6, <3>1 DEF WriteCall, WriteBack
    <3>3. job'.processed = job.processed
      BY <1>0, <3>2 DEF CopyJob, Job
    <3> QED
      BY <2>2, <3>1, <3>3, Zenon
  <2>7. CASE ReadBack \/ \E w \in Worker, op \in {"pause", "resume", "cancel"} :
                            ReadForCall(w, op)
    <3>1. UNCHANGED <<job, overwritten>>
      BY <2>7, Zenon DEF ReadBack, ReadForCall
    <3> QED
      BY <2>2, <3>1, Zenon
  <2> QED
    BY <1>1, <2>2, <2>3, <2>4, <2>5, <2>6, <2>7 DEF StorageStep
<1>2. ASSUME PumpStep \/ ClockStep \/ UNCHANGED vars \/ \E e \in Delivery : OrphanExpires(e)
      PROVE  ~overwritten /\ Counted' = Counted /\ job'.processed = job.processed
  <2>1. UNCHANGED <<job, tasks, lost, overwritten>>
    BY <1>2, Zenon DEF PumpStep, ClockStep, vars, Run, Stop, TimerFires, ClaimNothing, Ask,
       ClaimFails, AskFails, AddBatch, DueArrives, OrphanExpires, LeaseExpires
  <2>2. ASSUME NEW d \in Delivery
        PROVE  delivery'[d].status \in Finished <=> delivery[d].status \in Finished
    <3>1. CASE AddBatch
      <4>1. PICK batch \in SUBSET Absent, due \in BOOLEAN :
               delivery' = [e \in Delivery |->
                  IF e \in batch THEN [delivery[e] EXCEPT !.status = "queued", !.due = due]
                  ELSE delivery[e]]
        BY <3>1 DEF AddBatch
      <4> QED
        BY <1>0, <4>1 DEF Deliveries, DeliveryRecord, Finished, Absent
    <3>2. CASE \E e \in Delivery : DueArrives(e) \/ OrphanExpires(e)
      BY <1>0, <3>2 DEF DueArrives, OrphanExpires, LeaseExpires, Deliveries, DeliveryRecord
    <3>3. ASSUME PumpStep \/ UNCHANGED vars PROVE UNCHANGED delivery
      BY <3>3, Zenon DEF PumpStep, vars, Run, Stop, TimerFires, ClaimNothing, Ask, ClaimFails,
         AskFails
    <3> QED
      BY <1>2, <3>1, <3>2, <3>3 DEF ClockStep
  <2>3. Counted' = Counted
    BY <2>1, <2>2, CountedSame
  <2> QED
    BY <2>1, <2>3
<1>3. ASSUME NEW w \in Worker, Claim(w)
      PROVE  ~overwritten /\ Counted' = Counted /\ job'.processed = job.processed
  <2>1. PICK e \in Claimable :
          /\ delivery' = [delivery EXCEPT ![e].status = "running", ![e].attempts = @ + 1,
                                          ![e].lock = "held"]
          /\ tasks' = tasks \cup {[worker |-> w, on |-> e, pc |-> "send", seen |-> NoJob,
                                   attempt |-> delivery[e].attempts + 1]}
    BY <1>3 DEF Claim
  <2>2. PICK n : n.on = e /\ n.pc = "send" /\ tasks' = tasks \cup {n}
    BY <2>1
  <2>3. /\ e \in Delivery /\ delivery[e].status \notin Finished
        /\ \A d \in Delivery \ {e} : delivery'[d] = delivery[d]
    BY <1>0, <2>1 DEF Claimable, CanClaim, Deliveries, DeliveryRecord, Finished
  <2>4. e \notin Counted /\ e \notin Counted'
    BY <2>2, <2>3 DEF Counted, Terminal
  <2>5. UNCHANGED lost /\ job' = CopyJob(job, "running") /\ ~overwritten
    BY <1>3 DEF Claim
  <2>6. ASSUME NEW d \in Delivery \ {e} PROVE d \in Counted' <=> d \in Counted
    BY <2>2, <2>3, <2>5, <2>6 DEF Counted, Terminal
  <2>7. Counted \subseteq Delivery /\ Counted' \subseteq Delivery
    BY DEF Counted, Terminal
  <2>8. Counted' = Counted
    BY <2>4, <2>6, <2>7
  <2>9. job'.processed = job.processed
    BY <1>0, <2>5 DEF CopyJob, Job
  <2> QED
    BY <2>5, <2>8, <2>9, Zenon
<1>4. ASSUME NEW t \in tasks, \/ SendOk(t) \/ SendRefused(t) \/ AnswerLost(t) \/ Record(t)
                              \/ TryFails(t)
      PROVE  ~overwritten /\ Counted' = Counted /\ job'.processed = job.processed
  <2>1. UNCHANGED <<job, lost, overwritten>>
    BY <1>4, Zenon DEF SendOk, SendRefused, AnswerLost, Record, TryFails
  <2>2. PICK u \in Task : /\ u.on = t.on /\ u.pc \notin {"complete", "close"}
                          /\ tasks' = (tasks \ {t}) \cup {u}
    <3>1. CASE SendOk(t) \/ SendRefused(t) \/ AnswerLost(t)
      BY <1>0, <3>1, Moves DEF MovesTo
    <3>2. CASE Record(t) \/ TryFails(t)
      BY <1>0, <3>2, Moves DEF MovesTo
    <3> QED
      BY <1>4, <3>1, <3>2
  <2>3. t.pc \notin {"complete", "close"}
    BY <1>4 DEF SendOk, SendRefused, AnswerLost, Record, TryFails
  <2>4. \A d \in Delivery \ {t.on} : delivery'[d] = delivery[d]
    <3>1. UNCHANGED delivery \/ Record(t)
      BY <1>4, Zenon DEF SendOk, SendRefused, AnswerLost, TryFails
    <3>2. ASSUME Record(t) PROVE \A d \in Delivery \ {t.on} : delivery'[d] = delivery[d]
      BY <1>0, <3>2 DEF Record, RecordedAs, Deliveries
    <3> QED
      BY <3>1, <3>2
  <2>5. Counted' = Counted
    BY <2>1, <2>2, <2>3, <2>4, CountedMoves
  <2> QED
    BY <2>1, <2>5
<1>5. ASSUME NEW t \in tasks, Requeue(t)
      PROVE  ~overwritten /\ Counted' = Counted /\ job'.processed = job.processed
  <2>1. UNCHANGED <<job, lost, overwritten>> /\ t.pc = "retry" /\ tasks' = tasks \ {t}
    BY <1>5, Removes DEF Requeue
  <2>2. /\ delivery'[t.on].status \notin Finished
        /\ \A d \in Delivery \ {t.on} : delivery'[d] = delivery[d]
    BY <1>0, <1>5 DEF Requeue, Deliveries, DeliveryRecord, Finished
  <2>3. \A d \in Delivery : ~(\E v \in {t} : v.on = d)
           => delivery'[d] = delivery[d] /\ (d \in lost' <=> d \in lost)
    BY <2>1, <2>2
  <2>4. \A v \in {t} : v.pc \notin {"complete", "close"} /\ delivery'[v.on].status \notin Finished
    BY <2>1, <2>2
  <2>5. Counted' = Counted
    BY <2>1, <2>3, <2>4, CountedShrinks
  <2> QED
    BY <2>1, <2>5, Zenon
<1>6. ASSUME NEW t \in tasks, Complete(t)
      PROVE  ~overwritten /\ Counted' = Counted /\ job'.processed = job.processed
  <2>1. UNCHANGED <<delivery, lost>> /\ t.pc \in {"complete", "close"} /\ tasks' = tasks \ {t}
    BY <1>6, Removes DEF Complete
  <2>2. \A d \in Delivery : delivery'[d] = delivery[d] /\ (d \in lost' <=> d \in lost)
    BY <2>1
  <2>3. Counted' = Counted
    <3> DEFINE gone == {t}
    <3>1. gone \in SUBSET tasks /\ tasks' = tasks \ gone
      BY <2>1
    <3>2. \A v \in gone : /\ v.pc \in {"complete", "close"}
                          /\ delivery'[v.on] = delivery[v.on]
                          /\ v.on \in lost' <=> v.on \in lost
      BY <2>1
    <3> HIDE DEF gone
    <3> QED
      BY <2>2, <3>1, <3>2, CountedShrinks
  <2>4. ~overwritten /\ job = t.seen /\ job' = CopyJob(t.seen, "completed")
    BY <1>6 DEF Complete, WriteBack
  <2>5. job'.processed = job.processed
    BY <1>0, <2>4 DEF CopyJob, Job
  <2> QED
    BY <2>3, <2>4, <2>5, Zenon
<1>7. ASSUME NEW gone \in SUBSET tasks, Abandons(gone), tasks' = tasks \ gone,
             UNCHANGED <<job, delivery, overwritten>>
      PROVE  ~overwritten /\ Counted' = Counted /\ job'.processed = job.processed
  <2>1. lost' = lost \cup {t.on : t \in {t \in gone : t.pc \notin {"complete", "close"}
                                                    /\ t.on \in Terminal}}
    BY <1>7 DEF Abandons
  <2>2. ASSUME NEW t \in gone, t.pc \in {"complete", "close"}
        PROVE  t.on \in lost' <=> t.on \in lost
    <3>1. \A v \in gone : v.on = t.on => v = t
      BY DEF OneHolder
    <3> QED
      BY <2>1, <2>2, <3>1
  <2>3. ASSUME NEW t \in gone, t.pc \notin {"complete", "close"}, delivery'[t.on].status \in Finished
        PROVE  t.on \in lost'
    BY <1>0, <1>7, <2>1, <2>3 DEF Terminal
  <2>4. Counted' = Counted
    BY <1>7, <2>1, <2>2, <2>3, CountedShrinks
  <2> QED
    BY <1>7, <2>4
<1>8. ASSUME NEW t \in tasks, CatchFails(t)
      PROVE  ~overwritten /\ Counted' = Counted /\ job'.processed = job.processed
  <2>1. Abandons({t}) /\ tasks' = tasks \ {t} /\ UNCHANGED <<job, delivery, overwritten>>
    BY <1>8, Removes DEF CatchFails
  <2> QED
    BY <1>7, <2>1
<1>9. ASSUME NEW w \in Worker, Crash(w)
      PROVE  ~overwritten /\ Counted' = Counted /\ job'.processed = job.processed
  <2> DEFINE gone == {t \in tasks : t.worker = w}
  <2>1. Abandons(gone) /\ tasks' = tasks \ gone /\ UNCHANGED <<job, delivery, overwritten>>
        /\ gone \in SUBSET tasks
    BY <1>9 DEF Crash
  <2> HIDE DEF gone
  <2> QED
    BY <1>7, <2>1
<1>10. ASSUME NEW t \in tasks, Count(t)
       PROVE  /\ ~overwritten
              /\ \E d \in Delivery \ Counted : /\ Counted' = Counted \cup {d}
                                               /\ job'.processed = job.processed + 1
  <2>1. /\ UNCHANGED <<delivery, lost, overwritten>> /\ t.pc \in {"count", "tally"}
        /\ job'.processed = job.processed + 1
    BY <1>0, <1>10 DEF Count, Job
  <2>2. t.on \in Terminal /\ t.on \notin lost /\ \A v \in tasks : v.on = t.on => v = t
    BY <1>0, <2>1 DEF OneHolder, Placed, Terminal, Held
  <2>3. t.on \in Delivery /\ t.on \notin Counted
    BY <1>0, <2>1 DEF Counted
  <2>4. \A v \in tasks' : \/ v \in tasks /\ v # t
                          \/ v.on = t.on /\ v.pc \in {"complete", "close"}
    BY <1>0, <1>10, Moves DEF MovesTo
  <2>5. t.on \in Counted'
    BY <2>1, <2>2, <2>4 DEF Counted, Terminal
  <2>6. \A v \in tasks : v # t => v \in tasks'
    BY <1>0, <1>10, Moves DEF MovesTo
  <2>7. ASSUME NEW d \in Delivery, d # t.on PROVE d \in Counted' <=> d \in Counted
    BY <2>1, <2>4, <2>6, <2>7 DEF Counted, Terminal
  <2>8. Counted \subseteq Delivery /\ Counted' \subseteq Delivery
    BY DEF Counted, Terminal
  <2>9. Counted' = Counted \cup {t.on}
    BY <2>5, <2>7, <2>8
  <2> QED
    BY <2>1, <2>3, <2>9
<1>11. ASSUME NEW e \in Delivery, Overrun(e) PROVE FALSE
  BY <1>11 DEF Overrun
<1> QED
  BY <1>1, <1>2, <1>3, <1>4, <1>5, <1>6, <1>8, <1>9, <1>10, <1>11, StepKinds DEF WorkStep


LEMMA CountedFinite ==
    /\ IsFiniteSet(Counted) /\ Cardinality(Counted) \in Nat
    /\ Cardinality(Counted) <= Cardinality(Delivery)
    /\ Cardinality(Counted) = Cardinality(Delivery) => Counted = Delivery
<1>1. Counted \in SUBSET Delivery
  BY DEF Counted, Terminal
<1> QED
  BY <1>1, Sizes, FS_Subset, FS_CardinalityType

LEMMA CountsKept ==
    ASSUME TypeOK, TypeOK', Sound, CountsExact, [Next]_vars
    PROVE  CountsExact'
<1> SUFFICES ASSUME ~overwritten', ~spoilt'
             PROVE  job'.processed = Cardinality(Counted')
  BY DEF CountsExact
<1>1. ~spoilt /\ OneHolder
  BY FlagsGrow DEF Sound
<1>2. job.processed = Cardinality(Counted)
  BY <1>1, CountStep DEF CountsExact
<1>3. CASE Counted' = Counted /\ job'.processed = job.processed
  BY <1>2, <1>3
<1>4. ASSUME NEW d \in Delivery \ Counted, Counted' = Counted \cup {d},
             job'.processed = job.processed + 1
      PROVE  job'.processed = Cardinality(Counted')
  <2>1. IsFiniteSet(Counted)
    BY CountedFinite
  <2>2. Cardinality(Counted \cup {d}) = Cardinality(Counted) + 1
    BY <2>1, FS_AddElement
  <2> QED
    BY <1>2, <1>4, <2>2
<1> QED
  BY <1>1, <1>3, <1>4, CountStep

\* The job is never completed but by Complete.
LEMMA OverwrittenGrows ==
    ASSUME [Next]_vars
    PROVE  ~overwritten \/ overwritten'
<1>1. ASSUME StorageStep \/ PumpStep \/ ClockStep \/ UNCHANGED vars
      PROVE  ~overwritten \/ overwritten'
  BY <1>1, Zenon DEF StorageStep, PumpStep, ClockStep, vars, CreateJob, ReadBack, KeepStatus,
     QueueJob, WriteCall, WriteBack, ReadForCall, Run, Stop, TimerFires, ClaimNothing, Ask,
     ClaimFails, AskFails, AddBatch, DueArrives
<1>2. ASSUME WorkStep PROVE ~overwritten \/ overwritten'
  BY <1>2, Zenon DEF WorkStep, Claim, Crash, SendOk, SendRefused, AnswerLost, Record, Requeue,
     Count, Complete, WriteBack, TryFails, CatchFails, OrphanExpires, Overrun, LeaseExpires
<1> QED
  BY <1>1, <1>2, StepKinds

LEMMA TotalledKept ==
    ASSUME TypeOK, Totalled, [Next]_vars
    PROVE  Totalled'
<1> SUFFICES ASSUME ~overwritten'
             PROVE  \/ job'.total = Cardinality(Delivery)
                    \/ /\ creation' # "done" /\ tasks' = {}
                       /\ job'.status \in {"none", "creating", "paused", "cancelled"}
  BY DEF Totalled
<1>0. ~overwritten /\ job \in Job
  BY OverwrittenGrows DEF TypeOK
<1>1. \/ job.total = Cardinality(Delivery)
      \/ /\ creation # "done" /\ tasks = {}
         /\ job.status \in {"none", "creating", "paused", "cancelled"}
  BY <1>0 DEF Totalled
<1>2. CASE UNCHANGED <<job, creation, tasks>>
  BY <1>1, <1>2
<1>3. CASE CreateJob
  <2>1. /\ job' = CopyJob(job, "creating") /\ creation' = "writing" /\ UNCHANGED tasks
    BY <1>3 DEF CreateJob
  <2>2. job'.total = job.total /\ job'.status = "creating"
    BY <1>0, <2>1 DEF CopyJob, Job
  <2> QED
    BY <1>1, <2>1, <2>2
<1>4. CASE ReadBack
  BY <1>1, <1>4 DEF ReadBack
<1>5. CASE KeepStatus \/ QueueJob
  BY <1>0, <1>5 DEF KeepStatus, QueueJob, Job
<1>6. CASE WriteCall
  <2>1. job = call.seen /\ ~(call.op = "resume" /\ creation # "done")
    BY <1>6 DEF WriteCall, WriteBack
  <2>2. /\ job' = CopyJob(job, CASE call.op = "pause" -> "paused"
                                 [] call.op = "resume" -> "queued"
                                 [] OTHER -> "cancelled")
        /\ UNCHANGED <<creation, tasks>>
    BY <1>6, <2>1 DEF WriteCall, WriteBack
  <2>3. job'.total = job.total
    BY <1>0, <2>2 DEF CopyJob, Job
  <2>4. call.op # "resume" => job'.status \in {"paused", "cancelled"}
    BY <1>0, <2>2 DEF CopyJob, Job
  <2> QED
    BY <1>1, <2>1, <2>2, <2>3, <2>4
<1>7. ASSUME NEW w \in Worker, Claim(w) PROVE job'.total = Cardinality(Delivery)
  <2>1. JobOpen /\ job' = CopyJob(job, "running")
    BY <1>7 DEF Claim, Claimable
  <2>2. job'.total = job.total
    BY <1>0, <2>1 DEF CopyJob, Job
  <2> QED
    BY <1>1, <2>1, <2>2 DEF JobOpen
<1>8. ASSUME NEW w \in Worker, Crash(w)
      PROVE  UNCHANGED job /\ tasks' \subseteq tasks /\ (creation' = "done" => creation = "done")
  BY <1>8 DEF Crash
<1>9. ASSUME NEW t \in tasks PROVE job.total = Cardinality(Delivery)
  BY <1>1
<1>10. ASSUME NEW t \in tasks, Count(t) PROVE job'.total = Cardinality(Delivery)
  BY <1>0, <1>9, <1>10 DEF Count, Job
<1>11. ASSUME NEW t \in tasks, Complete(t) PROVE job'.total = Cardinality(Delivery)
  <2>1. job' = CopyJob(job, "completed")
    BY <1>11 DEF Complete, WriteBack
  <2> QED
    BY <1>0, <1>9, <2>1 DEF CopyJob, Job
<1>12. ASSUME NEW t \in tasks, \/ SendOk(t) \/ SendRefused(t) \/ AnswerLost(t) \/ Record(t)
                               \/ Requeue(t) \/ TryFails(t) \/ CatchFails(t)
       PROVE  UNCHANGED job
  BY <1>12, Zenon DEF SendOk, SendRefused, AnswerLost, Record, Requeue, TryFails, CatchFails
<1>13. ASSUME \/ PumpStep \/ ClockStep \/ UNCHANGED vars
              \/ \E w \in Worker, op \in {"pause", "resume", "cancel"} : ReadForCall(w, op)
              \/ \E e \in Delivery : OrphanExpires(e) \/ Overrun(e)
       PROVE  UNCHANGED <<job, creation, tasks>>
  BY <1>13, Zenon DEF PumpStep, ClockStep, vars, ReadForCall, Run, Stop, TimerFires,
     ClaimNothing, Ask, ClaimFails, AskFails, AddBatch, DueArrives, OrphanExpires, Overrun,
     LeaseExpires
<1>14. ASSUME WorkStep
       PROVE  \/ job'.total = Cardinality(Delivery)
              \/ /\ creation' # "done" /\ tasks' = {}
                 /\ job'.status \in {"none", "creating", "paused", "cancelled"}
  BY <1>1, <1>2, <1>7, <1>8, <1>9, <1>10, <1>11, <1>12, <1>13, <1>14 DEF WorkStep
<1> QED
  BY <1>2, <1>3, <1>4, <1>5, <1>6, <1>13, <1>14, StepKinds DEF StorageStep


LEMMA LastsKept ==
    ASSUME TypeOK, Lasts, [Next]_vars
    PROVE  Lasts'
<1>0. tasks \in SUBSET Task /\ job \in Job
  BY DEF TypeOK
<1>1. ASSUME \A u \in tasks' : u \in tasks \/ u.pc \notin {"complete", "close"}
      PROVE  Lasts'
  BY <1>1 DEF Lasts
<1>2. CASE TaskSteady
  BY <1>1, <1>2, TasksSteady
<1>3. ASSUME NEW w \in Worker, Claim(w) PROVE Lasts'
  BY <1>1, <1>3 DEF Claim
<1>4. ASSUME NEW w \in Worker, Crash(w) PROVE Lasts'
  BY <1>1, <1>4 DEF Crash
<1>5. ASSUME NEW t \in tasks, \/ SendOk(t) \/ SendRefused(t) \/ AnswerLost(t) \/ Record(t)
                              \/ TryFails(t)
      PROVE  Lasts'
  <2>1. PICK u \in Task : u.pc \notin {"complete", "close"} /\ tasks' = (tasks \ {t}) \cup {u}
    <3>1. CASE SendOk(t) \/ SendRefused(t) \/ AnswerLost(t)
      BY <1>0, <3>1, Moves DEF MovesTo
    <3>2. CASE Record(t) \/ TryFails(t)
      BY <1>0, <3>2, Moves DEF MovesTo
    <3> QED
      BY <1>5, <3>1, <3>2
  <2> QED
    BY <1>1, <2>1
<1>6. ASSUME NEW t \in tasks, Requeue(t) \/ Complete(t) \/ CatchFails(t) PROVE Lasts'
  <2>1. tasks' = tasks \ {t}
    BY <1>6, Removes
  <2> QED
    BY <1>1, <2>1
<1>7. ASSUME NEW t \in tasks, Count(t) PROVE Lasts'
  <2> DEFINE counted == [job EXCEPT !.processed = @ + 1]
             last == IF t.pc = "count" THEN "complete" ELSE "close"
             u == [t EXCEPT !.pc = last, !.seen = counted]
  <2>1. CASE IsLast(counted)
    <3>1. counted.processed >= counted.total
      BY <2>1 DEF IsLast
    <3>2. u.seen = counted
      <4>1. t \in Task
        BY <1>0
      <4> HIDE DEF counted, last
      <4> QED
        BY <4>1 DEF Task
    <3>3. tasks' = (tasks \ {t}) \cup {u}
      BY <1>7, <2>1 DEF Count
    <3> HIDE DEF u, counted
    <3> QED
      BY <3>1, <3>2, <3>3 DEF Lasts
  <2>2. CASE ~IsLast(counted)
    <3>1. tasks' = tasks \ {t}
      BY <1>7, <2>2 DEF Count, TaskEnds
    <3> QED
      BY <1>1, <3>1
  <2> QED
    BY <2>1, <2>2
<1> QED
  BY <1>2, <1>3, <1>4, <1>5, <1>6, <1>7, StepKinds DEF WorkStep, TaskSteady

\* Only Complete completes a job, when no stale copy is written back.
LEMMA OnlyCompletes ==
    ASSUME TypeOK, [Next]_vars, ~overwritten', job'.status = "completed"
    PROVE  job.status = "completed" \/ \E t \in tasks : Complete(t)
<1>0. job \in Job /\ call.op \in {"none", "pause", "resume", "cancel"} /\ call.seen \in Job
  BY DEF TypeOK
<1>1. ASSUME UNCHANGED job PROVE job.status = "completed"
  BY <1>1
<1>2. CASE CreateJob
  <2>1. job'.status = "creating"
    BY <1>0, <1>2 DEF CreateJob, CopyJob, Job
  <2> QED
    BY <2>1
<1>3. CASE KeepStatus
  BY <1>0, <1>3 DEF KeepStatus, Job
<1>4. CASE QueueJob
  BY <1>4 DEF QueueJob
<1>5. CASE WriteCall
  <2>1. PICK status \in {"paused", "queued", "cancelled"} : job' = CopyJob(call.seen, status)
    BY <1>5 DEF WriteCall, WriteBack
  <2>2. job'.status = status
    BY <1>0, <2>1 DEF CopyJob, Job
  <2> QED
    BY <2>2
<1>6. ASSUME NEW w \in Worker, Claim(w) PROVE FALSE
  <2>1. job' = CopyJob(job, "running")
    BY <1>6 DEF Claim
  <2>2. job'.status = "running"
    BY <1>0, <2>1 DEF CopyJob, Job
  <2> QED
    BY <2>2
<1>7. ASSUME NEW t \in tasks, Count(t) PROVE job.status = "completed"
  BY <1>0, <1>7 DEF Count, Job
<1>8. ASSUME \/ PumpStep \/ ClockStep \/ UNCHANGED vars \/ ReadBack
             \/ \E w \in Worker, op \in {"pause", "resume", "cancel"} : ReadForCall(w, op)
      PROVE  UNCHANGED job
  BY <1>8, Zenon DEF PumpStep, ClockStep, vars, ReadBack, ReadForCall, Run, Stop, TimerFires,
     ClaimNothing, Ask, ClaimFails, AskFails, AddBatch, DueArrives
<1>9. ASSUME \/ \E w \in Worker : Crash(w)
             \/ \E e \in Delivery : OrphanExpires(e) \/ Overrun(e)
             \/ \E t \in tasks : \/ SendOk(t) \/ SendRefused(t) \/ AnswerLost(t) \/ Record(t)
                                 \/ Requeue(t) \/ TryFails(t) \/ CatchFails(t)
      PROVE  UNCHANGED job
  BY <1>9, Zenon DEF Crash, OrphanExpires, Overrun, LeaseExpires, SendOk, SendRefused,
     AnswerLost, Record, Requeue, TryFails, CatchFails
<1> QED
  BY <1>1, <1>2, <1>3, <1>4, <1>5, <1>6, <1>7, <1>8, <1>9, StepKinds DEF StorageStep, WorkStep

LEMMA ClosedKept ==
    ASSUME TypeOK, TypeOK', Sound, CountsExact, Totalled, Lasts, Closed, [Next]_vars
    PROVE  Closed'
<1> SUFFICES ASSUME job'.status = "completed", ~overwritten', ~spoilt'
             PROVE  Counted' = Delivery
  BY DEF Closed
<1>1. ~overwritten /\ ~spoilt /\ OneHolder
  BY FlagsGrow, OverwrittenGrows DEF Sound
<1>2. Counted = Delivery
  <2>1. CASE job.status = "completed"
    BY <1>1, <2>1 DEF Closed
  <2>2. ASSUME NEW t \in tasks, Complete(t) PROVE Counted = Delivery
    <3>1. job = t.seen /\ t.pc \in {"complete", "close"}
      BY <2>2 DEF Complete, WriteBack
    <3>2. job.processed >= job.total
      BY <3>1 DEF Lasts
    <3>3. job.total = Cardinality(Delivery)
      BY <1>1 DEF Totalled
    <3>4. job.processed = Cardinality(Counted)
      BY <1>1 DEF CountsExact
    <3> QED
      BY <3>2, <3>3, <3>4, CountedFinite, Sizes
  <2> QED
    BY <2>1, <2>2, OnlyCompletes
<1>3. Counted \subseteq Counted'
  BY <1>1, CountStep
<1>4. Counted' \subseteq Delivery
  BY DEF Counted, Terminal
<1> QED
  BY <1>2, <1>3, <1>4

Bookkeeping == Sound /\ CountsExact /\ Totalled /\ Lasts /\ Closed

LEMMA SoundInductive ==
    /\ Init => TypeOK /\ Bookkeeping
    /\ TypeOK /\ Bookkeeping /\ [Next]_vars => TypeOK' /\ Bookkeeping'
<1>1. ASSUME Init PROVE TypeOK /\ Bookkeeping
  <2>1. /\ tasks = {} /\ lost = {} /\ job = NoJob /\ creation = "new"
        /\ \A d \in Delivery : delivery[d].status = "absent"
    BY <1>1 DEF Init
  <2>2. TypeOK
    BY <1>1, TypeInit
  <2>3. Sound /\ Lasts
    BY <2>1, Zenon DEF Sound, OneHolder, Lasts
  <2>4. Totalled /\ Closed
    BY <2>1 DEF Totalled, Closed, NoJob
  <2>5. Counted = {}
    BY <2>1 DEF Counted, Terminal, Finished
  <2>6. CountsExact
    BY <2>1, <2>5, FS_EmptySet DEF CountsExact, NoJob
  <2> QED
    BY <2>2, <2>3, <2>4, <2>6 DEF Bookkeeping
<1>2. ASSUME TypeOK, Bookkeeping, [Next]_vars PROVE TypeOK' /\ Bookkeeping'
  <2>1. TypeOK'
    BY <1>2, TypeKept
  <2>2. ASSUME ~spoilt' PROVE OneHolder'
    BY <1>2, <2>2, FlagsGrow, HolderKept DEF Bookkeeping, Sound
  <2>3. Sound'
    BY <2>2, Zenon DEF Sound
  <2>4. CountsExact' /\ Totalled' /\ Lasts' /\ Closed'
    BY <1>2, <2>1, CountsKept, TotalledKept, LastsKept, ClosedKept DEF Bookkeeping
  <2> QED
    BY <2>1, <2>3, <2>4 DEF Bookkeeping
<1> QED
  BY <1>1, <1>2

(* sent + failed + skipped is the number of results that were recorded and *)
(* counted, whatever crashed, for as long as no stale copy of the job was  *)
(* written back and no delivery had two holders.                           *)
THEOREM CountersAgree == Spec => []CountsExact
BY SoundInductive, PTL DEF Spec, Bookkeeping

(* A job is completed only when every delivery has a result: neither a     *)
(* claim, a retry nor the creation of the job can slip in behind it.       *)
THEOREM CompletedForGood == Spec => []CompletedIsFinished
<1>1. Closed => CompletedIsFinished
  BY DEF Closed, CompletedIsFinished, Counted, Terminal
<1> QED
  BY <1>1, SoundInductive, PTL DEF Spec, Bookkeeping


=============================================================================
