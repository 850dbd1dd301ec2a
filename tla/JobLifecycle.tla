---------------------------- MODULE JobLifecycle ----------------------------
(***************************************************************************)
(* The job lifecycle of the service platform: JobManager.CreateJob writes *)
(* a PENDING row to the jobs table and LPUSHes a serialized copy of the   *)
(* job onto the Redis list {jobs}:queue; the worker pool's goroutines     *)
(* BRPOP copies off the list and run processJob, a sequence of separate   *)
(* store and Redis calls around the handler; handleJobSuccess and         *)
(* handleJobFailure finish the job.                                       *)
(*                                                                         *)
(* Every store or Redis call is one step, so the steps of different       *)
(* workers, of the job manager, of shutdown and of a process crash        *)
(* interleave as they can in the code.  Each call may fail transiently    *)
(* (a bounded number of times); the code logs the error and goes on, or   *)
(* returns, exactly as the step's failure disjunct says.                  *)
(*                                                                         *)
(* Abstractions: a job is its id, its attempts and max_attempts; type,    *)
(* priority, payload and timestamps are left out (the queue key ignores   *)
(* the priority, getQueueKey, and no step reads a timestamp).  Whether    *)
(* the handler is registered and whether Handle returns an error is one   *)
(* nondeterministic outcome, since both lead to handleJobFailure.         *)
(***************************************************************************)
EXTENDS Integers, Sequences, FiniteSets

CONSTANTS
    Jobs,           \* ids uuid.New() may hand out
    Workers,        \* the pool's worker goroutines (config worker.pool_size)
    NoJob,          \* the id of "no job held"
    MaxAttemptsReq, \* CreateJobRequest.MaxAttempts values callers send
    MaxFaults,      \* bound on transient store/Redis failures in a behaviour
    MaxCrashes      \* bound on worker-process crashes/restarts in a behaviour

ASSUME ConstAssumption ==
    /\ IsFiniteSet(Jobs) /\ Jobs # {}
    /\ IsFiniteSet(Workers) /\ Workers # {}
    /\ NoJob \notin Jobs
    /\ MaxAttemptsReq \subseteq Int
    /\ MaxFaults \in Nat
    /\ MaxCrashes \in Nat

(* job.Status values (constant/job/status.go); "none" stands for no row. *)
Status == {"pending", "processing", "completed", "failed", "retrying"}

(* The default of CreateJob for req.MaxAttempts <= 0. *)
DefaultMaxAttempts == 3

(* Mutation: the default applied only to negative requests. *)
EffectiveMaxAttemptsOffByOne(m) == IF m < 0 THEN DefaultMaxAttempts ELSE m

(* The max_attempts CreateJob stores for the requested value m. *)
EffectiveMaxAttempts(m) == IF m <= 0 THEN DefaultMaxAttempts ELSE m

(* A serialized job as the queue and a worker's jobEntity hold it. *)
JobCopy == [id : Jobs, attempts : Nat, maxAttempts : Nat \ {0}]
NoCopy == [id |-> NoJob, attempts |-> 0, maxAttempts |-> 0]
Copy == JobCopy \cup {NoCopy}

(* A row of the jobs table; NoRow is the absence of a row. *)
NoRow == [status |-> "none", attempts |-> 0, maxAttempts |-> 0]
RowRec == [status : Status, attempts : Nat, maxAttempts : Nat \ {0}]
Row == RowRec \cup {NoRow}

(* The places of a worker goroutine in runWorker/processJob. *)
PC == {"idle",      \* loop top, blocked in BRPOP
       "mark",      \* before queue.MarkProcessing
       "start",     \* before jobRepo.UpdateJobToProcessing
       "run",       \* before the registry lookup and handler.Handle
       "complete",  \* handleJobSuccess: before UpdateJobToCompleted
       "ack",       \* handleJobSuccess: before queue.MarkCompleted
       "fail",      \* handleJobFailure: before UpdateJobToFailed/Retrying
       "nack",      \* handleJobFailure: before queue.MarkFailed
       "stopped"}   \* returned from runWorker

VARIABLES
    db,             \* jobs table: [Jobs -> Row]
    queue,          \* the Redis list {jobs}:queue, left end first
    processingSet,  \* the Redis zset {jobs}:processing (members only)
    retrySchedule,  \* the Redis zset {jobs}:retry_schedule (members only)
    pc,             \* [Workers -> PC]
    held,           \* [Workers -> Copy]: the worker's jobEntity
    activeWorkers,  \* PoolStats.ActiveWorkers
    totalProcessed, \* PoolStats.TotalProcessed
    totalFailed,    \* PoolStats.TotalFailed
    cancelled,      \* p.ctx has been cancelled by Stop
    faults,         \* transient failures so far
    crashes         \* process crashes so far

stats == <<activeWorkers, totalProcessed, totalFailed>>

vars == <<db, queue, processingSet, retrySchedule, pc, held, stats,
          cancelled, faults, crashes>>


-----------------------------------------------------------------------------
(* Helpers *)

(* A transient failure of the current call, while the bound allows one. *)
Fault == faults < MaxFaults /\ faults' = faults + 1

(* BRPOP takes the right end of the list; LPUSH adds at the left end. *)
RightEnd(s) == s[Len(s)]
PopRight(s) == SubSeq(s, 1, Len(s) - 1)
LPush(c, s) == <<c>> \o s

(* The job a worker holds and the row it stands for. *)
HeldId(w) == held[w].id

(* A worker inside processJob, between BRPOP and decrementActiveWorkers. *)
Busy(w) == pc[w] \notin {"idle", "stopped"}

(* The worker returns to the loop top: decrementActiveWorkers, clamped. *)
Release(w) ==
    /\ pc' = [pc EXCEPT ![w] = "idle"]
    /\ held' = [held EXCEPT ![w] = NoCopy]

DecActive == IF activeWorkers > 0 THEN activeWorkers - 1 ELSE 0

(* handleJobFailure's jobEntity.Attempts++ on the worker's copy. *)
IncAttempts(c) == [id |-> c.id, attempts |-> c.attempts + 1,
                   maxAttempts |-> c.maxAttempts]

(* An UPDATE that sets the status of a row. *)
StatusRow(r, st) == [status |-> st, attempts |-> r.attempts,
                     maxAttempts |-> r.maxAttempts]

(* UpdateJobToFailed / UpdateJobToRetrying: one UPDATE sets the status   *)
(* and attempts = attempts + 1.                                            *)
FailRow(r, st) == [status |-> st, attempts |-> r.attempts + 1,
                   maxAttempts |-> r.maxAttempts]

(* handleJobFailure's decision on its incremented in-memory copy. *)
Exhausted(c) == c.attempts >= c.maxAttempts

-----------------------------------------------------------------------------
(* Job manager *)

(* CreateJob: Create writes the PENDING row; Enqueue LPUSHes the copy.    *)
(* A failed Enqueue leaves the row PENDING and unqueued (an error is       *)
(* returned to the caller).  A failed Create changes nothing.              *)
CreateJob(j, m) ==
    LET row == [status |-> "pending", attempts |-> 0,
                maxAttempts |-> EffectiveMaxAttempts(m)]
        c   == [id |-> j, attempts |-> 0, maxAttempts |-> row.maxAttempts]
    IN /\ db[j].status = "none"
       /\ db' = [db EXCEPT ![j] = row]
       /\ \/ /\ queue' = LPush(c, queue)
             /\ UNCHANGED faults
          \/ /\ Fault
             /\ UNCHANGED queue
       /\ UNCHANGED <<processingSet, retrySchedule, pc, held, stats,
                      cancelled, crashes>>

-----------------------------------------------------------------------------
(* Worker goroutine w *)

(* Mutation: reading the right end (LINDEX) without removing it. *)
DequeueNoPop(w) ==
    /\ pc[w] = "idle"
    /\ queue # <<>>
    /\ held' = [held EXCEPT ![w] = RightEnd(queue)]
    /\ pc' = [pc EXCEPT ![w] = "mark"]
    /\ activeWorkers' = activeWorkers + 1
    /\ UNCHANGED <<totalProcessed, totalFailed>>
    /\ UNCHANGED <<db, queue, processingSet, retrySchedule, cancelled, faults, crashes>>

(* runWorker: BRPOP returns a job; incrementActiveWorkers. *)
Dequeue(w) ==
    /\ pc[w] = "idle"
    /\ queue # <<>>
    /\ held' = [held EXCEPT ![w] = RightEnd(queue)]
    /\ queue' = PopRight(queue)
    /\ pc' = [pc EXCEPT ![w] = "mark"]
    /\ activeWorkers' = activeWorkers + 1
    /\ UNCHANGED <<totalProcessed, totalFailed>>
    /\ UNCHANGED <<db, processingSet, retrySchedule, cancelled, faults, crashes>>

(* runWorker: the loop top sees p.ctx done and returns. *)
WorkerExit(w) ==
    /\ pc[w] = "idle"
    /\ cancelled
    /\ pc' = [pc EXCEPT ![w] = "stopped"]
    /\ UNCHANGED <<db, queue, processingSet, retrySchedule, held, stats,
                   cancelled, faults, crashes>>

(* Mutation: the early return also skips decrementActiveWorkers. *)
MarkProcessingNoDecrement(w) ==
    /\ pc[w] = "mark"
    /\ \/ /\ processingSet' = processingSet \cup {HeldId(w)}
          /\ pc' = [pc EXCEPT ![w] = "start"]
          /\ UNCHANGED <<held, faults>>
       \/ /\ Fault
          /\ Release(w)
          /\ UNCHANGED processingSet
    /\ UNCHANGED <<db, queue, retrySchedule, stats, cancelled, crashes>>

(* processJob: MarkProcessing; on error processJob returns at once. *)
MarkProcessing(w) ==
    /\ pc[w] = "mark"
    /\ \/ /\ processingSet' = processingSet \cup {HeldId(w)}
          /\ pc' = [pc EXCEPT ![w] = "start"]
          /\ UNCHANGED <<held, stats, faults>>
       \/ /\ Fault
          /\ Release(w)
          /\ activeWorkers' = DecActive
          /\ UNCHANGED <<totalProcessed, totalFailed>>
          /\ UNCHANGED processingSet
    /\ UNCHANGED <<db, queue, retrySchedule, cancelled, crashes>>

(* processJob: UpdateJobToProcessing; an error is only logged. *)
UpdateJobToProcessing(w) ==
    /\ pc[w] = "start"
    /\ \/ /\ db' = [db EXCEPT ![HeldId(w)] = StatusRow(db[HeldId(w)], "processing")]
          /\ UNCHANGED faults
       \/ /\ Fault
          /\ UNCHANGED db
    /\ pc' = [pc EXCEPT ![w] = "run"]
    /\ UNCHANGED <<queue, processingSet, retrySchedule, held, stats,
                   cancelled, crashes>>

(* processJob: registry lookup and Handle.  A missing handler or an error *)
(* goes to handleJobFailure, which first increments jobEntity.Attempts.  *)
Handle(w) ==
    /\ pc[w] = "run"
    /\ \/ /\ pc' = [pc EXCEPT ![w] = "complete"]
          /\ UNCHANGED held
       \/ /\ pc' = [pc EXCEPT ![w] = "fail"]
          /\ held' = [held EXCEPT ![w] = IncAttempts(held[w])]
    /\ UNCHANGED <<db, queue, processingSet, retrySchedule, stats,
                   cancelled, faults, crashes>>

(* handleJobSuccess: UpdateJobToCompleted; an error is only logged. *)
UpdateJobToCompleted(w) ==
    /\ pc[w] = "complete"
    /\ \/ /\ db' = [db EXCEPT ![HeldId(w)] = StatusRow(db[HeldId(w)], "completed")]
          /\ UNCHANGED faults
       \/ /\ Fault
          /\ UNCHANGED db
    /\ pc' = [pc EXCEPT ![w] = "ack"]
    /\ UNCHANGED <<queue, processingSet, retrySchedule, held, stats,
                   cancelled, crashes>>

(* handleJobSuccess: MarkCompleted, incrementTotalProcessed; then the    *)
(* worker loop's decrementActiveWorkers.                                  *)
MarkCompleted(w) ==
    /\ pc[w] = "ack"
    /\ \/ /\ processingSet' = processingSet \ {HeldId(w)}
          /\ UNCHANGED faults
       \/ /\ Fault
          /\ UNCHANGED processingSet
    /\ totalProcessed' = totalProcessed + 1
    /\ activeWorkers' = DecActive
    /\ UNCHANGED totalFailed
    /\ Release(w)
    /\ UNCHANGED <<db, queue, retrySchedule, cancelled, crashes>>

(* Mutation: UpdateJobToFailed leaves attempts alone; a retry sets the  *)
(* row back to PENDING.                                                   *)
UpdateJobToFailedNoIncrement(w) ==
    LET j == HeldId(w)
        row == IF Exhausted(held[w]) THEN StatusRow(db[j], "failed")
               ELSE FailRow(db[j], "retrying")
    IN /\ pc[w] = "fail"
       /\ \/ /\ db' = [db EXCEPT ![j] = row]
             /\ UNCHANGED faults
          \/ /\ Fault
             /\ UNCHANGED db
       /\ pc' = [pc EXCEPT ![w] = "nack"]
       /\ UNCHANGED <<queue, processingSet, retrySchedule, held, stats,
                      cancelled, crashes>>

UpdateJobToRetryingAsPending(w) ==
    LET j == HeldId(w)
        st == IF Exhausted(held[w]) THEN "failed" ELSE "pending"
    IN /\ pc[w] = "fail"
       /\ \/ /\ db' = [db EXCEPT ![j] = FailRow(db[j], st)]
             /\ UNCHANGED faults
          \/ /\ Fault
             /\ UNCHANGED db
       /\ pc' = [pc EXCEPT ![w] = "nack"]
       /\ UNCHANGED <<queue, processingSet, retrySchedule, held, stats,
                      cancelled, crashes>>

(* handleJobFailure: UpdateJobToFailed when the incremented copy is      *)
(* exhausted, UpdateJobToRetrying otherwise; both set the status and     *)
(* increment the row's attempts in the same UPDATE.                      *)
UpdateJobToFailedOrRetrying(w) ==
    LET j == HeldId(w)
        st == IF Exhausted(held[w]) THEN "failed" ELSE "retrying"
    IN /\ pc[w] = "fail"
       /\ \/ /\ db' = [db EXCEPT ![j] = FailRow(db[j], st)]
             /\ UNCHANGED faults
          \/ /\ Fault
             /\ UNCHANGED db
       /\ pc' = [pc EXCEPT ![w] = "nack"]
       /\ UNCHANGED <<queue, processingSet, retrySchedule, held, stats,
                      cancelled, crashes>>

(* handleJobFailure: MarkFailed(id, 0) or MarkFailed(id, retryDelay) in  *)
(* one MULTI: ZREM processing, and ZADD retry_schedule when the delay is *)
(* positive (calculateRetryDelay is positive for the attempts reached);  *)
(* incrementTotalFailed; then decrementActiveWorkers.                    *)
MarkFailed(w) ==
    LET j == HeldId(w)
    IN /\ pc[w] = "nack"
       /\ \/ /\ processingSet' = processingSet \ {j}
             /\ retrySchedule' = IF Exhausted(held[w]) THEN retrySchedule
                                 ELSE retrySchedule \cup {j}
             /\ UNCHANGED faults
          \/ /\ Fault
             /\ UNCHANGED <<processingSet, retrySchedule>>
       /\ totalFailed' = totalFailed + 1
       /\ activeWorkers' = DecActive
       /\ UNCHANGED totalProcessed
       /\ Release(w)
       /\ UNCHANGED <<db, queue, cancelled, crashes>>

-----------------------------------------------------------------------------
(* Pool and process *)

(* workerPool.Stop: cancel p.ctx.  Workers inside processJob go on with  *)
(* their detached contexts; idle ones exit at the loop top.               *)
Stop ==
    /\ ~cancelled
    /\ cancelled' = TRUE
    /\ UNCHANGED <<db, queue, processingSet, retrySchedule, pc, held, stats,
                   faults, crashes>>

(* The worker process ends (killed, or main returning after Stop's 30s   *)
(* timeout) and is started again: goroutines and PoolStats are lost; the *)
(* jobs table and Redis keep what they hold.                             *)
Crash ==
    /\ crashes < MaxCrashes
    /\ crashes' = crashes + 1
    /\ pc' = [w \in Workers |-> "idle"]
    /\ held' = [w \in Workers |-> NoCopy]
    /\ activeWorkers' = 0 /\ totalProcessed' = 0 /\ totalFailed' = 0
    /\ cancelled' = FALSE
    /\ UNCHANGED <<db, queue, processingSet, retrySchedule, faults>>

-----------------------------------------------------------------------------

Init ==
    /\ db = [j \in Jobs |-> NoRow]
    /\ queue = <<>>
    /\ processingSet = {}
    /\ retrySchedule = {}
    /\ pc = [w \in Workers |-> "idle"]
    /\ held = [w \in Workers |-> NoCopy]
    /\ activeWorkers = 0 /\ totalProcessed = 0 /\ totalFailed = 0
    /\ cancelled = FALSE
    /\ faults = 0
    /\ crashes = 0

(* Every step of worker w. *)
WorkerStep(w) ==
    \/ Dequeue(w)
    \/ WorkerExit(w)
    \/ MarkProcessing(w)
    \/ UpdateJobToProcessing(w)
    \/ Handle(w)
    \/ UpdateJobToCompleted(w)
    \/ MarkCompleted(w)
    \/ UpdateJobToFailedOrRetrying(w)
    \/ MarkFailed(w)

Next ==
    \/ \E j \in Jobs, m \in MaxAttemptsReq : CreateJob(j, m)
    \/ \E w \in Workers : WorkerStep(w)
    \/ Stop
    \/ Crash

(* Goroutines are scheduled fairly by the Go runtime; callers, shutdown  *)
(* and crashes are the environment and get no fairness.                  *)
Fairness == \A w \in Workers : WF_vars(WorkerStep(w))

Spec == Init /\ [][Next]_vars /\ Fairness

-----------------------------------------------------------------------------
(* Properties *)

(* Every variable holds a value of its type. *)
TypeOK ==
    /\ db \in [Jobs -> Row]
    /\ queue \in Seq(JobCopy)
    /\ processingSet \subseteq Jobs
    /\ retrySchedule \subseteq Jobs
    /\ pc \in [Workers -> PC]
    /\ held \in [Workers -> Copy]
    /\ activeWorkers \in Nat
    /\ totalProcessed \in Nat
    /\ totalFailed \in Nat
    /\ cancelled \in BOOLEAN
    /\ faults \in 0..MaxFaults
    /\ crashes \in 0..MaxCrashes

(* No job is run by two workers, or run while another copy of it waits:  *)
(* the list holds each id at most once, no two workers' jobEntity share  *)
(* an id, and no worker holds an id that is still on the list.  BRPOP    *)
(* removing the copy it returns, and CreateJob pushing one copy per new  *)
(* uuid, are what make this hold.                                         *)
NoDoubleExecution ==
    /\ \A i, k \in 1..Len(queue) : queue[i].id = queue[k].id => i = k
    /\ \A v, w \in Workers :
          held[v].id = held[w].id /\ held[v].id # NoJob => v = w
    /\ \A w \in Workers, i \in 1..Len(queue) : held[w].id # queue[i].id

(* A row is FAILED only when its attempts reached max_attempts: the      *)
(* worker decides between UpdateJobToFailed and UpdateJobToRetrying on   *)
(* its in-memory copy, and the store increments the row separately.  If  *)
(* the two disagreed, processRetryableJobs (status = failed AND attempts *)
(* < max_attempts) would re-admit a job the worker gave up on.           *)
FailedOnlyWhenExhausted ==
    \A j \in Jobs : db[j].status = "failed" => db[j].attempts >= db[j].maxAttempts

(* PoolStats.ActiveWorkers counts exactly the workers inside processJob, *)
(* across MarkProcessing's early return, both completion paths and a     *)
(* restart.  GetStats reports this number to the health monitor.         *)
ActiveWorkersAccurate ==
    activeWorkers = Cardinality({w \in Workers : Busy(w)})


(* The job status machine of spec section 3, with the jobs table as its  *)
(* state and the max_attempts that EffectiveMaxAttempts can store.        *)
JobStatusSpec == INSTANCE JobStatus
    WITH jobs <- db,
         MaxAttemptsValues <- {EffectiveMaxAttempts(m) : m \in MaxAttemptsReq}

(* Every change the pool, the store wrappers and a restart make to the   *)
(* jobs table is a step of the status machine: a row is created PENDING, *)
(* only a PENDING row is marked PROCESSING, only a PENDING or PROCESSING *)
(* row is finalized, and a failure adds one attempt and chooses FAILED   *)
(* exactly when it reaches max_attempts.  A store failure between the    *)
(* worker's two writes, or a restart, must not leave another change.     *)
ImplementsJobStatus == JobStatusSpec!Spec

(* The job is on the list. *)
InQueue(j) == \E i \in 1..Len(queue) : queue[i].id = j

(* A queued job is eventually taken up and settled by a worker: its row  *)
(* leaves PENDING/PROCESSING for COMPLETED, FAILED or RETRYING, unless   *)
(* the pool is being stopped.                                             *)
JobEventuallySettled ==
    \A j \in Jobs :
        InQueue(j) ~> (db[j].status \in {"completed", "failed", "retrying"} \/ cancelled)

=============================================================================
