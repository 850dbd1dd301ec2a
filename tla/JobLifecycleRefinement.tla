----------------------- MODULE JobLifecycleRefinement -----------------------
(***************************************************************************)
(* Proof that the worker pool, the job manager and a restart implement    *)
(* the job status machine of spec section 3 (JobStatus): every change    *)
(* they make to the jobs table is a step of that machine, for every set  *)
(* of jobs and workers and every bound on failures and restarts.          *)
(*                                                                         *)
(* The argument rests on IInv (JobLifecycleProofs) and one more          *)
(* invariant, StatusConsistent: a row the pool is about to write is in   *)
(* the state the machine needs.  A queued job's row is PENDING, since    *)
(* only CreateJob pushes and only a worker that popped it writes the row. *)
(* A worker before UpdateJobToProcessing holds a PENDING row, and a      *)
(* worker before finalizing holds a PENDING or PROCESSING one.  The      *)
(* latter needs NoDoubleExecution: no other worker writes the same row.  *)
(***************************************************************************)
EXTENDS JobLifecycleProofs

(* A job copy waiting on the list stands for a PENDING row. *)
QueuedPending == \A i \in 1..Len(queue) : db[queue[i].id].status = "pending"

(* The row a worker holds is PENDING until UpdateJobToProcessing, and    *)
(* PENDING or PROCESSING until the worker finalizes it.                   *)
WorkerRowLive ==
    \A w \in Workers :
        /\ pc[w] \in {"mark", "start"} => db[held[w].id].status = "pending"
        /\ pc[w] \in {"run", "complete", "fail"}
              => db[held[w].id].status \in {"pending", "processing"}

StatusConsistent == QueuedPending /\ WorkerRowLive

-----------------------------------------------------------------------------
(* Two ways a step keeps StatusConsistent. *)

(* A step that leaves the table and the list alone, and moves worker w   *)
(* to a state where its row is not constrained (idle, stopped, or after  *)
(* its last write), keeps the invariant.                                  *)
LEMMA LeaveRow ==
    ASSUME TypeOK, StatusConsistent, NEW w \in Workers,
           db' = db, queue' = queue,
           NEW x \in {"idle", "stopped", "ack", "nack"},
           pc' = [pc EXCEPT ![w] = x],
           \A v \in Workers : v # w => held'[v] = held[v]
    PROVE  StatusConsistent'
<1>1. QueuedPending'
  BY DEF StatusConsistent, QueuedPending
<1>2. WorkerRowLive'
  BY DEF StatusConsistent, WorkerRowLive, TypeOK
<1>3. QED
  BY <1>1, <1>2 DEF StatusConsistent

(* Worker w writes the row it holds and moves on; the list and the other *)
(* workers are left alone.  No other worker and no queued copy has that  *)
(* row (NoDoubleExecution), so only w's own constraint can change.       *)
LEMMA WriteOwnRow ==
    ASSUME IInv, StatusConsistent, NEW w \in Workers, Busy(w),
           queue' = queue, held' = held,
           NEW x \in {"run", "ack", "nack"}, pc' = [pc EXCEPT ![w] = x],
           \A k \in Jobs : k # held[w].id => db'[k] = db[k],
           x = "run" => db'[held[w].id].status \in {"pending", "processing"}
    PROVE  StatusConsistent'
<1>1. /\ TypeOK /\ NoDoubleExecution /\ HeldConsistent
  BY DEF IInv
<1>2. held[w] \in JobCopy /\ held[w].id \in Jobs
  BY <1>1, BusyHeld DEF HeldId
<1>3. QueuedPending'
  <2>1. \A i \in 1..Len(queue) : queue[i].id \in Jobs /\ queue[i].id # held[w].id
    BY <1>1, QueueElems DEF NoDoubleExecution
  <2>2. QED
    BY <2>1 DEF StatusConsistent, QueuedPending
<1>4. WorkerRowLive'
  <2> SUFFICES ASSUME NEW v \in Workers
               PROVE  WorkerRowLive!(v)'
    BY DEF WorkerRowLive
  <2>1. CASE v = w
    BY <1>1, <2>1 DEF TypeOK
  <2>2. CASE v # w
    <3>1. pc'[v] = pc[v]
      BY <2>2, <1>1 DEF TypeOK
    <3>2. pc[v] \in {"mark", "start", "run", "complete", "fail"}
          => held[v].id \in Jobs /\ held[v].id # held[w].id
      <4>1. ASSUME pc[v] \in {"mark", "start", "run", "complete", "fail"}
            PROVE  held[v].id \in Jobs /\ held[v].id # held[w].id
        <5>1. Busy(v)
          BY <4>1 DEF Busy
        <5>2. held[v] \in JobCopy /\ held[v].id \in Jobs
          BY <1>1, <5>1, BusyHeld DEF HeldId
        <5>3. held[w].id # NoJob
          BY <1>2, ConstAssumption
        <5>4. QED
          BY <1>1, <2>2, <5>2, <5>3 DEF NoDoubleExecution
      <4>2. QED
        BY <4>1
    <3>3. QED
      BY <3>1, <3>2 DEF StatusConsistent, WorkerRowLive
  <2>3. QED
    BY <2>1, <2>2
<1>5. QED
  BY <1>3, <1>4 DEF StatusConsistent

LEMMA StatusConsistentInit ==
    ASSUME Init
    PROVE  StatusConsistent
<1>1. queue = <<>> /\ pc = [w \in Workers |-> "idle"]
  BY DEF Init
<1>2. QED
  BY <1>1 DEF StatusConsistent, QueuedPending, WorkerRowLive


-----------------------------------------------------------------------------
(* One lemma per action: it keeps StatusConsistent, and its change of    *)
(* the table is a step of JobStatus or leaves the table alone.           *)

(* CreateJob writes a new PENDING row (Admit) and pushes its copy. *)
LEMMA CreateJobRefines ==
    ASSUME IInv, StatusConsistent, NEW j \in Jobs, NEW m \in MaxAttemptsReq,
           CreateJob(j, m)
    PROVE  StatusConsistent' /\ [JobStatusSpec!Next]_db
<1> DEFINE n == EffectiveMaxAttempts(m)
           newRow == [status |-> "pending", attempts |-> 0, maxAttempts |-> n]
           newCopy == [id |-> j, attempts |-> 0, maxAttempts |-> n]
<1>1. /\ TypeOK /\ QueueConsistent /\ HeldConsistent
  BY DEF IInv
<1>2. /\ db[j].status = "none"
      /\ db' = [db EXCEPT ![j] = newRow]
      /\ pc' = pc /\ held' = held
      /\ queue' = LPush(newCopy, queue) \/ queue' = queue
  BY DEF CreateJob
<1>3. [JobStatusSpec!Next]_db
  <2>1. JobStatusSpec!Admit(j, n)
    BY <1>2 DEF JobStatusSpec!Admit, JobStatusSpec!JobRow
  <2>2. n \in {EffectiveMaxAttempts(k) : k \in MaxAttemptsReq}
    OBVIOUS
  <2>3. QED
    BY <2>1, <2>2 DEF JobStatusSpec!Next
(* Job j is new: no copy of it is queued or held. *)
<1>4. /\ \A i \in 1..Len(queue) : queue[i].id # j
      /\ \A v \in Workers : Busy(v) => held[v].id # j
  BY <1>1, <1>2 DEF QueueConsistent, HeldConsistent
<1>5. /\ db'[j] = newRow
      /\ \A k \in Jobs \ {j} : db'[k] = db[k]
  BY <1>1, <1>2 DEF TypeOK
<1>6. WorkerRowLive'
  <2>1. \A v \in Workers : pc[v] \in {"mark", "start", "run", "complete", "fail"}
           => Busy(v) /\ held[v].id \in Jobs
    BY <1>1, BusyHeld DEF Busy, HeldId
  <2>2. QED
    BY <1>2, <1>4, <1>5, <2>1 DEF StatusConsistent, WorkerRowLive
<1>7. QueuedPending'
  <2>1. /\ Len(queue) \in Nat
        /\ \A i \in 1..Len(queue) : queue[i] \in JobCopy /\ queue[i].id \in Jobs
    BY <1>1, QueueElems
  <2>2. CASE queue' = queue
    BY <1>4, <1>5, <2>1, <2>2 DEF StatusConsistent, QueuedPending
  <2>3. CASE queue' = LPush(newCopy, queue)
    <3>1. PICK len \in Nat : Len(queue) = len
      BY <2>1
    <3>2. newCopy \in JobCopy
      BY ConstAssumption DEF EffectiveMaxAttempts, DefaultMaxAttempts, JobCopy
    <3>3. /\ Len(queue') = len + 1
          /\ queue'[1] = newCopy
          /\ \A i \in 2..len + 1 : queue'[i] = queue[i - 1]
      BY <1>1, <2>3, <3>1, <3>2, LPushCopy DEF TypeOK
    <3> SUFFICES ASSUME NEW i \in 1..len + 1
                 PROVE  db'[queue'[i].id].status = "pending"
      BY <3>3 DEF QueuedPending
    <3>4. CASE i = 1
      BY <3>3, <3>4, <1>5
    <3>5. CASE i # 1
      <4>1. queue'[i] = queue[i - 1] /\ i - 1 \in 1..len
        BY <3>3, <3>5
      <4>2. queue[i - 1].id \in Jobs \ {j}
        BY <4>1, <3>1, <2>1, <1>4
      <4>3. QED
        BY <4>1, <4>2, <3>1, <1>5 DEF StatusConsistent, QueuedPending
    <3>6. QED
      BY <3>4, <3>5
  <2>4. QED
    BY <1>2, <2>2, <2>3
<1>8. QED
  BY <1>3, <1>6, <1>7 DEF StatusConsistent

(* BRPOP hands the right end of the list, a PENDING row, to worker w. *)
LEMMA DequeueRefines ==
    ASSUME IInv, StatusConsistent, NEW w \in Workers, Dequeue(w)
    PROVE  StatusConsistent' /\ [JobStatusSpec!Next]_db
<1>1. TypeOK
  BY DEF IInv
<1>2. /\ pc[w] = "idle" /\ queue # <<>>
      /\ held' = [held EXCEPT ![w] = RightEnd(queue)]
      /\ queue' = PopRight(queue)
      /\ pc' = [pc EXCEPT ![w] = "mark"]
      /\ db' = db
  BY DEF Dequeue
<1>3. PICK n \in Nat : Len(queue) = n + 1
  <2>1. queue \in Seq(JobCopy)
    BY <1>1 DEF TypeOK
  <2>2. Len(queue) \in Nat /\ Len(queue) # 0
    BY <2>1, <1>2, EmptySeq, LenProperties
  <2>3. QED
    BY <2>2
<1>4. /\ RightEnd(queue) = queue[n + 1]
      /\ Len(queue') = n
      /\ \A i \in 1..n : queue'[i] = queue[i]
  BY <1>1, <1>2, <1>3, PopRightFacts DEF TypeOK, RightEnd
<1>5. QueuedPending'
  BY <1>2, <1>3, <1>4 DEF StatusConsistent, QueuedPending
<1>6. WorkerRowLive'
  <2>1. held'[w] = queue[n + 1] /\ \A v \in Workers \ {w} : held'[v] = held[v]
    BY <1>1, <1>2, <1>4 DEF TypeOK
  <2>2. db[queue[n + 1].id].status = "pending"
    BY <1>3 DEF StatusConsistent, QueuedPending
  <2>3. QED
    BY <1>1, <1>2, <2>1, <2>2 DEF StatusConsistent, WorkerRowLive, TypeOK
<1>7. QED
  BY <1>2, <1>5, <1>6 DEF StatusConsistent


(* UpdateJobToProcessing: the PENDING row becomes PROCESSING (Begin); an *)
(* error leaves it PENDING.                                                *)
LEMMA UpdateJobToProcessingRefines ==
    ASSUME IInv, StatusConsistent, NEW w \in Workers, UpdateJobToProcessing(w)
    PROVE  StatusConsistent' /\ [JobStatusSpec!Next]_db
<1> DEFINE j == held[w].id
<1>1. /\ TypeOK /\ HeldConsistent
  BY DEF IInv
<1>2. pc[w] = "start" /\ Busy(w)
  BY DEF UpdateJobToProcessing, Busy
<1>3. j \in Jobs /\ db[j] \in RowRec /\ db[j].status = "pending"
  BY <1>1, <1>2, BusyHeld DEF HeldId, StatusConsistent, WorkerRowLive
<1>4. /\ pc' = [pc EXCEPT ![w] = "run"] /\ queue' = queue /\ held' = held
      /\ \/ db' = [db EXCEPT ![j] = StatusRow(db[j], "processing")]
         \/ db' = db
  BY DEF UpdateJobToProcessing, HeldId
<1>5. CASE db' = [db EXCEPT ![j] = StatusRow(db[j], "processing")]
  <2>1. JobStatusSpec!Begin(j)
    BY <1>3, <1>5 DEF JobStatusSpec!Begin, JobStatusSpec!JobRow, StatusRow
  <2>2. /\ db'[j].status = "processing"
        /\ \A k \in Jobs : k # j => db'[k] = db[k]
    BY <1>1, <1>3, <1>5 DEF TypeOK, StatusRow
  <2>3. StatusConsistent'
    BY <1>2, <1>4, <2>2, WriteOwnRow
  <2>4. JobStatusSpec!Next
    BY <1>3, <2>1 DEF JobStatusSpec!Next
  <2>5. QED
    BY <2>3, <2>4
<1>6. CASE db' = db
  BY <1>2, <1>3, <1>4, <1>6, WriteOwnRow
<1>7. QED
  BY <1>4, <1>5, <1>6

(* UpdateJobToCompleted: the PENDING or PROCESSING row becomes COMPLETED *)
(* (Complete); an error leaves it as it was.                              *)
LEMMA UpdateJobToCompletedRefines ==
    ASSUME IInv, StatusConsistent, NEW w \in Workers, UpdateJobToCompleted(w)
    PROVE  StatusConsistent' /\ [JobStatusSpec!Next]_db
<1> DEFINE j == held[w].id
<1>1. /\ TypeOK /\ HeldConsistent
  BY DEF IInv
<1>2. pc[w] = "complete" /\ Busy(w)
  BY DEF UpdateJobToCompleted, Busy
<1>3. j \in Jobs /\ db[j] \in RowRec /\ db[j].status \in {"pending", "processing"}
  BY <1>1, <1>2, BusyHeld DEF HeldId, StatusConsistent, WorkerRowLive
<1>4. /\ pc' = [pc EXCEPT ![w] = "ack"] /\ queue' = queue /\ held' = held
      /\ \/ db' = [db EXCEPT ![j] = StatusRow(db[j], "completed")]
         \/ db' = db
  BY DEF UpdateJobToCompleted, HeldId
<1>5. CASE db' = [db EXCEPT ![j] = StatusRow(db[j], "completed")]
  <2>1. JobStatusSpec!Complete(j)
    BY <1>3, <1>5 DEF JobStatusSpec!Complete, JobStatusSpec!JobRow, StatusRow
  <2>2. \A k \in Jobs : k # j => db'[k] = db[k]
    BY <1>1, <1>5 DEF TypeOK
  <2>3. StatusConsistent'
    BY <1>2, <1>4, <2>2, WriteOwnRow
  <2>4. JobStatusSpec!Next
    BY <1>3, <2>1 DEF JobStatusSpec!Next
  <2>5. QED
    BY <2>3, <2>4
<1>6. CASE db' = db
  BY <1>2, <1>4, <1>6, WriteOwnRow
<1>7. QED
  BY <1>4, <1>5, <1>6

(* UpdateJobToFailed or UpdateJobToRetrying: the worker's incremented    *)
(* copy is one attempt ahead of the row (HeldConsistent), so its choice  *)
(* of FAILED is the machine's "attempts + 1 >= max_attempts" (Fail).     *)
LEMMA UpdateJobToFailedOrRetryingRefines ==
    ASSUME IInv, StatusConsistent, NEW w \in Workers,
           UpdateJobToFailedOrRetrying(w)
    PROVE  StatusConsistent' /\ [JobStatusSpec!Next]_db
<1> DEFINE j == held[w].id
           st == IF Exhausted(held[w]) THEN "failed" ELSE "retrying"
<1>1. /\ TypeOK /\ HeldConsistent
  BY DEF IInv
<1>2. pc[w] = "fail" /\ Busy(w)
  BY DEF UpdateJobToFailedOrRetrying, Busy
<1>3. /\ j \in Jobs /\ db[j] \in RowRec
      /\ db[j].status \in {"pending", "processing"}
      /\ held[w].attempts = db[j].attempts + 1
      /\ held[w].maxAttempts = db[j].maxAttempts
  BY <1>1, <1>2, BusyHeld DEF HeldId, StatusConsistent, WorkerRowLive, HeldConsistent
<1>4. /\ pc' = [pc EXCEPT ![w] = "nack"] /\ queue' = queue /\ held' = held
      /\ \/ db' = [db EXCEPT ![j] = FailRow(db[j], st)]
         \/ db' = db
  BY DEF UpdateJobToFailedOrRetrying, HeldId
<1>5. CASE db' = [db EXCEPT ![j] = FailRow(db[j], st)]
  <2>1. st = IF db[j].attempts + 1 >= db[j].maxAttempts THEN "failed" ELSE "retrying"
    BY <1>3 DEF Exhausted
  <2>2. JobStatusSpec!Fail(j)
    BY <1>3, <1>5, <2>1 DEF JobStatusSpec!Fail, JobStatusSpec!JobRow, FailRow
  <2>3. \A k \in Jobs : k # j => db'[k] = db[k]
    BY <1>1, <1>5 DEF TypeOK
  <2>4. StatusConsistent'
    BY <1>2, <1>4, <2>3, WriteOwnRow
  <2>5. JobStatusSpec!Next
    BY <1>3, <2>2 DEF JobStatusSpec!Next
  <2>6. QED
    BY <2>4, <2>5
<1>6. CASE db' = db
  BY <1>2, <1>4, <1>6, WriteOwnRow
<1>7. QED
  BY <1>4, <1>5, <1>6


(* MarkProcessing: the worker goes on with the same PENDING row, or      *)
(* returns to the loop top on a Redis error.                              *)
LEMMA MarkProcessingRefines ==
    ASSUME IInv, StatusConsistent, NEW w \in Workers, MarkProcessing(w)
    PROVE  StatusConsistent' /\ db' = db
<1>1. TypeOK
  BY DEF IInv
<1>2. pc[w] = "mark" /\ db' = db /\ queue' = queue
  BY DEF MarkProcessing
<1>3. CASE pc' = [pc EXCEPT ![w] = "start"] /\ held' = held
  <2>1. db[held[w].id].status = "pending"
    BY <1>2 DEF StatusConsistent, WorkerRowLive
  <2>2. QED
    BY <1>1, <1>2, <1>3, <2>1 DEF StatusConsistent, QueuedPending, WorkerRowLive,
                                  TypeOK
<1>4. CASE Release(w)
  BY <1>1, <1>2, <1>4, LeaveRow DEF Release, TypeOK
<1>5. QED
  BY <1>2, <1>3, <1>4 DEF MarkProcessing

(* Handle: the worker keeps its row, with its copy's attempts raised on  *)
(* the failure path.                                                      *)
LEMMA HandleRefines ==
    ASSUME IInv, StatusConsistent, NEW w \in Workers, Handle(w)
    PROVE  StatusConsistent' /\ db' = db
<1>1. /\ TypeOK /\ HeldConsistent
  BY DEF IInv
<1>2. /\ pc[w] = "run" /\ db' = db /\ queue' = queue
      /\ \E x \in {"complete", "fail"} : pc' = [pc EXCEPT ![w] = x]
      /\ \/ held' = held
         \/ held' = [held EXCEPT ![w] = IncAttempts(held[w])]
  BY DEF Handle
<1>3. held[w] \in JobCopy
  BY <1>1, <1>2, BusyHeld DEF Busy
<1>4. held'[w].id = held[w].id /\ \A v \in Workers \ {w} : held'[v] = held[v]
  BY <1>1, <1>2, <1>3, CopyUpdate DEF TypeOK
<1>5. db[held[w].id].status \in {"pending", "processing"}
  BY <1>2 DEF StatusConsistent, WorkerRowLive
<1>6. QED
  BY <1>1, <1>2, <1>4, <1>5 DEF StatusConsistent, QueuedPending, WorkerRowLive,
                                TypeOK

(* The other steps leave the table alone and release, park or reset the  *)
(* workers.                                                               *)
LEMMA QuietStepsRefine ==
    ASSUME IInv, StatusConsistent,
           \/ \E w \in Workers : WorkerExit(w) \/ MarkCompleted(w) \/ MarkFailed(w)
           \/ Stop
           \/ Crash
           \/ UNCHANGED vars
    PROVE  StatusConsistent' /\ db' = db
<1>1. TypeOK
  BY DEF IInv
<1>2. CASE \E w \in Workers : WorkerExit(w)
  <2>1. PICK w \in Workers : WorkerExit(w)
    BY <1>2
  <2>2. QED
    BY <1>1, <2>1, LeaveRow DEF WorkerExit
<1>3. CASE \E w \in Workers : MarkCompleted(w) \/ MarkFailed(w)
  <2>1. PICK w \in Workers : MarkCompleted(w) \/ MarkFailed(w)
    BY <1>3
  <2>2. Release(w) /\ db' = db /\ queue' = queue
    BY <2>1 DEF MarkCompleted, MarkFailed
  <2>3. QED
    BY <1>1, <2>2, LeaveRow DEF Release, TypeOK
<1>4. CASE Stop
  BY <1>4 DEF Stop, StatusConsistent, QueuedPending, WorkerRowLive
<1>5. CASE Crash
  BY <1>5 DEF Crash, StatusConsistent, QueuedPending, WorkerRowLive
<1>6. CASE UNCHANGED vars
  BY <1>6 DEF vars, StatusConsistent, QueuedPending, WorkerRowLive
<1>7. QED
  BY <1>2, <1>3, <1>4, <1>5, <1>6

-----------------------------------------------------------------------------

(* Every step keeps StatusConsistent and moves the table by a JobStatus  *)
(* step or not at all.                                                    *)
LEMMA StepRefines ==
    ASSUME IInv, StatusConsistent, [Next]_vars
    PROVE  StatusConsistent' /\ [JobStatusSpec!Next]_db
<1>1. CASE \E j \in Jobs, m \in MaxAttemptsReq : CreateJob(j, m)
  BY <1>1, CreateJobRefines
<1>2. CASE \E w \in Workers : WorkerStep(w)
  <2>1. PICK w \in Workers : WorkerStep(w)
    BY <1>2
  <2>2. CASE Dequeue(w)
    BY <2>2, DequeueRefines
  <2>3. CASE MarkProcessing(w)
    BY <2>3, MarkProcessingRefines
  <2>4. CASE UpdateJobToProcessing(w)
    BY <2>4, UpdateJobToProcessingRefines
  <2>5. CASE Handle(w)
    BY <2>5, HandleRefines
  <2>6. CASE UpdateJobToCompleted(w)
    BY <2>6, UpdateJobToCompletedRefines
  <2>7. CASE UpdateJobToFailedOrRetrying(w)
    BY <2>7, UpdateJobToFailedOrRetryingRefines
  <2>8. CASE WorkerExit(w) \/ MarkCompleted(w) \/ MarkFailed(w)
    BY <2>8, QuietStepsRefine
  <2>9. QED
    BY <2>1, <2>2, <2>3, <2>4, <2>5, <2>6, <2>7, <2>8 DEF WorkerStep
<1>3. CASE Stop \/ Crash \/ UNCHANGED vars
  BY <1>3, QuietStepsRefine
<1>4. QED
  BY <1>1, <1>2, <1>3 DEF Next

(* The initial table is the machine's: no job has a row. *)
LEMMA InitRefines ==
    ASSUME Init
    PROVE  JobStatusSpec!Init
BY DEF Init, NoRow, JobStatusSpec!Init, JobStatusSpec!JobRow

(* StatusConsistent holds in every state, on top of IInv. *)
LEMMA StatusConsistentHolds == Spec => [](IInv /\ StatusConsistent)
<1>1. Init => IInv /\ StatusConsistent
  BY IInvInit, StatusConsistentInit
<1>2. IInv /\ StatusConsistent /\ [Next]_vars => (IInv /\ StatusConsistent)'
  BY IInvInductive, StepRefines
<1>3. QED
  BY <1>1, <1>2, PTL DEF Spec

(* The job platform implements the status machine of spec section 3: a  *)
(* row is created PENDING by CreateJob; UpdateJobToProcessing only moves *)
(* a PENDING row; only a PENDING or PROCESSING row is finalized; and a   *)
(* failure adds one attempt and is FAILED exactly when that reaches      *)
(* max_attempts, for every number of jobs, workers, store and Redis      *)
(* failures and restarts.                                                 *)
THEOREM ImplementsJobStatusThm == Spec => ImplementsJobStatus
<1>1. Init => JobStatusSpec!Init
  BY InitRefines
<1>2. IInv /\ StatusConsistent /\ [Next]_vars => [JobStatusSpec!Next]_db
  BY StepRefines
<1>3. QED
  BY <1>1, <1>2, StatusConsistentHolds, PTL DEF Spec, ImplementsJobStatus,
                                               JobStatusSpec!Spec

-----------------------------------------------------------------------------
(* The status machine keeps attempts within max_attempts when every      *)
(* max_attempts it admits is positive, as EffectiveMaxAttempts makes it. *)

(* A live row still has an attempt left; every row is within its bound. *)
RowsBounded ==
    \A j \in Jobs :
        /\ db[j].attempts \in Nat /\ db[j].maxAttempts \in Nat
        /\ db[j].status \in {"pending", "processing", "retrying"}
              => db[j].attempts < db[j].maxAttempts
        /\ db[j].attempts <= db[j].maxAttempts

LEMMA EffectiveMaxAttemptsPositive ==
    \A m \in MaxAttemptsReq : EffectiveMaxAttempts(m) \in Nat \ {0}
BY ConstAssumption DEF EffectiveMaxAttempts, DefaultMaxAttempts

LEMMA RowsBoundedStep ==
    ASSUME RowsBounded, [JobStatusSpec!Next]_db, db \in [Jobs -> Row]
    PROVE  RowsBounded'
<1>1. CASE db' = db
  BY <1>1 DEF RowsBounded
<1>2. CASE JobStatusSpec!Next
  <2>1. PICK j \in Jobs :
          \/ \E n \in {EffectiveMaxAttempts(m) : m \in MaxAttemptsReq} :
                JobStatusSpec!Admit(j, n)
          \/ JobStatusSpec!Begin(j)
          \/ JobStatusSpec!Complete(j)
          \/ JobStatusSpec!Fail(j)
          \/ JobStatusSpec!Revive(j)
    BY <1>2 DEF JobStatusSpec!Next
  <2> DEFINE a == db[j].attempts
             mx == db[j].maxAttempts
  <2>2. a \in Nat /\ mx \in Nat /\ a <= mx
        /\ db[j].status \in {"pending", "processing", "retrying"} => a < mx
    BY DEF RowsBounded
  <2>3. CASE \E n \in {EffectiveMaxAttempts(m) : m \in MaxAttemptsReq} :
                JobStatusSpec!Admit(j, n)
    <3>1. PICK n \in {EffectiveMaxAttempts(m) : m \in MaxAttemptsReq} :
                JobStatusSpec!Admit(j, n)
      BY <2>3
    <3> DEFINE r == [status |-> "pending", attempts |-> 0, maxAttempts |-> n]
    <3>2. db' = [db EXCEPT ![j] = r]
      BY <3>1 DEF JobStatusSpec!Admit, JobStatusSpec!JobRow
    <3>3. n \in Nat \ {0}
      BY EffectiveMaxAttemptsPositive
    <3>4. QED
      BY <3>2, <3>3 DEF RowsBounded
  <2>4. CASE JobStatusSpec!Begin(j)
    <3> DEFINE r == [status |-> "processing", attempts |-> a, maxAttempts |-> mx]
    <3>1. db' = [db EXCEPT ![j] = r] /\ db[j].status = "pending"
      BY <2>4 DEF JobStatusSpec!Begin, JobStatusSpec!JobRow
    <3>2. QED
      BY <2>2, <3>1 DEF RowsBounded
  <2>5. CASE JobStatusSpec!Complete(j)
    <3> DEFINE r == [status |-> "completed", attempts |-> a, maxAttempts |-> mx]
    <3>1. db' = [db EXCEPT ![j] = r]
      BY <2>5 DEF JobStatusSpec!Complete, JobStatusSpec!JobRow
    <3>2. QED
      BY <2>2, <3>1 DEF RowsBounded
  <2>6. CASE JobStatusSpec!Fail(j)
    <3> DEFINE r == [status |-> IF a + 1 >= mx THEN "failed" ELSE "retrying",
                     attempts |-> a + 1, maxAttempts |-> mx]
    <3>1. db' = [db EXCEPT ![j] = r] /\ db[j].status \in {"pending", "processing"}
      BY <2>6 DEF JobStatusSpec!Fail, JobStatusSpec!JobRow
    <3>2. QED
      BY <2>2, <3>1 DEF RowsBounded
  <2>7. CASE JobStatusSpec!Revive(j)
    <3> DEFINE r == [status |-> "pending", attempts |-> a, maxAttempts |-> mx]
    <3>1. db' = [db EXCEPT ![j] = r]
          /\ (db[j].status = "retrying" \/ a < mx)
      BY <2>7 DEF JobStatusSpec!Revive, JobStatusSpec!JobRow
    <3>2. QED
      BY <2>2, <3>1 DEF RowsBounded
  <2>8. QED
    BY <2>1, <2>3, <2>4, <2>5, <2>6, <2>7
<1>3. QED
  BY <1>1, <1>2

(* Spec section 3, "attempts <= max_attempts at all times": the jobs     *)
(* table never shows more attempts than its max_attempts, whatever order *)
(* workers, store failures and restarts take.  It follows from the       *)
(* refinement, since the status machine keeps the bound.                  *)
THEOREM AttemptsWithinMaxThm == Spec => []JobStatusSpec!AttemptsWithinMax
<1>1. Init => RowsBounded
  BY DEF Init, NoRow, RowsBounded
<1>2. RowsBounded /\ [JobStatusSpec!Next]_db /\ TypeOK => RowsBounded'
  BY RowsBoundedStep DEF TypeOK
<1>3. RowsBounded => JobStatusSpec!AttemptsWithinMax
  BY DEF RowsBounded, JobStatusSpec!AttemptsWithinMax
<1>4. Spec => [][JobStatusSpec!Next]_db
  BY ImplementsJobStatusThm, PTL DEF ImplementsJobStatus, JobStatusSpec!Spec
<1>5. QED
  BY <1>1, <1>2, <1>3, <1>4, TypeCorrect, PTL DEF Spec

=============================================================================
