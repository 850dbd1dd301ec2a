------------------------- MODULE JobLifecycleProofs -------------------------
(***************************************************************************)
(* Proofs about JobLifecycle for every set of jobs and workers and every  *)
(* bound on failures and restarts.                                         *)
(***************************************************************************)
EXTENDS JobLifecycle, SequenceTheorems, TLAPS

(* Every copy on the list stands for an existing row and carries its     *)
(* attempts and max_attempts: CreateJob pushes the row it wrote, and no   *)
(* step changes the row of a queued job.                                  *)
QueueConsistent ==
    \A i \in 1..Len(queue) :
        LET c == queue[i] IN
        /\ db[c.id].status # "none"
        /\ c.attempts = db[c.id].attempts
        /\ c.maxAttempts = db[c.id].maxAttempts

(* A worker inside processJob holds a copy of an existing row; until its *)
(* failure handler writes the row, the copy's attempts are the row's, or *)
(* one more after jobEntity.Attempts++.  A worker outside processJob     *)
(* holds nothing.                                                         *)
HeldConsistent ==
    \A w \in Workers :
        IF Busy(w)
        THEN /\ held[w] \in JobCopy
             /\ db[held[w].id].status # "none"
             /\ held[w].maxAttempts = db[held[w].id].maxAttempts
             /\ pc[w] \in {"mark", "start", "run", "complete", "ack"}
                   => held[w].attempts = db[held[w].id].attempts
             /\ pc[w] = "fail" => held[w].attempts = db[held[w].id].attempts + 1
        ELSE held[w] = NoCopy

(* The inductive invariant behind FailedOnlyWhenExhausted and           *)
(* NoDoubleExecution.                                                    *)
IInv ==
    /\ TypeOK
    /\ NoDoubleExecution
    /\ QueueConsistent
    /\ HeldConsistent
    /\ FailedOnlyWhenExhausted

-----------------------------------------------------------------------------
(* BRPOP and LPUSH on a list. *)

LEMMA PopRightFacts ==
    ASSUME NEW T, NEW s \in Seq(T), NEW n \in Nat, Len(s) = n + 1
    PROVE  /\ RightEnd(s) \in T
           /\ PopRight(s) \in Seq(T)
           /\ Len(PopRight(s)) = n
           /\ \A i \in 1..n : PopRight(s)[i] = s[i]
<1>1. \A i \in 1..n + 1 : s[i] \in T
  BY ElementOfSeq
<1>2. /\ SubSeq(s, 1, n) \in Seq(T)
      /\ Len(SubSeq(s, 1, n)) = IF 1 <= n THEN n - 1 + 1 ELSE 0
      /\ \A i \in 1 .. n - 1 + 1 : SubSeq(s, 1, n)[i] = s[1 + i - 1]
  BY <1>1, SubSeqProperties
<1>3. PopRight(s) = SubSeq(s, 1, n) /\ RightEnd(s) = s[n + 1]
  BY DEF PopRight, RightEnd
<1>4. QED
  BY <1>1, <1>2, <1>3

LEMMA LPushFacts ==
    ASSUME NEW T, NEW sq \in Seq(T), NEW e \in T
    PROVE  /\ LPush(e, sq) \in Seq(T)
           /\ Len(LPush(e, sq)) = Len(sq) + 1
           /\ LPush(e, sq)[1] = e
           /\ \A i \in 2..Len(sq) + 1 : LPush(e, sq)[i] = sq[i - 1]
<1>1. <<e>> \in Seq(T) /\ Len(<<e>>) = 1 /\ <<e>>[1] = e
  OBVIOUS
<1>2. Len(sq) \in Nat
  BY LenProperties
<1>3. QED
  BY <1>1, <1>2, ConcatProperties DEF LPush

-----------------------------------------------------------------------------
(* Rows and copies. *)

LEMMA RowUpdates ==
    ASSUME NEW r \in RowRec, NEW st \in Status
    PROVE  /\ StatusRow(r, st) \in RowRec
           /\ StatusRow(r, st).status = st
           /\ StatusRow(r, st).attempts = r.attempts
           /\ StatusRow(r, st).maxAttempts = r.maxAttempts
           /\ FailRow(r, st) \in RowRec
           /\ FailRow(r, st).status = st
           /\ FailRow(r, st).attempts = r.attempts + 1
           /\ FailRow(r, st).maxAttempts = r.maxAttempts
BY DEF RowRec, StatusRow, FailRow

LEMMA CopyUpdate ==
    ASSUME NEW c \in JobCopy
    PROVE  /\ IncAttempts(c) \in JobCopy
           /\ IncAttempts(c).id = c.id
           /\ IncAttempts(c).attempts = c.attempts + 1
           /\ IncAttempts(c).maxAttempts = c.maxAttempts
BY DEF JobCopy, IncAttempts

(* The row of an existing job is a record of RowRec. *)
LEMMA ExistingRow ==
    ASSUME NEW r \in Row, r.status # "none"
    PROVE  r \in RowRec
BY DEF Row, NoRow

(* Every element of the list is a job copy. *)
LEMMA QueueElems ==
    ASSUME TypeOK
    PROVE  /\ Len(queue) \in Nat
           /\ \A i \in 1..Len(queue) : queue[i] \in JobCopy /\ queue[i].id \in Jobs
<1>1. queue \in Seq(JobCopy)
  BY DEF TypeOK
<1>2. \A i \in 1..Len(queue) : queue[i] \in JobCopy
  BY <1>1, ElementOfSeq
<1>3. QED
  BY <1>1, <1>2, LenProperties DEF JobCopy

(* A worker inside processJob holds a job whose row exists. *)
LEMMA BusyHeld ==
    ASSUME TypeOK, HeldConsistent, NEW w \in Workers, Busy(w)
    PROVE  /\ held[w] \in JobCopy
           /\ HeldId(w) \in Jobs
           /\ db[HeldId(w)] \in RowRec
<1>1. held[w] \in JobCopy /\ db[held[w].id].status # "none"
  BY DEF HeldConsistent
<1>2. HeldId(w) \in Jobs
  BY <1>1 DEF HeldId, JobCopy
<1>3. db[HeldId(w)] \in Row
  BY <1>2 DEF TypeOK
<1>4. QED
  BY <1>1, <1>2, <1>3, ExistingRow DEF HeldId

-----------------------------------------------------------------------------
(* One lemma per action: it keeps IInv. *)

LEMMA UpdateJobToProcessingStep ==
    ASSUME IInv, NEW w \in Workers, UpdateJobToProcessing(w)
    PROVE  IInv'
<1> DEFINE j == HeldId(w)
<1>1. /\ TypeOK /\ NoDoubleExecution /\ QueueConsistent /\ HeldConsistent
      /\ FailedOnlyWhenExhausted
  BY DEF IInv
<1>2. pc[w] = "start" /\ Busy(w)
  BY DEF UpdateJobToProcessing, Busy
<1>3. held[w] \in JobCopy /\ j \in Jobs /\ db[j] \in RowRec
  BY <1>1, <1>2, BusyHeld
<1>4. /\ pc' = [pc EXCEPT ![w] = "run"]
      /\ queue' = queue /\ held' = held /\ processingSet' = processingSet
      /\ retrySchedule' = retrySchedule /\ stats' = stats
      /\ cancelled' = cancelled /\ crashes' = crashes
      /\ \/ db' = [db EXCEPT ![j] = StatusRow(db[j], "processing")] /\ UNCHANGED faults
         \/ UNCHANGED db /\ faults < MaxFaults /\ faults' = faults + 1
  BY DEF UpdateJobToProcessing, Fault
<1>5. /\ db' \in [Jobs -> Row]
      /\ \A k \in Jobs : /\ db'[k].attempts = db[k].attempts
                         /\ db'[k].maxAttempts = db[k].maxAttempts
                         /\ db'[k].status # "none" <=> db[k].status # "none"
                         /\ db'[k].status = "failed" => db[k].status = "failed"
  <2>1. StatusRow(db[j], "processing") \in RowRec
        /\ StatusRow(db[j], "processing").attempts = db[j].attempts
        /\ StatusRow(db[j], "processing").maxAttempts = db[j].maxAttempts
        /\ StatusRow(db[j], "processing").status = "processing"
    BY <1>3, RowUpdates DEF Status
  <2>2. db' \in [Jobs -> Row]
    BY <1>1, <1>3, <1>4, <2>1 DEF TypeOK, Row
  <2>3. QED
    BY <1>1, <1>3, <1>4, <2>1, <2>2 DEF TypeOK, Row, RowRec, Status
<1>6. TypeOK'
  <2>1. pc' \in [Workers -> PC]
    BY <1>1, <1>4 DEF TypeOK, PC
  <2>2. faults' \in 0..MaxFaults
    BY <1>1, <1>4, ConstAssumption DEF TypeOK
  <2>3. activeWorkers' = activeWorkers /\ totalProcessed' = totalProcessed
        /\ totalFailed' = totalFailed
    BY <1>4 DEF stats
  <2>4. QED
    BY <1>1, <1>4, <1>5, <2>1, <2>2, <2>3 DEF TypeOK
<1>7. NoDoubleExecution'
  BY <1>1, <1>4 DEF NoDoubleExecution
<1>8. QueueConsistent'
  BY <1>1, <1>4, <1>5, QueueElems DEF QueueConsistent
<1>9. HeldConsistent'
  <2> SUFFICES ASSUME NEW v \in Workers
               PROVE  HeldConsistent!(v)'
    BY DEF HeldConsistent
  <2>1. CASE v = w
    BY <1>1, <1>2, <1>3, <1>4, <1>5, <2>1 DEF HeldConsistent, TypeOK, Busy, HeldId
  <2>2. CASE v # w
    BY <1>1, <1>4, <1>5, <2>2 DEF HeldConsistent, TypeOK, JobCopy, Busy
  <2>3. QED
    BY <2>1, <2>2
<1>10. FailedOnlyWhenExhausted'
  BY <1>1, <1>5 DEF FailedOnlyWhenExhausted
<1>11. QED
  BY <1>6, <1>7, <1>8, <1>9, <1>10 DEF IInv

LEMMA UpdateJobToCompletedStep ==
    ASSUME IInv, NEW w \in Workers, UpdateJobToCompleted(w)
    PROVE  IInv'
<1> DEFINE j == HeldId(w)
<1>1. /\ TypeOK /\ NoDoubleExecution /\ QueueConsistent /\ HeldConsistent
      /\ FailedOnlyWhenExhausted
  BY DEF IInv
<1>2. pc[w] = "complete" /\ Busy(w)
  BY DEF UpdateJobToCompleted, Busy
<1>3. held[w] \in JobCopy /\ j \in Jobs /\ db[j] \in RowRec
  BY <1>1, <1>2, BusyHeld
<1>4. /\ pc' = [pc EXCEPT ![w] = "ack"]
      /\ queue' = queue /\ held' = held /\ processingSet' = processingSet
      /\ retrySchedule' = retrySchedule /\ stats' = stats
      /\ cancelled' = cancelled /\ crashes' = crashes
      /\ \/ db' = [db EXCEPT ![j] = StatusRow(db[j], "completed")] /\ UNCHANGED faults
         \/ UNCHANGED db /\ faults < MaxFaults /\ faults' = faults + 1
  BY DEF UpdateJobToCompleted, Fault
<1>5. /\ db' \in [Jobs -> Row]
      /\ \A k \in Jobs : /\ db'[k].attempts = db[k].attempts
                         /\ db'[k].maxAttempts = db[k].maxAttempts
                         /\ db'[k].status # "none" <=> db[k].status # "none"
                         /\ db'[k].status = "failed" => db[k].status = "failed"
  <2>1. StatusRow(db[j], "completed") \in RowRec
        /\ StatusRow(db[j], "completed").attempts = db[j].attempts
        /\ StatusRow(db[j], "completed").maxAttempts = db[j].maxAttempts
        /\ StatusRow(db[j], "completed").status = "completed"
    BY <1>3, RowUpdates DEF Status
  <2>2. db' \in [Jobs -> Row]
    BY <1>1, <1>3, <1>4, <2>1 DEF TypeOK, Row
  <2>3. QED
    BY <1>1, <1>3, <1>4, <2>1, <2>2 DEF TypeOK, Row, RowRec, Status
<1>6. TypeOK'
  <2>1. pc' \in [Workers -> PC]
    BY <1>1, <1>4 DEF TypeOK, PC
  <2>2. faults' \in 0..MaxFaults
    BY <1>1, <1>4, ConstAssumption DEF TypeOK
  <2>3. activeWorkers' = activeWorkers /\ totalProcessed' = totalProcessed
        /\ totalFailed' = totalFailed
    BY <1>4 DEF stats
  <2>4. QED
    BY <1>1, <1>4, <1>5, <2>1, <2>2, <2>3 DEF TypeOK
<1>7. NoDoubleExecution'
  BY <1>1, <1>4 DEF NoDoubleExecution
<1>8. QueueConsistent'
  BY <1>1, <1>4, <1>5, QueueElems DEF QueueConsistent
<1>9. HeldConsistent'
  <2> SUFFICES ASSUME NEW v \in Workers
               PROVE  HeldConsistent!(v)'
    BY DEF HeldConsistent
  <2>1. CASE v = w
    BY <1>1, <1>2, <1>3, <1>4, <1>5, <2>1 DEF HeldConsistent, TypeOK, Busy, HeldId
  <2>2. CASE v # w
    BY <1>1, <1>4, <1>5, <2>2 DEF HeldConsistent, TypeOK, JobCopy, Busy
  <2>3. QED
    BY <2>1, <2>2
<1>10. FailedOnlyWhenExhausted'
  BY <1>1, <1>5 DEF FailedOnlyWhenExhausted
<1>11. QED
  BY <1>6, <1>7, <1>8, <1>9, <1>10 DEF IInv

LEMMA HandleStep ==
    ASSUME IInv, NEW w \in Workers, Handle(w)
    PROVE  IInv'
<1>1. /\ TypeOK /\ NoDoubleExecution /\ QueueConsistent /\ HeldConsistent
      /\ FailedOnlyWhenExhausted
  BY DEF IInv
<1>2. pc[w] = "run" /\ Busy(w)
  BY DEF Handle, Busy
<1>3. held[w] \in JobCopy /\ HeldId(w) \in Jobs /\ db[HeldId(w)] \in RowRec
  BY <1>1, <1>2, BusyHeld
<1>4. /\ db' = db /\ queue' = queue /\ processingSet' = processingSet
      /\ retrySchedule' = retrySchedule /\ stats' = stats
      /\ cancelled' = cancelled /\ crashes' = crashes /\ faults' = faults
      /\ \/ pc' = [pc EXCEPT ![w] = "complete"] /\ held' = held
         \/ pc' = [pc EXCEPT ![w] = "fail"]
            /\ held' = [held EXCEPT ![w] = IncAttempts(held[w])]
  BY DEF Handle
<1>5. /\ IncAttempts(held[w]) \in JobCopy
      /\ IncAttempts(held[w]).id = held[w].id
      /\ IncAttempts(held[w]).attempts = held[w].attempts + 1
      /\ IncAttempts(held[w]).maxAttempts = held[w].maxAttempts
  BY <1>3, CopyUpdate
<1>6. /\ held' \in [Workers -> Copy]
      /\ \A v \in Workers : held'[v].id = held[v].id
      /\ \A v \in Workers \ {w} : held'[v] = held[v]
  BY <1>1, <1>4, <1>5 DEF TypeOK, Copy
<1>7. TypeOK'
  <2>1. pc' \in [Workers -> PC]
    BY <1>1, <1>4 DEF TypeOK, PC
  <2>2. activeWorkers' = activeWorkers /\ totalProcessed' = totalProcessed
        /\ totalFailed' = totalFailed
    BY <1>4 DEF stats
  <2>3. QED
    BY <1>1, <1>4, <1>6, <2>1, <2>2 DEF TypeOK
<1>8. NoDoubleExecution'
  BY <1>1, <1>4, <1>6 DEF NoDoubleExecution
<1>9. QueueConsistent'
  BY <1>1, <1>4 DEF QueueConsistent
<1>10. HeldConsistent'
  <2> SUFFICES ASSUME NEW v \in Workers
               PROVE  HeldConsistent!(v)'
    BY DEF HeldConsistent
  <2>1. CASE v = w
    BY <1>1, <1>2, <1>3, <1>4, <1>5, <2>1 DEF HeldConsistent, TypeOK, Busy, HeldId
  <2>2. CASE v # w
    BY <1>1, <1>4, <1>6, <2>2 DEF HeldConsistent, TypeOK, Busy
  <2>3. QED
    BY <2>1, <2>2
<1>11. FailedOnlyWhenExhausted'
  BY <1>1, <1>4 DEF FailedOnlyWhenExhausted
<1>12. QED
  BY <1>7, <1>8, <1>9, <1>10, <1>11 DEF IInv

LEMMA WorkerExitStep ==
    ASSUME IInv, NEW w \in Workers, WorkerExit(w)
    PROVE  IInv'
<1>1. /\ TypeOK /\ NoDoubleExecution /\ QueueConsistent /\ HeldConsistent
      /\ FailedOnlyWhenExhausted
  BY DEF IInv
<1>2. /\ pc[w] = "idle" /\ pc' = [pc EXCEPT ![w] = "stopped"]
      /\ db' = db /\ queue' = queue /\ processingSet' = processingSet
      /\ retrySchedule' = retrySchedule /\ stats' = stats /\ held' = held
      /\ cancelled' = cancelled /\ crashes' = crashes /\ faults' = faults
  BY DEF WorkerExit
<1>3. activeWorkers' = activeWorkers /\ totalProcessed' = totalProcessed
      /\ totalFailed' = totalFailed
  BY <1>2 DEF stats
<1>4. TypeOK'
  BY <1>1, <1>2, <1>3 DEF TypeOK, PC
<1>5. HeldConsistent'
  BY <1>1, <1>2 DEF HeldConsistent, TypeOK, Busy
<1>6. QED
  BY <1>1, <1>2, <1>4, <1>5 DEF IInv, NoDoubleExecution, QueueConsistent,
                                FailedOnlyWhenExhausted

LEMMA StopStep ==
    ASSUME IInv, Stop
    PROVE  IInv'
<1>1. /\ pc' = pc /\ db' = db /\ queue' = queue /\ processingSet' = processingSet
      /\ retrySchedule' = retrySchedule /\ stats' = stats /\ held' = held
      /\ cancelled' = TRUE /\ crashes' = crashes /\ faults' = faults
  BY DEF Stop
<1>2. activeWorkers' = activeWorkers /\ totalProcessed' = totalProcessed
      /\ totalFailed' = totalFailed
  BY <1>1 DEF stats
<1>3. QED
  BY <1>1, <1>2 DEF IInv, TypeOK, NoDoubleExecution, QueueConsistent,
                    HeldConsistent, Busy, FailedOnlyWhenExhausted

LEMMA StutterStep ==
    ASSUME IInv, UNCHANGED vars
    PROVE  IInv'
<1>1. /\ pc' = pc /\ db' = db /\ queue' = queue /\ processingSet' = processingSet
      /\ retrySchedule' = retrySchedule /\ stats' = stats /\ held' = held
      /\ cancelled' = cancelled /\ crashes' = crashes /\ faults' = faults
  BY DEF vars
<1>2. activeWorkers' = activeWorkers /\ totalProcessed' = totalProcessed
      /\ totalFailed' = totalFailed
  BY <1>1 DEF stats
<1>3. QED
  BY <1>1, <1>2 DEF IInv, TypeOK, NoDoubleExecution, QueueConsistent,
                    HeldConsistent, Busy, FailedOnlyWhenExhausted

LEMMA CrashStep ==
    ASSUME IInv, Crash
    PROVE  IInv'
<1>1. /\ TypeOK /\ NoDoubleExecution /\ QueueConsistent /\ HeldConsistent
      /\ FailedOnlyWhenExhausted
  BY DEF IInv
<1>2. /\ pc' = [v \in Workers |-> "idle"] /\ held' = [v \in Workers |-> NoCopy]
      /\ activeWorkers' = 0 /\ totalProcessed' = 0 /\ totalFailed' = 0
      /\ cancelled' = FALSE /\ crashes < MaxCrashes /\ crashes' = crashes + 1
      /\ db' = db /\ queue' = queue /\ processingSet' = processingSet
      /\ retrySchedule' = retrySchedule /\ faults' = faults
  BY DEF Crash
<1>3. TypeOK'
  <2>1. held' \in [Workers -> Copy]
    BY <1>2 DEF Copy
  <2>2. pc' \in [Workers -> PC]
    BY <1>2 DEF PC
  <2>3. crashes' \in 0..MaxCrashes
    BY <1>1, <1>2, ConstAssumption DEF TypeOK
  <2>4. QED
    BY <1>1, <1>2, <2>1, <2>2, <2>3 DEF TypeOK
<1>4. NoDoubleExecution'
  BY <1>1, <1>2, QueueElems, ConstAssumption DEF NoDoubleExecution, NoCopy, JobCopy
<1>5. HeldConsistent'
  BY <1>2 DEF HeldConsistent, Busy
<1>6. QED
  BY <1>1, <1>2, <1>3, <1>4, <1>5 DEF IInv, QueueConsistent,
                                      FailedOnlyWhenExhausted

(* The steps that end processJob: the worker goes back to the loop top   *)
(* holding nothing, and the tables are left alone.                       *)
LEMMA ReleaseKeeps ==
    ASSUME IInv, NEW w \in Workers,
           pc' = [pc EXCEPT ![w] = "idle"], held' = [held EXCEPT ![w] = NoCopy],
           db' = db, queue' = queue, processingSet' \subseteq Jobs,
           retrySchedule' \subseteq Jobs, activeWorkers' \in Nat,
           totalProcessed' \in Nat, totalFailed' \in Nat,
           cancelled' = cancelled, crashes' = crashes, faults' \in 0..MaxFaults
    PROVE  IInv'
<1>1. /\ TypeOK /\ NoDoubleExecution /\ QueueConsistent /\ HeldConsistent
      /\ FailedOnlyWhenExhausted
  BY DEF IInv
<1>2. TypeOK'
  BY <1>1 DEF TypeOK, PC, Copy
<1>3. NoDoubleExecution'
  BY <1>1, QueueElems, ConstAssumption DEF NoDoubleExecution, NoCopy, JobCopy, TypeOK
<1>4. HeldConsistent'
  BY <1>1 DEF HeldConsistent, Busy, TypeOK
<1>5. QED
  BY <1>1, <1>2, <1>3, <1>4 DEF IInv, QueueConsistent, FailedOnlyWhenExhausted

LEMMA MarkProcessingStep ==
    ASSUME IInv, NEW w \in Workers, MarkProcessing(w)
    PROVE  IInv'
<1>1. /\ TypeOK /\ NoDoubleExecution /\ QueueConsistent /\ HeldConsistent
      /\ FailedOnlyWhenExhausted
  BY DEF IInv
<1>2. pc[w] = "mark" /\ Busy(w)
  BY DEF MarkProcessing, Busy
<1>3. held[w] \in JobCopy /\ HeldId(w) \in Jobs /\ db[HeldId(w)] \in RowRec
  BY <1>1, <1>2, BusyHeld
<1>4. /\ db' = db /\ queue' = queue /\ retrySchedule' = retrySchedule
      /\ cancelled' = cancelled /\ crashes' = crashes
      /\ totalProcessed' = totalProcessed /\ totalFailed' = totalFailed
  BY DEF MarkProcessing, stats
<1>5. CASE /\ processingSet' = processingSet \cup {HeldId(w)}
           /\ pc' = [pc EXCEPT ![w] = "start"]
           /\ UNCHANGED <<held, stats, faults>>
  <2>1. activeWorkers' = activeWorkers
    BY <1>5 DEF stats
  <2>2. TypeOK'
    BY <1>1, <1>3, <1>4, <1>5, <2>1 DEF TypeOK, PC
  <2>3. HeldConsistent'
    BY <1>1, <1>2, <1>4, <1>5 DEF HeldConsistent, Busy, TypeOK
  <2>4. QED
    BY <1>1, <1>4, <1>5, <2>2, <2>3 DEF IInv, NoDoubleExecution, QueueConsistent,
                                        FailedOnlyWhenExhausted
<1>6. CASE /\ faults < MaxFaults /\ faults' = faults + 1
           /\ Release(w)
           /\ activeWorkers' = DecActive
           /\ UNCHANGED processingSet
  <2>1. activeWorkers' \in Nat /\ faults' \in 0..MaxFaults
    BY <1>1, <1>6, ConstAssumption DEF DecActive, TypeOK
  <2>2. QED
    BY <1>1, <1>4, <1>6, <2>1, ReleaseKeeps DEF Release, TypeOK
<1>7. QED
  BY <1>5, <1>6 DEF MarkProcessing, Fault

LEMMA MarkCompletedStep ==
    ASSUME IInv, NEW w \in Workers, MarkCompleted(w)
    PROVE  IInv'
<1>1. TypeOK
  BY DEF IInv
<1>2. /\ Release(w) /\ db' = db /\ queue' = queue
      /\ retrySchedule' = retrySchedule /\ cancelled' = cancelled /\ crashes' = crashes
      /\ totalProcessed' = totalProcessed + 1 /\ activeWorkers' = DecActive
      /\ totalFailed' = totalFailed
      /\ \/ processingSet' = processingSet \ {HeldId(w)} /\ faults' = faults
         \/ faults < MaxFaults /\ faults' = faults + 1 /\ processingSet' = processingSet
  BY DEF MarkCompleted, Fault
<1>3. /\ activeWorkers' \in Nat /\ totalProcessed' \in Nat /\ faults' \in 0..MaxFaults
      /\ processingSet' \subseteq Jobs
  BY <1>1, <1>2, ConstAssumption DEF DecActive, TypeOK
<1>4. QED
  BY <1>1, <1>2, <1>3, ReleaseKeeps DEF Release, TypeOK

LEMMA MarkFailedStep ==
    ASSUME IInv, NEW w \in Workers, MarkFailed(w)
    PROVE  IInv'
<1>1. /\ TypeOK /\ HeldConsistent
  BY DEF IInv
<1>2. pc[w] = "nack" /\ Busy(w)
  BY DEF MarkFailed, Busy
<1>3. HeldId(w) \in Jobs
  BY <1>1, <1>2, BusyHeld
<1>4. /\ Release(w) /\ db' = db /\ queue' = queue
      /\ cancelled' = cancelled /\ crashes' = crashes
      /\ totalFailed' = totalFailed + 1 /\ activeWorkers' = DecActive
      /\ totalProcessed' = totalProcessed
      /\ \/ /\ processingSet' = processingSet \ {HeldId(w)}
            /\ retrySchedule' \subseteq retrySchedule \cup {HeldId(w)}
            /\ faults' = faults
         \/ /\ faults < MaxFaults /\ faults' = faults + 1
            /\ processingSet' = processingSet /\ retrySchedule' = retrySchedule
  BY DEF MarkFailed, Fault, HeldId
<1>5. /\ activeWorkers' \in Nat /\ totalFailed' \in Nat /\ faults' \in 0..MaxFaults
      /\ processingSet' \subseteq Jobs /\ retrySchedule' \subseteq Jobs
  BY <1>1, <1>3, <1>4, ConstAssumption DEF DecActive, TypeOK
<1>6. QED
  BY <1>1, <1>4, <1>5, ReleaseKeeps DEF Release, TypeOK

LEMMA UpdateJobToFailedOrRetryingStep ==
    ASSUME IInv, NEW w \in Workers, UpdateJobToFailedOrRetrying(w)
    PROVE  IInv'
<1> DEFINE j == HeldId(w)
           st == IF Exhausted(held[w]) THEN "failed" ELSE "retrying"
<1>1. /\ TypeOK /\ NoDoubleExecution /\ QueueConsistent /\ HeldConsistent
      /\ FailedOnlyWhenExhausted
  BY DEF IInv
<1>2. pc[w] = "fail" /\ Busy(w)
  BY DEF UpdateJobToFailedOrRetrying, Busy
<1>3. held[w] \in JobCopy /\ j \in Jobs /\ db[j] \in RowRec
  BY <1>1, <1>2, BusyHeld
<1>4. /\ held[w].attempts = db[j].attempts + 1
      /\ held[w].maxAttempts = db[j].maxAttempts
  BY <1>1, <1>2 DEF HeldConsistent, Busy, HeldId
<1>5. /\ pc' = [pc EXCEPT ![w] = "nack"]
      /\ queue' = queue /\ held' = held /\ processingSet' = processingSet
      /\ retrySchedule' = retrySchedule /\ stats' = stats
      /\ cancelled' = cancelled /\ crashes' = crashes
      /\ \/ db' = [db EXCEPT ![j] = FailRow(db[j], st)] /\ UNCHANGED faults
         \/ UNCHANGED db /\ faults < MaxFaults /\ faults' = faults + 1
  BY DEF UpdateJobToFailedOrRetrying, Fault
<1>6. /\ FailRow(db[j], st) \in RowRec
      /\ FailRow(db[j], st).status = st
      /\ FailRow(db[j], st).attempts = db[j].attempts + 1
      /\ FailRow(db[j], st).maxAttempts = db[j].maxAttempts
  BY <1>3, RowUpdates DEF Status
(* The step that decides: FAILED only when the incremented copy is       *)
(* exhausted, and then the incremented row is exhausted too.             *)
<1>7. st = "failed" => FailRow(db[j], st).attempts >= FailRow(db[j], st).maxAttempts
  BY <1>3, <1>4, <1>6 DEF Exhausted, JobCopy, RowRec
<1>8. /\ db' \in [Jobs -> Row]
      /\ \A k \in Jobs : /\ db'[k].status # "none" <=> db[k].status # "none"
                         /\ k # j => db'[k] = db[k]
      /\ \A k \in Jobs : db'[k].status = "failed" => db'[k].attempts >= db'[k].maxAttempts
  <2>1. db' \in [Jobs -> Row]
    BY <1>1, <1>3, <1>5, <1>6 DEF TypeOK, Row
  <2>2. \A k \in Jobs : /\ db'[k].status # "none" <=> db[k].status # "none"
                        /\ k # j => db'[k] = db[k]
    BY <1>1, <1>3, <1>5, <1>6 DEF TypeOK, RowRec, Status
  <2>3. \A k \in Jobs : db'[k].status = "failed" => db'[k].attempts >= db'[k].maxAttempts
    BY <1>1, <1>3, <1>5, <1>6, <1>7 DEF FailedOnlyWhenExhausted, TypeOK
  <2>4. QED
    BY <2>1, <2>2, <2>3
<1>15. db'[j].maxAttempts = db[j].maxAttempts
  BY <1>1, <1>3, <1>5, <1>6 DEF TypeOK
<1>9. TypeOK'
  <2>1. pc' \in [Workers -> PC]
    BY <1>1, <1>5 DEF TypeOK, PC
  <2>2. faults' \in 0..MaxFaults
    BY <1>1, <1>5, ConstAssumption DEF TypeOK
  <2>3. activeWorkers' = activeWorkers /\ totalProcessed' = totalProcessed
        /\ totalFailed' = totalFailed
    BY <1>5 DEF stats
  <2>4. QED
    BY <1>1, <1>5, <1>8, <2>1, <2>2, <2>3 DEF TypeOK
<1>10. NoDoubleExecution'
  BY <1>1, <1>5 DEF NoDoubleExecution
(* No queued copy is of job j, so their rows are untouched. *)
<1>11. QueueConsistent'
  <2>1. \A i \in 1..Len(queue) : queue[i].id # j
    BY <1>1 DEF NoDoubleExecution, HeldId
  <2>2. QED
    BY <1>1, <1>5, <1>8, <2>1, QueueElems DEF QueueConsistent
(* Another busy worker holds another job, so its row is untouched. *)
<1>12. HeldConsistent'
  <2> SUFFICES ASSUME NEW v \in Workers
               PROVE  HeldConsistent!(v)'
    BY DEF HeldConsistent
  <2>1. CASE v = w
    <3>1. pc'[w] = "nack" /\ held'[w] = held[w]
      BY <1>1, <1>5 DEF TypeOK
    <3>2. held[w].id = j
      BY DEF HeldId
    <3>3. db'[j].status # "none"
      BY <1>3, <1>8 DEF RowRec, Status
    <3>4. QED
      BY <1>3, <1>4, <1>15, <2>1, <3>1, <3>2, <3>3 DEF Busy
  <2>2. CASE v # w
    <3>1. Busy(v) => held[v].id # j
      BY <1>1, <1>3, <2>2, ConstAssumption DEF NoDoubleExecution, HeldId, JobCopy, HeldConsistent,
                              Busy
    <3>2. QED
      BY <1>1, <1>5, <1>8, <2>2, <3>1 DEF HeldConsistent, TypeOK, JobCopy, Busy
  <2>3. QED
    BY <2>1, <2>2
<1>13. FailedOnlyWhenExhausted'
  BY <1>8 DEF FailedOnlyWhenExhausted
<1>14. QED
  BY <1>9, <1>10, <1>11, <1>12, <1>13 DEF IInv

(* LPushFacts for the queue's element type, with the length named. *)
LEMMA LPushCopy ==
    ASSUME NEW sq \in Seq(JobCopy), NEW e \in JobCopy, NEW n \in Nat, Len(sq) = n
    PROVE  /\ LPush(e, sq) \in Seq(JobCopy)
           /\ Len(LPush(e, sq)) = n + 1
           /\ LPush(e, sq)[1] = e
           /\ \A i \in 2..n + 1 : LPush(e, sq)[i] = sq[i - 1]
  BY LPushFacts

LEMMA CreateJobStep ==
    ASSUME IInv, NEW j \in Jobs, NEW m \in MaxAttemptsReq, CreateJob(j, m)
    PROVE  IInv'
<1> DEFINE newRow == [status |-> "pending", attempts |-> 0,
                   maxAttempts |-> EffectiveMaxAttempts(m)]
           newCopy   == [id |-> j, attempts |-> 0, maxAttempts |-> newRow.maxAttempts]
<1>1. /\ TypeOK /\ NoDoubleExecution /\ QueueConsistent /\ HeldConsistent
      /\ FailedOnlyWhenExhausted
  BY DEF IInv
<1>2. newRow \in RowRec /\ newCopy \in JobCopy /\ newCopy.id = j
  BY ConstAssumption DEF EffectiveMaxAttempts, DefaultMaxAttempts, RowRec, Status,
                         JobCopy
<1>3. /\ db[j].status = "none"
      /\ db' = [db EXCEPT ![j] = newRow]
      /\ pc' = pc /\ held' = held /\ processingSet' = processingSet
      /\ retrySchedule' = retrySchedule /\ stats' = stats
      /\ cancelled' = cancelled /\ crashes' = crashes
      /\ \/ queue' = LPush(newCopy, queue) /\ faults' = faults
         \/ queue' = queue /\ faults < MaxFaults /\ faults' = faults + 1
  BY DEF CreateJob, Fault
(* Job j is new: no copy of it is queued or held. *)
<1>4. /\ \A i \in 1..Len(queue) : queue[i].id # j
      /\ \A v \in Workers : held[v].id # j
  BY <1>1, <1>3, ConstAssumption DEF QueueConsistent, HeldConsistent, NoCopy
<1>5. /\ db' \in [Jobs -> Row]
      /\ db'[j] = newRow
      /\ \A k \in Jobs \ {j} : db'[k] = db[k]
  BY <1>1, <1>2, <1>3 DEF TypeOK, Row
<1>6. activeWorkers' = activeWorkers /\ totalProcessed' = totalProcessed
      /\ totalFailed' = totalFailed
  BY <1>3 DEF stats
<1>7. HeldConsistent'
  BY <1>1, <1>3, <1>4, <1>5 DEF HeldConsistent, Busy, JobCopy
<1>8. FailedOnlyWhenExhausted'
  BY <1>1, <1>5 DEF FailedOnlyWhenExhausted
<1>9. CASE queue' = queue /\ faults < MaxFaults /\ faults' = faults + 1
  <2>1. TypeOK'
    BY <1>1, <1>3, <1>5, <1>6, <1>9, ConstAssumption DEF TypeOK
  <2>2. QueueConsistent'
    BY <1>1, <1>4, <1>5, <1>9, QueueElems DEF QueueConsistent
  <2>3. QED
    BY <1>1, <1>3, <1>7, <1>8, <1>9, <2>1, <2>2 DEF IInv, NoDoubleExecution
<1>10. CASE queue' = LPush(newCopy, queue) /\ faults' = faults
  <2>1. /\ Len(queue) \in Nat
        /\ \A i \in 1..Len(queue) : queue[i] \in JobCopy /\ queue[i].id \in Jobs
    BY <1>1, QueueElems
  <2>2. PICK n \in Nat : Len(queue) = n
    BY <2>1
  <2>3. /\ queue' \in Seq(JobCopy)
        /\ Len(queue') = n + 1
        /\ queue'[1] = newCopy
        /\ \A i \in 2..n + 1 : queue'[i] = queue[i - 1]
    <3>1. queue \in Seq(JobCopy) /\ newCopy \in JobCopy
      BY <1>1, <1>2 DEF TypeOK
    <3>2. QED
      BY <3>1, <2>2, <1>10, LPushCopy
  (* Every position of the new list holds the new copy or an old one. *)
  <2>4. \A i \in 1..n + 1 :
           \/ i = 1 /\ queue'[i] = newCopy
           \/ i \in 2..n + 1 /\ i - 1 \in 1..n /\ queue'[i] = queue[i - 1]
    BY <2>2, <2>3
  <2>5. TypeOK'
    BY <1>1, <1>3, <1>5, <1>6, <1>10, <2>3 DEF TypeOK
  <2>6. \A i, k \in 1..Len(queue') : queue'[i].id = queue'[k].id => i = k
    <3> SUFFICES ASSUME NEW i \in 1..n + 1, NEW k \in 1..n + 1,
                        queue'[i].id = queue'[k].id
                 PROVE  i = k
      BY <2>3
    <3>1. CASE i = 1 /\ k = 1
      BY <3>1
    <3>2. CASE i = 1 /\ k # 1
      BY <3>2, <2>2, <2>3, <2>4, <1>2, <1>4
    <3>3. CASE i # 1 /\ k = 1
      BY <3>3, <2>2, <2>3, <2>4, <1>2, <1>4
    <3>4. CASE i # 1 /\ k # 1
      <4>1. queue[i - 1].id = queue[k - 1].id /\ i - 1 \in 1..n /\ k - 1 \in 1..n
        BY <3>4, <2>3, <2>4
      <4>2. i - 1 = k - 1
        BY <4>1, <2>2, <1>1 DEF NoDoubleExecution
      <4>3. QED
        BY <4>2
    <3>5. QED
      BY <3>1, <3>2, <3>3, <3>4
  <2>7. \A v \in Workers, i \in 1..Len(queue') : held'[v].id # queue'[i].id
    <3> SUFFICES ASSUME NEW v \in Workers, NEW i \in 1..n + 1
                 PROVE  held[v].id # queue'[i].id
      BY <2>3, <1>3
    <3>1. CASE i = 1
      BY <3>1, <2>3, <1>2, <1>4
    <3>2. CASE i # 1
      <4>1. queue'[i] = queue[i - 1] /\ i - 1 \in 1..n
        BY <3>2, <2>4
      <4>2. QED
        BY <4>1, <2>2, <1>1 DEF NoDoubleExecution
    <3>3. QED
      BY <3>1, <3>2
  <2>8. NoDoubleExecution'
    BY <1>1, <1>3, <2>6, <2>7 DEF NoDoubleExecution
  <2>9. QueueConsistent'
    <3> SUFFICES ASSUME NEW i \in 1..n + 1
                 PROVE  /\ db'[queue'[i].id].status # "none"
                        /\ queue'[i].attempts = db'[queue'[i].id].attempts
                        /\ queue'[i].maxAttempts = db'[queue'[i].id].maxAttempts
      BY <2>3 DEF QueueConsistent
    <3>1. CASE i = 1
      BY <3>1, <2>3, <1>2, <1>5 DEF newRow, newCopy
    <3>2. CASE i # 1
      <4>1. queue'[i] = queue[i - 1] /\ i - 1 \in 1..n
        BY <3>2, <2>4
      <4>2. queue[i - 1].id # j /\ queue[i - 1].id \in Jobs
        BY <4>1, <2>1, <2>2, <1>4
      <4>3. db'[queue[i - 1].id] = db[queue[i - 1].id]
        BY <4>2, <1>5
      <4>4. QED
        BY <4>1, <4>2, <4>3, <2>2, <1>1 DEF QueueConsistent
    <3>3. QED
      BY <3>1, <3>2
  <2>10. QED
    BY <1>7, <1>8, <2>5, <2>8, <2>9 DEF IInv
<1>11. QED
  BY <1>3, <1>9, <1>10

LEMMA DequeueStep ==
    ASSUME IInv, NEW w \in Workers, Dequeue(w)
    PROVE  IInv'
<1>1. /\ TypeOK /\ NoDoubleExecution /\ QueueConsistent /\ HeldConsistent
      /\ FailedOnlyWhenExhausted
  BY DEF IInv
<1>2. /\ pc[w] = "idle" /\ queue # <<>>
      /\ held' = [held EXCEPT ![w] = RightEnd(queue)]
      /\ queue' = PopRight(queue)
      /\ pc' = [pc EXCEPT ![w] = "mark"]
      /\ activeWorkers' = activeWorkers + 1
      /\ totalProcessed' = totalProcessed /\ totalFailed' = totalFailed
      /\ db' = db /\ processingSet' = processingSet /\ retrySchedule' = retrySchedule
      /\ cancelled' = cancelled /\ faults' = faults /\ crashes' = crashes
  BY DEF Dequeue
<1>3. PICK n \in Nat : Len(queue) = n + 1
  BY <1>1, <1>2, EmptySeq DEF TypeOK
<1>4. /\ RightEnd(queue) \in JobCopy
      /\ RightEnd(queue) = queue[n + 1]
      /\ queue' \in Seq(JobCopy)
      /\ Len(queue') = n
      /\ \A i \in 1..n : queue'[i] = queue[i]
  BY <1>1, <1>2, <1>3, PopRightFacts DEF TypeOK, RightEnd
<1>5. \A i \in 1..n + 1 : queue[i] \in JobCopy
  BY <1>1, <1>3, QueueElems
<1>6. /\ held' \in [Workers -> Copy]
      /\ held'[w] = queue[n + 1]
      /\ \A v \in Workers \ {w} : held'[v] = held[v]
  BY <1>1, <1>2, <1>4 DEF TypeOK, Copy
<1>7. TypeOK'
  BY <1>1, <1>2, <1>4, <1>6 DEF TypeOK, PC
<1>8. NoDoubleExecution'
  <2>1. \A i, k \in 1..Len(queue') : queue'[i].id = queue'[k].id => i = k
    BY <1>1, <1>3, <1>4 DEF NoDoubleExecution
  <2>2. \A v, u \in Workers :
           held'[v].id = held'[u].id /\ held'[v].id # NoJob => v = u
    BY <1>1, <1>3, <1>5, <1>6 DEF NoDoubleExecution
  <2>3. \A v \in Workers, i \in 1..Len(queue') : held'[v].id # queue'[i].id
    BY <1>1, <1>3, <1>4, <1>6 DEF NoDoubleExecution
  <2>4. QED
    BY <2>1, <2>2, <2>3 DEF NoDoubleExecution
<1>9. QueueConsistent'
  BY <1>1, <1>2, <1>3, <1>4 DEF QueueConsistent
<1>10. HeldConsistent'
  <2> SUFFICES ASSUME NEW v \in Workers
               PROVE  HeldConsistent!(v)'
    BY DEF HeldConsistent
  <2>1. CASE v = w
    <3>1. /\ db[queue[n + 1].id].status # "none"
          /\ queue[n + 1].attempts = db[queue[n + 1].id].attempts
          /\ queue[n + 1].maxAttempts = db[queue[n + 1].id].maxAttempts
      BY <1>1, <1>3 DEF QueueConsistent
    <3>2. QED
      BY <1>1, <1>2, <1>4, <1>6, <2>1, <3>1 DEF TypeOK, Busy
  <2>2. CASE v # w
    BY <1>1, <1>2, <1>6, <2>2 DEF HeldConsistent, TypeOK, Busy
  <2>3. QED
    BY <2>1, <2>2
<1>11. QED
  BY <1>1, <1>2, <1>7, <1>8, <1>9, <1>10 DEF IInv, FailedOnlyWhenExhausted


-----------------------------------------------------------------------------
(* The invariant holds initially and is preserved by every step. *)

LEMMA IInvInit ==
    ASSUME Init
    PROVE  IInv
<1>1. TypeOK
  <2>1. queue \in Seq(JobCopy)
    BY EmptySeq DEF Init
  <2>2. db \in [Jobs -> Row] /\ held \in [Workers -> Copy] /\ pc \in [Workers -> PC]
    BY DEF Init, Row, Copy, PC
  <2>3. /\ processingSet \subseteq Jobs /\ retrySchedule \subseteq Jobs
        /\ activeWorkers \in Nat /\ totalProcessed \in Nat /\ totalFailed \in Nat
        /\ cancelled \in BOOLEAN
        /\ faults \in 0..MaxFaults /\ crashes \in 0..MaxCrashes
    <3>1. /\ processingSet = {} /\ retrySchedule = {}
          /\ activeWorkers = 0 /\ totalProcessed = 0 /\ totalFailed = 0
          /\ cancelled = FALSE /\ faults = 0 /\ crashes = 0
      BY DEF Init
    <3>2. faults \in 0..MaxFaults /\ crashes \in 0..MaxCrashes
      BY <3>1, ConstAssumption
    <3>3. cancelled \in BOOLEAN
      BY <3>1
    <3>4. QED
      BY <3>1, <3>2, <3>3
  <2>4. QED
    BY <2>1, <2>2, <2>3 DEF TypeOK
<1>2. NoDoubleExecution /\ QueueConsistent
  BY DEF Init, NoDoubleExecution, QueueConsistent, NoCopy
<1>3. HeldConsistent
  BY DEF Init, HeldConsistent, Busy
<1>4. FailedOnlyWhenExhausted
  BY DEF Init, FailedOnlyWhenExhausted, NoRow
<1>5. QED
  BY <1>1, <1>2, <1>3, <1>4 DEF IInv

LEMMA IInvInductive ==
    ASSUME IInv, [Next]_vars
    PROVE  IInv'
<1>1. CASE \E j \in Jobs, m \in MaxAttemptsReq : CreateJob(j, m)
  BY <1>1, CreateJobStep
<1>2. CASE \E w \in Workers : WorkerStep(w)
  <2>1. PICK w \in Workers : WorkerStep(w)
    BY <1>2
  <2>2. QED
    BY <2>1, DequeueStep, WorkerExitStep, MarkProcessingStep,
       UpdateJobToProcessingStep, HandleStep, UpdateJobToCompletedStep,
       MarkCompletedStep, UpdateJobToFailedOrRetryingStep, MarkFailedStep
       DEF WorkerStep
<1>3. CASE Stop
  BY <1>3, StopStep
<1>4. CASE Crash
  BY <1>4, CrashStep
<1>5. CASE UNCHANGED vars
  BY <1>5, StutterStep
<1>6. QED
  BY <1>1, <1>2, <1>3, <1>4, <1>5 DEF Next

(* Every behaviour of the job platform keeps the inductive invariant. *)
THEOREM IInvHolds == Spec => []IInv
  BY IInvInit, IInvInductive, PTL DEF Spec

(* Type correctness: the store, the Redis list and sets, the worker       *)
(* states and the pool counters always hold values of their types.       *)
THEOREM TypeCorrect == Spec => []TypeOK
  BY IInvHolds, PTL DEF IInv

(* No job is ever run by two workers at once or run while a copy of it   *)
(* still waits on the list (BRPOP in Dequeue, LPUSH in CreateJob), for   *)
(* any number of workers, jobs, failures and restarts.                   *)
THEOREM NoDoubleExecutionThm == Spec => []NoDoubleExecution
  BY IInvHolds, PTL DEF IInv

(* A row is FAILED only when its attempts reached max_attempts: the      *)
(* worker's in-memory decision in handleJobFailure agrees with the row.  *)
THEOREM FailedOnlyWhenExhaustedThm == Spec => []FailedOnlyWhenExhausted
  BY IInvHolds, PTL DEF IInv

====
