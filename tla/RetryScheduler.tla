--------------------------- MODULE RetryScheduler ---------------------------
(***************************************************************************)
(* The job lifecycle together with the WorkerService's retry scheduler:   *)
(* every minute processRetryableJobs asks the store for FAILED rows with  *)
(* attempts < max_attempts, sets each back to PENDING and enqueues it.    *)
(* The scan of one tick is one step per job it returns; errors on one job *)
(* are logged and the scan goes on.  The "updated_at < now - 5min" filter *)
(* and the limit of 100 only delay or split a re-admission and are left   *)
(* out.                                                                    *)
(***************************************************************************)
EXTENDS JobLifecycle

(* GetRetryableJobs' WHERE clause. *)
Retryable(j) ==
    /\ db[j].status = "failed"
    /\ db[j].attempts < db[j].maxAttempts

(* processRetryableJobs, for one returned job: UpdateStatus(pending);     *)
(* if that fails, continue; else Enqueue the job as read (its attempts    *)
(* and max_attempts), whose failure is only logged.                       *)
ProcessRetryableJob(j) ==
    LET c == [id |-> j, attempts |-> db[j].attempts,
              maxAttempts |-> db[j].maxAttempts]
    IN /\ Retryable(j)
       /\ \/ /\ db' = [db EXCEPT ![j] = StatusRow(db[j], "pending")]
             /\ \/ /\ queue' = LPush(c, queue)
                   /\ UNCHANGED faults
                \/ /\ Fault
                   /\ UNCHANGED queue
          \/ /\ Fault
             /\ UNCHANGED <<db, queue>>
       /\ UNCHANGED <<processingSet, retrySchedule, pc, held, stats,
                      cancelled, crashes>>

(* The scheduler goroutine stops with the service context. *)
SchedulerStep == ~cancelled /\ \E j \in Jobs : ProcessRetryableJob(j)

SchedNext == Next \/ SchedulerStep

SchedSpec == Init /\ [][SchedNext]_vars /\ Fairness /\ WF_vars(SchedulerStep)

(* Spec section 3: COMPLETED and FAILED are the terminal states, and     *)
(* scenario S2 has a job with max_attempts = 3 that fails once and then  *)
(* completes.  So every created job should eventually reach COMPLETED or *)
(* FAILED while the service keeps running.                               *)
JobEventuallyTerminal ==
    \A j \in Jobs :
        db[j].status # "none" ~> (db[j].status \in {"completed", "failed"} \/ cancelled)
=============================================================================
