------------------------------ MODULE JobStatus ------------------------------
(***************************************************************************)
(* What the jobs table promises about each job, whoever drives it (spec  *)
(* section 3, "Job").  A job is created PENDING.  It may be started      *)
(* (PROCESSING), and it is finalized from PENDING or PROCESSING:          *)
(* - COMPLETED, which is terminal;                                        *)
(* - FAILED or RETRYING, with attempts incremented by that failure.       *)
(* FAILED is chosen exactly when the failure uses up max_attempts.  A    *)
(* RETRYING job, or a FAILED one with attempts left, may be made PENDING *)
(* again.  attempts never exceeds max_attempts.                            *)
(*                                                                         *)
(* The rows have the shape of JobLifecycle's jobs table, so the           *)
(* refinement maps the table to itself.  The refinement says which        *)
(* changes of a row the code may make.                                    *)
(***************************************************************************)
EXTENDS Naturals

CONSTANTS
    Jobs,               \* job ids
    MaxAttemptsValues   \* the max_attempts a job may be created with

VARIABLE jobs           \* [Jobs -> row]

(* A row with the given status, attempts and max_attempts. *)
JobRow(st, a, m) == [status |-> st, attempts |-> a, maxAttempts |-> m]

Init == jobs = [j \in Jobs |-> JobRow("none", 0, 0)]

(* Creation: a new id becomes a PENDING row with no attempts. *)
Admit(j, n) ==
    /\ jobs[j].status = "none"
    /\ jobs' = [jobs EXCEPT ![j] = JobRow("pending", 0, n)]

(* A worker starts a PENDING job. *)
Begin(j) ==
    /\ jobs[j].status = "pending"
    /\ jobs' = [jobs EXCEPT ![j] = JobRow("processing", jobs[j].attempts,
                                          jobs[j].maxAttempts)]

(* A started, or still PENDING, job succeeds. *)
Complete(j) ==
    /\ jobs[j].status \in {"pending", "processing"}
    /\ jobs' = [jobs EXCEPT ![j] = JobRow("completed", jobs[j].attempts,
                                          jobs[j].maxAttempts)]

(* A started, or still PENDING, job fails: one more attempt, FAILED when *)
(* that reaches max_attempts and RETRYING otherwise.                      *)
Fail(j) ==
    LET a == jobs[j].attempts + 1
        m == jobs[j].maxAttempts
    IN /\ jobs[j].status \in {"pending", "processing"}
       /\ jobs' = [jobs EXCEPT ![j] = JobRow(IF a >= m THEN "failed" ELSE "retrying",
                                             a, m)]

(* A job with attempts left is made PENDING again. *)
Revive(j) ==
    /\ \/ jobs[j].status = "retrying"
       \/ jobs[j].status = "failed" /\ jobs[j].attempts < jobs[j].maxAttempts
    /\ jobs' = [jobs EXCEPT ![j] = JobRow("pending", jobs[j].attempts,
                                          jobs[j].maxAttempts)]

Next ==
    \E j \in Jobs :
        \/ \E n \in MaxAttemptsValues : Admit(j, n)
        \/ Begin(j)
        \/ Complete(j)
        \/ Fail(j)
        \/ Revive(j)

Spec == Init /\ [][Next]_jobs

-----------------------------------------------------------------------------

(* Spec section 3: attempts <= max_attempts at all times. *)
AttemptsWithinMax == \A j \in Jobs : jobs[j].attempts <= jobs[j].maxAttempts

=============================================================================
