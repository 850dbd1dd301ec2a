-------------------------- MODULE MCRetryScheduler --------------------------
(* Model-checking instance of RetryScheduler. *)
EXTENDS RetryScheduler

CONSTANTS j1, w1

MCJobs == {j1}
MCWorkers == {w1}
(* The default max_attempts of 3: a first failure is not final. *)
MCMaxAttemptsReq == {0}
=============================================================================
