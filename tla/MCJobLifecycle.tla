--------------------------- MODULE MCJobLifecycle ---------------------------
(* Model-checking instance of JobLifecycle: two job ids, two workers.     *)
EXTENDS JobLifecycle, TLC

CONSTANTS j1, j2, w1, w2

MCJobs == {j1, j2}
MCWorkers == {w1, w2}
(* 0 takes CreateJob's default of 3; 1 makes the first failure final.    *)
MCMaxAttemptsReq == {0, 1}

(* Job ids and worker goroutines are interchangeable. *)
MCSymmetry == Permutations(MCJobs) \cup Permutations(MCWorkers)
=============================================================================
