---------------------------- MODULE MCSQSListener ----------------------------
(* Model-checking instance of SQSListener: one well-formed message and    *)
(* one poison message, one or two pollers, one pool worker.               *)
EXTENDS SQSListener, TLC

CONSTANTS j1, j2, w1, m1, m2, p1, p2

MCJobs == {j1, j2}
MCWorkers == {w1}
MCMessages == {m1, m2}
MCPoison == {m2}
MCOnePoller == {p1}
MCTwoPollers == {p1, p2}
(* HandleMessage always passes max_attempts 0, so the default applies. *)
MCMaxAttemptsReq == {0}
=============================================================================
