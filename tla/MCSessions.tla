----------------------------- MODULE MCSessions -----------------------------
(* Model-checking instance of Sessions: two users, three refresh handles, *)
(* one or two concurrent requests.                                        *)
EXTENDS Sessions, TLC

CONSTANTS u1, u2, t1, t2, t3, c1, c2

MCUsers == {u1, u2}
MCTokens == {t1, t2, t3}
MCOneClient == {c1}
MCTwoClients == {c1, c2}
=============================================================================
