\* Two concurrent requests and one failed statement: is a user left with one session?
CONSTANTS
    u1 = u1
    u2 = u2
    t1 = t1
    t2 = t2
    t3 = t3
    c1 = c1
    c2 = c2
    NoUser = NoUser
    NoToken = NoToken
    Users <- MCUsers
    Tokens <- MCTokens
    Clients <- MCTwoClients
    ReplicaLags = FALSE
    MaxFaults = 1
SPECIFICATION Spec
INVARIANTS
    AtMostOneActiveSession
\* Every behaviour ends once the three handles are used up.
CHECK_DEADLOCK FALSE
