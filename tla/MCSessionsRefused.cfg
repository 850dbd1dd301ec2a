\* Two concurrent requests, a lagging replica, one failed statement: does a refused refresh token stay refused?
CONSTANTS
    u1 = u1
    u2 = u2
    t1 = t1
    t2 = t2
    t3 = t3
    c1 = c1
    c2 = c2
    NoUser = NoUser
    NoToken = NoToken
    Users <- MCUsers
    Tokens <- MCTokens
    Clients <- MCTwoClients
    ReplicaLags = TRUE
    MaxFaults = 1
SPECIFICATION Spec
PROPERTIES
    RefusedStaysRefused
\* Every behaviour ends once the three handles are used up.
CHECK_DEADLOCK FALSE
