\* One request at a time, a lagging replica: is a rotated or logged-out token refused?
CONSTANTS
    u1 = u1
    u2 = u2
    t1 = t1
    t2 = t2
    t3 = t3
    c1 = c1
    c2 = c2
    NoUser = NoUser
    NoToken = NoToken
    Users <- MCUsers
    Tokens <- MCTokens
    Clients <- MCOneClient
    ReplicaLags = TRUE
    MaxFaults = 0
SPECIFICATION Spec
PROPERTIES
    RefreshAcceptsOnlyLiveSession
\* Every behaviour ends once the three handles are used up.
CHECK_DEADLOCK FALSE
