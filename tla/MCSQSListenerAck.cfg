\* One transient failure: is a message deleted only after its job exists?
CONSTANTS
    j1 = j1
    j2 = j2
    w1 = w1
    m1 = m1
    m2 = m2
    p1 = p1
    p2 = p2
    NoJob = NoJob
    NoMsg = NoMsg
    Jobs <- MCJobs
    Workers <- MCWorkers
    MaxAttemptsReq <- MCMaxAttemptsReq
    Messages <- MCMessages
    Poison <- MCPoison
    Pollers <- MCOnePoller
    MaxMessages = 2
    MaxFaults = 1
    MaxCrashes = 0
    MaxEarlyTimeouts = 0
SPECIFICATION ListenerSpec
INVARIANTS
    AckedMessageHasJob
\* Pollers and workers block once the messages are used up and Start has returned.
CHECK_DEADLOCK FALSE
