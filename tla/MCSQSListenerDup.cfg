\* Two pollers, one transient failure, one early visibility timeout: is a message completed only once?
CONSTANTS
    j1 = j1
    j2 = j2
    w1 = w1
    m1 = m1
    m2 = m2
    p1 = p1
    p2 = p2
    NoJob = NoJob
    NoMsg = NoMsg
    Jobs <- MCJobs
    Workers <- MCWorkers
    MaxAttemptsReq <- MCMaxAttemptsReq
    Messages <- MCMessages
    Poison <- MCPoison
    Pollers <- MCTwoPollers
    MaxMessages = 2
    MaxFaults = 1
    MaxCrashes = 0
    MaxEarlyTimeouts = 1
SPECIFICATION ListenerSpec
INVARIANTS
    AtMostOneCompletionPerMessage
\* Pollers and workers block once the messages are used up and Start has returned.
CHECK_DEADLOCK FALSE
