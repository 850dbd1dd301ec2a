\* A job that fails once with attempts left is never run again.
CONSTANTS
    j1 = j1
    w1 = w1
    NoJob = NoJob
    Jobs <- MCJobs
    Workers <- MCWorkers
    MaxAttemptsReq <- MCMaxAttemptsReq
    MaxFaults = 0
    MaxCrashes = 0
SPECIFICATION SchedSpec
PROPERTIES
    JobEventuallyTerminal
CHECK_DEADLOCK FALSE
