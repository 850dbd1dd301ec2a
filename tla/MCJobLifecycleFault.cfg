\* A queued job under one transient store or Redis failure and one worker-process restart.
CONSTANTS
    j1 = j1
    j2 = j2
    w1 = w1
    w2 = w2
    NoJob = NoJob
    Jobs <- MCJobs
    Workers <- MCWorkers
    MaxAttemptsReq <- MCMaxAttemptsReq
    MaxFaults = 1
    MaxCrashes = 1
SPECIFICATION Spec
PROPERTIES
    JobEventuallySettled
\* Workers block in BRPOP once every job id is used; the process may stop.
CHECK_DEADLOCK FALSE
