\* Liveness of the job lifecycle without transient failures or restarts.
CONSTANTS
    j1 = j1
    j2 = j2
    w1 = w1
    w2 = w2
    NoJob = NoJob
    Jobs <- MCJobs
    Workers <- MCWorkers
    MaxAttemptsReq <- MCMaxAttemptsReq
    MaxFaults = 0
    MaxCrashes = 0
SPECIFICATION Spec
PROPERTIES
    JobEventuallySettled
\* Workers block in BRPOP once every job id is used; the process may stop.
CHECK_DEADLOCK FALSE
