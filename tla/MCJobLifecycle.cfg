\* Safety of the job lifecycle: two jobs, two workers, two transient
\* store/Redis failures and one process restart per behaviour.
CONSTANTS
    j1 = j1
    j2 = j2
    w1 = w1
    w2 = w2
    NoJob = NoJob
    Jobs <- MCJobs
    Workers <- MCWorkers
    MaxAttemptsReq <- MCMaxAttemptsReq
    MaxFaults = 2
    MaxCrashes = 1
SPECIFICATION Spec
SYMMETRY MCSymmetry
INVARIANTS
    TypeOK
    NoDoubleExecution
    
    ActiveWorkersAccurate
PROPERTIES
    ImplementsJobStatus
\* Workers block in BRPOP once every job id is used; the process may stop.
CHECK_DEADLOCK FALSE
