SPECIFICATION FairSpec
CONSTANTS
    Releases = {"r1", "r2"}
    First = "r1"
    MaxJobs = 3
    MaxFaults = 2
INVARIANT UpdateInv
PROPERTIES WorkerOwnsJob CopyWhileStopped FailureIsFenced PromiseKept ReportsAreTrue UpdateSettles
CHECK_DEADLOCK FALSE
