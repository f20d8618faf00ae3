SPECIFICATION Spec
CONSTANTS
    Releases = {"r1", "r2"}
    First = "r1"
    MaxJobs = 1
    MaxFaults = 0
PROPERTY LiveWorkerOwnsJob
CHECK_DEADLOCK FALSE
