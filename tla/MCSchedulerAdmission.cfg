SPECIFICATION Spec
CONSTANTS
    Keys = {k1, k2}
    Standalone = {k1}
    FileBacked = {}
    SelfKeys = {k2}
    Jobs = {j1, j2}
    Images = {i1, i2}
    NoJob = NoJob
    NoImage = NoImage
    DayLength = 1
    Zones = {0}
    DueLimit = 1
    MaxTime = 2
    ManualOps = {"update", "remove"}
    MaxEvents = 1
INVARIANTS SchedInv OneAutomatic FenceRespected ScheduleMirrorsJob
SYMMETRY SchedulerSymmetry
