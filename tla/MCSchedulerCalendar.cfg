SPECIFICATION FairSpec
CONSTANTS
    Keys = {k1}
    Standalone = {}
    FileBacked = {k1}
    SelfKeys = {}
    Jobs = {j1, j2}
    Images = {i1}
    NoJob = NoJob
    NoImage = NoImage
    DayLength = 2
    Zones = {0, 1}
    DueLimit = 1
    MaxTime = 5
    ManualOps = {}
    MaxEvents = 2
INVARIANT OccurrenceOnce
PROPERTY DueIsAttempted
