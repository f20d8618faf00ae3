SPECIFICATION FairSpec
CONSTANTS
    Keys = {k1}
    Standalone = {}
    FileBacked = {}
    SelfKeys = {k1}
    Jobs = {j1, j2}
    Images = {i1}
    NoJob = NoJob
    NoImage = NoImage
    DayLength = 1
    Zones = {0}
    DueLimit = 4
    MaxTime = 3
    ManualOps = {}
    MaxEvents = 0
PROPERTY DueIsAttempted
