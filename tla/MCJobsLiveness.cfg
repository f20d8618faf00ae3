SPECIFICATION FairSpec
CONSTANTS
    j1 = j1
    j2 = j2
    Jobs = {j1}
    Resources = {r1}
    Observers = {o1, o2}
    NoJob = NoJob
    Scopes <- Singletons
    Routes <- AnyRoute
    LaunchWithinGrace = FALSE
INVARIANT JobsInv
PROPERTIES JobSettles WorkerIsRemoved
