SPECIFICATION Spec
CONSTANTS
    j1 = j1
    j2 = j2
    Jobs = {j1}
    Resources = {r1}
    Observers = {o1}
    NoJob = NoJob
    Scopes <- Singletons
    Routes <- ManagedOnly
    LaunchWithinGrace = TRUE
INVARIANT CleanupIsRetried
