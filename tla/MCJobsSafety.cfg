SPECIFICATION Spec
CONSTANTS
    j1 = j1
    j2 = j2
    Jobs = {j1, j2}
    Resources = {r1, r2}
    Observers = {o1}
    NoJob = NoJob
    Scopes <- Singletons
    Routes <- AnyThenDirect
    LaunchWithinGrace = FALSE
INVARIANTS ReservationsExact TargetExclusive WorkIsReserved SucceededIsComplete
PROPERTIES TerminalIsFinal NoLateMutation CleanupSparesLive RecoveryKeepsRetained ReservationsImplemented
SYMMETRY ResourceSymmetry
