SPECIFICATION Spec
CONSTANTS
    Services = {1, 2, 3}
    Projects <- Previews
    Confirmed <- Submitted
    MaxDisturbed = 2
INVARIANTS ReplacementInv OrderRespectsDependencies NeverBothRunning JournalIsAhead
PROPERTIES DependenciesFirst PromiseKept
CHECK_DEADLOCK FALSE
