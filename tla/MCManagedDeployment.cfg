SPECIFICATION FairSpec
CONSTANTS
    Services = {"a", "b"}
    Files = {"compose", "env"}
    Plans <- Requested
    MaxDisturbed = 2
INVARIANTS DeploymentInv JournalIsAhead
PROPERTIES SnapshotWindow NothingReplayed PromiseKept EverythingSettles
CHECK_DEADLOCK FALSE
