SPECIFICATION Spec
CONSTANTS
    Containers = {1, 2, 3, 4}
    Volumes = {5, 6}
    Networks = {7}
    Images = {8}
    Requests <- Asked
    MaxDisturbed = 2
INVARIANTS LifecycleInv VerifiedIsTrue
PROPERTY OnlyConfirmed
CHECK_DEADLOCK FALSE
