------------------------- MODULE MCProjectScheduler -------------------------
(* Instances of ProjectScheduler for TLC.  Jobs and image sets are each    *)
(* interchangeable; keys are not: they differ in how they are updated.     *)
EXTENDS ProjectScheduler, TLC

SchedulerSymmetry == Permutations(Jobs) \cup Permutations(Images)
=============================================================================
