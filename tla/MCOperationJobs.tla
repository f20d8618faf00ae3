-------------------------- MODULE MCOperationJobs --------------------------
(* Instances of OperationJobs for TLC.  A scope is one resource; a job gets *)
(* more of them by RetargetJob.  Resources are interchangeable, jobs are    *)
(* not: they differ in the routes they may take.                            *)
EXTENDS OperationJobs, TLC

CONSTANTS j1, j2

AnyRoute == [j \in Jobs |-> RouteNames]
AnyThenDirect == (j1 :> RouteNames) @@ (j2 :> {"direct"})
ManagedOnly == [j \in Jobs |-> {"managed"}]
DirectOnly == [j \in Jobs |-> {"direct"}]

Singletons == {{r} : r \in Resources}
ResourceSymmetry == Permutations(Resources)
=============================================================================
