---------------------------- MODULE Reservations ----------------------------
(***************************************************************************)
(* What Yard's resource reservations promise, without jobs, workers or     *)
(* recovery (Documentation/Developer/Operation-Jobs.md, "Persisted         *)
(* contract").  An operation is admitted with all its resources or not at  *)
(* all, may extend its reservation, acts only while it holds one, and      *)
(* gives everything up at once; after that it never begins to act again.   *)
(* What an operation was doing when it gave its reservation up may be left *)
(* behind, to end by itself: the promise is not that nothing acts without  *)
(* a reservation, but that nothing else does.  OperationJobs implements it.*)
(***************************************************************************)
CONSTANTS Ops, Resources,
    None        \* no holder; not an operation

VARIABLES
    holder,     \* holder[r]: the operation that reserves resource r, or None
    acting,     \* operations that may be changing the resources they reserve
    left,       \* operations of which something is left that still acts
    spent       \* operations that have given their reservation up

rvars == <<holder, acting, left, spent>>

HeldBy(o) == {r \in Resources : holder[r] = o}

TypeOK ==
    /\ holder \in [Resources -> Ops \cup {None}]
    /\ acting \subseteq Ops
    /\ left \subseteq Ops
    /\ spent \subseteq Ops

Init ==
    /\ holder = [r \in Resources |-> None]
    /\ acting = {}
    /\ left = {}
    /\ spent = {}

Admit(o, R) ==
    /\ o \notin spent
    /\ HeldBy(o) = {}
    /\ R # {}
    /\ \A r \in R : holder[r] = None
    /\ holder' = [r \in Resources |-> IF r \in R THEN o ELSE holder[r]]
    /\ UNCHANGED <<acting, left, spent>>

Extend(o, r) ==
    /\ HeldBy(o) # {}
    /\ holder[r] = None
    /\ holder' = [holder EXCEPT ![r] = o]
    /\ UNCHANGED <<acting, left, spent>>

StartActing(o) ==
    /\ HeldBy(o) # {}
    /\ acting' = acting \cup {o}
    /\ UNCHANGED <<holder, left, spent>>

\* A crash may stop several operations at once.
StopActing(S) ==
    /\ acting' = acting \ S
    /\ left' = left \ S
    /\ UNCHANGED <<holder, spent>>

\* Only an operation that was acting leaves something behind.
Release(o) ==
    /\ HeldBy(o) # {}
    /\ holder' = [r \in Resources |-> IF holder[r] = o THEN None ELSE holder[r]]
    /\ spent' = spent \cup {o}
    /\ acting' = acting \ {o}
    /\ left' \in {left, left \cup ({o} \cap acting)}

Next ==
    \/ \E o \in Ops :
        \/ \E R \in SUBSET Resources : Admit(o, R)
        \/ \E r \in Resources : Extend(o, r)
        \/ StartActing(o)
        \/ Release(o)
    \/ \E S \in SUBSET Ops : StopActing(S)

Spec == Init /\ [][Next]_rvars

(* An operation that acts holds a reservation and has not given it up; what *)
(* was left behind belongs to one that has.                                *)
ActingHolds ==
    /\ \A o \in acting : HeldBy(o) # {} /\ o \notin spent
    /\ left \subseteq spent
=============================================================================
