---------------------------- MODULE ComposeOrder ----------------------------
(* The order in which the containers of one Compose project are started:    *)
(* internal/composeorder and the assessment of its dependency labels by     *)
(* internal/recreate.  A project is a record                                *)
(*   service : the service each container belongs to (containers are        *)
(*             numbered, several may be replicas of one service),           *)
(*   needs   : the services its label wants started or healthy,             *)
(*   after   : the services its label wants completed successfully,         *)
(*   running : the containers that run,                                     *)
(*   selected: the containers to be replaced; the others are external       *)
(*             dependencies, which are assessed and left alone,             *)
(*   unsupported : containers with settings a new one could not be given,   *)
(*   tied    : containers whose namespace, links or volumes a container     *)
(*             outside the selection uses.                                  *)
EXTENDS Integers, Sequences, FiniteSetsExt, SequencesExt, Functions

Items(p) == DOMAIN p.service
Numbered(p) == Items(p) \subseteq Nat /\ IsFiniteSet(Items(p))

Named(p, i) == p.needs[i] \cup p.after[i]

(* The containers container i depends on: every replica of a named service. *)
Dependencies(p, i) == {d \in Items(p) : p.service[d] \in Named(p, i)}

Missing(p, i) == \E s \in Named(p, i) : s \notin Range(p.service)

(* The elements of a set of numbers, the lowest first: as a slice of labels *)
(* is ranged over, and as a removal plan is sorted.                         *)
InOrder(S) ==
    [k \in 1..Cardinality(S) |-> CHOOSE x \in S : Cardinality({y \in S : y < x}) = k - 1]

(* composeorder.Labels: depth-first, dependencies first, an error for a     *)
(* cycle or a service without containers.  A visit takes the containers     *)
(* that are being visited, the order so far and whether there is an error.  *)
(* Those a label names are taken by number, not as it lists them, which     *)
(* may give another start order, never an error for one that has none.      *)
Walks(p) == [visiting : SUBSET Items(p), order : Seq(Items(p)), error : BOOLEAN]

InTurn(visit, seq, s) ==
    LET after[k \in 0..Len(seq)] == IF k = 0 THEN s ELSE visit[<<seq[k], after[k - 1]>>]
    IN after[Len(seq)]

Visited(p, visit, i, s) ==
    IF s.error \/ i \in Range(s.order) THEN s
    ELSE IF i \in s.visiting \/ Missing(p, i) THEN [s EXCEPT !.error = TRUE]
    ELSE LET t == InTurn(visit, InOrder(Dependencies(p, i)), [s EXCEPT !.visiting = @ \cup {i}])
         IN [t EXCEPT !.visiting = @ \ {i}, !.order = Append(@, i)]

Visit(p) ==
    LET visit[v \in Items(p) \X Walks(p)] == Visited(p, visit, v[1], v[2])
    IN visit

Labels(p) ==
    InTurn(Visit(p), InOrder(Items(p)), [visiting |-> {}, order |-> <<>>, error |-> FALSE])

\* Mutant: the dependencies are not looked at.
OrderByNumber(p) == InOrder(p.selected)

(* scopedDependencyOrder: the selected containers in the order of all.      *)
ScopedOrder(p) ==
    LET all == Labels(p).order
        places == InOrder({k \in DOMAIN all : all[k] \in p.selected})
    IN [j \in DOMAIN places |-> all[places[j]]]

(* assess and the checks for incoming references: what a replacement could  *)
(* not preserve, or would break for others, is refused.                     *)
Supported(p) == p.selected \cap p.unsupported = {}
Isolated(p) == p.selected \cap p.tied = {}

(* A container some other waits for to complete: it is started by a         *)
(* replacement although it does not run now.                                *)
OneShot(p) == {d \in Items(p) : \E i \in Items(p) : p.service[d] \in p.after[i]}

(* dependencyOrder: no running container may depend on a stopped service,   *)
(* and a one-shot dependency must have exited.                              *)
Assessed(p) ==
    /\ ~Labels(p).error
    /\ \A i \in Items(p), d \in Items(p) :
           /\ p.service[d] \in p.needs[i] /\ i \in p.running => d \in p.running
           /\ p.service[d] \in p.after[i] => d \notin p.running

-----------------------------------------------------------------------------
(* Reference: b is reached from a when every set that has what a depends on *)
(* and what its own members depend on has b.                                *)
Closed(p, S) == \A i \in S : Dependencies(p, i) \subseteq S
Reaches(p) ==
    {r \in Items(p) \X Items(p) :
        \A S \in SUBSET Items(p) : Dependencies(p, r[1]) \subseteq S /\ Closed(p, S) => r[2] \in S}

Orderable(p) == \A i \in Items(p) : ~Missing(p, i) /\ <<i, i>> \notin Reaches(p)

(* A start order: every selected container once, each after all selected    *)
(* ones it depends on, directly or not.                                     *)
StartOrder(p, order) ==
    /\ Len(order) = Cardinality(p.selected) /\ Range(order) = p.selected
    /\ \A a, b \in 1..Len(order) : <<order[a], order[b]>> \in Reaches(p) => b < a
=============================================================================
