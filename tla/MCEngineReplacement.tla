------------------------- MODULE MCEngineReplacement -------------------------
(* Instances of EngineReplacement for TLC.  Every project of three          *)
(* containers in two or three services is previewed; the replacement of     *)
(* those in Confirmed is run.                                               *)
EXTENDS EngineReplacement

CONSTANT Services

P(service, needs, after, running, selected) ==
    [service |-> service, needs |-> needs, after |-> after, running |-> running,
     selected |-> selected, unsupported |-> {}, tied |-> {}]

Pair == P(<<1, 2>>, <<{}, {}>>, <<{}, {}>>, {2}, {1, 2})

(* A chain, a stopped container beside a running one, a one-shot that       *)
(* initialises for the other, two replicas behind a dependency, one service *)
(* of a chain, and a pair that cannot be preserved or taken alone.          *)
Submitted ==
    {P(<<1, 2>>, <<{2}, {}>>, <<{}, {}>>, {1, 2}, {1, 2}),
     Pair,
     P(<<1, 2>>, <<{}, {}>>, <<{2}, {}>>, {1}, {1, 2}),
     P(<<1, 2, 2>>, <<{2}, {}, {}>>, <<{}, {}, {}>>, {1, 2, 3}, {1, 2, 3}),
     P(<<1, 2, 3>>, <<{2}, {3}, {}>>, <<{}, {}, {}>>, {1, 2, 3}, {2}),
     [Pair EXCEPT !.unsupported = {1}], [Pair EXCEPT !.tied = {2}]}

Previews ==
    Submitted \cup
    {P(service, needs, <<{}, {}, {}>>, {}, selected) :
        service \in {<<1, 2, 3>>, <<1, 1, 2>>}, needs \in [1..3 -> SUBSET Services],
        selected \in {{1, 2, 3}, {1, 3}}}
=============================================================================
