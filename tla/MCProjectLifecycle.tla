-------------------------- MODULE MCProjectLifecycle --------------------------
(* Instances of ProjectLifecycle for TLC: containers 1 and 2 of a project   *)
(* that may gain a third, container 4 of somebody else; two volumes, one    *)
(* network and one image.                                                   *)
EXTENDS ProjectLifecycle

Nothing == [c \in Containers |-> {}]
Found(s1, s2, s4, source) ==
    [state |-> <<s1, s2, "none", s4>>, there |-> Resources, source |-> source]

R(operation, route, found) ==
    [operation |-> operation, route |-> route, host |-> found, project |-> TRUE,
     scope |-> {1, 2, 3}, active |-> {1, 2, 3}, oneoff |-> {}, yard |-> {},
     needs |-> Nothing, after |-> Nothing,
     uses |-> <<{5, 7, 8}, {7}, {6, 7}, {5, 7, 8}>>,
     owner |-> [r \in Volumes \cup Networks |-> "project"], declared |-> {7},
     volumes |-> TRUE, images |-> TRUE]

(* A project with everything selected, by either route and with or without  *)
(* metadata; with an unused volume of its own; one container, a one-off, an *)
(* anonymous and a foreign volume; a project that holds Yard.               *)
Removals ==
    {R("remove", "managed", Found("up", "done", "up", "plain")),
     [R("remove", "direct", Found("up", "created", "none", "plain")) EXCEPT !.images = FALSE],
     [R("remove", "managed", Found("none", "none", "none", "declares")) EXCEPT !.volumes = FALSE],
     [R("remove", "managed", Found("up", "none", "none", "plain")) EXCEPT !.oneoff = {3}],
     [R("remove", "direct", Found("up", "up", "none", "plain")) EXCEPT
         !.project = FALSE, !.scope = {1}, !.owner = (5 :> "anonymous" @@ 6 :> "other" @@ 7 :> "project")],
     [R("remove", "direct", Found("up", "up", "none", "plain")) EXCEPT !.yard = {2}]}

(* Container 2 waits for 1 to run, or to be done; the groups of Compose and *)
(* of the engine; Yard beside another container.                            *)
Waits == [Nothing EXCEPT ![2] = {1}]
Groups ==
    {[R(operation, route, Found(s, "done", "up", source)) EXCEPT !.needs = Waits,
                                                                 !.active = {1, 2}] :
        operation \in {"start", "stop", "restart"}, route \in {"direct", "managed"},
        s \in {"up", "done"}, source \in {"plain", "unavailable"}}
OneShot2 ==
    {[R(operation, "direct", Found("created", "created", "none", source)) EXCEPT
         !.after = Waits, !.active = {1, 2}] :
        operation \in {"start", "restart"}, source \in {"plain", "unavailable"}}
Own ==
    {[R(operation, "direct", Found("up", "up", "none", "plain")) EXCEPT !.yard = {2}] :
        operation \in {"start", "stop", "restart"}}
        \cup {[R("restart", "managed", Found("up", "up", "none", "plain")) EXCEPT !.yard = {2}]}
Single ==
    {[R(operation, "direct", Found("up", "up", "none", "plain")) EXCEPT
         !.project = FALSE, !.scope = {2}, !.yard = yard] :
        operation \in {"stop", "restart"}, yard \in {{}, {2}}}

Asked == Removals \cup Groups \cup OneShot2 \cup Own \cup Single
=============================================================================
