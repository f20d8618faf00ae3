------------------------- MODULE MCManagedDeployment -------------------------
(* Instances of ManagedDeployment for TLC: two services, two files.         *)
EXTENDS ManagedDeployment

Both == {"a", "b"}

P(route, operation, previous, up, next, image) ==
    [route |-> route, operation |-> operation, scheduled |-> FALSE, previous |-> previous,
     up |-> up, next |-> next, image |-> image, edited |-> {}, yard |-> {}, scoped |-> FALSE]

(* A new project; a source change of both images, one that adds and one     *)
(* that drops a service; updates asked for and scheduled, one of them with  *)
(* nothing new; a pull.                                                     *)
Sources ==
    {[P("saved", "new", {}, {}, Both, Both) EXCEPT !.edited = Files],
     [P("saved", "sync", Both, {"a"}, Both, Both) EXCEPT !.edited = Files],
     [P("saved", "sync", {"a"}, {"a"}, Both, {"b"}) EXCEPT !.edited = {"compose"}],
     [P("saved", "sync", Both, Both, {"b"}, {"b"}) EXCEPT !.edited = {"compose"}],
     [P("saved", "update", Both, Both, Both, {"a"}) EXCEPT !.scheduled = TRUE],
     P("saved", "update", Both, {"b"}, Both, {}),
     P("saved", "pull", Both, Both, Both, {"a"})}

(* Host files: all services, some, one, none in the active profiles; and    *)
(* Yard alone or beside a stopped service of its project.                   *)
Hosts ==
    {P("files", "recreate", Both, {"a"}, Both, {}),
     [P("files", "update", Both, Both, Both, {"a"}) EXCEPT !.scheduled = TRUE],
     [P("files", "recreate", Both, Both, {"a"}, {"a"}) EXCEPT !.scoped = TRUE],
     P("files", "recreate", Both, {"a"}, {}, {}),
     P("files", "pull", Both, Both, Both, {"a"}),
     [P("files", "update", {"a"}, {"a"}, {"a"}, {"a"}) EXCEPT !.yard = {"a"}],
     [P("files", "recreate", Both, {"a"}, {"a"}, {"a"}) EXCEPT !.yard = {"a"}]}

(* Yard with a running service of its project that is not in the active     *)
(* profiles.                                                                *)
BesidePeer == {[P("files", "recreate", Both, Both, {"a"}, {"a"}) EXCEPT !.yard = {"a"}]}

Requested == Sources \cup Hosts \cup BesidePeer
=============================================================================
