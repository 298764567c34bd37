---------------------------- MODULE MCCapiServer ----------------------------
(***************************************************************************)
(* Model checking of CapiServer.                                           *)
(***************************************************************************)
EXTENDS CapiServer

Route(g, h) == [GUID |-> g, Host |-> h, Path |-> "", Internal |-> FALSE, VIP |-> ""]
Mapping(g, p, w) == [RouteGUID |-> g, CAPIProcessGUID |-> p, RouteWeight |-> w]
Association(p, ds) == [CAPIProcessGUID |-> p, DiegoProcessGUIDs |-> ds]

\* A route, possibly one that moves to another host.
FixedRoute == {Route("g1", "a")}
MovingRoute == {Route("g1", "a"), Route("g1", "b")}
\* A mapping, possibly one that changes its weight.
FixedWeight == {Mapping("g1", "p1", 1)}
ChangingWeight == {Mapping("g1", "p1", 1), Mapping("g1", "p1", 2)}
NoProcess == {}
OneProcess == {Association("p1", <<"d1">>)}
=============================================================================
