---------------------------- MODULE MCRoutesRepo ----------------------------
(***************************************************************************)
(* Model checking of RoutesRepo.                                           *)
(***************************************************************************)
EXTENDS RoutesRepo

Route(g, h, path, vip) == [GUID |-> g, Host |-> h, Path |-> path, Internal |-> TRUE, VIP |-> vip]

\* Route g1 moves between hosts a and b, g2 shares host a with it, and a route
\* without a GUID, which only a bulk sync can bring, shares host b.
Shared == {Route("g1", "a", "", "v1"), Route("g1", "b", "", "v2"),
           Route("g2", "a", "/p", "v3"), Route("", "b", "", "v4")}
=============================================================================
