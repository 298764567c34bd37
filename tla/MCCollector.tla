---------------------------- MODULE MCCollector ----------------------------
(***************************************************************************)
(* Model checking of Collector.                                            *)
(***************************************************************************)
EXTENDS Collector

Route(g, h, path, internal) ==
    [GUID |-> g, Host |-> h, Path |-> path, Internal |-> internal, VIP |-> IF internal THEN "vip" ELSE ""]
Mapping(g, p, w) == [RouteGUID |-> g, CAPIProcessGUID |-> p, RouteWeight |-> w]
Association(p, ds) == [CAPIProcessGUID |-> p, DiegoProcessGUIDs |-> ds]
Backend(a) == [Address |-> a, Port |-> 61000 + a, ContainerPort |-> 8080]
Sets(external, internal) == [External |-> external, Internal |-> internal]

LowerCase(h) == IF h = "A" THEN "a" ELSE h
None == Sets(<<>>, <<>>)

\* A route with three processes whose weights single precision treats badly,
\* one of which may change its weight, without a path or with the longer one,
\* and a route with a shorter path that shares the host name once it is in
\* lower case and may turn internal.
TwoRoutes == {Route("g1", "A", <<>>, FALSE), Route("g1", "A", <<"x", "y">>, FALSE),
              Route("g2", "a", <<"x">>, FALSE), Route("g2", "a", <<"x">>, TRUE)}
Awkward == {Mapping("g1", 1, 53), Mapping("g1", 2, 47), Mapping("g1", 3, 1), Mapping("g1", 3, 128),
            Mapping("g2", 1, 1)}
SharedDiego == {Association(1, <<"d1", "d2">>), Association(2, <<"d2">>), Association(3, <<"d1">>)}
TwoSets == {None, Sets(<<Backend(2), Backend(1)>>, <<Backend(5)>>)}
=============================================================================
