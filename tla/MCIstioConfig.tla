--------------------------- MODULE MCIstioConfig ---------------------------
(***************************************************************************)
(* Model checking of IstioConfig.                                          *)
(***************************************************************************)
EXTENDS IstioConfig

Backend(a, port) == [Address |-> a, Port |-> 61000 + a, ContainerPort |-> port]
Entry(host, path, process, internal, weight) ==
    [Hostname |-> host, Path |-> path, CapiProcessGUID |-> process, RouteWeight |-> weight,
     Backends |-> IF process = 2 THEN <<Backend(2, 9090)>>
                  ELSE <<Backend(process, 8080), Backend(process + 10, 8080)>>,
     Internal |-> internal, VIP |-> IF internal THEN "vip" ELSE ""]
From(source, destination) == [Source |-> source, Destination |-> destination]

\* Paths that are prefixes of each other and one that is not, two processes on
\* one host with different container ports, a host that is also internal, and
\* a process with enough internal hosts for its slice to have spare capacity.
MixedEntries == {Entry("a", <<>>, 1, FALSE, 60), Entry("a", <<>>, 2, FALSE, 40),
                 Entry("a", <<"x">>, 1, FALSE, 100), Entry("a", <<"x", "y">>, 2, FALSE, 100),
                 Entry("a", <<"z">>, 3, FALSE, 100), Entry("a", <<>>, 3, TRUE, 100),
                 Entry("i", <<>>, 3, TRUE, 100), Entry("j", <<>>, 3, TRUE, 100), Entry("k", <<>>, 4, TRUE, 100)}
MixedPolicies == {From(1, 3), From(2, 3), From(1, 4), From(2, 4), From(2, 1)}
Paths == {<<>>, <<"x">>, <<"x", "y">>, <<"x", "y", "z">>, <<"y">>, <<"z", "x">>}
=============================================================================
