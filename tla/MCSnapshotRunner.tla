-------------------------- MODULE MCSnapshotRunner -------------------------
(***************************************************************************)
(* Model checking of SnapshotRunner with the resources of IstioConfig, on  *)
(* one collection of each kind: a constant version and contents that come  *)
(* with the configuration, and new versions with contents that depend on   *)
(* the routes, and on the routes and the policies.                         *)
(***************************************************************************)
EXTENDS SnapshotRunner, Sequences

Istio == INSTANCE IstioConfig WITH
    Entries <- {}, PolicySet <- {}, RequestPaths <- {}, MaxInputs <- 0, collected <- <<>>, fetched <- <<>>

Entry(host, process, internal) ==
    [Hostname |-> host, Path |-> <<>>, CapiProcessGUID |-> process, RouteWeight |-> 100, Internal |-> internal,
     Backends |-> <<[Address |-> 1, Port |-> 61001, ContainerPort |-> 8080]>>, VIP |-> IF internal THEN "vip" ELSE ""]

\* Nothing, and an internal and an external route.
Empty == <<>>
Lists == {Empty, <<Entry("i", 3, TRUE), Entry("a", 1, FALSE)>>}

\* Nothing, and two sources with the same destination.
Answers == {<<>>, <<[Source |-> 1, Destination |-> 3], [Source |-> 2, Destination |-> 3]>>}

Kinds == {"Gateway", "VirtualService", "Sidecar"}
NewEachTime == {"VirtualService", "Sidecar"}

\* The resources of every input, evaluated once.
Services == [r \in Lists |-> Istio!CreateVirtualServiceResources(r)]
Sidecars == [r \in Lists |-> [p \in Answers |-> Istio!CreateSidecarResources(r, p)]]

\* Resources carry their type.
CreateResources(c, r, p, k) ==
    {<<c, body>> : body \in
        CASE c = "Gateway" -> {k}
          [] c = "VirtualService" -> {Services[r]}
          [] c = "Sidecar" -> Sidecars[r][p]}
=============================================================================
