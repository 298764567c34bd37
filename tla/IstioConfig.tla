---------------------------- MODULE IstioConfig ----------------------------
(***************************************************************************)
(* snapshot/config.go: the Istio resources made of the collected routes    *)
(* and the network policies.                                               *)
(*                                                                         *)
(* The resources of one type are a map from their names to their bodies.   *)
(* A name is the host name with or without the prefix "internal/".  Bodies *)
(* keep what routing depends on; constant fields (protocols, retries,      *)
(* resolution) are left out.  A path is a sequence of characters.          *)
(***************************************************************************)
EXTENDS GoMap, RouteList

CONSTANTS
    Entries,        \* the entries Collect may return, RouteWithBackends
    PolicySet,      \* the policies the policy server may return: [Source, Destination]
    RequestPaths,   \* paths a client may ask for
    MaxInputs       \* bound: entries and policies together

\* An entry is as Collect builds it: it has at least one backend, paths are
\* lists and processes have an order.
ASSUME EntriesAssumption ==
    \A e \in Entries :
        /\ e.Path \in Seq(Range(e.Path))
        /\ e.Internal \in BOOLEAN
        /\ e.CapiProcessGUID \in Int
        /\ e.Backends \in Seq(Range(e.Backends)) /\ e.Backends # <<>>

VARIABLES
    collected,      \* the entries, in the order in which Collect built them
    fetched         \* the policies, in the order of the answer

inputs == <<collected, fetched>>

\* What Collect returns.
sorted == InOrder(collected)

\* "copilot-...-for-<host>", with "internal/" in front for an internal route.
Name(route) == [Internal |-> route.Internal, Hostname |-> route.Hostname]
-----------------------------------------------------------------------------
(***************************************************************************)
(* Destination rules: one per name, a subset for every entry.              *)
(***************************************************************************)
Subsets(rules, name) == IF name \in DOMAIN rules THEN rules[name].Subsets ELSE <<>>

AddSubset(rules, route) ==
    Put(rules, Name(route),
        [Host |-> route.Hostname,
         Subsets |-> Append(Subsets(rules, Name(route)), route.CapiProcessGUID)])

\* Faulty variant: the rule of the host is made anew for every entry.
LastSubsetOnly(list) ==
    FoldLeft(LAMBDA rules, route : Put(rules, Name(route),
                 [Host |-> route.Hostname, Subsets |-> <<route.CapiProcessGUID>>]), EmptyMap, list)

CreateDestinationRuleResources(list) == FoldLeft(AddSubset, EmptyMap, list)
-----------------------------------------------------------------------------
(***************************************************************************)
(* Virtual services.  An HTTP route is shared through a pointer by         *)
(* httpRoutes and by the virtual service that created it; the virtual      *)
(* service therefore lists keys of httpRoutes.                             *)
(***************************************************************************)
createDestinationWeight(route) ==
    [Host |-> route.Hostname, Subset |-> route.CapiProcessGUID,
     Port |-> route.Backends[1].ContainerPort, Weight |-> route.RouteWeight]

\* The prefix to match is empty where the code sets no Match.
createHTTPRoute(route) ==
    [Prefix |-> IF route.Internal THEN <<>> ELSE route.Path,
     Retries |-> IF route.Internal THEN 3 ELSE 0,
     Route |-> <<createDestinationWeight(route)>>]

Http(services, name) == IF name \in DOMAIN services THEN services[name].Http ELSE <<>>

\* Faulty variant: routes with a path are appended like the others.
AddHTTPRouteLast(acc, route) ==
    LET key == routeKey(route)
        http == Http(acc.services, Name(route))
        known == key \in DOMAIN acc.httpRoutes
    IN  [services |-> Put(acc.services, Name(route),
            [Gateway |-> ~route.Internal, Http |-> IF known THEN http ELSE Append(http, key)]),
         httpRoutes |-> Put(acc.httpRoutes, key,
            IF known
            THEN [acc.httpRoutes[key] EXCEPT !.Route = Append(@, createDestinationWeight(route))]
            ELSE createHTTPRoute(route))]

\* A known host and path gets one more destination; otherwise a new HTTP route
\* goes to the front of the virtual service if it has a path, else to its end.
\* The key does not tell internal from external.
AddHTTPRoute(acc, route) ==
    LET key == routeKey(route)
        http == Http(acc.services, Name(route))
        known == key \in DOMAIN acc.httpRoutes
    IN  [services |-> Put(acc.services, Name(route),
            [Gateway |-> ~route.Internal,
             Http |-> IF known THEN http
                      ELSE IF route.Path # <<>> THEN <<key>> \o http
                      ELSE Append(http, key)]),
         httpRoutes |-> Put(acc.httpRoutes, key,
            IF known
            THEN [acc.httpRoutes[key] EXCEPT !.Route = Append(@, createDestinationWeight(route))]
            ELSE createHTTPRoute(route))]

CreateVirtualServiceResources(list) ==
    LET acc == FoldLeft(AddHTTPRoute, [services |-> EmptyMap, httpRoutes |-> EmptyMap], list)
    IN  [name \in DOMAIN acc.services |->
            [acc.services[name] EXCEPT !.Http = [i \in DOMAIN @ |-> acc.httpRoutes[@[i]]]]]
-----------------------------------------------------------------------------
(***************************************************************************)
(* Service entries: the ports and the address are those of the first       *)
(* entry, the endpoints those of all.                                      *)
(***************************************************************************)
createEndpoint(route) ==
    [i \in DOMAIN route.Backends |->
        [Address |-> route.Backends[i].Address, Port |-> route.Backends[i].Port,
         cfapp |-> route.CapiProcessGUID]]

createServiceEntry(route) ==
    [Addresses |-> IF route.Internal THEN {route.VIP} ELSE {},
     Ports |-> {route.Backends[i].ContainerPort : i \in DOMAIN route.Backends},
     Endpoints |-> <<>>]

AddEndpoints(services, route) ==
    IF route.Backends = <<>> THEN services
    ELSE LET se == IF Name(route) \in DOMAIN services THEN services[Name(route)]
                   ELSE createServiceEntry(route)
         IN  Put(services, Name(route), [se EXCEPT !.Endpoints = @ \o createEndpoint(route)])

CreateServiceEntryResources(list) == FoldLeft(AddEndpoints, EmptyMap, list)
-----------------------------------------------------------------------------
(***************************************************************************)
(* Sidecars.  routeMap and policyMap hold slices: an array on the heap and *)
(* a length.  The length of an array is the capacity of its slices.        *)
(***************************************************************************)
Hosts(heap, slice) == SubSeq(heap[slice.arr], 1, slice.len)

\* append(slice, hosts...): in place if the capacity allows, else in a new
\* array of at least twice the capacity.
GoAppend(heap, slice, hosts) ==
    LET need == slice.len + Len(hosts)
        old == heap[slice.arr]
        spare == IF need <= Len(old) THEN Len(old) - need
                 ELSE (IF 2 * Len(old) > need THEN 2 * Len(old) - need ELSE 0)
        new == Hosts(heap, slice) \o hosts
        rest == [i \in 1 .. spare |-> IF need + i <= Len(old) THEN old[need + i] ELSE ""]
    IN  IF need <= Len(old)
        THEN [heap |-> [heap EXCEPT ![slice.arr] = new \o rest], slice |-> [slice EXCEPT !.len = need]]
        ELSE [heap |-> Append(heap, new \o rest), slice |-> [arr |-> Len(heap) + 1, len |-> need]]

\* Faulty variant: external routes are taken as well.
MapAnyRoute(acc, route) ==
    IF route.CapiProcessGUID \notin DOMAIN acc.routeMap
    THEN [heap |-> Append(acc.heap, <<route.Hostname>>),
          routeMap |-> Put(acc.routeMap, route.CapiProcessGUID, [arr |-> Len(acc.heap) + 1, len |-> 1])]
    ELSE LET grown == GoAppend(acc.heap, acc.routeMap[route.CapiProcessGUID], <<route.Hostname>>)
         IN  [heap |-> grown.heap, routeMap |-> Put(acc.routeMap, route.CapiProcessGUID, grown.slice)]

\* The first loop: the internal host names of each process.
MapInternalRoute(acc, route) ==
    IF ~route.Internal THEN acc
    ELSE IF route.CapiProcessGUID \notin DOMAIN acc.routeMap
    THEN [heap |-> Append(acc.heap, <<route.Hostname>>),
          routeMap |-> Put(acc.routeMap, route.CapiProcessGUID, [arr |-> Len(acc.heap) + 1, len |-> 1])]
    ELSE LET grown == GoAppend(acc.heap, acc.routeMap[route.CapiProcessGUID], <<route.Hostname>>)
         IN  [heap |-> grown.heap, routeMap |-> Put(acc.routeMap, route.CapiProcessGUID, grown.slice)]

\* The second loop: the first policy of a source shares the slice of its
\* destination, later ones append to it.
MapPolicy(acc, policy) ==
    IF policy.Destination \notin DOMAIN acc.routeMap THEN acc
    ELSE LET dest == acc.routeMap[policy.Destination]
         IN  IF policy.Source \notin DOMAIN acc.policyMap
             THEN [acc EXCEPT !.policyMap = Put(@, policy.Source, dest)]
             ELSE LET grown == GoAppend(acc.heap, acc.policyMap[policy.Source], Hosts(acc.heap, dest))
                  IN  [acc EXCEPT !.heap = grown.heap,
                                  !.policyMap = Put(@, policy.Source, grown.slice)]

\* The third loop, in one order of the sources: it puts "internal/" in front
\* of the hosts of each source in place, so a host is seen with one prefix for
\* every slice so far that holds its element of the array.
Sidecars(acc, order) ==
    [source \in DOMAIN acc.policyMap |->
        LET slice == acc.policyMap[source]
            before == {order[j] : j \in 1 .. CHOOSE n \in DOMAIN order : order[n] = source}
        IN  [i \in 1 .. slice.len |->
                [prefixes |-> Cardinality({s \in before : /\ acc.policyMap[s].arr = slice.arr
                                                          /\ i <= acc.policyMap[s].len}),
                 host |-> acc.heap[slice.arr][i]]]]

\* Every result the arbitrary order of the range over policyMap allows.  The
\* default sidecar, which admits no host, is always there.
CreateSidecarResources(list, answer) ==
    LET mapped == FoldLeft(MapInternalRoute, [heap |-> <<>>, routeMap |-> EmptyMap], list)
        acc == FoldLeft(MapPolicy, [heap |-> mapped.heap, routeMap |-> mapped.routeMap,
                                    policyMap |-> EmptyMap], answer)
    IN  {Sidecars(acc, order) : order \in SetToSeqs(DOMAIN acc.policyMap)}
-----------------------------------------------------------------------------
(***************************************************************************)
(* The inputs grow by an entry or a policy at a time.                      *)
(***************************************************************************)
NoInputs == collected = <<>> /\ fetched = <<>>

More == Len(collected) + Len(fetched) < MaxInputs

\* Collect has one entry for each route and process.
Route(e) == More /\ e \notin Range(collected) /\ collected' = Append(collected, e) /\ UNCHANGED fetched

Policy(p) == More /\ fetched' = Append(fetched, p) /\ UNCHANGED collected

\* The next answers are unrelated to these.
Forget == collected' = <<>> /\ fetched' = <<>>

NextInput == (\E e \in Entries : Route(e)) \/ (\E p \in PolicySet : Policy(p)) \/ Forget

AnyInputs == NoInputs /\ [][NextInput]_inputs
-----------------------------------------------------------------------------
(***************************************************************************)
(* Properties.                                                             *)
(***************************************************************************)
\* No host and path is both internal and external: their entries share one
\* HTTP route, whichever comes first.
KindsApart ==
    \A r, s \in Range(collected) : routeKey(r) = routeKey(s) => r.Internal = s.Internal

\* The destinations that a request for a path of an external host should
\* have: those of the entries with the longest prefix of that path.
BestPath(host, path) ==
    LET fit == {r.Path : r \in {r \in Range(collected) :
                   ~r.Internal /\ r.Hostname = host /\ IsPrefix(r.Path, path)}}
    IN  {p \in fit : \A q \in fit : Len(q) <= Len(p)}
Wanted(host, path) ==
    {createDestinationWeight(r) : r \in {r \in Range(collected) :
        ~r.Internal /\ r.Hostname = host /\ r.Path \in BestPath(host, path)}}

\* The destinations of the first HTTP route of a virtual service that matches.
Chosen(http, path) ==
    LET fit == {i \in DOMAIN http : IsPrefix(http[i].Prefix, path)}
    IN  IF fit = {} THEN {} ELSE Range(http[Min(fit)].Route)

\* Envoy takes the first HTTP route that matches.  For every external host and
\* every path of a request that one leads to the processes mapped with the
\* longest matching path, with their weights: the order by ascending length in
\* Collect and the prepending in CreateVirtualServiceResources combine to
\* longest prefix first, whatever order the entries were built in.
RoutedToLongestPrefix ==
    KindsApart =>
        LET vss == CreateVirtualServiceResources(sorted) IN
        \A host \in {r.Hostname : r \in {r \in Range(collected) : ~r.Internal}}, path \in RequestPaths :
            Chosen(vss[[Internal |-> FALSE, Hostname |-> host]].Http, path) = Wanted(host, path)

\* Entries of the same name whose backends have different container ports:
\* the service entry only has the ports of the first.
OnePort(name) ==
    \A r, s \in Range(collected) : (Name(r) = name /\ Name(s) = name) =>
        createServiceEntry(r).Ports = createServiceEntry(s).Ports

\* Resources of different types fit together: every destination of a virtual
\* service names a subset of the destination rule of the same name, the
\* service entry of that name has exactly the backends of that process as
\* endpoints with the label of the subset, and it has the port, unless the
\* processes of the host listen on different ports.
DestinationsResolve ==
    KindsApart =>
        LET vss == CreateVirtualServiceResources(sorted)
            drs == CreateDestinationRuleResources(sorted)
            ses == CreateServiceEntryResources(sorted)
        IN  \A name \in DOMAIN vss : \A i \in DOMAIN vss[name].Http :
                \A d \in Range(vss[name].Http[i].Route) :
                    /\ d.Subset \in Range(drs[name].Subsets)
                    /\ {<<e.Address, e.Port>> : e \in {e \in Range(ses[name].Endpoints) : e.cfapp = d.Subset}}
                       = UNION {{<<b.Address, b.Port>> : b \in Range(r.Backends)} :
                             r \in {r \in Range(collected) : Name(r) = name /\ r.CapiProcessGUID = d.Subset}}
                    /\ OnePort(name) => d.Port \in ses[name].Ports

\* The internal hosts of a process, in the order of the routes.
HostsOf(process) ==
    FlattenSeq([i \in DOMAIN sorted |->
        IF sorted[i].Internal /\ sorted[i].CapiProcessGUID = process THEN <<sorted[i].Hostname>> ELSE <<>>])

\* "internal/<destination routes>" for each policy of the source.
WantedHosts(source) ==
    LET hosts == FlattenSeq([i \in DOMAIN fetched |->
                     IF fetched[i].Source = source THEN HostsOf(fetched[i].Destination) ELSE <<>>])
    IN  [i \in DOMAIN hosts |-> [prefixes |-> 1, host |-> hosts[i]]]

\* The policies of a source that lead anywhere, and where the first one does.
Routed(source) == {i \in DOMAIN fetched : fetched[i].Source = source /\ HostsOf(fetched[i].Destination) # <<>>}
FirstDestination(source) == fetched[Min(Routed(source))].Destination

Sources == {s \in {p.Source : p \in Range(fetched)} : Routed(s) # {}}

WantedSidecars == [s \in Sources |-> WantedHosts(s)]

\* The comment on the object created: a sidecar admits exactly
\* internal/<destination routes> for the destinations of its source.
SidecarsAsDocumented ==
    \A result \in CreateSidecarResources(sorted, fetched) : result = WantedSidecars

\* The aliasing of routeMap and policyMap is harmless as long as no two
\* sources have the same first destination: then every order of the range
\* over the map gives each source the internal hosts of its destinations, once
\* prefixed, in spite of the appends in place.
SidecarsExact ==
    (\A s, t \in Sources : s # t => FirstDestination(s) # FirstDestination(t))
        => \A result \in CreateSidecarResources(sorted, fetched) : result = WantedSidecars
=============================================================================
