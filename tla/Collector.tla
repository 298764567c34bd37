----------------------------- MODULE Collector -----------------------------
(***************************************************************************)
(* routes/routes.go: Collect joins the four repositories into the list of  *)
(* routes with backends and weights that copilot publishes.                *)
(*                                                                         *)
(* Collect copies the route mappings and then, for each of them, asks the  *)
(* other repositories one call at a time.  Every call takes and releases   *)
(* the lock of one repository, so writers run between any two of them; in  *)
(* particular the weight is computed from a denominator that is newer than *)
(* the copied mapping.  Each action below is one such call.                *)
(*                                                                         *)
(* The writers are the unary handlers and the backend table.  A bulk sync  *)
(* needs no action of its own here: what it does to one repository is a    *)
(* sequence of single writes that no read of the collector falls between.  *)
(*                                                                         *)
(* Abstraction: CAPI process GUIDs and backend addresses are numbers, so   *)
(* that they can be sorted; a path is a sequence, of which the code only   *)
(* uses the length and the equality.                                       *)
(***************************************************************************)
EXTENDS GoMap, RouteList

CONSTANTS
    Routes,         \* the routes Cloud Controller may send
    RouteMappings,  \* the route mappings it may send
    Associations,   \* the associations it may send
    DiegoGuids,
    BackendSets,    \* what the backend table may hold per Diego GUID: [External, Internal]
    NoString,       \* ""
    ToLower(_),     \* strings.ToLower
    Word,           \* 2^32
    MaxWrites       \* bound: writes that fall into one collection

ASSUME BoundsAssumption == MaxWrites \in Nat /\ Word \in Nat \ {0}
\* A mapping has the three fields of the API message; its weight is unsigned.
ASSUME MappingsAssumption ==
    \A m \in RouteMappings :
        /\ m = [RouteGUID |-> m.RouteGUID, CAPIProcessGUID |-> m.CAPIProcessGUID, RouteWeight |-> m.RouteWeight]
        /\ m.RouteWeight \in Nat

Backends == UNION {Range(s.External) \cup Range(s.Internal) : s \in BackendSets}

\* Paths have a length, processes an order, and an absent GUID has empty sets.
ASSUME RecordsAssumption ==
    /\ \A r \in Routes : Len(r.Path) \in Nat
    /\ \A a \in Associations : a.CAPIProcessGUID \in Int /\ a.DiegoProcessGUIDs \in Seq(DiegoGuids)
    /\ BackendSets \subseteq [External : Seq(Backends), Internal : Seq(Backends)]
    /\ [External |-> <<>>, Internal |-> <<>>] \in BackendSets

VARIABLES
    routes, repoByHostname,        \* RoutesRepo
    mappings, weightDenominator,   \* RouteMappingsRepo
    associations,                  \* CAPIDiegoProcessAssociationsRepo
    content,                       \* BackendSetRepo, an absent GUID having empty sets
    col,                           \* Collect's local state
    writes,                        \* writes since Collect began
    since                          \* history: everything the repositories held since then

repoVars == <<routes, repoByHostname, mappings, weightDenominator, associations, content>>
vars == <<routes, repoByHostname, mappings, weightDenominator, associations, content, col, writes, since>>

RoutesStore == INSTANCE RoutesRepo WITH
    Names <- {}, Resolvers <- {}, MaxSync <- 0, MaxLog <- 0, lookup <- <<>>, log <- <<>>, repo <- routes

MappingsStore == INSTANCE RouteMappingsRepo WITH
    RouteGuids <- {m.RouteGUID : m \in RouteMappings},
    CapiGuids <- {m.CAPIProcessGUID : m \in RouteMappings},
    Weights <- {m.RouteWeight : m \in RouteMappings},
    repo <- mappings

AssociationsStore == INSTANCE AssociationsRepo WITH repo <- associations

Mapped == {mappings[k] : k \in DOMAIN mappings}
-----------------------------------------------------------------------------
(***************************************************************************)
(* The writers.  Cloud Controller's calls take effect exactly once.        *)
(***************************************************************************)
\* What the repositories hold, as the history records it.
Held == [routes |-> {routes[g] : g \in DOMAIN routes},
         associations |-> {associations[g] : g \in DOMAIN associations},
         backends |-> {<<d, content[d]>> : d \in DiegoGuids}]

Write ==
    /\ col.pc = "idle" \/ writes < MaxWrites
    /\ writes' = IF col.pc = "idle" THEN 0 ELSE writes + 1
    /\ since' = IF col.pc = "idle" THEN since
                ELSE [f \in DOMAIN since |-> since[f] \cup Held'[f]]
    /\ UNCHANGED col

UpsertRoute(route) ==
    /\ RoutesStore!ValidUpsert(route)
    /\ RoutesStore!Upsert(route)
    /\ UNCHANGED <<mappings, weightDenominator, associations, content>>

DeleteRoute(guid) ==
    /\ RoutesStore!ValidDelete(guid)
    /\ RoutesStore!Delete(guid)
    /\ UNCHANGED <<mappings, weightDenominator, associations, content>>

MapRoute(rm) ==
    /\ MappingsStore!Key(rm) \notin DOMAIN mappings
    /\ MappingsStore!MapRoute(rm)
    /\ UNCHANGED <<routes, repoByHostname, associations, content>>

UnmapRoute(rm) ==
    /\ rm \in Mapped
    /\ MappingsStore!UnmapRoute(rm)
    /\ UNCHANGED <<routes, repoByHostname, associations, content>>

UpsertAssociation(a) ==
    /\ AssociationsStore!ValidUpsert(a)
    /\ AssociationsStore!Upsert(a)
    /\ UNCHANGED <<routes, repoByHostname, mappings, weightDenominator, content>>

DeleteAssociation(guid) ==
    /\ AssociationsStore!ValidDelete(guid)
    /\ AssociationsStore!Delete(guid)
    /\ UNCHANGED <<routes, repoByHostname, mappings, weightDenominator, content>>

\* An event or a reconciliation changes the backends of a Diego process.
BackendsChange(d, s) ==
    /\ content' = [content EXCEPT ![d] = s]
    /\ UNCHANGED <<routes, repoByHostname, mappings, weightDenominator, associations>>

Writer ==
    /\ \/ \E route \in Routes : UpsertRoute(route) \/ DeleteRoute(route.GUID)
       \/ \E rm \in RouteMappings : MapRoute(rm) \/ UnmapRoute(rm)
       \/ \E a \in Associations : UpsertAssociation(a) \/ DeleteAssociation(a.CAPIProcessGUID)
       \/ \E d \in DiegoGuids, s \in BackendSets : BackendsChange(d, s)
    /\ Write
-----------------------------------------------------------------------------
(***************************************************************************)
(* Collect.                                                                *)
(***************************************************************************)
Idle == [pc |-> "idle", todo |-> {}, rm |-> {}, route |-> {}, procs |-> <<>>,
         backends |-> <<>>, built |-> <<>>]

\* routeMappings.List()
List ==
    /\ col.pc = "idle"
    /\ col' = [Idle EXCEPT !.pc = "range", !.todo = Mapped]
    /\ writes' = 0
    /\ since' = Held
    /\ UNCHANGED repoVars

\* The next mapping, in the arbitrary order of a range over a map, and
\* routesRepo.Get of its route.
GetRoute(rm) ==
    /\ col.pc = "range" /\ rm \in col.todo
    /\ col' = IF rm.RouteGUID \notin DOMAIN routes
              THEN [col EXCEPT !.todo = @ \ {rm}]
              ELSE [col EXCEPT !.todo = @ \ {rm}, !.pc = "association",
                               !.rm = {rm}, !.route = {routes[rm.RouteGUID]}]
    /\ UNCHANGED <<repoVars, writes, since>>

TheMapping == CHOOSE rm \in col.rm : TRUE
TheRoute == CHOOSE route \in col.route : TRUE

\* The rest of the loop's body is skipped, or done.
Continue == [col EXCEPT !.pc = "range", !.rm = {}, !.route = {}, !.procs = <<>>, !.backends = <<>>]

\* capiDiego.Get
GetAssociation ==
    /\ col.pc = "association"
    /\ LET guid == TheMapping.CAPIProcessGUID IN
       col' = IF guid \notin DOMAIN associations THEN Continue
              ELSE [col EXCEPT !.pc = "backends", !.procs = associations[guid].DiegoProcessGUIDs]
    /\ UNCHANGED <<repoVars, writes, since>>

KindOf(route) == IF route.Internal THEN "Internal" ELSE "External"

\* Faulty variant: internal routes get the external backends.
GetExternalBackends ==
    /\ col.pc = "backends" /\ col.procs # <<>>
    /\ col' = [col EXCEPT !.procs = Tail(@),
                          !.backends = @ \o content[Head(col.procs)].External]
    /\ UNCHANGED <<repoVars, writes, since>>

\* backendSet.Get or GetInternalBackends for the next Diego process
GetBackends ==
    /\ col.pc = "backends" /\ col.procs # <<>>
    /\ col' = [col EXCEPT !.procs = Tail(@),
                          !.backends = @ \o content[Head(col.procs)][KindOf(TheRoute)]]
    /\ UNCHANGED <<repoVars, writes, since>>

Hostname(route) == ToLower(route.Host)

RouteWithBackends(rm, route, backends, weight) ==
    [Hostname |-> Hostname(route), Path |-> route.Path,
     Backends |-> ByAddress(backends),
     CapiProcessGUID |-> rm.CAPIProcessGUID, RouteWeight |-> weight,
     Internal |-> route.Internal, VIP |-> route.VIP]

NoBackends ==
    /\ col.pc = "backends" /\ col.procs = <<>> /\ col.backends = <<>>
    /\ col' = Continue
    /\ UNCHANGED <<repoVars, writes, since>>

\* Faulty variant: a route without backends is built too.
GetWeightUnchecked ==
    /\ col.pc = "backends" /\ col.procs = <<>>
    /\ \E weight \in MappingsStore!GetCalculatedWeight(TheMapping) :
          col' = [Continue EXCEPT !.built =
                      Append(@, RouteWithBackends(TheMapping, TheRoute, col.backends, weight))]
    /\ UNCHANGED <<repoVars, writes, since>>

\* routeMappings.GetCalculatedWeight, and the route is built.
GetWeight ==
    /\ col.pc = "backends" /\ col.procs = <<>> /\ col.backends # <<>>
    /\ \E weight \in MappingsStore!GetCalculatedWeight(TheMapping) :
          col' = [Continue EXCEPT !.built =
                      Append(@, RouteWithBackends(TheMapping, TheRoute, col.backends, weight))]
    /\ UNCHANGED <<repoVars, writes, since>>

Finish ==
    /\ col.pc = "range" /\ col.todo = {}
    /\ col' = [Idle EXCEPT !.pc = "done", !.built = fixRouteWeights(InOrder(col.built))]
    /\ UNCHANGED <<repoVars, writes, since>>

\* The caller takes the list.
Return ==
    /\ col.pc = "done"
    /\ col' = Idle
    /\ writes' = 0
    /\ since' = [f \in DOMAIN since |-> {}]
    /\ UNCHANGED repoVars

Collect ==
    \/ List \/ (\E rm \in col.todo : GetRoute(rm)) \/ GetAssociation
    \/ GetBackends \/ NoBackends \/ GetWeight \/ Finish \/ Return
-----------------------------------------------------------------------------
Init ==
    /\ routes = EmptyMap /\ repoByHostname = EmptyMap
    /\ mappings = EmptyMap
    /\ weightDenominator = [r \in {m.RouteGUID : m \in RouteMappings} |-> 0]
    /\ associations = EmptyMap
    /\ content = [d \in DiegoGuids |-> [External |-> <<>>, Internal |-> <<>>]]
    /\ col = Idle /\ writes = 0
    /\ since = [routes |-> {}, associations |-> {}, backends |-> {}]

Next == Writer \/ Collect

Spec == Init /\ [][Next]_vars
-----------------------------------------------------------------------------
(***************************************************************************)
(* Properties.                                                             *)
(***************************************************************************)
Published == IF col.pc = "done" THEN col.built ELSE <<>>
Entries == {Published[i] : i \in DOMAIN Published}

\* Cloud Controller's calls take effect exactly once here, so the incremental
\* sums of the mappings repository are the sums of the mapped weights after any
\* sequence of MapRoute and UnmapRoute.
SumsExact == MappingsStore!DenominatorExact

\* Collect's local state and the entries it builds keep their shape.
TypeOK ==
    /\ MappingsStore!TypeOK
    /\ col.todo \cup col.rm \subseteq RouteMappings /\ col.route \subseteq Routes
    /\ col.procs \in Seq(DiegoGuids)
    /\ col.backends \in Seq(Backends)
    /\ \A i \in DOMAIN col.built : col.built[i].Backends # <<>>

\* Ways to pick one backend set per Diego process of an association from the
\* history, concatenated and sorted.
Gathered(a, kind) ==
    {ByAddress(FlattenSeq([i \in DOMAIN a.DiegoProcessGUIDs |-> f[i][kind]])) :
        f \in {f \in [DOMAIN a.DiegoProcessGUIDs -> BackendSets] :
                  \A i \in DOMAIN f : <<a.DiegoProcessGUIDs[i], f[i]>> \in since.backends}}

\* Whatever is written while Collect runs, every entry it publishes is made of
\* one route, one association of its process and the backends of that
\* association's Diego processes, each of which copilot held at some moment
\* since Collect began, and the backends are the internal ones exactly when the
\* route is internal: reads of different moments are never mixed up within one
\* repository's answer, and nothing older is published.
EntriesWereHeld ==
    \A e \in Entries :
        \E route \in since.routes, a \in since.associations :
            /\ e.Hostname = Hostname(route) /\ e.Path = route.Path
            /\ e.Internal = route.Internal /\ e.VIP = route.VIP
            /\ a.CAPIProcessGUID = e.CapiProcessGUID
            /\ e.Backends \in Gathered(a, KindOf(route))

\* What a mapping should contribute in the present state, and whether it does.
BackendsOf(rm) ==
    LET a == associations[rm.CAPIProcessGUID].DiegoProcessGUIDs
    IN  FlattenSeq([i \in DOMAIN a |-> content[a[i]][KindOf(routes[rm.RouteGUID])]])
Contributes(rm) ==
    /\ rm.RouteGUID \in DOMAIN routes
    /\ rm.CAPIProcessGUID \in DOMAIN associations
    /\ BackendsOf(rm) # <<>>
Contribution(rm, weight) == RouteWithBackends(rm, routes[rm.RouteGUID], BackendsOf(rm), weight)

\* A collection that no write falls into publishes exactly one entry for each
\* mapping that has a registered route, an association and a backend, with
\* that mapping's data, shorter paths first and routes without path last.
CollectExact ==
    (col.pc = "done" /\ writes = 0) =>
        LET live == {rm \in Mapped : Contributes(rm)} IN
        /\ {[e EXCEPT !.RouteWeight = 0] : e \in Entries} = {Contribution(rm, 0) : rm \in live}
        /\ Len(Published) = Cardinality(live)
        /\ \A i, j \in DOMAIN Published : Comes(Published[i], Published[j]) => i < j

SumOf(key) ==
    FoldLeft(LAMBDA sum, e : IF routeKey(e) = key THEN Add32(sum, e.RouteWeight) ELSE sum, 0, Published)

RouteKeyOf(g) == <<Hostname(routes[g]), routes[g].Path>>

\* The routes whose every mapped process has backends and whose host name and
\* path no other route has.
Whole == {g \in DOMAIN routes :
             /\ \A h \in DOMAIN routes : RouteKeyOf(h) = RouteKeyOf(g) => h = g
             /\ \E rm \in Mapped : rm.RouteGUID = g
             /\ \A rm \in Mapped : rm.RouteGUID = g => Contributes(rm)}

\* Every weight is an int32, even one computed from a denominator that a write
\* has changed or cleared.  For the routes above, a collection that no write
\* falls into publishes weights that add up to 100 exactly and each differ by at
\* most one percentage point from the process's true share, in spite of two
\* roundings in single precision, a truncation and a correction that depends on
\* the order.
WeightsWhole ==
    /\ \A i \in DOMAIN col.built : col.built[i].RouteWeight \in MinInt32 .. MaxInt32
    /\ (col.pc = "done" /\ writes = 0) =>
          \A g \in Whole :
              /\ SumOf(RouteKeyOf(g)) = 100
              /\ \A rm \in Mapped, e \in Entries :
                    (rm.RouteGUID = g /\ routeKey(e) = RouteKeyOf(g) /\ e.CapiProcessGUID = rm.CAPIProcessGUID)
                        => LET d == weightDenominator[g]
                           IN  e.RouteWeight * d - 100 * rm.RouteWeight \in -d .. d
=============================================================================
