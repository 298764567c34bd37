----------------------------- MODULE RoutesRepo -----------------------------
(***************************************************************************)
(* models/route.go and handlers/vip_resolver.go: the routes Cloud          *)
(* Controller has told copilot about, the index from host name to route,   *)
(* and the VIP lookup that internal DNS performs through it.               *)
(*                                                                         *)
(* The mutations hold the lock throughout.  GetVIPByName takes it twice:   *)
(* once to find the GUID, once to find the route, so that any mutation can *)
(* fall in between.  The index is never cleaned by Delete or by an Upsert  *)
(* that moves a route to another host, and holds one of the routes that    *)
(* share a host.                                                           *)
(***************************************************************************)
EXTENDS GoMap, CallLog

CONSTANTS
    Routes,     \* the routes Cloud Controller may send: [GUID, Host, Path, Internal, VIP]
    Names,      \* the host names DNS may ask for, without trailing dots
    NoString,   \* "": the zero GUID, and the VIP of an answer that is not ok
    Resolvers,  \* VIP lookups that may be in progress at the same time
    MaxSync,    \* bound: routes in one bulk sync
    MaxLog      \* bound: calls between two bulk syncs, with the routes of the first

ASSUME RoutesAssumption ==
    \A r \in Routes : DOMAIN r = {"GUID", "Host", "Path", "Internal", "VIP"}
ASSUME MaxSyncAssumption == MaxSync \in Nat
ASSUME MaxLogAssumption == MaxLog \in Nat

VARIABLES
    repo,            \* map[RouteGUID]*Route
    repoByHostname,  \* map[string]RouteGUID
    lookup,          \* per resolver: the call in progress and the last answer
    log              \* history: the calls since the last bulk sync, with its routes

repoVars == <<repo, repoByHostname>>
vars == <<repo, repoByHostname, lookup, log>>

Guids == {r.GUID : r \in Routes} \cup {NoString}
Hosts == {r.Host : r \in Routes}
VIPs == {r.VIP : r \in Routes} \cup {NoString}

Lists == UNION {[1 .. n -> Routes] : n \in 0 .. MaxSync}
-----------------------------------------------------------------------------
(***************************************************************************)
(* The repository's operations, as changes of its two maps.                *)
(***************************************************************************)
\* Faulty variants: the index holds the host in place of the GUID; the index is
\* not written.
UpsertIndexesHost(route) ==
    /\ repo' = Put(repo, route.GUID, route)
    /\ repoByHostname' = Put(repoByHostname, route.Host, route.Host)
UpsertWithoutIndex(route) ==
    /\ repo' = Put(repo, route.GUID, route)
    /\ UNCHANGED repoByHostname

Upsert(route) ==
    /\ repo' = Put(repo, route.GUID, route)
    /\ repoByHostname' = Put(repoByHostname, route.Host, route.GUID)

Delete(guid) ==
    /\ repo' = Drop(repo, guid)
    /\ UNCHANGED repoByHostname

GUIDOf(route) == route.GUID
HostOf(route) == route.Host
Itself(route) == route

\* Faulty variants: every entry points at the loop variable, which ends up as
\* the last route; the old index is kept.
SyncLoopVariable(routes) ==
    LET last(route) == routes[Len(routes)] IN
    /\ repo' = Poured(routes, GUIDOf, last)
    /\ repoByHostname' = Poured(routes, HostOf, GUIDOf)
SyncKeepsIndex(routes) ==
    LET fresh == Poured(routes, HostOf, GUIDOf) IN
    /\ repo' = Poured(routes, GUIDOf, Itself)
    /\ repoByHostname' = [h \in DOMAIN repoByHostname \cup DOMAIN fresh |->
                             IF h \in DOMAIN fresh THEN fresh[h] ELSE repoByHostname[h]]

Sync(routes) ==
    /\ repo' = Poured(routes, GUIDOf, Itself)
    /\ repoByHostname' = Poured(routes, HostOf, GUIDOf)

\* A host name is registered when some route in the repository has it.
Registered(m, name) == \E g \in DOMAIN m : m[g].Host = name
-----------------------------------------------------------------------------
(***************************************************************************)
(* The mutations, as the handlers of handlers/capi.go call them.  The log  *)
(* and what a lookup in progress notices are history: whether its name has *)
(* been unregistered meanwhile, and to which routes it has been given.     *)
(***************************************************************************)
Notice ==
    lookup' = [r \in Resolvers |->
        [lookup[r] EXCEPT
            !.missed = @ \/ (lookup[r].pc = "get" /\ ~Registered(repo', lookup[r].name)),
            !.told = IF lookup[r].pc = "get" THEN @ \cup Named(log', lookup[r].name) ELSE @]]

\* validateUpsertRouteRequest, validateDeleteRouteRequest
ValidUpsert(route) == route.GUID # NoString /\ route.Host # NoString
ValidDelete(guid) == guid # NoString

UpsertRoute(route) ==
    /\ ValidUpsert(route) /\ Len(log) < MaxLog
    /\ Upsert(route)
    /\ log' = Append(log, Tells(route))
    /\ Notice

DeleteRoute(guid) ==
    /\ ValidDelete(guid) /\ Len(log) < MaxLog
    /\ Delete(guid)
    /\ log' = Append(log, Withdraws(guid))
    /\ Notice

\* The routes of a bulk sync are not validated.
SyncRoutes(routes) ==
    /\ Sync(routes)
    /\ log' = Retells(routes)
    /\ Notice
-----------------------------------------------------------------------------
(***************************************************************************)
(* VIPResolver.GetVIPByName.                                               *)
(***************************************************************************)
\* A fully qualified name as DNS asks it: a name and any number of dots.
Fqdns == [name : Names, dots : 0 .. 1]
TrimRight(fqdn) == fqdn.name

\* getGUIDByHostname, whose ok is ignored: an unknown name yields "".
GetGUIDByHostname(r, fqdn) ==
    /\ lookup[r].pc = "idle"
    /\ LET name == TrimRight(fqdn) IN
       lookup' = [lookup EXCEPT ![r] =
           [pc |-> "get", name |-> name, guid |-> Lookup(repoByHostname, name, NoString),
            missed |-> ~Registered(repo, name), told |-> Named(log, name),
            ok |-> FALSE, vip |-> NoString]]
    /\ UNCHANGED <<repoVars, log>>

\* Get(guid), and the answer.
GetByGUID(r) ==
    /\ lookup[r].pc = "get"
    /\ LET found == lookup[r].guid \in DOMAIN repo IN
       lookup' = [lookup EXCEPT ![r].pc = "idle",
                                ![r].ok = found,
                                ![r].vip = IF found THEN repo[lookup[r].guid].VIP ELSE NoString]
    /\ UNCHANGED <<repoVars, log>>
-----------------------------------------------------------------------------
Idle(name) == [pc |-> "idle", name |-> name, guid |-> NoString,
               missed |-> FALSE, told |-> {}, ok |-> FALSE, vip |-> NoString]

Init ==
    /\ repo = EmptyMap
    /\ repoByHostname = EmptyMap
    /\ lookup = [r \in Resolvers |-> Idle(NoString)]
    /\ log = <<>>

Next ==
    \/ \E route \in Routes : UpsertRoute(route)
    \/ \E guid \in Guids : DeleteRoute(guid)
    \/ \E routes \in Lists : SyncRoutes(routes)
    \/ \E r \in Resolvers, fqdn \in Fqdns : GetGUIDByHostname(r, fqdn)
    \/ \E r \in Resolvers : GetByGUID(r)

Spec == Init /\ [][Next]_vars
-----------------------------------------------------------------------------
\* The maps and the calls in progress keep their shape.
TypeOK ==
    /\ IsMap(repo, Guids, Routes)
    /\ IsMap(repoByHostname, Hosts, Guids)
    /\ lookup \in [Resolvers -> [pc : {"idle", "get"}, name : Names \cup {NoString}, guid : Guids,
                                 missed : BOOLEAN, told : SUBSET Guids, ok : BOOLEAN, vip : VIPs]]

Answers(r) == lookup[r].pc = "get" /\ lookup'[r].pc = "idle"

\* GetVIPByName reads index and repository under two locks, and the index holds
\* stale entries.  Still, an answer is never a stranger's: when a lookup answers
\* with a VIP, it is the VIP at that moment of a route that is registered and
\* that copilot was told under the very name since the bulk sync before the
\* lookup began (or of the route without a GUID that only an unvalidated bulk
\* sync can bring).  Routes may move between hosts and share them.
AnswerIsCurrent ==
    [][\A r \in Resolvers :
          Answers(r) /\ lookup'[r].ok =>
              \E g \in DOMAIN repo : /\ g \in lookup[r].told \cup {NoString}
                                     /\ repo[g].VIP = lookup'[r].vip]_vars

\* A lookup that answers "route doesn't exist" is right at some moment between
\* its two reads, whatever is upserted, deleted or replaced around them, with a
\* single exception: the name has been given to two routes, and one of them is
\* gone while the other is registered.
MissIsReal ==
    [][\A r \in Resolvers :
          Answers(r) /\ ~lookup'[r].ok =>
              \/ lookup[r].missed
              \/ \E g, h \in lookup[r].told : g \notin DOMAIN repo /\ h \in DOMAIN repo]_vars

\* The calls and the lookups, without the maps they are answered from.
Service == INSTANCE NameService WITH
    ask <- [r \in Resolvers |-> [open |-> lookup[r].pc = "get", name |-> lookup[r].name,
                                 guid |-> lookup[r].guid, ok |-> lookup[r].ok, vip |-> lookup[r].vip]]

\* Which route a lookup goes to, and what it answers, is what the list of calls
\* alone determines: the index that is never cleaned holds, for each name, the
\* route it was given to last, and the repository holds each route as it was
\* told last.  Routes that move, share a host or have no GUID included.
ImplementsNameService == Service!Spec
=============================================================================
