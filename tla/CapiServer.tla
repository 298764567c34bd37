----------------------------- MODULE CapiServer -----------------------------
(***************************************************************************)
(* handlers/capi.go on top of the three repositories it writes: routes,    *)
(* route mappings and the CAPI to Diego process associations, together     *)
(* with the Cloud Controller that drives it.                               *)
(*                                                                         *)
(* Cloud Controller owns the truth (db).  Whenever it changes a record it  *)
(* sends one unary call; calls are handled by concurrent goroutines, so    *)
(* they may be overtaken, they may be lost, and one that timed out may be  *)
(* sent again after it was handled.  At intervals Cloud Controller streams *)
(* a snapshot of everything (BulkSync), which the handler installs in      *)
(* three steps, one per repository lock.  Copilot keeps everything in      *)
(* memory: a crash empties the repositories.                               *)
(***************************************************************************)
EXTENDS GoMap, FiniteSetsExt

CONSTANTS
    Routes,        \* the routes Cloud Controller may hold
    RouteMappings, \* the route mappings it may hold
    Associations,  \* the associations it may hold: [CAPIProcessGUID, DiegoProcessGUIDs]
    NoString,      \* ""
    Word,          \* 2^32
    Streams,       \* bulk syncs that may be in progress at the same time
    MaxCalls,      \* bound: unary calls in flight
    MaxRetries,    \* bound: how often one call is sent again
    MaxCrashes     \* bound: crashes of copilot

ASSUME BoundsAssumption == MaxCalls \in Nat /\ MaxRetries \in Nat /\ MaxCrashes \in Nat
                           /\ Word \in Nat \ {0}
\* A mapping has the three fields of the API message; its weight is unsigned.
ASSUME MappingsAssumption ==
    \A m \in RouteMappings :
        /\ m = [RouteGUID |-> m.RouteGUID, CAPIProcessGUID |-> m.CAPIProcessGUID, RouteWeight |-> m.RouteWeight]
        /\ m.RouteWeight \in Nat

VARIABLES
    db,                 \* Cloud Controller: [routes, mappings, associations], maps by key
    calls,              \* unary calls in flight
    bulk,               \* per stream: the handler's progress and its request
    routes,             \* RoutesRepo.repo
    repoByHostname,     \* RoutesRepo.repoByHostname
    mappings,           \* RouteMappingsRepo.repo
    weightDenominator,  \* RouteMappingsRepo.weightDenominator
    associations,       \* CAPIDiegoProcessAssociationsRepo.Repo
    crashes

routesVars == <<routes, repoByHostname>>
mappingsVars == <<mappings, weightDenominator>>
repoVars == <<routesVars, mappingsVars, associations>>
vars == <<db, calls, bulk, routes, repoByHostname, mappings, weightDenominator, associations, crashes>>

RoutesStore == INSTANCE RoutesRepo WITH
    Names <- {}, Resolvers <- {}, MaxSync <- Cardinality(Routes), MaxLog <- 0, lookup <- <<>>, log <- <<>>,
    repo <- routes

MappingsStore == INSTANCE RouteMappingsRepo WITH
    RouteGuids <- {m.RouteGUID : m \in RouteMappings},
    CapiGuids <- {m.CAPIProcessGUID : m \in RouteMappings},
    Weights <- {m.RouteWeight : m \in RouteMappings},
    repo <- mappings

AssociationsStore == INSTANCE AssociationsRepo WITH repo <- associations
-----------------------------------------------------------------------------
(***************************************************************************)
(* Cloud Controller: a change of a record and the call that announces it.  *)
(***************************************************************************)
Call(op, arg) == [op |-> op, arg |-> arg, retries |-> 0]

Announce(op, arg) ==
    /\ Cardinality(calls) < MaxCalls
    /\ calls' = calls \cup {Call(op, arg)}
    /\ UNCHANGED <<bulk, repoVars, crashes>>

\* Create or change a record.
Save(table, key, rec, op) ==
    /\ key \in DOMAIN db[table] => db[table][key] # rec
    /\ db' = [db EXCEPT ![table] = Put(@, key, rec)]
    /\ Announce(op, rec)

\* Delete a record; the call carries what was deleted.
Destroy(table, key, op) ==
    /\ key \in DOMAIN db[table]
    /\ db' = [db EXCEPT ![table] = Drop(@, key)]
    /\ Announce(op, db[table][key])

CloudController ==
    \/ \E r \in Routes : Save("routes", r.GUID, r, "UpsertRoute")
    \/ \E r \in Routes : Destroy("routes", r.GUID, "DeleteRoute")
    \/ \E m \in RouteMappings : Save("mappings", MappingsStore!Key(m), m, "MapRoute")
    \/ \E m \in RouteMappings : Destroy("mappings", MappingsStore!Key(m), "UnmapRoute")
    \/ \E a \in Associations : Save("associations", a.CAPIProcessGUID, a, "UpsertAssociation")
    \/ \E a \in Associations : Destroy("associations", a.CAPIProcessGUID, "DeleteAssociation")
-----------------------------------------------------------------------------
(***************************************************************************)
(* The unary handlers.                                                     *)
(***************************************************************************)
\* A bulk sync that is being installed takes note of other writers (history).
Disturb(others) ==
    bulk' = [s \in Streams |-> IF s \in others THEN [bulk[s] EXCEPT !.disturbed = TRUE] ELSE bulk[s]]

\* The call leaves the network; Cloud Controller may have given up waiting and
\* send it again.
Answered(c) ==
    \/ calls' = calls \ {c}
    \/ /\ c.retries < MaxRetries
       /\ calls' = (calls \ {c}) \cup {[c EXCEPT !.retries = @ + 1]}

UpsertRoute(c) ==
    /\ c.op = "UpsertRoute"
    /\ RoutesStore!ValidUpsert(c.arg)
    /\ RoutesStore!Upsert(c.arg)
    /\ UNCHANGED <<mappingsVars, associations>>

DeleteRoute(c) ==
    /\ c.op = "DeleteRoute"
    /\ RoutesStore!ValidDelete(c.arg.GUID)
    /\ RoutesStore!Delete(c.arg.GUID)
    /\ UNCHANGED <<mappingsVars, associations>>

MapRoute(c) ==
    /\ c.op = "MapRoute"
    /\ MappingsStore!ValidRequest(c.arg)
    /\ MappingsStore!Map(c.arg)
    /\ UNCHANGED <<routesVars, associations>>

UnmapRoute(c) ==
    /\ c.op = "UnmapRoute"
    /\ MappingsStore!ValidRequest(c.arg)
    /\ MappingsStore!Unmap(c.arg)
    /\ UNCHANGED <<routesVars, associations>>

UpsertCapiDiegoProcessAssociation(c) ==
    /\ c.op = "UpsertAssociation"
    /\ AssociationsStore!ValidUpsert(c.arg)
    /\ AssociationsStore!Upsert(c.arg)
    /\ UNCHANGED <<routesVars, mappingsVars>>

DeleteCapiDiegoProcessAssociation(c) ==
    /\ c.op = "DeleteAssociation"
    /\ AssociationsStore!ValidDelete(c.arg.CAPIProcessGUID)
    /\ AssociationsStore!Delete(c.arg.CAPIProcessGUID)
    /\ UNCHANGED <<routesVars, mappingsVars>>

Handle(c) ==
    /\ \/ UpsertRoute(c) \/ DeleteRoute(c) \/ MapRoute(c) \/ UnmapRoute(c)
       \/ UpsertCapiDiegoProcessAssociation(c) \/ DeleteCapiDiegoProcessAssociation(c)
    /\ Answered(c)
    /\ Disturb(Streams)
    /\ UNCHANGED <<db, crashes>>

\* The call is lost, or a validator rejects it (codes.InvalidArgument).
Fail(c) ==
    /\ calls' = calls \ {c}
    /\ UNCHANGED <<db, bulk, repoVars, crashes>>
-----------------------------------------------------------------------------
(***************************************************************************)
(* BulkSync: receive the chunks until EOF, then syncRequest.               *)
(***************************************************************************)
NoRequest == [routes |-> EmptyMap, mappings |-> EmptyMap, associations |-> EmptyMap]
IdleStream == [pc |-> "idle", request |-> NoRequest, disturbed |-> FALSE]

\* The list in which a request carries the records of a table.
ListOf(table) ==
    LET vals == {table[k] : k \in DOMAIN table}
    IN  CHOOSE list \in [1 .. Cardinality(vals) -> vals] : {list[i] : i \in DOMAIN list} = vals

\* Cloud Controller reads its database and starts to send it.
BulkSyncStart(s) ==
    /\ bulk[s].pc = "idle"
    /\ bulk' = [bulk EXCEPT ![s] = [pc |-> "recv", request |-> db, disturbed |-> FALSE]]
    /\ UNCHANGED <<db, calls, repoVars, crashes>>

\* stream.Recv or the unmarshalling fails: return err, nothing is synced.
BulkSyncError(s) ==
    /\ bulk[s].pc = "recv"
    /\ bulk' = [bulk EXCEPT ![s] = IdleStream]
    /\ UNCHANGED <<db, calls, repoVars, crashes>>

Step(s, next) ==
    bulk' = [t \in Streams |-> IF t = s THEN next ELSE [bulk[t] EXCEPT !.disturbed = TRUE]]

\* syncRequest, one action per repository lock.
SyncMappingsStep(s) ==
    /\ bulk[s].pc = "recv"
    /\ MappingsStore!Sync(ListOf(bulk[s].request.mappings))
    /\ Step(s, [bulk[s] EXCEPT !.pc = "routes", !.disturbed = FALSE])
    /\ UNCHANGED <<db, calls, routesVars, associations, crashes>>

SyncRoutesStep(s) ==
    /\ bulk[s].pc = "routes"
    /\ RoutesStore!Sync(ListOf(bulk[s].request.routes))
    /\ Step(s, [bulk[s] EXCEPT !.pc = "associations"])
    /\ UNCHANGED <<db, calls, mappingsVars, associations, crashes>>

SyncAssociationsStep(s) ==
    /\ bulk[s].pc = "associations"
    /\ AssociationsStore!Sync(ListOf(bulk[s].request.associations))
    /\ Step(s, IdleStream)
    /\ UNCHANGED <<db, calls, routesVars, mappingsVars, crashes>>
-----------------------------------------------------------------------------
EmptyRepos ==
    /\ routes = EmptyMap /\ repoByHostname = EmptyMap
    /\ mappings = EmptyMap
    /\ weightDenominator = [r \in {m.RouteGUID : m \in RouteMappings} |-> 0]
    /\ associations = EmptyMap

\* The process dies and is started again: memory and open streams are gone.
Crash ==
    /\ crashes < MaxCrashes
    /\ crashes' = crashes + 1
    /\ routes' = EmptyMap /\ repoByHostname' = EmptyMap
    /\ mappings' = EmptyMap
    /\ weightDenominator' = [r \in DOMAIN weightDenominator |-> 0]
    /\ associations' = EmptyMap
    /\ bulk' = [s \in Streams |-> IdleStream]
    /\ UNCHANGED <<db, calls>>

Init ==
    /\ db = NoRequest
    /\ calls = {}
    /\ bulk = [s \in Streams |-> IdleStream]
    /\ EmptyRepos
    /\ crashes = 0

Install(s) == SyncMappingsStep(s) \/ SyncRoutesStep(s) \/ SyncAssociationsStep(s)

Next ==
    \/ CloudController
    \/ \E c \in calls : Handle(c) \/ Fail(c)
    \/ \E s \in Streams : BulkSyncStart(s) \/ BulkSyncError(s) \/ Install(s)
    \/ Crash

Spec == Init /\ [][Next]_vars

\* gRPC hands every call to a handler or fails it; Cloud Controller repeats the
\* bulk sync at intervals, and one that is repeated for ever gets through.
Fairness ==
    /\ WF_vars(\E c \in calls : Handle(c) \/ Fail(c))
    /\ \A s \in Streams : WF_vars(BulkSyncStart(s)) /\ SF_vars(Install(s))

FairSpec == Spec /\ Fairness
-----------------------------------------------------------------------------
\* The records copilot holds, in the shape of Cloud Controller's database.
View == [routes |-> routes, mappings |-> mappings, associations |-> associations]

\* The index leads from every route's host to a route with that host, and the
\* running sums are the sums of the weights that are mapped.
IndexRight ==
    /\ DOMAIN repoByHostname = {routes[g].Host : g \in DOMAIN routes}
    /\ \A h \in DOMAIN repoByHostname : repoByHostname[h] \in DOMAIN routes /\ routes[repoByHostname[h]].Host = h

InStep == View = db /\ IndexRight /\ MappingsStore!DenominatorExact

\* The repositories and the bulk syncs in progress keep their shape.
TypeOK ==
    /\ IsMap(routes, {r.GUID : r \in Routes}, Routes)
    /\ MappingsStore!TypeOK
    /\ IsMap(associations, {a.CAPIProcessGUID : a \in Associations}, Associations)
    /\ \A s \in Streams : bulk[s].pc \in {"idle", "recv", "routes", "associations"}
    /\ Cardinality(calls) <= MaxCalls

\* A bulk sync whose three steps no other writer disturbs installs exactly its
\* request: whatever calls were lost, doubled or overtaken before, all three
\* repositories, the host index and the running sums are then right.
BulkSyncInstalls ==
    [][\A s \in Streams :
          (SyncAssociationsStep(s) /\ ~bulk[s].disturbed) =>
              View' = bulk[s].request /\ IndexRight' /\ (MappingsStore!DenominatorExact)']_vars

\* Once Cloud Controller stops changing records, copilot ends up with exactly
\* its records and stays so, although calls were lost, doubled and reordered,
\* bulk syncs failed or overlapped, calls that were newer than a snapshot were
\* overwritten by it, running sums drifted and copilot crashed.
Converges == (<>[][UNCHANGED db]_vars) => <>[]InStep
=============================================================================
