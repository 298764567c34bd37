--------------------------- MODULE SnapshotRunner --------------------------
(***************************************************************************)
(* snapshot/snapshot.go: at every tick the runner collects the routes,     *)
(* fetches the policies and, if anything has changed, publishes a new      *)
(* snapshot through the MCP cache, from where it reaches Pilot collection  *)
(* by collection.                                                          *)
(*                                                                         *)
(* The MCP cache, source and sink are Istio's, vendored with copilot: a    *)
(* request carries the version of the response it answers, accepted or     *)
(* refused, the cache answers at once if its snapshot has another version  *)
(* and keeps the request as a watch otherwise, and SetSnapshot answers the *)
(* watches whose version differs.  A new stream starts from the empty      *)
(* version.                                                                *)
(*                                                                         *)
(* Collect is one step here; how it reads the repositories while they      *)
(* change is the subject of Collector.                                     *)
(***************************************************************************)
EXTENDS Integers, Functions

CONSTANTS
    Collections,        \* the type URLs that Pilot subscribes to
    Versioned,          \* those published with the new version, the others with "1"
    RouteLists,         \* what Collect may return
    PolicyLists,        \* what the policy server may return
    CertLists,          \* TLSPems of the configuration
    Create(_, _, _, _), \* resources of a collection from routes, policies and certificates
    NoRoutes,           \* what Collect returns while nothing has been synced
    Nothing,            \* nil: a value that has not been set yet
    MaxChanges,         \* bound: changes of routes and policies
    MaxBreaks,          \* bound: crashes, signals, broken streams and refusals
    ClientKinds         \* how policyServerClient may be configured

\* Unless a collection is published with a new version each time, the
\* certificates determine it.
ASSUME CreateAssumption ==
    /\ Versioned \subseteq Collections
    /\ \A c \in Collections \ Versioned, r, s \in RouteLists, p, q \in PolicyLists, k \in CertLists :
          /\ Create(c, r, p, k) = Create(c, s, q, k)
          /\ \A x, y \in Create(c, r, p, k) : x = y

ASSUME BoundsAssumption ==
    /\ MaxChanges \in Nat /\ MaxBreaks \in Nat
    /\ NoRoutes \in RouteLists
    /\ ClientKinds \subseteq {"client", "nil pointer"}

VARIABLES
    routes, policies,   \* what Collect and the policy server would answer now
    certs,              \* TLSPems of the running copilot
    policyServerClient, \* a client, or the nil pointer main.go passes if it is disabled
    run,                \* where Run is, with its locals
    cached,             \* cachedRoutes, cachedPolicies
    initialized,
    ver,
    shot,               \* the snapshot in the MCP cache
    stream,             \* state of each collection in Pilot's MCP stream
    objects,            \* what Pilot has applied
    refused,            \* collections whose last response Pilot has refused
    changes, breaks     \* bounds used up

copilotVars == <<certs, policyServerClient, run, cached, initialized, ver, shot>>
vars == <<routes, policies, copilotVars, stream, objects, refused, changes, breaks>>

Up == run.pc \notin {"down", "panicked"}
-----------------------------------------------------------------------------
(***************************************************************************)
(* The inputs.                                                             *)
(***************************************************************************)
RoutesChange(r) ==
    /\ changes < MaxChanges /\ changes' = changes + 1
    /\ r # routes /\ routes' = r
    /\ UNCHANGED <<policies, copilotVars, stream, objects, refused, breaks>>

PoliciesChange(p) ==
    /\ changes < MaxChanges /\ changes' = changes + 1
    /\ p # policies /\ policies' = p
    /\ UNCHANGED <<routes, copilotVars, stream, objects, refused, breaks>>
-----------------------------------------------------------------------------
(***************************************************************************)
(* MCP: the cache in copilot, one watch for each collection of the stream. *)
(* Version 0 is the empty string.                                          *)
(***************************************************************************)
NoSnapshot == [c \in Collections |-> [version |-> 0, resources |-> Nothing]]
NoStream == [c \in Collections |-> [at |-> "closed", version |-> 0, resources |-> Nothing]]

Response(entry) == [at |-> "response", version |-> entry.version, resources |-> entry.resources]

\* Cache.SetSnapshot
SetSnapshot(new) ==
    /\ shot' = new
    /\ stream' = [c \in Collections |->
                     IF stream[c].at = "watch" /\ stream[c].version # new[c].version
                     THEN Response(new[c]) ELSE stream[c]]

\* Pilot opens a stream and asks for every collection.
Connect ==
    /\ Up /\ run.pc # "stopping"
    /\ \A c \in Collections : stream[c].at = "closed"
    /\ stream' = [c \in Collections |-> [at |-> "request", version |-> 0, resources |-> Nothing]]
    /\ UNCHANGED <<routes, policies, copilotVars, objects, refused, changes, breaks>>

\* Cache.Watch
Watch(c) ==
    /\ Up /\ stream[c].at = "request"
    /\ stream' = [stream EXCEPT ![c] = IF initialized /\ shot[c].version # @.version
                                       THEN Response(shot[c])
                                       ELSE [@ EXCEPT !.at = "watch"]]
    /\ UNCHANGED <<routes, policies, copilotVars, objects, refused, changes, breaks>>

\* The next request names the version of the response, ACK and NACK alike.
Request(c) ==
    stream' = [stream EXCEPT ![c] = [at |-> "request", version |-> @.version, resources |-> Nothing]]

\* Pilot applies a response and acknowledges it.
Apply(c) ==
    /\ stream[c].at = "response"
    /\ objects' = [objects EXCEPT ![c] = stream[c].resources]
    /\ refused' = refused \ {c}
    /\ Request(c)
    /\ UNCHANGED <<routes, policies, copilotVars, changes, breaks>>

\* Pilot's updater returns an error.  The refused version is not sent again
\* on this stream.
Refuse(c) ==
    /\ stream[c].at = "response"
    /\ breaks < MaxBreaks /\ breaks' = breaks + 1
    /\ refused' = refused \cup {c}
    /\ Request(c)
    /\ UNCHANGED <<routes, policies, copilotVars, objects, changes>>

Disconnect ==
    /\ breaks < MaxBreaks /\ breaks' = breaks + 1
    /\ stream # NoStream /\ stream' = NoStream
    /\ UNCHANGED <<routes, policies, copilotVars, objects, refused, changes>>

\* While the MCP server waits for it, Pilot may leave at any time, or never.
PilotLeaves ==
    /\ run.pc = "stopping"
    /\ stream # NoStream /\ stream' = NoStream
    /\ UNCHANGED <<routes, policies, copilotVars, objects, refused, changes, breaks>>
-----------------------------------------------------------------------------
(***************************************************************************)
(* Run.                                                                    *)
(***************************************************************************)
AtSelect == [pc |-> "select", routes |-> Nothing, policies |-> Nothing, shot |-> NoSnapshot]
NothingCached == [routes |-> Nothing, policies |-> Nothing]

\* case <-s.ticker: Collect
Tick ==
    /\ run.pc = "select"
    /\ run' = [run EXCEPT !.pc = "policies", !.routes = routes]
    /\ UNCHANGED <<routes, policies, certs, policyServerClient, cached, initialized, ver, shot,
                   stream, objects, refused, changes, breaks>>

GetPolicies ==
    /\ run.pc = "policies" /\ policyServerClient = "client"
    /\ run' = [run EXCEPT !.pc = "compare", !.policies = policies]
    /\ UNCHANGED <<routes, policies, certs, policyServerClient, cached, initialized, ver, shot,
                   stream, objects, refused, changes, breaks>>

\* Faulty variant: the routes are remembered before the policies are known.
GetPoliciesFailsLate ==
    /\ run.pc = "policies" /\ policyServerClient = "client"
    /\ run' = AtSelect
    /\ cached' = [cached EXCEPT !.routes = run.routes]
    /\ UNCHANGED <<routes, policies, certs, policyServerClient, initialized, ver, shot,
                   stream, objects, refused, changes, breaks>>

\* An error: the tick is given up.
GetPoliciesFails ==
    /\ run.pc = "policies" /\ policyServerClient = "client"
    /\ run' = AtSelect
    /\ UNCHANGED <<routes, policies, certs, policyServerClient, cached, initialized, ver, shot,
                   stream, objects, refused, changes, breaks>>

\* An interface that holds a nil *InternalClient is not nil: the method is
\* called and dereferences it.
GetPoliciesPanics ==
    /\ run.pc = "policies" /\ policyServerClient = "nil pointer"
    /\ run' = [AtSelect EXCEPT !.pc = "panicked"]
    /\ stream' = NoStream
    /\ UNCHANGED <<routes, policies, certs, policyServerClient, cached, initialized, ver, shot,
                   objects, refused, changes, breaks>>


Same == initialized /\ run.routes = cached.routes /\ run.policies = cached.policies

Unchanged ==
    /\ run.pc = "compare" /\ Same
    /\ run' = AtSelect
    /\ UNCHANGED <<routes, policies, certs, policyServerClient, cached, initialized, ver, shot,
                   stream, objects, refused, changes, breaks>>

\* Faulty variant: the counter is raised twice.
VersionAhead(c, newVersion) == newVersion + 1

\* builder.Set: the new version or "1"
VersionOf(c, newVersion) == IF c \in Versioned THEN newVersion ELSE 1

\* One of the possible results for each collection.
Picks(possible) == {made \in [DOMAIN possible -> UNION Range(possible)] : \A c \in DOMAIN possible : made[c] \in possible[c]}

increment == ver + 1

\* The version is incremented, the inputs are kept for the next comparison and
\* the resources are made.
Build ==
    /\ run.pc = "compare" /\ ~Same
    /\ ver' = increment
    /\ cached' = [routes |-> run.routes, policies |-> run.policies]
    /\ \E made \in Picks([c \in Collections |-> Create(c, run.routes, run.policies, certs)]) :
          run' = [run EXCEPT !.pc = "set",
                             !.shot = [c \in Collections |-> [version |-> VersionOf(c, increment), resources |-> made[c]]]]
    /\ UNCHANGED <<routes, policies, certs, policyServerClient, initialized, shot,
                   stream, objects, refused, changes, breaks>>

Publish ==
    /\ run.pc = "set"
    /\ SetSnapshot(run.shot)
    /\ initialized' = TRUE
    /\ run' = AtSelect
    /\ UNCHANGED <<routes, policies, certs, policyServerClient, cached, ver, objects, refused, changes, breaks>>

\* case <-signals: the runner ends while the MCP server still serves.
Signal ==
    /\ run.pc = "select"
    /\ breaks < MaxBreaks /\ breaks' = breaks + 1
    /\ run' = [AtSelect EXCEPT !.pc = "exited"]
    /\ UNCHANGED <<routes, policies, certs, policyServerClient, cached, initialized, ver, shot,
                   stream, objects, refused, changes>>

\* Next the group signals the MCP server, which accepts no new stream and
\* goes on serving the one that is open until Pilot closes it.
GracefulStop ==
    /\ run.pc = "exited"
    /\ run' = [run EXCEPT !.pc = "stopping"]
    /\ UNCHANGED <<routes, policies, certs, policyServerClient, cached, initialized, ver, shot,
                   stream, objects, refused, changes, breaks>>
-----------------------------------------------------------------------------
(***************************************************************************)
(* The process ends, by itself after a signal or a panic or by a crash,    *)
(* and is started again, possibly with other certificates.  All it knew is *)
(* lost, the routes included.                                              *)
(***************************************************************************)
Down ==
    /\ run' = [AtSelect EXCEPT !.pc = "down"]
    /\ stream' = NoStream
    /\ routes' = NoRoutes
    /\ cached' = NothingCached
    /\ initialized' = FALSE /\ ver' = 0 /\ shot' = NoSnapshot
    /\ UNCHANGED <<policies, certs, policyServerClient, objects, refused>>

Crash ==
    /\ Up /\ breaks < MaxBreaks /\ breaks' = breaks + 1
    /\ Down
    /\ UNCHANGED changes

Exit ==
    /\ run.pc = "panicked" \/ (run.pc = "stopping" /\ stream = NoStream)
    /\ Down
    /\ UNCHANGED <<changes, breaks>>

Restart ==
    /\ run.pc = "down"
    /\ certs' \in CertLists
    /\ run' = [run EXCEPT !.pc = "select"]
    /\ UNCHANGED <<routes, policies, policyServerClient, cached, initialized, ver, shot,
                   stream, objects, refused, changes, breaks>>
-----------------------------------------------------------------------------
Init ==
    /\ routes = NoRoutes /\ policies \in PolicyLists /\ certs \in CertLists
    /\ policyServerClient \in ClientKinds
    /\ run = AtSelect
    /\ cached = NothingCached
    /\ initialized = FALSE /\ ver = 0 /\ shot = NoSnapshot
    /\ stream = NoStream
    /\ objects = [c \in Collections |-> Nothing] /\ refused = {}
    /\ changes = 0 /\ breaks = 0

Runner ==
    \/ Tick \/ GetPolicies \/ GetPoliciesFails \/ GetPoliciesPanics
    \/ Unchanged \/ Build \/ Publish

Mcp == \E c \in Collections : Watch(c) \/ Apply(c) \/ Refuse(c)

Next ==
    \/ (\E r \in RouteLists : RoutesChange(r)) \/ (\E p \in PolicyLists : PoliciesChange(p))
    \/ Runner \/ Mcp \/ Connect \/ Disconnect \/ PilotLeaves
    \/ Signal \/ GracefulStop \/ Crash \/ Exit \/ Restart

\* The ticker ticks, Pilot reconnects, the group signals the MCP server after
\* the runner, the supervisor restarts copilot, and a policy server that is
\* asked again and again answers at last.  Nothing makes Pilot close a stream.
Fairness ==
    /\ WF_vars(Runner) /\ SF_vars(GetPolicies)
    /\ \A c \in Collections : WF_vars(Watch(c)) /\ WF_vars(Apply(c))
    /\ WF_vars(Connect) /\ WF_vars(GracefulStop) /\ WF_vars(Exit) /\ WF_vars(Restart)

Spec == Init /\ [][Next]_vars /\ Fairness
-----------------------------------------------------------------------------
(***************************************************************************)
(* Properties.                                                             *)
(***************************************************************************)
\* The parts of the state have their shape, and a version is never one that
\* has not been issued.
TypeOK ==
    /\ routes \in RouteLists /\ policies \in PolicyLists /\ certs \in CertLists
    /\ run.pc \in {"select", "policies", "compare", "set", "exited", "stopping", "panicked", "down"}
    /\ initialized => cached \in [routes : RouteLists, policies : PolicyLists]
    /\ ver \in Nat /\ refused \subseteq Collections
    /\ \A c \in Collections : /\ shot[c].version \in 0 .. ver
                              /\ stream[c].version \in 0 .. ver
                              /\ stream[c].at \in {"closed", "request", "watch", "response"}

\* While a watch is open its version is that of the snapshot in the cache.
\* Unless Pilot has refused that version it holds the resources of the
\* snapshot, and these are made from the routes and policies that the next
\* tick is compared with: no publication is missed between an acknowledgement
\* and the next request, a tick that is given up leaves nothing behind that
\* makes a later one look unchanged, and the constant version of the gateway
\* is safe although its contents change with a restart.
AckMeansCurrent ==
    \A c \in Collections :
        stream[c].at = "watch" =>
            /\ stream[c].version = shot[c].version
            /\ (initialized /\ c \notin refused) =>
                  /\ objects[c] = shot[c].resources
                  /\ run.pc # "set" => objects[c] \in Create(c, cached.routes, cached.policies, certs)

\* What the collections should contain now.
Desired(c) == Create(c, routes, policies, certs)

\* Errors of the policy server, ticks without a change, restarts that publish
\* an empty configuration first and broken streams notwithstanding, Pilot ends
\* up with exactly the resources of the routes, the policies and the
\* certificates as they are, once these stay as they are, but for collections
\* whose last response it has refused.  The one way out is a shutdown that
\* never ends because Pilot keeps its stream open: the runner is gone, nothing
\* is published any more and no other copilot is started.  This needs a policy
\* server: without one copilot panics at every first tick.
Converges ==
    policyServerClient = "client" =>
        \/ <>[](\A c \in Collections : objects[c] \in Desired(c) \/ c \in refused)
        \/ <>[](run.pc = "stopping" /\ stream # NoStream)

\* Copilot does not panic, with or without a policy server.
NoPanic == run.pc # "panicked"
=============================================================================
