------------------------------ MODULE CallLog ------------------------------
(***************************************************************************)
(* The calls that tell copilot about routes, as a list: what a reference   *)
(* that keeps no map and no index can say about routes and host names.     *)
(***************************************************************************)
EXTENDS Naturals, Sequences

\* A route is told, a route is withdrawn, and the list of a bulk sync.
Tells(route) == [guid |-> route.GUID, told |-> {route}]
Withdraws(guid) == [guid |-> guid, told |-> {}]
Retells(routes) == [i \in DOMAIN routes |-> Tells(routes[i])]

\* The call gives the name to a route.
Gives(call, name) == \E route \in call.told : route.Host = name

\* The GUIDs that the calls give the name to.
Named(calls, name) == {calls[i].guid : i \in {j \in DOMAIN calls : Gives(calls[j], name)}}

\* The GUID that the last of these calls gives it to, if there is one.
LastNamed(calls, name) ==
    {calls[i].guid : i \in {j \in DOMAIN calls :
        Gives(calls[j], name) /\ \A k \in DOMAIN calls : k > j => ~Gives(calls[k], name)}}

\* The route as the last call about it has left it, if it has not been withdrawn.
Current(calls, guid) ==
    UNION {calls[i].told : i \in {j \in DOMAIN calls :
        calls[j].guid = guid /\ \A k \in DOMAIN calls : k > j => calls[k].guid # guid}}
=============================================================================
