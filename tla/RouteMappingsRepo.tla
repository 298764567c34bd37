------------------------- MODULE RouteMappingsRepo -------------------------
(***************************************************************************)
(* models/route_mapping.go: which CAPI process serves which route with     *)
(* which weight, and the running sum of the weights of a route             *)
(* (weightDenominator) that turns a weight into a percentage.              *)
(*                                                                         *)
(* The sum is maintained incrementally: Map adds the weight even when the  *)
(* mapping is already there, Unmap subtracts the weight of the request     *)
(* even when the mapping is not there or has another weight.               *)
(*                                                                         *)
(* Key() joins the two GUIDs with a dash.  GUIDs have a fixed length, so   *)
(* the pair of them is the same key.                                       *)
(***************************************************************************)
EXTENDS GoMap, FiniteSetsExt, Float32

CONSTANTS
    RouteGuids,
    CapiGuids,
    Weights,   \* the weights a request may carry
    NoString,  \* ""
    Word       \* 2^32: weightDenominator is a map to uint32

VARIABLES
    repo,               \* map[string]*RouteMapping
    weightDenominator   \* map[RouteGUID]uint32; an absent key reads as 0

Mappings == [RouteGUID : RouteGuids, CAPIProcessGUID : CapiGuids, RouteWeight : Weights]
Keys == RouteGuids \X CapiGuids

Key(rm) == <<rm.RouteGUID, rm.CAPIProcessGUID>>
-----------------------------------------------------------------------------
(***************************************************************************)
(* The operations.  Each holds the lock throughout.                        *)
(***************************************************************************)
Map(rm) ==
    /\ weightDenominator' = [weightDenominator EXCEPT ![rm.RouteGUID] = (@ + rm.RouteWeight) % Word]
    /\ repo' = Put(repo, Key(rm), rm)

\* Faulty variants: a signed sum; a sum that forgets to shrink.
UnmapSigned(rm) ==
    /\ repo' = Drop(repo, Key(rm))
    /\ weightDenominator' = [weightDenominator EXCEPT ![rm.RouteGUID] = @ - rm.RouteWeight]
UnmapKeepsSum(rm) ==
    /\ repo' = Drop(repo, Key(rm))
    /\ UNCHANGED weightDenominator

Unmap(rm) ==
    /\ repo' = Drop(repo, Key(rm))
    /\ weightDenominator' = [weightDenominator EXCEPT ![rm.RouteGUID] = (@ - rm.RouteWeight) % Word]

Itself(rm) == rm

\* The weights that a list carries for a route, by position.
WeightsFor(r, routeMappings) ==
    [i \in {i \in DOMAIN routeMappings : routeMappings[i].RouteGUID = r} |-> routeMappings[i].RouteWeight]

\* Faulty variant: the sums are not reset.
SyncKeepsSums(routeMappings) ==
    /\ repo' = Poured(routeMappings, Key, Itself)
    /\ weightDenominator' = [r \in RouteGuids |->
          (weightDenominator[r] + SumFunction(WeightsFor(r, routeMappings))) % Word]

\* The sum runs over the list, the repository keeps one mapping per key.
Sync(routeMappings) ==
    /\ repo' = Poured(routeMappings, Key, Itself)
    /\ weightDenominator' = [r \in RouteGuids |->
          SumFunction(WeightsFor(r, routeMappings)) % Word]

\* Every value GetCalculatedWeight may return for rm now.
GetCalculatedWeight(rm) == Percent(rm.RouteWeight, weightDenominator[rm.RouteGUID])
-----------------------------------------------------------------------------
(***************************************************************************)
(* The requests.  validateMapRouteRequest and validateUnmapRouteRequest    *)
(* want both GUIDs and a weight between 1 and 128; a bulk sync is not      *)
(* validated.                                                              *)
(***************************************************************************)
ValidRequest(rm) ==
    /\ rm.RouteGUID # NoString /\ rm.CAPIProcessGUID # NoString
    /\ rm.RouteWeight # 0 /\ rm.RouteWeight <= 128

MapRoute(rm) == ValidRequest(rm) /\ Map(rm)
UnmapRoute(rm) == ValidRequest(rm) /\ Unmap(rm)
SyncMappings(list) == Sync(list)

Init ==
    /\ repo = EmptyMap
    /\ weightDenominator = [r \in RouteGuids |-> 0]
-----------------------------------------------------------------------------
\* The repository is keyed by its mappings' own keys; the sums are uint32.
TypeOK ==
    /\ IsMap(repo, Keys, Mappings)
    /\ weightDenominator \in [RouteGuids -> 0 .. Word - 1]

MappedTo(r) == {repo[k] : k \in {k \in DOMAIN repo : k[1] = r}}

\* The incremental sum is the sum of the weights that are mapped.  This holds
\* for a client whose requests take effect exactly once (module Collector) and
\* after a bulk sync (module CapiServer), not for one that repeats a request.
DenominatorExact ==
    \A r \in RouteGuids :
        weightDenominator[r] = SumFunction([rm \in MappedTo(r) |-> rm.RouteWeight]) % Word
=============================================================================
