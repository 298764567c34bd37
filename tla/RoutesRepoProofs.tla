-------------------------- MODULE RoutesRepoProofs --------------------------
(***************************************************************************)
(* Proofs about RoutesRepo, for every set of routes, names and resolvers,  *)
(* every length of a bulk sync and any number of calls.  Routes may move   *)
(* between hosts, share them and have no GUID.                             *)
(*                                                                         *)
(* The invariant says what the two maps are: the index leads from a name   *)
(* to the route that the log of calls gave it to last, and the repository  *)
(* holds each route as the last call about it has left it.                 *)
(***************************************************************************)
EXTENDS RoutesRepo, DataTheorems

CallType == [pc : {"idle", "get"}, name : Names \cup {NoString}, guid : Guids,
             missed : BOOLEAN, told : SUBSET Guids, ok : BOOLEAN, vip : VIPs]

\* What a map holds under a key: one value or none.
At(m, k) == IF k \in DOMAIN m THEN {m[k]} ELSE {}

\* Calls as they are logged: a route is told under its own GUID.
Calls == {call \in [guid : Guids, told : SUBSET Routes] : \A route \in call.told : route.GUID = call.guid}
-----------------------------------------------------------------------------
(***************************************************************************)
(* The log.                                                                *)
(***************************************************************************)
\* A call overrides what earlier ones say about its route and its name.
LEMMA AppendedCall ==
    ASSUME NEW S, NEW calls \in Seq(S), NEW call \in S
    PROVE  LET l == Append(calls, call) IN
           /\ \A g : Current(l, g) = IF call.guid = g THEN call.told ELSE Current(calls, g)
           /\ \A h : LastNamed(l, h) = IF Gives(call, h) THEN {call.guid} ELSE LastNamed(calls, h)
           /\ \A h : Named(l, h) = Named(calls, h) \cup (IF Gives(call, h) THEN {call.guid} ELSE {})
<1> DEFINE l == Append(calls, call)
           n == Len(calls)
<1>1. /\ n \in Nat /\ DOMAIN calls = 1 .. n /\ DOMAIN l = 1 .. n + 1
      /\ l[n + 1] = call /\ \A i \in 1 .. n : l[i] = calls[i]
  OBVIOUS
<1>2. /\ 1 .. n + 1 = (1 .. n) \cup {n + 1} /\ n + 1 \notin 1 .. n
      /\ \A i \in 1 .. n : n + 1 > i /\ ~(i > n + 1)
  BY <1>1
<1> HIDE DEF l, n
<1>3. ASSUME NEW g PROVE Current(l, g) = IF call.guid = g THEN call.told ELSE Current(calls, g)
  <2> DEFINE P(c, j) == c[j].guid = g /\ \A k \in DOMAIN c : k > j => c[k].guid # g
             J == {j \in DOMAIN l : P(l, j)}
             K == {j \in DOMAIN calls : P(calls, j)}
  <2>1. Current(l, g) = UNION {l[i].told : i \in J} /\ Current(calls, g) = UNION {calls[i].told : i \in K}
    BY DEF Current
  <2>2. CASE call.guid = g
    <3>1. J = {n + 1}
      <4>1. P(l, n + 1)
        BY <1>1, <1>2, <2>2
      <4>2. \A j \in 1 .. n : ~P(l, j)
        BY <1>1, <1>2, <2>2
      <4> QED BY <1>1, <1>2, <4>1, <4>2
    <3> HIDE DEF J
    <3>2. UNION {l[i].told : i \in J} = call.told
      BY <1>1, <3>1
    <3> QED BY <2>1, <2>2, <3>2
  <2>3. CASE call.guid # g
    <3>1. ~P(l, n + 1)
      BY <1>1, <2>3
    <3>2. ASSUME NEW j \in 1 .. n PROVE P(l, j) <=> P(calls, j)
      BY <1>1, <1>2, <2>3
    <3> HIDE DEF P
    <3>3. J = K /\ K \subseteq 1 .. n
      BY <1>1, <1>2, <3>1, <3>2
    <3> HIDE DEF J, K
    <3>4. {l[i].told : i \in J} = {calls[i].told : i \in K}
      BY <1>1, <3>3
    <3> QED BY <2>1, <2>3, <3>4
  <2> QED BY <2>2, <2>3
<1>4. ASSUME NEW h PROVE LastNamed(l, h) = IF Gives(call, h) THEN {call.guid} ELSE LastNamed(calls, h)
  <2> DEFINE P(c, j) == Gives(c[j], h) /\ \A k \in DOMAIN c : k > j => ~Gives(c[k], h)
             J == {j \in DOMAIN l : P(l, j)}
             K == {j \in DOMAIN calls : P(calls, j)}
  <2>1. LastNamed(l, h) = {l[i].guid : i \in J} /\ LastNamed(calls, h) = {calls[i].guid : i \in K}
    BY DEF LastNamed
  <2>2. CASE Gives(call, h)
    <3>1. J = {n + 1}
      <4>1. P(l, n + 1)
        BY <1>1, <1>2, <2>2
      <4>2. \A j \in 1 .. n : ~P(l, j)
        BY <1>1, <1>2, <2>2
      <4> QED BY <1>1, <1>2, <4>1, <4>2
    <3> HIDE DEF J
    <3> QED BY <1>1, <2>1, <2>2, <3>1
  <2>3. CASE ~Gives(call, h)
    <3>1. ~P(l, n + 1)
      BY <1>1, <2>3
    <3>2. ASSUME NEW j \in 1 .. n PROVE P(l, j) <=> P(calls, j)
      BY <1>1, <1>2, <2>3
    <3> HIDE DEF P
    <3>3. J = K /\ K \subseteq 1 .. n
      BY <1>1, <1>2, <3>1, <3>2
    <3> HIDE DEF J, K
    <3>4. {l[i].guid : i \in J} = {calls[i].guid : i \in K}
      BY <1>1, <3>3
    <3> QED BY <2>1, <2>3, <3>4
  <2> QED BY <2>2, <2>3
<1>5. ASSUME NEW h PROVE Named(l, h) = Named(calls, h) \cup (IF Gives(call, h) THEN {call.guid} ELSE {})
  <2>1. ASSUME NEW g \in Named(l, h) PROVE g \in Named(calls, h) \cup (IF Gives(call, h) THEN {call.guid} ELSE {})
    <3>1. PICK i \in 1 .. n + 1 : Gives(l[i], h) /\ g = l[i].guid
      BY <1>1, <2>1 DEF Named
    <3>2. CASE i = n + 1
      BY <1>1, <3>1, <3>2
    <3>3. CASE i \in 1 .. n
      BY <1>1, <3>1, <3>3 DEF Named
    <3> QED BY <1>2, <3>2, <3>3
  <2>2. ASSUME NEW g \in Named(calls, h) PROVE g \in Named(l, h)
    BY <1>1, <1>2, <2>2 DEF Named
  <2>3. Gives(call, h) => call.guid \in Named(l, h)
    BY <1>1, <1>2 DEF Named
  <2> QED BY <2>1, <2>2, <2>3
<1> QED BY <1>3, <1>4, <1>5 DEF l

\* What the log says about a name and a route, it says somewhere.
LEMMA LogSays ==
    ASSUME NEW calls \in Seq(Calls)
    PROVE  /\ \A h : LastNamed(calls, h) \subseteq Named(calls, h) /\ Named(calls, h) \subseteq Guids
           /\ \A g : \A route \in Current(calls, g) : g \in Named(calls, route.Host)
<1>1. \A i \in DOMAIN calls : calls[i] \in Calls /\ calls[i].guid \in Guids
  BY DEF Calls
<1>2. ASSUME NEW g, NEW route \in Current(calls, g) PROVE g \in Named(calls, route.Host)
  <2>1. PICK i \in DOMAIN calls : calls[i].guid = g /\ route \in calls[i].told
    BY <1>2 DEF Current
  <2> QED BY <2>1 DEF Named, Gives
<1> QED BY <1>1, <1>2 DEF LastNamed, Named

\* The write that survives when a bulk sync is poured into the two maps.
LEMMA PouredLast ==
    ASSUME NEW routes \in Lists
    PROVE  /\ \A i \in DOMAIN routes :
                 LET j == LastWith(routes, GUIDOf, routes[i].GUID)
                 IN  /\ j \in DOMAIN routes /\ routes[j].GUID = routes[i].GUID
                     /\ \A x \in DOMAIN routes : routes[x].GUID = routes[i].GUID => x <= j
           /\ \A i \in DOMAIN routes :
                 LET j == LastWith(routes, HostOf, routes[i].Host)
                 IN  /\ j \in DOMAIN routes /\ routes[j].Host = routes[i].Host
                     /\ \A x \in DOMAIN routes : routes[x].Host = routes[i].Host => x <= j
<1>1. PICK n \in 0 .. MaxSync : routes \in [1 .. n -> Routes]
  BY DEF Lists
<1>2. n \in Nat /\ DOMAIN routes = 1 .. n
  BY <1>1, MaxSyncAssumption
<1>3. ASSUME NEW i \in DOMAIN routes
      PROVE  LET j == LastWith(routes, GUIDOf, routes[i].GUID)
             IN  /\ j \in DOMAIN routes /\ routes[j].GUID = routes[i].GUID
                 /\ \A x \in DOMAIN routes : routes[x].GUID = routes[i].GUID => x <= j
  <2> DEFINE T == {j \in 1 .. n : routes[j].GUID = routes[i].GUID}
  <2>1. T \in SUBSET (1 .. n) /\ T # {}
    BY <1>2
  <2>2. PICK j \in T : \A x \in T : x <= j
    <3> HIDE DEF T
    <3> QED BY <1>2, <2>1, LastPosition
  <2>3. /\ j \in DOMAIN routes /\ GUIDOf(routes[j]) = routes[i].GUID
        /\ \A x \in DOMAIN routes : GUIDOf(routes[x]) = routes[i].GUID => x <= j
    BY <1>2, <2>2 DEF GUIDOf
  <2> QED BY <2>3 DEF LastWith, GUIDOf
<1>4. ASSUME NEW i \in DOMAIN routes
      PROVE  LET j == LastWith(routes, HostOf, routes[i].Host)
             IN  /\ j \in DOMAIN routes /\ routes[j].Host = routes[i].Host
                 /\ \A x \in DOMAIN routes : routes[x].Host = routes[i].Host => x <= j
  <2> DEFINE T == {j \in 1 .. n : routes[j].Host = routes[i].Host}
  <2>1. T \in SUBSET (1 .. n) /\ T # {}
    BY <1>2
  <2>2. PICK j \in T : \A x \in T : x <= j
    <3> HIDE DEF T
    <3> QED BY <1>2, <2>1, LastPosition
  <2>3. /\ j \in DOMAIN routes /\ HostOf(routes[j]) = routes[i].Host
        /\ \A x \in DOMAIN routes : HostOf(routes[x]) = routes[i].Host => x <= j
    BY <1>2, <2>2 DEF HostOf
  <2> QED BY <2>3 DEF LastWith, HostOf
<1> QED BY <1>3, <1>4

\* The maps that a bulk sync makes have their types, and every host of the
\* repository is in the index.
LEMMA SyncMaps ==
    ASSUME NEW routes \in Lists
    PROVE  LET m == Poured(routes, GUIDOf, Itself)
               x == Poured(routes, HostOf, GUIDOf)
           IN  /\ IsMap(m, Guids, Routes) /\ IsMap(x, Hosts, Guids)
               /\ \A g \in DOMAIN m : m[g].Host \in DOMAIN x
<1> DEFINE m == Poured(routes, GUIDOf, Itself)
           x == Poured(routes, HostOf, GUIDOf)
<1>1. \A i \in DOMAIN routes : routes[i] \in Routes
  BY DEF Lists
<1>2. DOMAIN m = {routes[i].GUID : i \in DOMAIN routes} /\ DOMAIN x = {routes[i].Host : i \in DOMAIN routes}
  BY DEF Poured, GUIDOf, HostOf
<1>3. ASSUME NEW g \in DOMAIN m
      PROVE  m[g] \in Routes /\ g \in Guids /\ m[g].Host \in DOMAIN x
  <2>1. PICK i \in DOMAIN routes : g = routes[i].GUID
    BY <1>2
  <2>2. m[g] = routes[LastWith(routes, GUIDOf, g)]
    BY <1>2 DEF Poured, GUIDOf, Itself
  <2>3. LastWith(routes, GUIDOf, g) \in DOMAIN routes /\ routes[LastWith(routes, GUIDOf, g)].GUID = g
    BY <2>1, PouredLast
  <2> QED BY <1>1, <1>2, <2>2, <2>3 DEF Guids
<1>4. ASSUME NEW h \in DOMAIN x
      PROVE  h \in Hosts /\ x[h] \in Guids
  <2>1. PICK i \in DOMAIN routes : h = routes[i].Host
    BY <1>2
  <2>2. x[h] = routes[LastWith(routes, HostOf, h)].GUID
    BY <1>2 DEF Poured, GUIDOf, HostOf
  <2>3. LastWith(routes, HostOf, h) \in DOMAIN routes /\ routes[LastWith(routes, HostOf, h)].Host = h
    BY <2>1, PouredLast
  <2> QED BY <1>1, <2>2, <2>3 DEF Guids, Hosts
<1>5. IsMap(m, Guids, Routes) /\ IsMap(x, Hosts, Guids)
  <2>1. m = [g \in DOMAIN m |-> m[g]] /\ x = [h \in DOMAIN x |-> x[h]]
    BY DEF Poured
  <2> HIDE DEF m, x
  <2> QED BY <1>3, <1>4, <2>1 DEF IsMap
<1> QED BY <1>3, <1>4, <1>5

\* The maps that a bulk sync makes are what its list says.
LEMMA SyncLog ==
    ASSUME NEW routes \in Lists
    PROVE  LET calls == Retells(routes)
               m == Poured(routes, GUIDOf, Itself)
               x == Poured(routes, HostOf, GUIDOf)
           IN  /\ calls \in Seq(Calls)
               /\ \A g : Current(calls, g) = At(m, g)
               /\ \A h : LastNamed(calls, h) = At(x, h)
<1> DEFINE calls == Retells(routes)
           m == Poured(routes, GUIDOf, Itself)
           x == Poured(routes, HostOf, GUIDOf)
<1>1. PICK n \in 0 .. MaxSync : routes \in [1 .. n -> Routes]
  BY DEF Lists
<1>2. n \in Nat /\ DOMAIN routes = 1 .. n /\ \A i \in 1 .. n : routes[i] \in Routes
  BY <1>1, MaxSyncAssumption
<1>3. /\ DOMAIN calls = 1 .. n
      /\ \A i \in 1 .. n : calls[i].guid = routes[i].GUID /\ calls[i].told = {routes[i]}
  BY <1>2 DEF Retells, Tells
<1>4. \A i \in 1 .. n : \A h : Gives(calls[i], h) <=> routes[i].Host = h
  BY <1>3 DEF Gives
<1>5. calls \in Seq(Calls)
  <2>1. \A i \in 1 .. n : Tells(routes[i]) \in Calls
    BY <1>2 DEF Calls, Tells, Guids
  <2>2. calls \in [1 .. n -> Calls]
    BY <1>2, <2>1 DEF Retells
  <2> QED BY <1>2, <2>2
<1>6. /\ DOMAIN m = {routes[i].GUID : i \in 1 .. n} /\ DOMAIN x = {routes[i].Host : i \in 1 .. n}
      /\ \A g \in DOMAIN m : m[g] = routes[LastWith(routes, GUIDOf, g)]
      /\ \A h \in DOMAIN x : x[h] = routes[LastWith(routes, HostOf, h)].GUID
  BY <1>2 DEF Poured, GUIDOf, HostOf, Itself
<1> HIDE DEF calls, m, x
<1>7. ASSUME NEW g PROVE Current(calls, g) = At(m, g)
  <2> DEFINE J == {j \in DOMAIN calls : calls[j].guid = g /\ \A k \in DOMAIN calls : k > j => calls[k].guid # g}
  <2>1. Current(calls, g) = UNION {calls[i].told : i \in J}
    BY DEF Current
  <2>2. CASE g \in DOMAIN m
    <3> DEFINE z == LastWith(routes, GUIDOf, g)
    <3>0. PICK w \in 1 .. n : g = routes[w].GUID
      BY <1>6, <2>2
    <3>1. z \in 1 .. n /\ routes[z].GUID = g /\ \A y \in 1 .. n : routes[y].GUID = g => y <= z
      BY <1>2, <3>0, PouredLast
    <3>2. m[g] = routes[z]
      BY <1>6, <2>2
    <3> HIDE DEF z
    <3>3. J = {z}
      <4>1. z \in J
        BY <1>2, <1>3, <3>1
      <4>2. \A j \in J : j = z
        BY <1>2, <1>3, <3>1
      <4> QED BY <4>1, <4>2
    <3> HIDE DEF J
    <3>4. UNION {calls[i].told : i \in J} = {routes[z]}
      BY <1>3, <3>1, <3>3
    <3> QED BY <2>1, <2>2, <3>2, <3>4 DEF At
  <2>3. CASE g \notin DOMAIN m
    <3>1. J = {}
      BY <1>3, <1>6, <2>3
    <3> HIDE DEF J
    <3> QED BY <2>1, <2>3, <3>1 DEF At
  <2> QED BY <2>2, <2>3
<1>8. ASSUME NEW h PROVE LastNamed(calls, h) = At(x, h)
  <2> DEFINE J == {j \in DOMAIN calls : Gives(calls[j], h) /\ \A k \in DOMAIN calls : k > j => ~Gives(calls[k], h)}
  <2>1. LastNamed(calls, h) = {calls[i].guid : i \in J}
    BY DEF LastNamed
  <2>2. CASE h \in DOMAIN x
    <3> DEFINE z == LastWith(routes, HostOf, h)
    <3>0. PICK w \in 1 .. n : h = routes[w].Host
      BY <1>6, <2>2
    <3>1. z \in 1 .. n /\ routes[z].Host = h /\ \A y \in 1 .. n : routes[y].Host = h => y <= z
      BY <1>2, <3>0, PouredLast
    <3>2. x[h] = routes[z].GUID
      BY <1>6, <2>2
    <3> HIDE DEF z
    <3>3. J = {z}
      <4>1. z \in J
        BY <1>2, <1>3, <1>4, <3>1
      <4>2. \A j \in J : j = z
        BY <1>2, <1>3, <1>4, <3>1
      <4> QED BY <4>1, <4>2
    <3> HIDE DEF J
    <3> QED BY <1>3, <2>1, <2>2, <3>1, <3>2, <3>3 DEF At
  <2>3. CASE h \notin DOMAIN x
    <3>1. J = {}
      BY <1>3, <1>4, <1>6, <2>3
    <3> HIDE DEF J
    <3> QED BY <2>1, <2>3, <3>1 DEF At
  <2> QED BY <2>2, <2>3
<1> QED BY <1>5, <1>7, <1>8 DEF calls, m, x
-----------------------------------------------------------------------------
(***************************************************************************)
(* The inductive invariant.                                                *)
(***************************************************************************)
LogOK == log \in Seq(Calls)
RepoIsLog == \A g : Current(log, g) = At(repo, g)
IndexIsLog == \A h : LastNamed(log, h) = At(repoByHostname, h)

\* Every host of a registered route is in the index.
IndexCovers == \A g \in DOMAIN repo : repo[g].Host \in DOMAIN repoByHostname

MapsInv ==
    /\ IsMap(repo, Guids, Routes) /\ IsMap(repoByHostname, Hosts, Guids)
    /\ LogOK /\ RepoIsLog /\ IndexIsLog /\ IndexCovers

\* A lookup knows all routes that its name has been given to; the one it is
\* after is among them, unless the name was not registered when it began.
Informed(r) ==
    lookup[r].pc = "get" =>
        /\ Named(log, lookup[r].name) \subseteq lookup[r].told
        /\ lookup[r].guid \in lookup[r].told \/ (lookup[r].guid = NoString /\ lookup[r].missed)
        /\ lookup[r].missed \/ Registered(repo, lookup[r].name)

IInv ==
    /\ MapsInv
    /\ lookup \in [Resolvers -> CallType]
    /\ \A r \in Resolvers : Informed(r)

\* The routes that are registered under a name have been told under it.
LEMMA RegisteredIsNamed ==
    ASSUME MapsInv, NEW g \in DOMAIN repo
    PROVE  g \in Named(log, repo[g].Host)
<1>1. repo[g] \in Current(log, g)
  BY DEF MapsInv, RepoIsLog, At
<1> QED BY <1>1, LogSays DEF MapsInv, LogOK

\* What the index says about a name is the last thing the log says about it.
LEMMA IndexedIsNamed ==
    ASSUME MapsInv, NEW h \in DOMAIN repoByHostname
    PROVE  repoByHostname[h] \in Named(log, h)
<1>1. repoByHostname[h] \in LastNamed(log, h)
  BY DEF MapsInv, IndexIsLog, At
<1> QED BY <1>1, LogSays DEF MapsInv, LogOK

\* The mutations change the maps as the log says.
Mutation ==
    \/ \E route \in Routes : UpsertRoute(route)
    \/ \E guid \in Guids : DeleteRoute(guid)
    \/ \E routes \in Lists : SyncRoutes(routes)

\* The maps and the log stay in step.
LEMMA MutationMaps ==
    ASSUME MapsInv, Mutation
    PROVE  MapsInv' /\ Notice
<1> USE DEF MapsInv
<1>1. ASSUME NEW route \in Routes, UpsertRoute(route) PROVE MapsInv' /\ Notice
  <2>1. /\ repo' = Put(repo, route.GUID, route) /\ repoByHostname' = Put(repoByHostname, route.Host, route.GUID)
        /\ log' = Append(log, Tells(route)) /\ Notice
    BY <1>1 DEF UpsertRoute, Upsert
  <2>2. route.GUID \in Guids /\ route.Host \in Hosts
    BY DEF Guids, Hosts
  <2>3. IsMap(repo', Guids, Routes) /\ IsMap(repoByHostname', Hosts, Guids)
    BY <2>1, <2>2, PutIsMap
  <2>4. /\ Tells(route) \in Calls /\ Tells(route).guid = route.GUID /\ Tells(route).told = {route}
        /\ \A h : Gives(Tells(route), h) <=> route.Host = h
    BY <2>2 DEF Tells, Calls, Gives
  <2> DEFINE call == Tells(route)
  <2> HIDE DEF call
  <2>5. /\ LogOK'
        /\ \A g : Current(log', g) = IF call.guid = g THEN call.told ELSE Current(log, g)
        /\ \A h : LastNamed(log', h) = IF Gives(call, h) THEN {call.guid} ELSE LastNamed(log, h)
    BY <2>1, <2>4, AppendedCall DEF LogOK, call
  <2>6. RepoIsLog'
    BY <2>1, <2>4, <2>5 DEF RepoIsLog, At, Put, call
  <2>7. IndexIsLog'
    BY <2>1, <2>4, <2>5 DEF IndexIsLog, At, Put, call
  <2>8. IndexCovers'
    BY <2>1 DEF IndexCovers, Put
  <2> QED BY <2>1, <2>3, <2>5, <2>6, <2>7, <2>8
<1>2. ASSUME NEW guid \in Guids, DeleteRoute(guid) PROVE MapsInv' /\ Notice
  <2>1. /\ repo' = Drop(repo, guid) /\ repoByHostname' = repoByHostname
        /\ log' = Append(log, Withdraws(guid)) /\ Notice
    BY <1>2 DEF DeleteRoute, Delete
  <2>2. IsMap(repo', Guids, Routes)
    BY <2>1, DropIsMap
  <2>3. /\ Withdraws(guid) \in Calls /\ Withdraws(guid).guid = guid /\ Withdraws(guid).told = {}
        /\ \A h : ~Gives(Withdraws(guid), h)
    BY DEF Withdraws, Calls, Gives
  <2> DEFINE call == Withdraws(guid)
  <2> HIDE DEF call
  <2>4. /\ LogOK'
        /\ \A g : Current(log', g) = IF call.guid = g THEN call.told ELSE Current(log, g)
        /\ \A h : LastNamed(log', h) = IF Gives(call, h) THEN {call.guid} ELSE LastNamed(log, h)
    BY <2>1, <2>3, AppendedCall DEF LogOK, call
  <2>5. RepoIsLog'
    BY <2>1, <2>3, <2>4 DEF RepoIsLog, At, Drop, call
  <2>6. IndexIsLog'
    BY <2>1, <2>3, <2>4 DEF IndexIsLog, At, call
  <2>7. IndexCovers'
    BY <2>1 DEF IndexCovers, Drop
  <2> QED BY <2>1, <2>2, <2>4, <2>5, <2>6, <2>7
<1>3. ASSUME NEW routes \in Lists, SyncRoutes(routes) PROVE MapsInv' /\ Notice
  <2>1. /\ repo' = Poured(routes, GUIDOf, Itself) /\ repoByHostname' = Poured(routes, HostOf, GUIDOf)
        /\ log' = Retells(routes) /\ Notice
    BY <1>3 DEF SyncRoutes, Sync
  <2>2. LogOK' /\ RepoIsLog' /\ IndexIsLog'
    BY <2>1, SyncLog DEF LogOK, RepoIsLog, IndexIsLog
  <2>3. IsMap(repo', Guids, Routes) /\ IsMap(repoByHostname', Hosts, Guids) /\ IndexCovers'
    BY <2>1, SyncMaps DEF IndexCovers
  <2> QED BY <2>1, <2>2, <2>3
<1> QED BY <1>1, <1>2, <1>3 DEF Mutation

\* A mutation leaves a lookup in progress where it is, and tells it about the
\* routes that its name is given to.
LEMMA NoticeStep ==
    ASSUME lookup \in [Resolvers -> CallType], MapsInv', Notice
    PROVE  /\ lookup' \in [Resolvers -> CallType]
           /\ \A r \in Resolvers :
                /\ lookup'[r].pc = lookup[r].pc /\ lookup'[r].name = lookup[r].name
                /\ lookup'[r].guid = lookup[r].guid
                /\ lookup'[r].ok = lookup[r].ok /\ lookup'[r].vip = lookup[r].vip
                /\ lookup'[r].missed = (lookup[r].missed
                       \/ (lookup[r].pc = "get" /\ ~Registered(repo', lookup[r].name)))
                /\ lookup[r].told \subseteq lookup'[r].told
                /\ lookup[r].pc = "get" => Named(log', lookup[r].name) \subseteq lookup'[r].told
<1> DEFINE M(r) == lookup[r].missed \/ (lookup[r].pc = "get" /\ ~Registered(repo', lookup[r].name))
           T(r) == IF lookup[r].pc = "get" THEN lookup[r].told \cup Named(log', lookup[r].name) ELSE lookup[r].told
<1>1. \A r \in Resolvers : lookup'[r] = [lookup[r] EXCEPT !.missed = M(r), !.told = T(r)]
  BY DEF Notice
<1>2. lookup' = [r \in Resolvers |-> lookup'[r]]
  BY DEF Notice
<1>3. \A r \in Resolvers : lookup[r] \in CallType /\ M(r) \in BOOLEAN
  BY DEF CallType
<1>4. \A r \in Resolvers : T(r) \in SUBSET Guids
  <2>1. \A h : Named(log', h) \subseteq Guids
    BY LogSays DEF MapsInv, LogOK
  <2> QED BY <1>3, <2>1 DEF CallType
<1>5. \A r \in Resolvers : lookup[r].told \subseteq T(r) /\ (lookup[r].pc = "get" => Named(log', lookup[r].name) \subseteq T(r))
  OBVIOUS
<1> HIDE DEF T
<1>6. ASSUME NEW r \in Resolvers
      PROVE  /\ lookup'[r] \in CallType
             /\ lookup'[r].pc = lookup[r].pc /\ lookup'[r].name = lookup[r].name
             /\ lookup'[r].guid = lookup[r].guid
             /\ lookup'[r].ok = lookup[r].ok /\ lookup'[r].vip = lookup[r].vip
             /\ lookup'[r].missed = M(r) /\ lookup'[r].told = T(r)
  <2> HIDE DEF M
  <2> QED BY <1>1, <1>3, <1>4 DEF CallType
<1> QED BY <1>2, <1>5, <1>6

\* The two kinds of steps: a mutation, or a lookup's own step.
LEMMA Steps ==
    ASSUME Next
    PROVE  \/ Mutation
           \/ \E r \in Resolvers, fqdn \in Fqdns : GetGUIDByHostname(r, fqdn)
           \/ \E r \in Resolvers : GetByGUID(r)
BY DEF Next, Mutation

\* What the first read of a lookup leaves behind.
LEMMA FirstRead ==
    ASSUME IInv, NEW r \in Resolvers, NEW fqdn \in Fqdns, GetGUIDByHostname(r, fqdn)
    PROVE  /\ lookup' \in [Resolvers -> CallType] /\ UNCHANGED <<repoVars, log>>
           /\ lookup'[r].name = TrimRight(fqdn) /\ lookup'[r].pc = "get"
           /\ lookup'[r].guid = Lookup(repoByHostname, TrimRight(fqdn), NoString)
           /\ lookup'[r].missed = ~Registered(repo, TrimRight(fqdn))
           /\ lookup'[r].told = Named(log, TrimRight(fqdn))
           /\ lookup'[r].ok = FALSE /\ lookup'[r].vip = NoString
           /\ \A q \in Resolvers \ {r} : lookup'[q] = lookup[q]
           /\ lookup[r].pc = "idle"
<1>1. TrimRight(fqdn) \in Names
  BY DEF Fqdns, TrimRight
<1>2. Lookup(repoByHostname, TrimRight(fqdn), NoString) \in Guids
  BY DEF IInv, MapsInv, IsMap, Lookup, Guids
<1>3. (~Registered(repo, TrimRight(fqdn))) \in BOOLEAN /\ NoString \in VIPs
  BY DEF VIPs
<1>4. lookup \in [Resolvers -> CallType]
  BY DEF IInv
<1>5. Named(log, TrimRight(fqdn)) \in SUBSET Guids
  BY LogSays DEF IInv, MapsInv, LogOK
<1> DEFINE c == [pc |-> "get", name |-> TrimRight(fqdn), guid |-> Lookup(repoByHostname, TrimRight(fqdn), NoString),
                 missed |-> ~Registered(repo, TrimRight(fqdn)), told |-> Named(log, TrimRight(fqdn)),
                 ok |-> FALSE, vip |-> NoString]
<1>6. c \in CallType
  BY <1>1, <1>2, <1>3, <1>5 DEF CallType
<1>7. lookup' = [lookup EXCEPT ![r] = c] /\ UNCHANGED <<repoVars, log>> /\ lookup[r].pc = "idle"
  BY DEF GetGUIDByHostname
<1>8. lookup'[r] = c
  BY <1>4, <1>7
<1> QED BY <1>4, <1>6, <1>7, <1>8

\* What the second read of a lookup finds.
LEMMA SecondRead ==
    ASSUME IInv, NEW r \in Resolvers, GetByGUID(r)
    PROVE  /\ lookup' \in [Resolvers -> CallType] /\ UNCHANGED <<repoVars, log>>
           /\ lookup[r].pc = "get" /\ lookup'[r].pc = "idle"
           /\ lookup'[r].name = lookup[r].name /\ lookup'[r].guid = lookup[r].guid
           /\ lookup'[r].ok = (lookup[r].guid \in DOMAIN repo)
           /\ lookup'[r].vip = IF lookup[r].guid \in DOMAIN repo THEN repo[lookup[r].guid].VIP ELSE NoString
           /\ \A q \in Resolvers \ {r} : lookup'[q] = lookup[q]
<1> DEFINE found == lookup[r].guid \in DOMAIN repo
           v == IF found THEN repo[lookup[r].guid].VIP ELSE NoString
<1>1. found \in BOOLEAN
  OBVIOUS
<1>2. v \in VIPs
  BY DEF IInv, MapsInv, IsMap, VIPs
<1>3. lookup \in [Resolvers -> CallType]
  BY DEF IInv
<1>4. /\ lookup' = [lookup EXCEPT ![r].pc = "idle", ![r].ok = found, ![r].vip = v]
      /\ UNCHANGED <<repoVars, log>> /\ lookup[r].pc = "get"
  BY DEF GetByGUID
<1> HIDE DEF v
<1>5. lookup'[r] = [lookup[r] EXCEPT !.pc = "idle", !.ok = found, !.vip = v]
  BY <1>3, <1>4
<1>6. /\ lookup'[r] \in CallType /\ lookup'[r].pc = "idle" /\ lookup'[r].vip = v
  BY <1>1, <1>2, <1>3, <1>5 DEF CallType
<1>7. lookup'[r].ok = found /\ lookup'[r].name = lookup[r].name /\ lookup'[r].guid = lookup[r].guid
  <2> HIDE DEF found
  <2> QED BY <1>3, <1>5 DEF CallType
<1>8. \A q \in Resolvers \ {r} : lookup'[q] = lookup[q]
  BY <1>3, <1>4
<1>9. lookup' \in [Resolvers -> CallType]
  BY <1>3, <1>4, <1>6, <1>8
<1> QED BY <1>4, <1>6, <1>7, <1>8, <1>9 DEF v

\* The invariant is inductive.
LEMMA InductiveStep ==
    ASSUME IInv, [Next]_vars
    PROVE  IInv'
<1>0. lookup \in [Resolvers -> CallType] /\ MapsInv
  BY DEF IInv
<1>1. CASE Mutation
  <2>1. MapsInv' /\ Notice
    BY <1>0, <1>1, MutationMaps
  <2>2. /\ lookup' \in [Resolvers -> CallType]
        /\ \A r \in Resolvers :
             /\ lookup'[r].pc = lookup[r].pc /\ lookup'[r].name = lookup[r].name
             /\ lookup'[r].guid = lookup[r].guid
             /\ lookup'[r].missed = (lookup[r].missed
                    \/ (lookup[r].pc = "get" /\ ~Registered(repo', lookup[r].name)))
             /\ lookup[r].told \subseteq lookup'[r].told
             /\ lookup[r].pc = "get" => Named(log', lookup[r].name) \subseteq lookup'[r].told
    BY <1>0, <2>1, NoticeStep
  <2>3. \A r \in Resolvers : Informed(r)'
    <3> SUFFICES ASSUME NEW r \in Resolvers, lookup'[r].pc = "get"
                 PROVE  /\ Named(log', lookup'[r].name) \subseteq lookup'[r].told
                        /\ lookup'[r].guid \in lookup'[r].told \/ (lookup'[r].guid = NoString /\ lookup'[r].missed)
                        /\ lookup'[r].missed \/ Registered(repo', lookup'[r].name)
      BY DEF Informed, Registered, Named
    <3>1. Informed(r) /\ lookup[r].pc = "get"
      BY <2>2 DEF IInv
    <3> QED BY <2>2, <3>1 DEF Informed
  <2> QED BY <2>1, <2>2, <2>3 DEF IInv
<1>2. ASSUME NEW r \in Resolvers, NEW fqdn \in Fqdns, GetGUIDByHostname(r, fqdn)
      PROVE  IInv'
  <2> DEFINE name == TrimRight(fqdn)
  <2>1. /\ lookup' \in [Resolvers -> CallType] /\ UNCHANGED <<repoVars, log>>
        /\ lookup'[r].name = name
        /\ lookup'[r].guid = Lookup(repoByHostname, name, NoString)
        /\ lookup'[r].missed = ~Registered(repo, name)
        /\ lookup'[r].told = Named(log, name)
        /\ \A q \in Resolvers \ {r} : lookup'[q] = lookup[q]
    BY <1>2, FirstRead
  <2>2. UNCHANGED <<repo, repoByHostname, log>>
    BY <2>1 DEF repoVars
  <2>3. MapsInv'
    BY <1>0, <2>2 DEF MapsInv, LogOK, RepoIsLog, IndexIsLog, IndexCovers, At
  <2>4. Lookup(repoByHostname, name, NoString) \in Named(log, name)
        \/ (Lookup(repoByHostname, name, NoString) = NoString /\ ~Registered(repo, name))
    <3>1. CASE name \in DOMAIN repoByHostname
      BY <1>0, <3>1, IndexedIsNamed DEF Lookup
    <3>2. CASE name \notin DOMAIN repoByHostname
      BY <1>0, <3>2 DEF Lookup, Registered, MapsInv, IndexCovers
    <3> QED BY <3>1, <3>2
  <2> HIDE DEF name
  <2>5. Informed(r)'
    BY <2>1, <2>2, <2>4 DEF Informed
  <2>6. \A q \in Resolvers \ {r} : Informed(q)'
    BY <2>1, <2>2 DEF IInv, Informed
  <2> QED BY <2>1, <2>3, <2>5, <2>6 DEF IInv
<1>3. ASSUME NEW r \in Resolvers, GetByGUID(r)
      PROVE  IInv'
  <2>1. /\ lookup' \in [Resolvers -> CallType] /\ UNCHANGED <<repoVars, log>>
        /\ lookup'[r].pc = "idle"
        /\ \A q \in Resolvers \ {r} : lookup'[q] = lookup[q]
    BY <1>3, SecondRead
  <2>2. UNCHANGED <<repo, repoByHostname, log>>
    BY <2>1 DEF repoVars
  <2>3. MapsInv'
    BY <1>0, <2>2 DEF MapsInv, LogOK, RepoIsLog, IndexIsLog, IndexCovers, At
  <2>4. \A q \in Resolvers : Informed(q)'
    BY <2>1, <2>2 DEF IInv, Informed
  <2> QED BY <2>1, <2>3, <2>4 DEF IInv
<1>4. CASE UNCHANGED vars
  BY <1>4 DEF vars, IInv, MapsInv, LogOK, RepoIsLog, IndexIsLog, IndexCovers, At, Informed
<1> QED BY <1>1, <1>2, <1>3, <1>4, Steps

\* The invariant holds initially.
LEMMA InitIInv == Init => IInv
<1> SUFFICES ASSUME Init PROVE IInv
  OBVIOUS
<1>1. lookup \in [Resolvers -> CallType] /\ \A r \in Resolvers : lookup[r].pc = "idle"
  BY DEF Init, Idle, CallType, Guids, VIPs
<1>2. log = <<>> /\ DOMAIN log = {} /\ DOMAIN repo = {} /\ DOMAIN repoByHostname = {}
  BY DEF Init, EmptyMap
<1>3. LogOK /\ IndexCovers
  BY <1>2 DEF LogOK, IndexCovers
<1>4. RepoIsLog /\ IndexIsLog
  BY <1>2 DEF RepoIsLog, IndexIsLog, At, Current, LastNamed
<1>5. IsMap(repo, Guids, Routes) /\ IsMap(repoByHostname, Hosts, Guids)
  BY DEF Init, EmptyMap, IsMap
<1> QED BY <1>1, <1>3, <1>4, <1>5 DEF IInv, MapsInv, Informed

\* IInv holds in every reachable state.
THEOREM Inductive == Spec => []IInv
BY InitIInv, InductiveStep, PTL DEF Spec

\* Repository, index and lookups keep their types under any interleaving of
\* mutations and lookups.
THEOREM TypeCorrect == Spec => []TypeOK
<1>1. IInv => TypeOK BY DEF IInv, MapsInv, TypeOK, CallType
<1> QED BY <1>1, Inductive, PTL
-----------------------------------------------------------------------------
(***************************************************************************)
(* The answers.                                                            *)
(***************************************************************************)
\* Only the second read answers.
LEMMA AnswersAtSecondRead ==
    ASSUME IInv, Next, NEW r \in Resolvers, Answers(r)
    PROVE  GetByGUID(r)
<1>0. lookup \in [Resolvers -> CallType] /\ MapsInv
  BY DEF IInv
<1>1. CASE Mutation
  BY <1>0, <1>1, MutationMaps, NoticeStep DEF Answers
<1>2. CASE \E q \in Resolvers, fqdn \in Fqdns : GetGUIDByHostname(q, fqdn)
  BY <1>2, FirstRead DEF Answers
<1>3. CASE \E q \in Resolvers : GetByGUID(q)
  BY <1>3, SecondRead DEF Answers
<1> QED BY <1>1, <1>2, <1>3, Steps

\* No lookup ever answers with the VIP of a route that copilot was not told
\* under the name asked for, or with a VIP that the route no longer has.
THEOREM AnswersRight == Spec => AnswerIsCurrent
<1> DEFINE Right == \A r \in Resolvers :
          Answers(r) /\ lookup'[r].ok =>
              \E g \in DOMAIN repo : /\ g \in lookup[r].told \cup {NoString}
                                     /\ repo[g].VIP = lookup'[r].vip
<1>1. ASSUME IInv, [Next]_vars PROVE [Right]_vars
  <2> SUFFICES ASSUME Next, NEW r \in Resolvers, Answers(r), lookup'[r].ok
               PROVE  \E g \in DOMAIN repo : /\ g \in lookup[r].told \cup {NoString}
                                             /\ repo[g].VIP = lookup'[r].vip
    BY <1>1
  <2> DEFINE g == lookup[r].guid
  <2>1. GetByGUID(r)
    BY <1>1, AnswersAtSecondRead
  <2>2. g \in DOMAIN repo /\ lookup'[r].vip = repo[g].VIP /\ lookup[r].pc = "get"
    BY <1>1, <2>1, SecondRead
  <2>3. g \in lookup[r].told \cup {NoString}
    BY <1>1, <2>2 DEF IInv, Informed
  <2> QED BY <2>2, <2>3
<1>2. AnswerIsCurrent <=> [][Right]_vars
  BY DEF AnswerIsCurrent
<1> QED BY <1>1, <1>2, Inductive, PTL DEF Spec

\* "route doesn't exist" is only ever wrong about a name that has been given to
\* two routes, one of which is gone.
THEOREM MissesRight == Spec => MissIsReal
<1> DEFINE Right == \A r \in Resolvers :
          Answers(r) /\ ~lookup'[r].ok =>
              \/ lookup[r].missed
              \/ \E g, h \in lookup[r].told : g \notin DOMAIN repo /\ h \in DOMAIN repo
<1>1. ASSUME IInv, [Next]_vars PROVE [Right]_vars
  <2> SUFFICES ASSUME Next, NEW r \in Resolvers, Answers(r), ~lookup'[r].ok, ~lookup[r].missed
               PROVE  \E g, h \in lookup[r].told : g \notin DOMAIN repo /\ h \in DOMAIN repo
    BY <1>1
  <2>1. GetByGUID(r)
    BY <1>1, AnswersAtSecondRead
  <2>2. lookup[r].pc = "get" /\ lookup[r].guid \notin DOMAIN repo
    BY <1>1, <2>1, SecondRead
  <2>3. /\ Named(log, lookup[r].name) \subseteq lookup[r].told
        /\ lookup[r].guid \in lookup[r].told /\ Registered(repo, lookup[r].name)
    BY <1>1, <2>2 DEF IInv, Informed
  <2>4. PICK h \in DOMAIN repo : repo[h].Host = lookup[r].name
    BY <2>3 DEF Registered
  <2>5. h \in Named(log, lookup[r].name)
    BY <1>1, <2>4, RegisteredIsNamed DEF IInv
  <2> QED BY <2>2, <2>3, <2>4, <2>5
<1>2. MissIsReal <=> [][Right]_vars
  BY DEF MissIsReal
<1> QED BY <1>1, <1>2, Inductive, PTL DEF Spec
-----------------------------------------------------------------------------
(***************************************************************************)
(* RoutesRepo implements NameService.                                      *)
(***************************************************************************)
Asked(r) == [open |-> lookup[r].pc = "get", name |-> lookup[r].name,
             guid |-> lookup[r].guid, ok |-> lookup[r].ok, vip |-> lookup[r].vip]
Ask == [r \in Resolvers |-> Asked(r)]

\* The service reads the log as the repository's history does.
LEMMA SameLog ==
    /\ \A route : Service!Tells(route) = Tells(route)
    /\ \A guid : Service!Withdraws(guid) = Withdraws(guid)
    /\ \A routes : Service!Retells(routes) = Retells(routes)
    /\ \A calls, name : Service!LastNamed(calls, name) = LastNamed(calls, name)
    /\ \A calls, guid : Service!Current(calls, guid) = Current(calls, guid)
BY DEF Service!Tells, Tells, Service!Withdraws, Withdraws, Service!Retells, Retells, Service!Gives, Gives,
       Service!LastNamed, LastNamed, Service!Current, Current

\* A mutation is a call, and no lookup notices it.
LEMMA MutationIsCall ==
    ASSUME IInv, Mutation
    PROVE  Service!Next
<1>1. MapsInv' /\ Notice
  BY MutationMaps DEF IInv
<1>2. Ask' = Ask
  <2>1. \A r \in Resolvers : Asked(r)' = Asked(r)
    BY <1>1, NoticeStep DEF IInv, Asked
  <2> QED BY <2>1 DEF Ask
<1>3. ASSUME NEW route \in Routes, UpsertRoute(route) PROVE Service!Told(route)
  BY <1>2, <1>3, SameLog DEF UpsertRoute, Service!Told, Ask, Asked
<1>4. ASSUME NEW guid \in Guids, DeleteRoute(guid)
      PROVE  \E route \in Routes : Service!Withdrawn(route.GUID)
  <2>1. PICK route \in Routes : guid = route.GUID
    BY <1>4 DEF DeleteRoute, ValidDelete, Guids
  <2>2. Service!Withdrawn(guid)
    BY <1>2, <1>4, SameLog DEF DeleteRoute, Service!Withdrawn, Ask, Asked
  <2> QED BY <2>1, <2>2
<1>5. ASSUME NEW routes \in Lists, SyncRoutes(routes) PROVE Service!Replaced(routes)
  BY <1>2, <1>5, SameLog DEF SyncRoutes, Service!Replaced, Ask, Asked
<1> QED BY <1>3, <1>4, <1>5 DEF Mutation, Service!Next

\* The first read sends the question where the log says.
LEMMA FirstReadAsks ==
    ASSUME IInv, NEW r \in Resolvers, NEW fqdn \in Fqdns, GetGUIDByHostname(r, fqdn)
    PROVE  Service!Question(r, TrimRight(fqdn))
<1> DEFINE name == TrimRight(fqdn)
           guid == Lookup(repoByHostname, name, NoString)
<1>1. /\ UNCHANGED <<repoVars, log>> /\ lookup[r].pc = "idle"
      /\ lookup'[r].name = name /\ lookup'[r].pc = "get" /\ lookup'[r].guid = guid
      /\ lookup'[r].ok = FALSE /\ lookup'[r].vip = NoString
      /\ \A q \in Resolvers \ {r} : lookup'[q] = lookup[q]
  BY FirstRead
<1>2. LastNamed(log, name) = At(repoByHostname, name)
  BY DEF IInv, MapsInv, IndexIsLog
<1>3. guid \in Service!Addressees(name)
  BY <1>2, SameLog DEF Service!Addressees, Lookup, At
<1> HIDE DEF guid, name
<1>4. Asked(r)' = Service!State(TRUE, name, guid, FALSE, NoString)
  BY <1>1 DEF Asked, Service!State
<1>5. \A q \in Resolvers \ {r} : Asked(q)' = Asked(q)
  BY <1>1 DEF Asked
<1>6. Ask' = [Ask EXCEPT ![r] = Service!State(TRUE, name, guid, FALSE, NoString)]
  BY <1>4, <1>5 DEF Ask
<1>7. ~Ask[r].open
  BY <1>1 DEF Ask, Asked
<1> QED BY <1>1, <1>3, <1>6, <1>7 DEF Service!Question, Ask, Asked, name

\* The second read answers what the log says at that moment.
LEMMA SecondReadAnswers ==
    ASSUME IInv, NEW r \in Resolvers, GetByGUID(r)
    PROVE  Service!Hit(r) \/ Service!Miss(r)
<1> DEFINE guid == lookup[r].guid
           found == guid \in DOMAIN repo
           v == IF found THEN repo[guid].VIP ELSE NoString
<1>1. /\ UNCHANGED <<repoVars, log>>
      /\ lookup[r].pc = "get" /\ lookup'[r].pc = "idle"
      /\ lookup'[r].name = lookup[r].name /\ lookup'[r].guid = guid
      /\ lookup'[r].ok = found /\ lookup'[r].vip = v
      /\ \A q \in Resolvers \ {r} : lookup'[q] = lookup[q]
  BY SecondRead
<1>2. Service!Current(log, Ask[r].guid) = At(repo, guid)
  <2>1. Ask[r].guid = guid
    BY DEF Ask, Asked
  <2> QED BY <2>1, SameLog DEF IInv, MapsInv, RepoIsLog
<1> HIDE DEF v, found
<1>3. /\ Ask[r].open /\ log' = log
      /\ Ask' = [Ask EXCEPT ![r] = Service!State(FALSE, Ask[r].name, Ask[r].guid, found, v)]
  <2>1. Asked(r)' = Service!State(FALSE, Asked(r).name, Asked(r).guid, found, v)
    BY <1>1 DEF Asked, Service!State
  <2>2. \A q \in Resolvers \ {r} : Asked(q)' = Asked(q)
    BY <1>1 DEF Asked
  <2>3. Ask' = [Ask EXCEPT ![r] = Service!State(FALSE, Ask[r].name, Ask[r].guid, found, v)]
    BY <2>1, <2>2 DEF Ask
  <2>4. Ask[r].open
    BY <1>1 DEF Ask, Asked
  <2> QED BY <1>1, <2>3, <2>4
<1>4. CASE found
  <2>1. repo[guid] \in Service!Current(log, Ask[r].guid)
    BY <1>2, <1>4 DEF At, found
  <2>2. found = TRUE /\ v = repo[guid].VIP
    BY <1>4 DEF v, found
  <2>3. \E route \in Service!Current(log, Ask[r].guid) :
            /\ Ask[r].open /\ log' = log
            /\ Ask' = [Ask EXCEPT ![r] = Service!State(FALSE, Ask[r].name, Ask[r].guid, TRUE, route.VIP)]
    BY <1>3, <2>1, <2>2
  <2> QED BY <2>3 DEF Service!Hit, Service!Answer, Ask, Asked
<1>5. CASE ~found
  <2>1. Service!Current(log, Ask[r].guid) = {}
    BY <1>2, <1>5 DEF At, found
  <2>2. found = FALSE /\ v = NoString
    BY <1>5 DEF v, found
  <2>3. Ask' = [Ask EXCEPT ![r] = Service!State(FALSE, Ask[r].name, Ask[r].guid, FALSE, NoString)]
    BY <1>3, <2>2
  <2> QED BY <1>3, <2>1, <2>3 DEF Service!Miss, Service!Answer, Ask, Asked
<1> QED BY <1>4, <1>5

\* The initial state is one of the name service.
LEMMA InitImplements == Init => Service!Init
<1> SUFFICES ASSUME Init PROVE Service!Init
  OBVIOUS
<1>1. \A r \in Resolvers : Asked(r) = Service!State(FALSE, NoString, NoString, FALSE, NoString)
  BY DEF Init, Idle, Asked, Service!State
<1>2. Ask = [r \in Resolvers |-> Service!State(FALSE, NoString, NoString, FALSE, NoString)]
  BY <1>1 DEF Ask
<1> QED BY <1>2 DEF Init, Service!Init, Ask, Asked

\* DNS cannot tell the repository, with its index that is never cleaned and its
\* lookups in two critical sections, from a service that has nothing but the
\* list of the calls made to it.
THEOREM Implements == Spec => ImplementsNameService
<1>1. ASSUME IInv, [Next]_vars PROVE [Service!Next]_(Service!vars)
  <2>1. CASE Mutation
    BY <1>1, <2>1, MutationIsCall
  <2>2. ASSUME NEW r \in Resolvers, NEW fqdn \in Fqdns, GetGUIDByHostname(r, fqdn)
        PROVE  Service!Next
    <3>1. TrimRight(fqdn) \in Names
      BY DEF Fqdns, TrimRight
    <3> QED BY <1>1, <2>2, <3>1, FirstReadAsks DEF Service!Next
  <2>3. ASSUME NEW r \in Resolvers, GetByGUID(r)
        PROVE  Service!Next
    BY <1>1, <2>3, SecondReadAnswers DEF Service!Next
  <2>4. CASE UNCHANGED vars
    BY <2>4 DEF vars, Service!vars
  <2> QED BY <1>1, <2>1, <2>2, <2>3, <2>4, Steps
<1> QED BY <1>1, Inductive, InitImplements, PTL DEF Spec, ImplementsNameService, Service!Spec
=============================================================================
