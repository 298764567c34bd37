-------------------------- MODULE CollectorProofs --------------------------
(***************************************************************************)
(* Proofs about Collector, for all routes, mappings, associations and      *)
(* backend sets, any number of writes during a collection and every width  *)
(* of the running sums.                                                    *)
(***************************************************************************)
EXTENDS Collector, DataTheorems

RouteGuids == {m.RouteGUID : m \in RouteMappings}
Key(m) == <<m.RouteGUID, m.CAPIProcessGUID>>

\* The mappings of a route in the repository's map, and the sum of their weights.
MappedIn(t, r) == {t[k] : k \in {k \in DOMAIN t : k[1] = r}}
WeightIn(t, r) == SumFunctionOnSet([m \in MappedIn(t, r) |-> m.RouteWeight], MappedIn(t, r))

MappingsTable(t) == /\ t = [k \in DOMAIN t |-> t[k]]
                    /\ IsFiniteSet(DOMAIN t)
                    /\ \A k \in DOMAIN t : t[k] \in RouteMappings /\ Key(t[k]) = k

SumsInv == /\ MappingsTable(mappings)
           /\ weightDenominator = [r \in RouteGuids |-> WeightIn(mappings, r) % Word]
-----------------------------------------------------------------------------
(***************************************************************************)
(* The running sums.                                                       *)
(***************************************************************************)
\* The sums of the repository are the library's.
LEMMA SameSums ==
    ASSUME NEW f
    PROVE  MappingsStore!SumFunction(f) = SumFunctionOnSet(f, DOMAIN f)
BY DEF MappingsStore!SumFunction, MappingsStore!SumFunctionOnSet, MappingsStore!FoldFunctionOnSet,
       MappingsStore!MapThenFoldSet, SumFunctionOnSet, FoldFunctionOnSet, MapThenFoldSet

\* The mappings of a route are finitely many and have weights.
LEMMA MappedFinite ==
    ASSUME NEW t, MappingsTable(t), NEW r
    PROVE  /\ IsFiniteSet(MappedIn(t, r))
           /\ \A m \in MappedIn(t, r) : m \in RouteMappings /\ m.RouteGUID = r /\ m.RouteWeight \in Nat
                                        /\ Key(m) \in DOMAIN t /\ t[Key(m)] = m
           /\ \A k \in DOMAIN t : t[k].RouteGUID = r => t[k] \in MappedIn(t, r)
           /\ WeightIn(t, r) \in Nat
<1> DEFINE K == {k \in DOMAIN t : k[1] = r}
<1>1. IsFiniteSet(K)
  BY FS_Subset DEF MappingsTable
<1>2. IsFiniteSet(MappedIn(t, r))
  <2>1. [k \in K |-> t[k]] \in Surjection(K, MappedIn(t, r))
    BY DEF Surjection, MappedIn
  <2> HIDE DEF K
  <2> QED
    BY <1>1, <2>1, FS_Surjection
<1>3. \A m \in MappedIn(t, r) : m \in RouteMappings /\ m.RouteGUID = r /\ m.RouteWeight \in Nat
                                /\ Key(m) \in DOMAIN t /\ t[Key(m)] = m
  BY MappingsAssumption DEF MappedIn, MappingsTable, Key
<1>4. \A k \in DOMAIN t : t[k].RouteGUID = r => t[k] \in MappedIn(t, r)
  BY DEF MappedIn, MappingsTable, Key
<1>5. WeightIn(t, r) \in Nat
  BY <1>2, <1>3, SumType DEF WeightIn
<1> QED
  BY <1>2, <1>3, <1>4, <1>5

\* Two tables of which one holds a mapping more for the route.
LEMMA OneMore ==
    ASSUME NEW t, MappingsTable(t), NEW u, MappingsTable(u), NEW r,
           NEW m \in MappedIn(u, r), MappedIn(t, r) = MappedIn(u, r) \ {m}
    PROVE  WeightIn(u, r) = m.RouteWeight + WeightIn(t, r)
<1> DEFINE S == MappedIn(u, r)
           R == MappedIn(t, r)
           f == [x \in S |-> x.RouteWeight]
           g == [x \in R |-> x.RouteWeight]
           id == [x \in R |-> x]
<1>1. IsFiniteSet(S) /\ IsFiniteSet(R) /\ \A x \in S : x.RouteWeight \in Nat
  BY MappedFinite
<1>2. R = S \ {m} /\ m \in S
  OBVIOUS
<1>3. SumFunctionOnSet(f, S) = f[m] + SumFunctionOnSet(f, S \ {m})
  <2>1. \A x \in S : f[x] \in Nat
    BY <1>1
  <2> HIDE DEF S, R, f
  <2> QED
    BY <1>1, <1>2, <2>1, SumWithout
<1>4. SumFunctionOnSet(f, {id[x] : x \in R}) = SumFunctionOnSet(g, R)
  <2> HIDE DEF S, R
  <2>1. \A x \in R : g[x] \in Nat
    BY <1>1, <1>2
  <2>2. \A x, y \in R : id[x] = id[y] => x = y
    OBVIOUS
  <2>3. \A x \in R : f[id[x]] = g[x]
    BY <1>2
  <2> HIDE DEF f, g, id
  <2> QED
    BY <1>1, <2>1, <2>2, <2>3, SumRenamed
<1>5. {id[x] : x \in R} = R
  <2> HIDE DEF R
  <2> QED
    OBVIOUS
<1>6. f[m] = m.RouteWeight
  BY <1>2
<1> QED
  BY <1>2, <1>3, <1>4, <1>5, <1>6 DEF WeightIn
\* Adding or removing a mapping.
LEMMA PutTable ==
    ASSUME NEW t, MappingsTable(t), NEW m \in RouteMappings
    PROVE  MappingsTable(Put(t, Key(m), m))
<1> DEFINE u == Put(t, Key(m), m)
<1>1. DOMAIN u = DOMAIN t \cup {Key(m)} /\ u = [k \in DOMAIN u |-> u[k]]
  BY DEF Put
<1>2. IsFiniteSet(DOMAIN u)
  <2> HIDE DEF u
  <2> QED
    BY <1>1, FS_AddElement DEF MappingsTable
<1>3. \A k \in DOMAIN u : u[k] = IF k = Key(m) THEN m ELSE t[k]
  BY DEF Put
<1>4. \A k \in DOMAIN u : u[k] \in RouteMappings /\ Key(u[k]) = k
  <2> HIDE DEF u
  <2> QED
    BY <1>1, <1>3 DEF MappingsTable
<1> QED
  BY <1>1, <1>2, <1>4 DEF MappingsTable

\* Unmap keeps the mappings filed under their keys.
LEMMA DropTable ==
    ASSUME NEW t, MappingsTable(t), NEW k
    PROVE  MappingsTable(Drop(t, k))
<1>1. IsFiniteSet(DOMAIN t \ {k})
  BY FS_Subset DEF MappingsTable
<1> QED
  BY <1>1 DEF MappingsTable, Drop

\* The store writes with the same maps and keys.
LEMMA SameMaps ==
    ASSUME NEW m, NEW k, NEW v
    PROVE  /\ MappingsStore!Put(m, k, v) = Put(m, k, v)
           /\ MappingsStore!Drop(m, k) = Drop(m, k)
           /\ MappingsStore!Key(m) = Key(m)
BY DEF MappingsStore!Put, MappingsStore!Drop, MappingsStore!Key, Put, Drop, Key

\* MapRoute of a new mapping adds its weight to the sum of its route.
LEMMA MapRouteSums ==
    ASSUME SumsInv, NEW m \in RouteMappings, MapRoute(m)
    PROVE  SumsInv'
<1> DEFINE t == mappings
           u == Put(t, Key(m), m)
           g == m.RouteGUID
<1>1. mappings' = u /\ Key(m) \notin DOMAIN t
  BY SameMaps DEF MapRoute, MappingsStore!MapRoute, MappingsStore!Map
<1>2. weightDenominator' = [weightDenominator EXCEPT ![g] = (weightDenominator[g] + m.RouteWeight) % Word]
  BY DEF MapRoute, MappingsStore!MapRoute, MappingsStore!Map
<1>3. MappingsTable(t) /\ MappingsTable(u)
  BY PutTable DEF SumsInv
<1>4. /\ DOMAIN u = DOMAIN t \cup {Key(m)} /\ u[Key(m)] = m
      /\ \A k \in DOMAIN t : u[k] = t[k]
  BY <1>1 DEF Put
<1> HIDE DEF u
<1>5. ASSUME NEW r \in RouteGuids
      PROVE  WeightIn(u, r) = IF r = g THEN m.RouteWeight + WeightIn(t, r) ELSE WeightIn(t, r)
  <2>1. CASE r = g
    <3>1. m \in MappedIn(u, r)
      BY <1>3, <1>4, <2>1, MappedFinite
    <3>2. m \notin MappedIn(t, r)
      BY <1>1, <1>3, MappedFinite
    <3>3. MappedIn(t, r) = MappedIn(u, r) \ {m}
      <4>1. \A x \in MappedIn(t, r) : x \in MappedIn(u, r)
        BY <1>4 DEF MappedIn
      <4>2. \A x \in MappedIn(u, r) : x # m => x \in MappedIn(t, r)
        BY <1>4 DEF MappedIn
      <4> QED
        BY <3>2, <4>1, <4>2
    <3> QED
      BY <1>3, <2>1, <3>1, <3>3, OneMore
  <2>2. CASE r # g
    <3>1. MappedIn(u, r) = MappedIn(t, r)
      <4>1. Key(m)[1] = g
        BY DEF Key
      <4> QED
        BY <1>4, <2>2, <4>1 DEF MappedIn
    <3> QED
      BY <2>2, <3>1 DEF WeightIn
  <2> QED
    BY <2>1, <2>2
<1>6. ASSUME NEW r \in RouteGuids
      PROVE  weightDenominator'[r] = WeightIn(u, r) % Word
  <2>1. weightDenominator[r] = WeightIn(t, r) % Word /\ WeightIn(t, r) \in Nat
    BY <1>3, MappedFinite DEF SumsInv
  <2>2. CASE r = g
    <3>1. weightDenominator'[r] = ((WeightIn(t, r) % Word) + m.RouteWeight) % Word
      BY <1>2, <2>1, <2>2 DEF SumsInv
    <3>2. ((WeightIn(t, r) % Word) + m.RouteWeight) % Word = (WeightIn(t, r) + m.RouteWeight) % Word
      BY <2>1, ModAdd, BoundsAssumption, MappingsAssumption
    <3>3. WeightIn(u, r) = WeightIn(t, r) + m.RouteWeight
      BY <1>5, <2>1, <2>2, MappingsAssumption
    <3> QED
      BY <3>1, <3>2, <3>3
  <2>3. CASE r # g
    BY <1>2, <1>5, <2>1, <2>3 DEF SumsInv
  <2> QED
    BY <2>2, <2>3
<1>7. DOMAIN weightDenominator' = RouteGuids /\ weightDenominator' = [r \in RouteGuids |-> weightDenominator'[r]]
  BY <1>2 DEF SumsInv
<1> QED
  BY <1>1, <1>3, <1>6, <1>7 DEF SumsInv

\* UnmapRoute of a mapping that is there takes its weight out of the sum.
LEMMA UnmapRouteSums ==
    ASSUME SumsInv, NEW m \in RouteMappings, UnmapRoute(m)
    PROVE  SumsInv'
<1> DEFINE t == mappings
           u == Drop(t, Key(m))
           g == m.RouteGUID
<1>1. mappings' = u /\ Key(m) \in DOMAIN t /\ t[Key(m)] = m
  <2>1. m \in Mapped
    BY DEF UnmapRoute
  <2> QED
    BY <2>1, SameMaps DEF UnmapRoute, MappingsStore!UnmapRoute, MappingsStore!Unmap, Mapped, SumsInv, MappingsTable
<1>2. weightDenominator' = [weightDenominator EXCEPT ![g] = (weightDenominator[g] - m.RouteWeight) % Word]
  BY DEF UnmapRoute, MappingsStore!UnmapRoute, MappingsStore!Unmap
<1>3. MappingsTable(t) /\ MappingsTable(u)
  BY DropTable DEF SumsInv
<1>4. DOMAIN u = DOMAIN t \ {Key(m)} /\ \A k \in DOMAIN u : u[k] = t[k]
  BY DEF Drop
<1> HIDE DEF u
<1>5. ASSUME NEW r \in RouteGuids
      PROVE  WeightIn(t, r) = IF r = g THEN m.RouteWeight + WeightIn(u, r) ELSE WeightIn(u, r)
  <2>1. CASE r = g
    <3>1. m \in MappedIn(t, r)
      BY <1>1, <1>3, <2>1, MappedFinite
    <3>2. MappedIn(u, r) = MappedIn(t, r) \ {m}
      <4>1. \A x \in MappedIn(u, r) : x \in MappedIn(t, r) /\ x # m
        BY <1>3, <1>4, MappedFinite DEF MappedIn, MappingsTable
      <4>2. \A x \in MappedIn(t, r) : x # m => x \in MappedIn(u, r)
        BY <1>1, <1>4 DEF MappedIn
      <4> QED
        BY <4>1, <4>2
    <3> QED
      BY <1>3, <2>1, <3>1, <3>2, OneMore
  <2>2. CASE r # g
    <3>1. MappedIn(u, r) = MappedIn(t, r)
      <4>1. Key(m)[1] = g
        BY DEF Key
      <4> QED
        BY <1>4, <2>2, <4>1 DEF MappedIn
    <3> QED
      BY <2>2, <3>1 DEF WeightIn
  <2> QED
    BY <2>1, <2>2
<1>6. ASSUME NEW r \in RouteGuids
      PROVE  weightDenominator'[r] = WeightIn(u, r) % Word
  <2>1. weightDenominator[r] = WeightIn(t, r) % Word /\ WeightIn(t, r) \in Nat /\ WeightIn(u, r) \in Nat
    BY <1>3, MappedFinite DEF SumsInv
  <2>2. CASE r = g
    <3>1. weightDenominator'[r] = ((WeightIn(t, r) % Word) - m.RouteWeight) % Word
      BY <1>2, <2>1, <2>2 DEF SumsInv
    <3>2. m.RouteWeight \in Nat /\ Word \in Nat \ {0}
      BY MappingsAssumption, BoundsAssumption
    <3>3. ((WeightIn(t, r) % Word) + (-m.RouteWeight)) % Word = (WeightIn(t, r) + (-m.RouteWeight)) % Word
      <4>1. WeightIn(t, r) \in Int /\ -m.RouteWeight \in Int
        BY <2>1, <3>2
      <4> QED
        BY <3>2, <4>1, ModAdd
    <3>4. /\ (WeightIn(t, r) % Word) + (-m.RouteWeight) = (WeightIn(t, r) % Word) - m.RouteWeight
          /\ WeightIn(t, r) + (-m.RouteWeight) = WeightIn(u, r)
      BY <1>5, <2>1, <2>2, <3>2
    <3> QED
      BY <3>1, <3>3, <3>4
  <2>3. CASE r # g
    BY <1>2, <1>5, <2>1, <2>3 DEF SumsInv
  <2> QED
    BY <2>2, <2>3
<1>7. DOMAIN weightDenominator' = RouteGuids /\ weightDenominator' = [r \in RouteGuids |-> weightDenominator'[r]]
  BY <1>2 DEF SumsInv
<1> QED
  BY <1>1, <1>3, <1>6, <1>7 DEF SumsInv

\* An empty repository has sums of zero.
LEMMA SumsInvInit == Init => SumsInv
<1> SUFFICES ASSUME Init PROVE SumsInv
  OBVIOUS
<1>1. MappingsTable(mappings) /\ DOMAIN mappings = {}
  BY FS_EmptySet DEF Init, EmptyMap, MappingsTable
<1>2. ASSUME NEW r \in RouteGuids PROVE WeightIn(mappings, r) % Word = 0
  <2>1. MappedIn(mappings, r) = {}
    BY <1>1 DEF MappedIn
  <2>2. WeightIn(mappings, r) = 0
    BY <2>1, SumStep, FS_EmptySet DEF WeightIn
  <2> QED
    BY <2>2, BoundsAssumption
<1>3. weightDenominator = [r \in RouteGuids |-> 0]
  BY DEF Init, RouteGuids
<1> QED
  BY <1>1, <1>2, <1>3 DEF SumsInv

\* Only MapRoute and UnmapRoute touch the mappings or their sums.
LEMMA SumsInvNext == SumsInv /\ [Next]_vars => SumsInv'
<1> SUFFICES ASSUME SumsInv, [Next]_vars PROVE SumsInv'
  OBVIOUS
<1>1. ASSUME UNCHANGED <<mappings, weightDenominator>> PROVE SumsInv'
  BY <1>1 DEF SumsInv
<1>2. CASE Writer
  <2>1. ASSUME NEW m \in RouteMappings, MapRoute(m) \/ UnmapRoute(m) PROVE SumsInv'
    BY <2>1, MapRouteSums, UnmapRouteSums
  <2> QED
    BY <1>1, <1>2, <2>1 DEF Writer, UpsertRoute, DeleteRoute, UpsertAssociation, DeleteAssociation, BackendsChange
<1>3. CASE Collect
  BY <1>1, <1>3 DEF Collect, List, GetRoute, GetAssociation, GetBackends, NoBackends, GetWeight, Finish, Return, repoVars
<1>4. CASE UNCHANGED vars
  BY <1>1, <1>4 DEF vars
<1> QED
  BY <1>2, <1>3, <1>4 DEF Next

\* With requests that take effect once, the sums that Map and Unmap maintain
\* step by step are those of the mapped weights, modulo the word.
THEOREM SumsRight == Spec => []SumsExact
<1>1. SumsInv => SumsExact
  <2> SUFFICES ASSUME SumsInv PROVE SumsExact
    OBVIOUS
  <2>1. \A r \in RouteGuids :
            MappingsStore!SumFunction([m \in MappedIn(mappings, r) |-> m.RouteWeight]) = WeightIn(mappings, r)
    BY SameSums DEF WeightIn
  <2> QED
    BY <2>1 DEF SumsInv, SumsExact, MappingsStore!DenominatorExact, MappingsStore!MappedTo, MappedIn, RouteGuids
<1>2. Spec => []SumsInv
  BY SumsInvInit, SumsInvNext, PTL DEF Spec
<1> QED
  BY <1>1, <1>2, PTL
-----------------------------------------------------------------------------
(***************************************************************************)
(* What Collect reads and builds.                                          *)
(***************************************************************************)
EntryFields == {"Hostname", "Path", "Backends", "CapiProcessGUID", "RouteWeight", "Internal", "VIP"}

\* Gathered, from an explicit history.
GatheredFrom(a, kind, h) ==
    {ByAddress(FlattenSeq([i \in DOMAIN a.DiegoProcessGUIDs |-> f[i][kind]])) :
        f \in {f \in [DOMAIN a.DiegoProcessGUIDs -> BackendSets] :
                  \A i \in DOMAIN f : <<a.DiegoProcessGUIDs[i], f[i]>> \in h.backends}}

\* The entry is made of this route, this association and backends that were
\* held for the association's processes.
MadeOf(e, route, a, h) ==
    /\ e.Hostname = Hostname(route) /\ e.Path = route.Path
    /\ e.Internal = route.Internal /\ e.VIP = route.VIP
    /\ a.CAPIProcessGUID = e.CapiProcessGUID
    /\ e.Backends \in GatheredFrom(a, KindOf(route), h)

EntryHeld(e, h) ==
    /\ DOMAIN e = EntryFields
    /\ \E route \in h.routes, a \in h.associations : MadeOf(e, route, a, h)

\* What is left of a list after its first k elements.
After(s, k) == [j \in 1 .. Len(s) - k |-> s[k + j]]

Tables ==
    /\ \A g \in DOMAIN routes : routes[g] \in Routes
    /\ \A g \in DOMAIN associations : associations[g] \in Associations /\ associations[g].CAPIProcessGUID = g
    /\ content \in [DiegoGuids -> BackendSets]
    /\ writes \in Nat

History ==
    /\ since = [routes |-> since.routes, associations |-> since.associations, backends |-> since.backends]
    /\ since.routes \subseteq Routes /\ since.associations \subseteq Associations
    /\ col.pc # "idle" => /\ \A g \in DOMAIN routes : routes[g] \in since.routes
                          /\ \A g \in DOMAIN associations : associations[g] \in since.associations
                          /\ \A d \in DiegoGuids : <<d, content[d]>> \in since.backends

Local ==
    /\ col = [pc |-> col.pc, todo |-> col.todo, rm |-> col.rm, route |-> col.route, procs |-> col.procs,
              backends |-> col.backends, built |-> col.built]
    /\ col.pc \in {"idle", "range", "association", "backends", "done"}
    /\ col.pc \in {"association", "backends"} =>
          /\ col.rm = {TheMapping} /\ col.route = {TheRoute}
          /\ TheRoute \in since.routes
    /\ col.pc # "backends" => col.backends = <<>>

\* The backends gathered so far are those of the first k processes of an
\* association, each as it was held at some moment.
GathersBy(m, route, procs, backends, h, a, k, f) ==
    /\ a \in h.associations
    /\ a.CAPIProcessGUID = m.CAPIProcessGUID
    /\ k \in 0 .. Len(a.DiegoProcessGUIDs)
    /\ f \in [1 .. k -> BackendSets]
    /\ procs = After(a.DiegoProcessGUIDs, k)
    /\ \A i \in 1 .. k : <<a.DiegoProcessGUIDs[i], f[i]>> \in h.backends
    /\ backends = FlattenSeq([i \in 1 .. k |-> f[i][KindOf(route)]])

Gathers(m, route, procs, backends, h) ==
    \E a \in h.associations : \E k \in 0 .. Len(a.DiegoProcessGUIDs) : \E f \in [1 .. k -> BackendSets] :
        GathersBy(m, route, procs, backends, h, a, k, f)

Gathering == col.pc = "backends" => Gathers(TheMapping, TheRoute, col.procs, col.backends, since)

Built == IsList(col.built) /\ \A i \in DOMAIN col.built : EntryHeld(col.built[i], since)

HeldInv == Tables /\ History /\ Local /\ Gathering /\ Built

\* The mappings Collect has dealt with that contribute an entry.
Handled == {rm \in Mapped \ (col.todo \cup col.rm) : Contributes(rm)}
Unweighted(e) == [e EXCEPT !.RouteWeight = 0]

\* As long as no write falls into the collection, the history is what is there,
\* and what has been built is one entry for each contributing mapping.
ReadsExact ==
    /\ since = Held
    /\ col.todo \subseteq Mapped /\ col.rm \subseteq Mapped /\ col.rm \cap col.todo = {}
    /\ col.pc \in {"range", "done"} => col.rm = {}
    /\ col.pc = "done" => col.todo = {}
    /\ col.pc \in {"association", "backends"} =>
          TheMapping.RouteGUID \in DOMAIN routes /\ TheRoute = routes[TheMapping.RouteGUID]

BuiltExact ==
    /\ {Unweighted(col.built[i]) : i \in DOMAIN col.built} = {Contribution(rm, 0) : rm \in Handled}
    /\ Len(col.built) = Cardinality(Handled)

ExactInv == (col.pc # "idle" /\ writes = 0) =>
                ReadsExact /\ BuiltExact /\ (col.pc = "done" => Ordered(col.built))
-----------------------------------------------------------------------------
(***************************************************************************)
(* The list that Collect returns.                                          *)
(***************************************************************************)
\* The correction changes weights only.
LEMMA OnlyWeights ==
    ASSUME NEW l, IsList(l), \A i \in DOMAIN l : DOMAIN l[i] = EntryFields
    PROVE  /\ IsList(fixRouteWeights(l)) /\ Len(fixRouteWeights(l)) = Len(l)
           /\ \A i \in DOMAIN l :
                 /\ DOMAIN fixRouteWeights(l)[i] = EntryFields
                 /\ Unweighted(fixRouteWeights(l)[i]) = Unweighted(l[i])
                 /\ \A x \in EntryFields \ {"RouteWeight"} : fixRouteWeights(l)[i][x] = l[i][x]
<1> DEFINE r == fixRouteWeights(l)
<1>1. DOMAIN r = DOMAIN l /\ r = [i \in DOMAIN r |-> r[i]]
  BY DEF fixRouteWeights
<1>2. ASSUME NEW i \in DOMAIN l
      PROVE  \/ r[i] = l[i]
             \/ r[i] = [l[i] EXCEPT !.RouteWeight = Add32(l[i].RouteWeight, 1)]
  BY DEF fixRouteWeights
<1> HIDE DEF r
<1>3. IsList(r) /\ Len(r) = Len(l)
  BY <1>1, ListShape, SegmentIsList
<1>4. ASSUME NEW i \in DOMAIN l
      PROVE  /\ DOMAIN r[i] = EntryFields
             /\ Unweighted(r[i]) = Unweighted(l[i])
             /\ \A x \in EntryFields \ {"RouteWeight"} : r[i][x] = l[i][x]
  <2>1. CASE r[i] = l[i]
    BY <2>1
  <2>2. CASE r[i] = [l[i] EXCEPT !.RouteWeight = Add32(l[i].RouteWeight, 1)]
    BY <2>2 DEF Unweighted
  <2> QED
    BY <1>2, <2>1, <2>2
<1> QED
  BY <1>3, <1>4 DEF r
-----------------------------------------------------------------------------
(***************************************************************************)
(* Gathering the backends of an association's processes.                   *)
(***************************************************************************)
\* A history only grows.
Grows(h, l) == h.routes \subseteq l.routes /\ h.associations \subseteq l.associations /\ h.backends \subseteq l.backends

\* What was held stays held.
LEMMA HeldStays ==
    ASSUME NEW h, NEW l, Grows(h, l)
    PROVE  /\ \A e : EntryHeld(e, h) => EntryHeld(e, l)
           /\ \A m, route, procs, backends :
                 Gathers(m, route, procs, backends, h) => Gathers(m, route, procs, backends, l)
<1>1. ASSUME NEW a, NEW kind, NEW x \in GatheredFrom(a, kind, h)
      PROVE  x \in GatheredFrom(a, kind, l)
  <2> DEFINE D == DOMAIN a.DiegoProcessGUIDs
  <2>1. PICK f \in [D -> BackendSets] :
            /\ \A i \in DOMAIN f : <<a.DiegoProcessGUIDs[i], f[i]>> \in h.backends
            /\ x = ByAddress(FlattenSeq([i \in D |-> f[i][kind]]))
    BY <1>1 DEF GatheredFrom
  <2>2. \A i \in DOMAIN f : <<a.DiegoProcessGUIDs[i], f[i]>> \in l.backends
    BY <2>1 DEF Grows
  <2> QED
    BY <2>1, <2>2 DEF GatheredFrom
<1>2. ASSUME NEW e, EntryHeld(e, h) PROVE EntryHeld(e, l)
  BY <1>1, <1>2 DEF EntryHeld, MadeOf, Grows
<1>3. ASSUME NEW m, NEW route, NEW procs, NEW backends, Gathers(m, route, procs, backends, h)
      PROVE  Gathers(m, route, procs, backends, l)
  <2>1. PICK a \in h.associations : \E k \in 0 .. Len(a.DiegoProcessGUIDs) : \E f \in [1 .. k -> BackendSets] :
            GathersBy(m, route, procs, backends, h, a, k, f)
    BY <1>3 DEF Gathers
  <2>2. PICK k \in 0 .. Len(a.DiegoProcessGUIDs) : \E f \in [1 .. k -> BackendSets] :
            GathersBy(m, route, procs, backends, h, a, k, f)
    BY <2>1
  <2>3. PICK f \in [1 .. k -> BackendSets] : GathersBy(m, route, procs, backends, h, a, k, f)
    BY <2>2
  <2>4. a \in l.associations
    BY DEF Grows
  <2>5. GathersBy(m, route, procs, backends, l, a, k, f)
    BY <2>3, <2>4 DEF GathersBy, Grows
  <2> QED
    BY <2>4, <2>5 DEF Gathers
<1> QED
  BY <1>2, <1>3

\* The kinds of backends of a set are lists of backends.
LEMMA SetLists ==
    ASSUME NEW s \in BackendSets, NEW route
    PROVE  s[KindOf(route)] \in Seq(Backends)
<1>1. s \in [External : Seq(Backends), Internal : Seq(Backends)]
  BY RecordsAssumption
<1>2. s.External \in Seq(Backends) /\ s.Internal \in Seq(Backends)
  BY <1>1
<1> QED
  BY <1>2 DEF KindOf

\* Nothing has been gathered yet.
LEMMA GathersNone ==
    ASSUME NEW h, NEW a \in h.associations, a \in Associations, NEW m, a.CAPIProcessGUID = m.CAPIProcessGUID, NEW route
    PROVE  Gathers(m, route, a.DiegoProcessGUIDs, <<>>, h)
<1> DEFINE ds == a.DiegoProcessGUIDs
           f == [i \in 1 .. 0 |-> [External |-> <<>>, Internal |-> <<>>]]
<1>1. ds \in Seq(DiegoGuids)
  BY RecordsAssumption
<1>2. ds = After(ds, 0)
  <2> HIDE DEF ds
  <2>1. Len(ds) - 0 = Len(ds) /\ DOMAIN ds = 1 .. Len(ds) /\ ds = [i \in 1 .. Len(ds) |-> ds[i]]
    BY <1>1
  <2>2. \A j \in 1 .. Len(ds) : 0 + j = j
    BY <1>1
  <2> QED
    BY <2>1, <2>2 DEF After
<1>3. f \in [1 .. 0 -> BackendSets]
  OBVIOUS
<1>4. FlattenSeq([i \in 1 .. 0 |-> f[i][KindOf(route)]]) = <<>>
  <2>1. [i \in 1 .. 0 |-> f[i][KindOf(route)]] = <<>>
    OBVIOUS
  <2> QED
    BY <2>1 DEF FlattenSeq
<1>5. 0 \in 0 .. Len(ds)
  BY <1>1
<1> HIDE DEF f
<1>6. GathersBy(m, route, ds, <<>>, h, a, 0, f)
  BY <1>2, <1>3, <1>4, <1>5 DEF GathersBy
<1> QED
  BY <1>3, <1>5, <1>6 DEF Gathers

\* What is left after one element more.
LEMMA AfterOneMore ==
    ASSUME NEW X, NEW s \in Seq(X), NEW k \in 0 .. Len(s), After(s, k) # <<>>
    PROVE  /\ k + 1 \in 0 .. Len(s)
           /\ Head(After(s, k)) = s[k + 1]
           /\ Tail(After(s, k)) = After(s, k + 1)
<1>1. k # Len(s)
  <2>1. CASE k = Len(s)
    <3>1. Len(s) - k = 0
      BY <2>1
    <3>2. After(s, k) = [j \in 1 .. 0 |-> s[k + j]]
      BY <3>1 DEF After
    <3> QED
      BY <3>2
  <2> QED
    BY <2>1
<1>2. k + 1 \in 0 .. Len(s) /\ Len(s) - k \in Nat /\ Len(s) - k >= 1
  BY <1>1
<1> DEFINE t == After(s, k)
<1>3. t \in [1 .. Len(s) - k -> X] /\ \A j \in 1 .. Len(s) - k : t[j] = s[k + j]
  BY <1>2 DEF After
<1> HIDE DEF t
<1>4. t \in Seq(X) /\ Len(t) = Len(s) - k
  BY <1>2, <1>3
<1>5. Head(t) = s[k + 1]
  BY <1>2, <1>3, <1>4
<1>6. Tail(t) = [j \in 1 .. Len(t) - 1 |-> t[j + 1]]
  <2>1. t # <<>>
    BY <1>2, <1>4
  <2>2. /\ Tail(t) \in Seq(X) /\ Len(Tail(t)) = Len(t) - 1
        /\ \A j \in 1 .. Len(t) - 1 : Tail(t)[j] = t[j + 1]
    BY <1>4, <2>1
  <2> DEFINE r == Tail(t)
  <2>3. r \in Seq(X) /\ Len(r) = Len(t) - 1 /\ \A j \in 1 .. Len(t) - 1 : r[j] = t[j + 1]
    BY <2>2
  <2> HIDE DEF r
  <2>4. DOMAIN r = 1 .. Len(t) - 1 /\ r = [j \in DOMAIN r |-> r[j]]
    BY <2>3
  <2>5. r = [j \in 1 .. Len(t) - 1 |-> t[j + 1]]
    BY <2>3, <2>4
  <2> QED
    BY <2>5 DEF r
<1>7. ASSUME NEW j \in 1 .. Len(s) - (k + 1) PROVE t[j + 1] = s[(k + 1) + j]
  <2>1. j + 1 \in 1 .. Len(s) - k /\ k + (j + 1) = (k + 1) + j
    BY <1>2
  <2> QED
    BY <1>3, <2>1
<1>8. Len(t) - 1 = Len(s) - (k + 1)
  BY <1>2, <1>4
<1>9. Tail(t) = After(s, k + 1)
  BY <1>6, <1>7, <1>8 DEF After
<1> QED
  BY <1>2, <1>5, <1>9 DEF t

\* The next process.
LEMMA GathersMore ==
    ASSUME NEW h, h.associations \subseteq Associations, NEW m, NEW route, NEW procs, NEW backends,
           Gathers(m, route, procs, backends, h), procs # <<>>,
           NEW s \in BackendSets, <<Head(procs), s>> \in h.backends
    PROVE  Gathers(m, route, Tail(procs), backends \o s[KindOf(route)], h)
<1>1. PICK a \in h.associations : \E k \in 0 .. Len(a.DiegoProcessGUIDs) : \E f \in [1 .. k -> BackendSets] :
          GathersBy(m, route, procs, backends, h, a, k, f)
  BY DEF Gathers
<1> DEFINE ds == a.DiegoProcessGUIDs
<1>2. PICK k \in 0 .. Len(ds) : \E f \in [1 .. k -> BackendSets] : GathersBy(m, route, procs, backends, h, a, k, f)
  BY <1>1
<1>3. PICK f \in [1 .. k -> BackendSets] : GathersBy(m, route, procs, backends, h, a, k, f)
  BY <1>2
<1>4. ds \in Seq(DiegoGuids)
  BY RecordsAssumption
<1>5. /\ a.CAPIProcessGUID = m.CAPIProcessGUID
      /\ procs = After(ds, k)
      /\ \A i \in 1 .. k : <<ds[i], f[i]>> \in h.backends
      /\ backends = FlattenSeq([i \in 1 .. k |-> f[i][KindOf(route)]])
  BY <1>3 DEF GathersBy
<1> HIDE DEF ds
<1>6. k + 1 \in 0 .. Len(ds) /\ Head(procs) = ds[k + 1] /\ Tail(procs) = After(ds, k + 1)
  BY <1>2, <1>4, <1>5, AfterOneMore
<1>7. k \in Nat
  BY <1>2, <1>4
<1> DEFINE g == [i \in 1 .. k + 1 |-> IF i = k + 1 THEN s ELSE f[i]]
           u == [i \in 1 .. k |-> f[i][KindOf(route)]]
           v == [i \in 1 .. k + 1 |-> g[i][KindOf(route)]]
<1>8. g \in [1 .. k + 1 -> BackendSets] /\ g[k + 1] = s /\ \A i \in 1 .. k : g[i] = f[i]
  <2>1. \A i \in 1 .. k + 1 : i # k + 1 => i \in 1 .. k
    BY <1>7
  <2>2. \A i \in 1 .. k : i \in 1 .. k + 1 /\ i # k + 1
    BY <1>7
  <2>3. k + 1 \in 1 .. k + 1
    BY <1>7
  <2> QED
    BY <1>3, <2>1, <2>2, <2>3
<1>9. \A i \in 1 .. k + 1 : <<ds[i], g[i]>> \in h.backends
  <2> HIDE DEF g
  <2>1. \A i \in 1 .. k + 1 : i = k + 1 \/ i \in 1 .. k
    BY <1>7
  <2> QED
    BY <1>5, <1>6, <1>8, <2>1
<1>10. FlattenSeq(v) = FlattenSeq(u) \o s[KindOf(route)]
  <2> HIDE DEF g
  <2>1. u \in [1 .. k -> Seq(Backends)]
    BY <1>3, SetLists
  <2>2. v \in [1 .. k + 1 -> Seq(Backends)]
    BY <1>8, SetLists
  <2>3. \A i \in 1 .. k : u[i] = v[i]
    <3>1. \A i \in 1 .. k : i \in 1 .. k + 1
      BY <1>7
    <3> QED
      BY <1>8, <3>1
  <2>4. v[k + 1] = s[KindOf(route)]
    <3>1. k + 1 \in 1 .. k + 1
      BY <1>7
    <3> QED
      BY <1>8, <3>1
  <2> HIDE DEF u, v
  <2> QED
    BY <1>7, <2>1, <2>2, <2>3, <2>4, FlattenMore
<1> HIDE DEF g
<1>11. GathersBy(m, route, Tail(procs), backends \o s[KindOf(route)], h, a, k + 1, g)
  BY <1>5, <1>6, <1>8, <1>9, <1>10 DEF GathersBy, ds
<1> QED
  BY <1>6, <1>8, <1>11 DEF Gathers, ds

\* Nothing is left after the last element.
LEMMA NothingAfter ==
    ASSUME NEW X, NEW s \in Seq(X), NEW k \in 0 .. Len(s), <<>> = After(s, k)
    PROVE  DOMAIN s = 1 .. k
<1>1. DOMAIN After(s, k) = {}
  OBVIOUS
<1>2. 1 .. Len(s) - k = {}
  BY <1>1 DEF After
<1>3. Len(s) \in Nat /\ k \in Nat /\ k <= Len(s)
  OBVIOUS
<1>4. ~(1 <= Len(s) - k)
  <2> SUFFICES ASSUME 1 <= Len(s) - k PROVE 1 \in 1 .. Len(s) - k
    BY <1>2
  <2> QED
    BY <1>3
<1>5. k = Len(s)
  BY <1>3, <1>4
<1> QED
  BY <1>5

\* All processes have been asked.
LEMMA GathersAll ==
    ASSUME NEW h, h.associations \subseteq Associations, NEW m, NEW route, NEW backends,
           Gathers(m, route, <<>>, backends, h)
    PROVE  \E a \in h.associations : /\ a.CAPIProcessGUID = m.CAPIProcessGUID
                                     /\ ByAddress(backends) \in GatheredFrom(a, KindOf(route), h)
<1>1. PICK a \in h.associations : \E k \in 0 .. Len(a.DiegoProcessGUIDs) : \E f \in [1 .. k -> BackendSets] :
          GathersBy(m, route, <<>>, backends, h, a, k, f)
  BY DEF Gathers
<1> DEFINE ds == a.DiegoProcessGUIDs
<1>2. PICK k \in 0 .. Len(ds) : \E f \in [1 .. k -> BackendSets] : GathersBy(m, route, <<>>, backends, h, a, k, f)
  BY <1>1
<1>3. PICK f \in [1 .. k -> BackendSets] : GathersBy(m, route, <<>>, backends, h, a, k, f)
  BY <1>2
<1>4. ds \in Seq(DiegoGuids)
  BY RecordsAssumption
<1>5. /\ a.CAPIProcessGUID = m.CAPIProcessGUID
      /\ <<>> = After(ds, k)
      /\ \A i \in 1 .. k : <<ds[i], f[i]>> \in h.backends
      /\ backends = FlattenSeq([i \in 1 .. k |-> f[i][KindOf(route)]])
  BY <1>3 DEF GathersBy
<1>6. DOMAIN ds = 1 .. k
  BY <1>2, <1>4, <1>5, NothingAfter
<1>7. ByAddress(backends) \in GatheredFrom(a, KindOf(route), h)
  BY <1>3, <1>5, <1>6 DEF GatheredFrom
<1> QED
  BY <1>5, <1>7

\* The next process is one of the association's.
LEMMA GathersHead ==
    ASSUME NEW h, h.associations \subseteq Associations, NEW m, NEW route, NEW procs, NEW backends,
           Gathers(m, route, procs, backends, h), procs # <<>>
    PROVE  Head(procs) \in DiegoGuids
<1>1. PICK a \in h.associations : \E k \in 0 .. Len(a.DiegoProcessGUIDs) : \E f \in [1 .. k -> BackendSets] :
          GathersBy(m, route, procs, backends, h, a, k, f)
  BY DEF Gathers
<1> DEFINE ds == a.DiegoProcessGUIDs
<1>2. PICK k \in 0 .. Len(ds) : procs = After(ds, k)
  BY <1>1 DEF GathersBy
<1>3. ds \in Seq(DiegoGuids)
  BY RecordsAssumption
<1> HIDE DEF ds
<1>4. k + 1 \in 0 .. Len(ds) /\ Head(procs) = ds[k + 1]
  BY <1>2, <1>3, AfterOneMore
<1>5. k + 1 \in 1 .. Len(ds)
  BY <1>2, <1>3, <1>4
<1> QED
  BY <1>3, <1>4, <1>5
-----------------------------------------------------------------------------
(***************************************************************************)
(* Every step keeps what has been read within the history.                 *)
(***************************************************************************)
\* The other two stores write with the same maps.
LEMMA SameStores ==
    ASSUME NEW m, NEW k, NEW v
    PROVE  /\ RoutesStore!Put(m, k, v) = Put(m, k, v) /\ RoutesStore!Drop(m, k) = Drop(m, k)
           /\ AssociationsStore!Put(m, k, v) = Put(m, k, v) /\ AssociationsStore!Drop(m, k) = Drop(m, k)
BY DEF RoutesStore!Put, RoutesStore!Drop, AssociationsStore!Put, AssociationsStore!Drop, Put, Drop

\* The one element of a set.
LEMMA TheOnly ==
    ASSUME NEW x
    PROVE  (CHOOSE y \in {x} : TRUE) = x
OBVIOUS

\* What a writer may do to the tables.
LEMMA WriterTables ==
    ASSUME Tables, Writer
    PROVE  Tables'
<1>1. writes' \in Nat
  BY DEF Tables, Writer, Write
<1>2. ASSUME NEW route \in Routes, UpsertRoute(route) \/ DeleteRoute(route.GUID) PROVE Tables'
  <2>1. (routes' = Put(routes, route.GUID, route) \/ routes' = Drop(routes, route.GUID)) /\ UNCHANGED <<associations, content>>
    BY <1>2, SameStores DEF UpsertRoute, DeleteRoute, RoutesStore!Upsert, RoutesStore!Delete
  <2> QED
    BY <1>1, <2>1 DEF Tables, Put, Drop
<1>3. ASSUME NEW rm \in RouteMappings, MapRoute(rm) \/ UnmapRoute(rm) PROVE Tables'
  BY <1>1, <1>3 DEF Tables, MapRoute, UnmapRoute
<1>4. ASSUME NEW a \in Associations, UpsertAssociation(a) \/ DeleteAssociation(a.CAPIProcessGUID) PROVE Tables'
  <2>1. /\ \/ associations' = Put(associations, a.CAPIProcessGUID, a)
           \/ associations' = Drop(associations, a.CAPIProcessGUID)
        /\ UNCHANGED <<routes, content>>
    BY <1>4, SameStores DEF UpsertAssociation, DeleteAssociation, AssociationsStore!Upsert, AssociationsStore!Delete
  <2> QED
    BY <1>1, <2>1 DEF Tables, Put, Drop
<1>5. ASSUME NEW d \in DiegoGuids, NEW s \in BackendSets, BackendsChange(d, s) PROVE Tables'
  BY <1>1, <1>5 DEF Tables, BackendsChange
<1> QED
  BY <1>2, <1>3, <1>4, <1>5 DEF Writer

\* A write adds to the history what it leaves behind.
LEMMA WriterHeld ==
    ASSUME HeldInv, Writer
    PROVE  HeldInv'
<1>1. Tables'
  BY WriterTables DEF HeldInv
<1>2. col' = col /\ TheMapping' = TheMapping /\ TheRoute' = TheRoute
  BY DEF Writer, Write, TheMapping, TheRoute
<1>3. History' /\ Grows(since, since')
  <2>1. CASE col.pc = "idle"
    BY <1>2, <2>1 DEF Writer, Write, HeldInv, History, Grows
  <2>2. CASE col.pc # "idle"
    <3> DEFINE R == {routes'[g] : g \in DOMAIN routes'}
               A == {associations'[g] : g \in DOMAIN associations'}
               B == {<<d, content'[d]>> : d \in DiegoGuids}
    <3>1. since' = [f \in DOMAIN since |-> since[f] \cup Held'[f]]
      BY <2>2 DEF Writer, Write
    <3>2. Held' = [routes |-> R, associations |-> A, backends |-> B]
      BY DEF Held
    <3>3. R \subseteq Routes /\ A \subseteq Associations
      BY <1>1 DEF Tables
    <3>4. since = [routes |-> since.routes, associations |-> since.associations, backends |-> since.backends]
      BY DEF HeldInv, History
    <3>5. since.routes \subseteq Routes /\ since.associations \subseteq Associations
      BY DEF HeldInv, History
    <3>6. /\ \A g \in DOMAIN routes' : routes'[g] \in R
          /\ \A g \in DOMAIN associations' : associations'[g] \in A
          /\ \A d \in DiegoGuids : <<d, content'[d]>> \in B
      OBVIOUS
    <3> HIDE DEF R, A, B
    <3>7. since' = [routes |-> since.routes \cup R, associations |-> since.associations \cup A,
                    backends |-> since.backends \cup B]
      BY <3>1, <3>2, <3>4
    <3> QED
      BY <1>2, <3>3, <3>5, <3>6, <3>7 DEF History, Grows
  <2> QED
    BY <2>1, <2>2
<1>4. Local'
  BY <1>2, <1>3 DEF HeldInv, Local, Grows
<1>5. Gathering'
  BY <1>2, <1>3, HeldStays DEF HeldInv, Gathering
<1>6. Built'
  BY <1>2, <1>3, HeldStays DEF HeldInv, Built
<1> QED
  BY <1>1, <1>3, <1>4, <1>5, <1>6 DEF HeldInv

\* Nothing has been read at first.
LEMMA HeldInvInit == Init => HeldInv
<1> SUFFICES ASSUME Init PROVE HeldInv
  OBVIOUS
<1>1. Tables
  BY RecordsAssumption DEF Init, Tables, EmptyMap
<1>2. History
  BY DEF Init, History, Idle
<1>3. Local /\ Gathering
  BY DEF Init, Local, Gathering, Idle
<1>4. Built
  <2>1. col.built = <<>>
    BY DEF Init, Idle
  <2>2. IsList(<<>>)
    BY DEF IsList
  <2> QED
    BY <2>1, <2>2 DEF Built
<1> QED
  BY <1>1, <1>2, <1>3, <1>4 DEF HeldInv

\* Collect's steps leave the repositories alone, and all but the first and the
\* last leave the history alone.
LEMMA CollectFrame ==
    ASSUME HeldInv, UNCHANGED <<repoVars, writes, since>>, col.pc # "idle"
    PROVE  Tables' /\ History'
BY DEF HeldInv, Tables, History, repoVars

\* Collect begins: the history is what the repositories hold.
LEMMA ListHeld ==
    ASSUME HeldInv, List
    PROVE  HeldInv'
<1>1. Tables'
  BY DEF HeldInv, Tables, List, repoVars
<1>2. UNCHANGED <<routes, associations, content>> /\ since' = Held
  BY DEF List, repoVars
<1>3. History'
  <2>1. Held = [routes |-> {routes[g] : g \in DOMAIN routes},
                associations |-> {associations[g] : g \in DOMAIN associations},
                backends |-> {<<d, content[d]>> : d \in DiegoGuids}]
    BY DEF Held
  <2> QED
    BY <1>2, <2>1 DEF History, HeldInv, Tables
<1>4. col' = [pc |-> "range", todo |-> Mapped, rm |-> {}, route |-> {}, procs |-> <<>>,
              backends |-> <<>>, built |-> <<>>]
  BY DEF List, Idle
<1>5. Local' /\ Gathering'
  BY <1>4 DEF Local, Gathering
<1>6. Built'
  <2>1. IsList(<<>>)
    BY DEF IsList
  <2> QED
    BY <1>4, <2>1 DEF Built
<1> QED
  BY <1>1, <1>3, <1>5, <1>6 DEF HeldInv

\* A mapping is skipped, or its route is one the repository holds.
LEMMA GetRouteHeld ==
    ASSUME HeldInv, NEW rm, GetRoute(rm)
    PROVE  HeldInv'
<1>1. Tables' /\ History'
  BY CollectFrame DEF GetRoute
<1>2. since' = since /\ col.pc = "range" /\ col.backends = <<>>
  BY DEF GetRoute, HeldInv, Local
<1>3. CASE rm.RouteGUID \notin DOMAIN routes
  <2>1. col' = [col EXCEPT !.todo = col.todo \ {rm}]
    BY <1>3 DEF GetRoute
  <2>2. /\ col' = [pc |-> "range", todo |-> col.todo \ {rm}, rm |-> col.rm, route |-> col.route,
                   procs |-> col.procs, backends |-> <<>>, built |-> col.built]
    BY <1>2, <2>1 DEF HeldInv, Local
  <2>3. Local' /\ Gathering'
    BY <2>2 DEF Local, Gathering
  <2>4. Built'
    BY <1>2, <2>2 DEF HeldInv, Built
  <2> QED
    BY <1>1, <2>3, <2>4 DEF HeldInv
<1>4. CASE rm.RouteGUID \in DOMAIN routes
  <2>1. col' = [col EXCEPT !.todo = col.todo \ {rm}, !.pc = "association",
                           !.rm = {rm}, !.route = {routes[rm.RouteGUID]}]
    BY <1>4 DEF GetRoute
  <2>2. /\ col' = [pc |-> "association", todo |-> col.todo \ {rm}, rm |-> {rm}, route |-> {routes[rm.RouteGUID]},
                   procs |-> col.procs, backends |-> <<>>, built |-> col.built]
    BY <1>2, <2>1 DEF HeldInv, Local
  <2>3. TheMapping' = rm /\ TheRoute' = routes[rm.RouteGUID]
    BY <2>2, TheOnly DEF TheMapping, TheRoute
  <2>4. routes[rm.RouteGUID] \in since.routes
    BY <1>2, <1>4 DEF HeldInv, History
  <2>5. Local' /\ Gathering'
    BY <1>2, <2>2, <2>3, <2>4 DEF Local, Gathering
  <2>6. Built'
    BY <1>2, <2>2 DEF HeldInv, Built
  <2> QED
    BY <1>1, <2>5, <2>6 DEF HeldInv
<1> QED
  BY <1>3, <1>4

\* The rest of the loop's body is skipped.
LEMMA ContinueHeld ==
    ASSUME HeldInv, UNCHANGED <<repoVars, writes, since>>, col.pc # "idle", col' = Continue
    PROVE  HeldInv'
<1>1. Tables' /\ History'
  BY CollectFrame
<1>2. col' = [pc |-> "range", todo |-> col.todo, rm |-> {}, route |-> {}, procs |-> <<>>,
              backends |-> <<>>, built |-> col.built]
  BY DEF HeldInv, Local, Continue
<1>3. Local' /\ Gathering'
  BY <1>2 DEF Local, Gathering
<1>4. Built'
  BY <1>2 DEF HeldInv, Built
<1> QED
  BY <1>1, <1>3, <1>4 DEF HeldInv

\* The association is one the repository holds for the mapping's process.
LEMMA GetAssociationHeld ==
    ASSUME HeldInv, GetAssociation
    PROVE  HeldInv'
<1> DEFINE guid == TheMapping.CAPIProcessGUID
<1>1. UNCHANGED <<repoVars, writes, since>> /\ col.pc = "association"
  BY DEF GetAssociation
<1>2. CASE guid \notin DOMAIN associations
  <2>1. col' = Continue
    BY <1>2 DEF GetAssociation
  <2> QED
    BY <1>1, <2>1, ContinueHeld
<1>3. CASE guid \in DOMAIN associations
  <2> DEFINE a == associations[guid]
  <2>1. Tables' /\ History'
    BY <1>1, CollectFrame
  <2>2. col' = [col EXCEPT !.pc = "backends", !.procs = a.DiegoProcessGUIDs]
    BY <1>3 DEF GetAssociation
  <2>3. col' = [pc |-> "backends", todo |-> col.todo, rm |-> col.rm, route |-> col.route,
                procs |-> a.DiegoProcessGUIDs, backends |-> <<>>, built |-> col.built]
    BY <1>1, <2>2 DEF HeldInv, Local
  <2>4. TheMapping' = TheMapping /\ TheRoute' = TheRoute
    BY <2>3 DEF TheMapping, TheRoute
  <2>5. a \in since.associations /\ a \in Associations /\ a.CAPIProcessGUID = TheMapping.CAPIProcessGUID
    BY <1>1, <1>3 DEF HeldInv, History, Tables
  <2> HIDE DEF a
  <2>6. Gathers(TheMapping, TheRoute, a.DiegoProcessGUIDs, <<>>, since)
    BY <2>5, GathersNone
  <2>7. Gathering'
    BY <1>1, <2>3, <2>4, <2>6 DEF Gathering
  <2>8. Local'
    BY <1>1, <2>3, <2>4 DEF HeldInv, Local
  <2>9. Built'
    BY <1>1, <2>3 DEF HeldInv, Built
  <2> QED
    BY <2>1, <2>7, <2>8, <2>9 DEF HeldInv
<1> QED
  BY <1>2, <1>3

\* The backends of the next process are those the table holds now.
LEMMA GetBackendsHeld ==
    ASSUME HeldInv, GetBackends
    PROVE  HeldInv'
<1> DEFINE d == Head(col.procs)
           more == col.backends \o content[d][KindOf(TheRoute)]
<1>1. UNCHANGED <<repoVars, writes, since>> /\ col.pc = "backends" /\ col.procs # <<>>
  BY DEF GetBackends
<1>2. Tables' /\ History'
  BY <1>1, CollectFrame
<1>3. col' = [col EXCEPT !.procs = Tail(col.procs), !.backends = more]
  BY DEF GetBackends
<1>4. col' = [pc |-> "backends", todo |-> col.todo, rm |-> col.rm, route |-> col.route,
              procs |-> Tail(col.procs), backends |-> more, built |-> col.built]
  <2> HIDE DEF more
  <2> QED
    BY <1>1, <1>3 DEF HeldInv, Local
<1>5. TheMapping' = TheMapping /\ TheRoute' = TheRoute
  BY <1>4 DEF TheMapping, TheRoute
<1>6. Gathers(TheMapping, TheRoute, col.procs, col.backends, since) /\ since.associations \subseteq Associations
  BY <1>1 DEF HeldInv, Gathering, History
<1>7. d \in DiegoGuids
  BY <1>1, <1>6, GathersHead
<1>8. content[d] \in BackendSets /\ <<d, content[d]>> \in since.backends
  BY <1>1, <1>7 DEF HeldInv, Tables, History
<1>9. Gathers(TheMapping, TheRoute, Tail(col.procs), more, since)
  BY <1>1, <1>6, <1>8, GathersMore
<1> HIDE DEF more
<1>10. Gathering'
  BY <1>1, <1>4, <1>5, <1>9 DEF Gathering
<1>11. Local'
  BY <1>1, <1>4, <1>5 DEF HeldInv, Local
<1>12. Built'
  BY <1>1, <1>4 DEF HeldInv, Built
<1> QED
  BY <1>2, <1>10, <1>11, <1>12 DEF HeldInv

\* The entry that is built is made of what was read for it.
LEMMA GetWeightHeld ==
    ASSUME HeldInv, GetWeight
    PROVE  HeldInv'
<1>1. UNCHANGED <<repoVars, writes, since>> /\ col.pc = "backends" /\ col.procs = <<>>
  BY DEF GetWeight
<1>2. Tables' /\ History'
  BY <1>1, CollectFrame
<1>3. PICK weight : col' = [Continue EXCEPT !.built =
                               Append(@, RouteWithBackends(TheMapping, TheRoute, col.backends, weight))]
  BY DEF GetWeight
<1> DEFINE e == RouteWithBackends(TheMapping, TheRoute, col.backends, weight)
<1>4. col' = [pc |-> "range", todo |-> col.todo, rm |-> {}, route |-> {}, procs |-> <<>>,
              backends |-> <<>>, built |-> Append(col.built, e)]
  <2> HIDE DEF e
  <2>1. Continue = [pc |-> "range", todo |-> col.todo, rm |-> {}, route |-> {}, procs |-> <<>>,
                    backends |-> <<>>, built |-> col.built]
    <3>1. col = [pc |-> col.pc, todo |-> col.todo, rm |-> col.rm, route |-> col.route, procs |-> col.procs,
                 backends |-> col.backends, built |-> col.built]
      BY DEF HeldInv, Local
    <3>2. PICK c : c = Continue
      OBVIOUS
    <3>3. c = [col EXCEPT !.pc = "range", !.rm = {}, !.route = {}, !.procs = <<>>, !.backends = <<>>]
      BY <3>2 DEF Continue
    <3>4. c = [pc |-> "range", todo |-> col.todo, rm |-> {}, route |-> {}, procs |-> <<>>,
               backends |-> <<>>, built |-> col.built]
      BY <3>1, <3>3
    <3> QED
      BY <3>2, <3>4
  <2> QED
    BY <1>3, <2>1 DEF e
<1>5. EntryHeld(e, since)
  <2>1. Gathers(TheMapping, TheRoute, <<>>, col.backends, since) /\ since.associations \subseteq Associations
    BY <1>1 DEF HeldInv, Gathering, History
  <2>2. PICK a \in since.associations : /\ a.CAPIProcessGUID = TheMapping.CAPIProcessGUID
                                        /\ ByAddress(col.backends) \in GatheredFrom(a, KindOf(TheRoute), since)
    BY <2>1, GathersAll
  <2>3. TheRoute \in since.routes
    BY <1>1 DEF HeldInv, Local
  <2>4. DOMAIN e = EntryFields
    BY DEF RouteWithBackends, EntryFields
  <2>5. MadeOf(e, TheRoute, a, since)
    BY <2>2 DEF RouteWithBackends, MadeOf
  <2> HIDE DEF e
  <2> QED
    BY <2>2, <2>3, <2>4, <2>5 DEF EntryHeld
<1> HIDE DEF e
<1>6. Local' /\ Gathering'
  BY <1>4 DEF Local, Gathering
<1>7. Built'
  <2>1. IsList(col.built) /\ \A i \in DOMAIN col.built : EntryHeld(col.built[i], since)
    BY DEF HeldInv, Built
  <2> DEFINE l == Append(col.built, e)
             n == Len(col.built)
  <2>2. IsList(l) /\ Len(l) = n + 1 /\ l[n + 1] = e /\ \A i \in 1 .. n : l[i] = col.built[i]
    BY <2>1, ListAppend
  <2>3. n \in Nat /\ DOMAIN col.built = 1 .. n /\ DOMAIN l = 1 .. n + 1
    BY <2>1, <2>2, ListShape
  <2> HIDE DEF l, n
  <2>4. ASSUME NEW i \in DOMAIN l PROVE EntryHeld(l[i], since)
    <3>1. i = n + 1 \/ i \in 1 .. n
      BY <2>3
    <3> QED
      BY <1>5, <2>1, <2>2, <2>3, <3>1
  <2>5. col'.built = l /\ since' = since
    BY <1>1, <1>4 DEF l
  <2> QED
    BY <2>2, <2>4, <2>5 DEF Built
<1> QED
  BY <1>2, <1>6, <1>7 DEF HeldInv

\* Entries that were held have what the order and the history ask for.
LEMMA HeldEntryShape ==
    ASSUME HeldInv, NEW e, EntryHeld(e, since)
    PROVE  DOMAIN e = EntryFields /\ Len(e.Path) \in Int /\ e.CapiProcessGUID \in Int
<1>1. PICK route \in since.routes, a \in since.associations : MadeOf(e, route, a, since)
  BY DEF EntryHeld
<1>2. route \in Routes /\ a \in Associations
  BY DEF HeldInv, History
<1>3. Len(route.Path) \in Nat /\ a.CAPIProcessGUID \in Int
  BY <1>2, RecordsAssumption
<1> QED
  BY <1>1, <1>3 DEF MadeOf, EntryHeld

\* Another weight does not change what an entry is made of.
LEMMA ReweightedHeld ==
    ASSUME NEW e, NEW f, NEW h, EntryHeld(e, h), DOMAIN f = EntryFields,
           \A x \in EntryFields \ {"RouteWeight"} : f[x] = e[x]
    PROVE  EntryHeld(f, h)
<1>1. PICK route \in h.routes, a \in h.associations : MadeOf(e, route, a, h)
  BY DEF EntryHeld
<1>2. /\ f.Hostname = e.Hostname /\ f.Path = e.Path /\ f.Internal = e.Internal /\ f.VIP = e.VIP
      /\ f.CapiProcessGUID = e.CapiProcessGUID /\ f.Backends = e.Backends
  BY DEF EntryFields
<1>3. MadeOf(f, route, a, h)
  BY <1>1, <1>2 DEF MadeOf
<1> QED
  BY <1>3 DEF EntryHeld

\* What Finish does to the list that was built.
LEMMA FinishedList ==
    ASSUME HeldInv, NEW r, r = fixRouteWeights(InOrder(col.built))
    PROVE  /\ IsList(r) /\ Len(r) = Len(col.built)
           /\ \A i \in DOMAIN r : EntryHeld(r[i], since)
           /\ Ordered(r)
           /\ {Unweighted(r[i]) : i \in DOMAIN r} = {Unweighted(col.built[i]) : i \in DOMAIN col.built}
<1> DEFINE b == col.built
           o == InOrder(b)
<1>1. IsList(b) /\ \A i \in DOMAIN b : EntryHeld(b[i], since)
  BY DEF HeldInv, Built
<1>2. \A i \in DOMAIN b : Len(b[i].Path) \in Int /\ b[i].CapiProcessGUID \in Int /\ DOMAIN b[i] = EntryFields
  BY <1>1, HeldEntryShape
<1> HIDE DEF b
<1>3. /\ IsList(o) /\ Len(o) = Len(b)
      /\ \A i \in DOMAIN o : \E j \in DOMAIN b : o[i] = b[j]
      /\ \A j \in DOMAIN b : \E i \in DOMAIN o : o[i] = b[j]
      /\ Ordered(o)
  BY <1>1, <1>2, InOrderRight
<1>4. r = fixRouteWeights(o)
  BY DEF b
<1> HIDE DEF o
<1>5. \A i \in DOMAIN o : EntryHeld(o[i], since) /\ DOMAIN o[i] = EntryFields
  BY <1>1, <1>2, <1>3
<1>6. /\ IsList(r) /\ Len(r) = Len(o)
      /\ \A i \in DOMAIN o : /\ DOMAIN r[i] = EntryFields
                             /\ Unweighted(r[i]) = Unweighted(o[i])
                             /\ \A x \in EntryFields \ {"RouteWeight"} : r[i][x] = o[i][x]
  BY <1>3, <1>4, <1>5, OnlyWeights
<1>7. DOMAIN r = DOMAIN o
  BY <1>3, <1>6, ListShape
<1>8. ASSUME NEW i \in DOMAIN r PROVE EntryHeld(r[i], since)
  BY <1>5, <1>6, <1>7, ReweightedHeld
<1>9. Ordered(r)
  <2> SUFFICES ASSUME NEW i \in DOMAIN r, NEW j \in DOMAIN r, Comes(r[i], r[j]) PROVE i < j
    BY DEF Ordered
  <2>1. /\ r[i].Path = o[i].Path /\ r[i].CapiProcessGUID = o[i].CapiProcessGUID
        /\ r[j].Path = o[j].Path /\ r[j].CapiProcessGUID = o[j].CapiProcessGUID
    BY <1>6, <1>7 DEF EntryFields
  <2>2. Comes(o[i], o[j])
    BY <2>1 DEF Comes
  <2> QED
    BY <1>3, <1>7, <2>2 DEF Ordered
<1>10. ASSUME NEW i \in DOMAIN r PROVE \E j \in DOMAIN b : Unweighted(r[i]) = Unweighted(b[j])
  BY <1>3, <1>6, <1>7
<1>11. ASSUME NEW j \in DOMAIN b PROVE \E i \in DOMAIN r : Unweighted(b[j]) = Unweighted(r[i])
  <2>1. PICK i \in DOMAIN o : o[i] = b[j]
    BY <1>3
  <2>2. Unweighted(r[i]) = Unweighted(o[i])
    BY <1>6
  <2> QED
    BY <1>7, <2>1, <2>2
<1>12. {Unweighted(r[i]) : i \in DOMAIN r} = {Unweighted(b[i]) : i \in DOMAIN b}
  BY <1>10, <1>11
<1> QED
  BY <1>3, <1>6, <1>8, <1>9, <1>12 DEF b

\* The order and the correction of the weights publish the same entries.
LEMMA FinishHeld ==
    ASSUME HeldInv, Finish
    PROVE  HeldInv'
<1>1. UNCHANGED <<repoVars, writes, since>> /\ col.pc = "range"
  BY DEF Finish
<1>2. Tables' /\ History'
  BY <1>1, CollectFrame
<1> DEFINE r == fixRouteWeights(InOrder(col.built))
<1>3. IsList(r) /\ \A i \in DOMAIN r : EntryHeld(r[i], since)
  BY FinishedList
<1>4. col' = [pc |-> "done", todo |-> {}, rm |-> {}, route |-> {}, procs |-> <<>>,
              backends |-> <<>>, built |-> r]
  BY DEF Finish, Idle
<1> HIDE DEF r
<1>5. Local' /\ Gathering' /\ Built'
  BY <1>1, <1>3, <1>4 DEF Local, Gathering, Built
<1> QED
  BY <1>2, <1>5 DEF HeldInv

\* The caller takes the list, and the history ends.
LEMMA ReturnHeld ==
    ASSUME HeldInv, Return
    PROVE  HeldInv'
<1>1. Tables'
  BY DEF HeldInv, Tables, Return, repoVars
<1>2. col' = [pc |-> "idle", todo |-> {}, rm |-> {}, route |-> {}, procs |-> <<>>,
              backends |-> <<>>, built |-> <<>>]
  BY DEF Return, Idle
<1>3. since' = [routes |-> {}, associations |-> {}, backends |-> {}]
  <2>1. since = [routes |-> since.routes, associations |-> since.associations, backends |-> since.backends]
    BY DEF HeldInv, History
  <2> QED
    BY <2>1 DEF Return
<1>4. IsList(<<>>)
  BY DEF IsList
<1>5. History' /\ Local' /\ Gathering' /\ Built'
  BY <1>2, <1>3, <1>4 DEF History, Local, Gathering, Built
<1> QED
  BY <1>1, <1>5 DEF HeldInv

\* Every step keeps the invariant.
LEMMA HeldInvNext == HeldInv /\ [Next]_vars => HeldInv'
<1> SUFFICES ASSUME HeldInv, [Next]_vars PROVE HeldInv'
  OBVIOUS
<1>1. CASE Writer
  BY <1>1, WriterHeld
<1>2. ASSUME NEW rm \in col.todo, GetRoute(rm) PROVE HeldInv'
  BY <1>2, GetRouteHeld
<1>3. CASE NoBackends
  BY <1>3, ContinueHeld DEF NoBackends
<1>4. CASE UNCHANGED vars
  <2>1. TheMapping' = TheMapping /\ TheRoute' = TheRoute
    BY <1>4 DEF vars, TheMapping, TheRoute
  <2> QED
    BY <1>4, <2>1 DEF vars, HeldInv, Tables, History, Local, Gathering, Built
<1> QED
  BY <1>1, <1>2, <1>3, <1>4, ListHeld, GetAssociationHeld, GetBackendsHeld, GetWeightHeld, FinishHeld, ReturnHeld
     DEF Next, Collect

\* Whatever is written while Collect runs, every published entry is made of one
\* route, one association and backends that copilot held since Collect began.
THEOREM PublishedWereHeld == Spec => []EntriesWereHeld
<1>1. HeldInv => EntriesWereHeld
  <2> SUFFICES ASSUME HeldInv, col.pc = "done", NEW i \in DOMAIN col.built
               PROVE  \E route \in since.routes, a \in since.associations :
                          MadeOf(col.built[i], route, a, since)
    <3>1. \A a, kind : Gathered(a, kind) = GatheredFrom(a, kind, since)
      BY DEF Gathered, GatheredFrom
    <3>2. Entries = IF col.pc = "done" THEN {col.built[i] : i \in DOMAIN col.built} ELSE {}
      BY DEF Entries, Published
    <3> QED
      BY <3>1, <3>2 DEF EntriesWereHeld, MadeOf
  <2> QED
    BY DEF HeldInv, Built, EntryHeld
<1>2. Spec => []HeldInv
  BY HeldInvInit, HeldInvNext, PTL DEF Spec
<1> QED
  BY <1>1, <1>2, PTL
-----------------------------------------------------------------------------
(***************************************************************************)
(* A collection that no write falls into.                                  *)
(***************************************************************************)
\* The repositories, what they contribute and the history stay as they are.
LEMMA ExactFrame ==
    ASSUME UNCHANGED repoVars
    PROVE  /\ Mapped' = Mapped /\ Held' = Held /\ DOMAIN routes' = DOMAIN routes /\ routes' = routes
           /\ \A rm : Contributes(rm)' <=> Contributes(rm)
           /\ \A rm : Contribution(rm, 0)' = Contribution(rm, 0)
<1>1. UNCHANGED <<routes, mappings, associations, content>>
  BY DEF repoVars
<1>2. \A rm : BackendsOf(rm)' = BackendsOf(rm)
  BY <1>1 DEF BackendsOf
<1>3. Mapped' = Mapped /\ Held' = Held
  BY <1>1 DEF Mapped, Held
<1>4. \A rm : Contributes(rm)' <=> Contributes(rm)
  BY <1>1, <1>2 DEF Contributes
<1>5. \A rm : Contribution(rm, 0)' = Contribution(rm, 0)
  BY <1>1, <1>2 DEF Contribution
<1> QED
  BY <1>1, <1>3, <1>4, <1>5

\* What has been dealt with does not change, and neither has the list.
LEMMA BuiltExactStays ==
    ASSUME UNCHANGED repoVars, BuiltExact, Handled' = Handled, col'.built = col.built
    PROVE  BuiltExact'
<1>1. {Contribution(rm, 0) : rm \in Handled}' = {Contribution(rm, 0) : rm \in Handled}
  <2>1. \A rm : Contribution(rm, 0)' = Contribution(rm, 0)
    BY ExactFrame
  <2> QED
    BY <2>1
<1> QED
  BY <1>1 DEF BuiltExact

\* Finitely many mappings have been dealt with.
LEMMA HandledFinite ==
    ASSUME SumsInv
    PROVE  IsFiniteSet(Handled)
<1>1. [k \in DOMAIN mappings |-> mappings[k]] \in Surjection(DOMAIN mappings, Mapped)
  BY DEF Surjection, Mapped
<1>2. IsFiniteSet(Mapped)
  BY <1>1, FS_Surjection DEF SumsInv, MappingsTable
<1>3. Handled \subseteq Mapped
  BY DEF Handled
<1> QED
  BY <1>2, <1>3, FS_Subset

\* Backends gathered from the repositories as they are.
LEMMA GathersNow ==
    ASSUME HeldInv, since = Held, NEW m, NEW backends, m.RouteGUID \in DOMAIN routes,
           Gathers(m, routes[m.RouteGUID], <<>>, backends, since)
    PROVE  m.CAPIProcessGUID \in DOMAIN associations /\ backends = BackendsOf(m)
<1> DEFINE route == routes[m.RouteGUID]
<1>1. PICK a \in since.associations : \E k \in 0 .. Len(a.DiegoProcessGUIDs) : \E f \in [1 .. k -> BackendSets] :
          GathersBy(m, route, <<>>, backends, since, a, k, f)
  BY DEF Gathers
<1> DEFINE ds == a.DiegoProcessGUIDs
<1>2. PICK k \in 0 .. Len(ds) : \E f \in [1 .. k -> BackendSets] : GathersBy(m, route, <<>>, backends, since, a, k, f)
  BY <1>1
<1>3. PICK f \in [1 .. k -> BackendSets] : GathersBy(m, route, <<>>, backends, since, a, k, f)
  BY <1>2
<1>4. /\ a.CAPIProcessGUID = m.CAPIProcessGUID
      /\ <<>> = After(ds, k)
      /\ \A i \in 1 .. k : <<ds[i], f[i]>> \in since.backends
      /\ backends = FlattenSeq([i \in 1 .. k |-> f[i][KindOf(route)]])
  BY <1>3 DEF GathersBy
<1>5. m.CAPIProcessGUID \in DOMAIN associations /\ a = associations[m.CAPIProcessGUID]
  <2>1. PICK g \in DOMAIN associations : a = associations[g]
    BY DEF Held
  <2> QED
    BY <1>4, <2>1 DEF HeldInv, Tables
<1>6. ds \in Seq(DiegoGuids)
  BY <1>5, RecordsAssumption DEF HeldInv, Tables
<1>7. DOMAIN ds = 1 .. k
  BY <1>2, <1>4, <1>6, NothingAfter
<1>8. \A i \in 1 .. k : f[i] = content[ds[i]]
  <2> SUFFICES ASSUME NEW i \in 1 .. k PROVE f[i] = content[ds[i]]
    OBVIOUS
  <2>1. <<ds[i], f[i]>> \in {<<d, content[d]>> : d \in DiegoGuids}
    BY <1>4 DEF Held
  <2> QED
    BY <2>1
<1>9. BackendsOf(m) = FlattenSeq([i \in DOMAIN ds |-> content[ds[i]][KindOf(route)]])
  BY <1>5 DEF BackendsOf
<1>10. [i \in DOMAIN ds |-> content[ds[i]][KindOf(route)]] = [i \in 1 .. k |-> f[i][KindOf(route)]]
  BY <1>7, <1>8
<1> QED
  BY <1>4, <1>5, <1>9, <1>10

\* The first read.
LEMMA ListExact ==
    ASSUME List
    PROVE  ExactInv'
<1>1. /\ UNCHANGED repoVars /\ since' = Held
      /\ col' = [pc |-> "range", todo |-> Mapped, rm |-> {}, route |-> {}, procs |-> <<>>,
                 backends |-> <<>>, built |-> <<>>]
  BY DEF List, Idle
<1>2. Mapped' = Mapped /\ Held' = Held
  BY <1>1, ExactFrame
<1>3. ReadsExact'
  BY <1>1, <1>2 DEF ReadsExact
<1>4. Handled' = {}
  BY <1>1, <1>2 DEF Handled
<1>5. BuiltExact'
  <2>1. Cardinality({}) = 0
    BY FS_EmptySet
  <2>2. col'.built = <<>>
    BY <1>1
  <2> QED
    BY <1>4, <2>1, <2>2 DEF BuiltExact
<1> QED
  BY <1>1, <1>3, <1>5 DEF ExactInv

\* What the reads of a collection without writes start from.
LEMMA Undisturbed ==
    ASSUME ExactInv, UNCHANGED <<repoVars, writes, since>>, col.pc # "idle", writes = 0
    PROVE  ReadsExact /\ BuiltExact /\ Mapped' = Mapped /\ since' = Held' /\ since' = since
BY ExactFrame DEF ExactInv, ReadsExact

\* The route of the next mapping.
LEMMA GetRouteExact ==
    ASSUME HeldInv, ExactInv, NEW rm, GetRoute(rm)
    PROVE  ExactInv'
<1> SUFFICES ASSUME writes = 0 PROVE ReadsExact' /\ BuiltExact' /\ col'.pc # "done"
  BY DEF GetRoute, ExactInv
<1>1. UNCHANGED <<repoVars, writes, since>> /\ col.pc = "range" /\ rm \in col.todo
  BY DEF GetRoute
<1>2. ReadsExact /\ BuiltExact /\ Mapped' = Mapped /\ since' = Held'
  BY <1>1, Undisturbed
<1>3. /\ routes' = routes
      /\ \A x : Contributes(x)' <=> Contributes(x)
  BY <1>1, ExactFrame
<1>4. col.rm = {} /\ col.todo \subseteq Mapped
  BY <1>1, <1>2 DEF ReadsExact
<1>5. CASE rm.RouteGUID \notin DOMAIN routes
  <2>1. col' = [col EXCEPT !.todo = col.todo \ {rm}]
    BY <1>5 DEF GetRoute
  <2>2. col'.pc = "range" /\ col'.todo = col.todo \ {rm} /\ col'.rm = {} /\ col'.built = col.built
    BY <1>1, <1>4, <2>1 DEF HeldInv, Local
  <2>3. ~Contributes(rm)
    BY <1>5 DEF Contributes
  <2>4. Handled' = Handled
    BY <1>1, <1>2, <1>3, <1>4, <2>2, <2>3 DEF Handled
  <2>5. BuiltExact'
    BY <1>1, <1>2, <2>2, <2>4, BuiltExactStays
  <2> QED
    BY <1>2, <1>4, <2>2, <2>5 DEF ReadsExact
<1>6. CASE rm.RouteGUID \in DOMAIN routes
  <2>1. col' = [col EXCEPT !.todo = col.todo \ {rm}, !.pc = "association",
                           !.rm = {rm}, !.route = {routes[rm.RouteGUID]}]
    BY <1>6 DEF GetRoute
  <2>2. /\ col'.pc = "association" /\ col'.todo = col.todo \ {rm} /\ col'.rm = {rm}
        /\ col'.route = {routes[rm.RouteGUID]} /\ col'.built = col.built
    BY <2>1 DEF HeldInv, Local
  <2>3. TheMapping' = rm /\ TheRoute' = routes[rm.RouteGUID]
    BY <2>2, TheOnly DEF TheMapping, TheRoute
  <2>4. Handled' = Handled
    BY <1>1, <1>2, <1>3, <1>4, <2>2 DEF Handled
  <2>5. BuiltExact'
    BY <1>1, <1>2, <2>2, <2>4, BuiltExactStays
  <2> QED
    BY <1>1, <1>2, <1>3, <1>4, <1>6, <2>2, <2>3, <2>5 DEF ReadsExact
<1> QED
  BY <1>5, <1>6

\* A mapping that does not contribute is skipped.
LEMMA ContinueExact ==
    ASSUME HeldInv, ExactInv, UNCHANGED <<repoVars, writes, since>>, col.pc \in {"association", "backends"},
           col' = Continue, writes = 0 => ~Contributes(TheMapping)
    PROVE  ExactInv'
<1> SUFFICES ASSUME writes = 0 PROVE ReadsExact' /\ BuiltExact' /\ col'.pc # "done"
  BY DEF ExactInv
<1>1. ReadsExact /\ BuiltExact /\ Mapped' = Mapped /\ since' = Held'
  BY Undisturbed
<1>2. col'.pc = "range" /\ col'.todo = col.todo /\ col'.rm = {} /\ col'.built = col.built
  BY DEF HeldInv, Local, Continue
<1>3. col.rm = {TheMapping} /\ col.todo \subseteq Mapped
  BY <1>1 DEF HeldInv, Local, ReadsExact
<1>4. Handled' = Handled
  <2>1. \A x : Contributes(x)' <=> Contributes(x)
    BY ExactFrame
  <2> QED
    BY <1>1, <1>2, <1>3, <2>1 DEF Handled
<1>5. BuiltExact'
  BY <1>1, <1>2, <1>4, BuiltExactStays
<1> QED
  BY <1>1, <1>2, <1>3, <1>5 DEF ReadsExact

\* Steps that read on without finishing a mapping.
LEMMA ReadsOn ==
    ASSUME HeldInv, ExactInv, UNCHANGED <<repoVars, writes, since>>, col.pc \in {"association", "backends"},
           col'.pc = "backends", col'.todo = col.todo, col'.rm = col.rm, col'.route = col.route, col'.built = col.built
    PROVE  ExactInv'
<1> SUFFICES ASSUME writes = 0 PROVE ReadsExact' /\ BuiltExact'
  BY DEF ExactInv
<1>1. ReadsExact /\ BuiltExact /\ Mapped' = Mapped /\ since' = Held'
  BY Undisturbed
<1>2. routes' = routes /\ \A x : Contributes(x)' <=> Contributes(x)
  BY ExactFrame
<1>3. TheMapping' = TheMapping /\ TheRoute' = TheRoute
  BY DEF TheMapping, TheRoute
<1>4. Handled' = Handled
  BY <1>1, <1>2 DEF Handled
<1>5. BuiltExact'
  BY <1>1, <1>4, BuiltExactStays
<1> QED
  BY <1>1, <1>2, <1>3, <1>5 DEF ReadsExact

\* When every process has been asked, the backends are those of the mapping.
LEMMA GatheredNow ==
    ASSUME HeldInv, ExactInv, writes = 0, col.pc = "backends", col.procs = <<>>
    PROVE  /\ TheMapping.CAPIProcessGUID \in DOMAIN associations
           /\ BackendsOf(TheMapping) = col.backends
<1>1. since = Held /\ TheMapping.RouteGUID \in DOMAIN routes /\ TheRoute = routes[TheMapping.RouteGUID]
  BY DEF ExactInv, ReadsExact
<1>2. Gathers(TheMapping, routes[TheMapping.RouteGUID], <<>>, col.backends, since)
  BY <1>1 DEF HeldInv, Gathering
<1> QED
  BY <1>1, <1>2, GathersNow

\* The association of the mapping's process.
LEMMA GetAssociationExact ==
    ASSUME HeldInv, ExactInv, GetAssociation
    PROVE  ExactInv'
<1> DEFINE guid == TheMapping.CAPIProcessGUID
<1>1. UNCHANGED <<repoVars, writes, since>> /\ col.pc = "association"
  BY DEF GetAssociation
<1>2. CASE guid \notin DOMAIN associations
  <2>1. col' = Continue
    BY <1>2 DEF GetAssociation
  <2>2. ~Contributes(TheMapping)
    BY <1>2 DEF Contributes
  <2> QED
    BY <1>1, <2>1, <2>2, ContinueExact
<1>3. CASE guid \in DOMAIN associations
  <2>1. col' = [col EXCEPT !.pc = "backends", !.procs = associations[guid].DiegoProcessGUIDs]
    BY <1>3 DEF GetAssociation
  <2>2. /\ col'.pc = "backends" /\ col'.todo = col.todo /\ col'.rm = col.rm
        /\ col'.route = col.route /\ col'.built = col.built
    BY <2>1 DEF HeldInv, Local
  <2> QED
    BY <1>1, <2>2, ReadsOn
<1> QED
  BY <1>2, <1>3

\* The next process.
LEMMA GetBackendsExact ==
    ASSUME HeldInv, ExactInv, GetBackends
    PROVE  ExactInv'
<1>1. UNCHANGED <<repoVars, writes, since>> /\ col.pc = "backends"
  BY DEF GetBackends
<1>2. PICK more : col' = [col EXCEPT !.procs = Tail(col.procs), !.backends = more]
  BY DEF GetBackends
<1>3. /\ col'.pc = "backends" /\ col'.todo = col.todo /\ col'.rm = col.rm
      /\ col'.route = col.route /\ col'.built = col.built
  BY <1>1, <1>2 DEF HeldInv, Local
<1> QED
  BY <1>1, <1>3, ReadsOn

\* A mapping whose processes have no backends does not contribute.
LEMMA NoBackendsExact ==
    ASSUME HeldInv, ExactInv, NoBackends
    PROVE  ExactInv'
<1>1. /\ UNCHANGED <<repoVars, writes, since>> /\ col.pc = "backends" /\ col.procs = <<>> /\ col.backends = <<>>
      /\ col' = Continue
  BY DEF NoBackends
<1>2. ASSUME writes = 0 PROVE ~Contributes(TheMapping)
  <2>1. BackendsOf(TheMapping) = col.backends
    BY <1>1, <1>2, GatheredNow
  <2> QED
    BY <1>1, <2>1 DEF Contributes
<1> QED
  BY <1>1, <1>2, ContinueExact

\* The mapping contributes, and its contribution is what is built.
LEMMA GetWeightExact ==
    ASSUME HeldInv, SumsInv, ExactInv, GetWeight
    PROVE  ExactInv'
<1>1. UNCHANGED <<repoVars, writes, since>> /\ col.pc = "backends" /\ col.procs = <<>> /\ col.backends # <<>>
  BY DEF GetWeight
<1>2. PICK weight : col' = [Continue EXCEPT !.built =
                               Append(@, RouteWithBackends(TheMapping, TheRoute, col.backends, weight))]
  BY DEF GetWeight
<1> DEFINE m == TheMapping
           e == RouteWithBackends(m, TheRoute, col.backends, weight)
<1>3. /\ col'.pc = "range" /\ col'.todo = col.todo /\ col'.rm = {}
      /\ col'.built = Append(col.built, e)
  <2>1. PICK c : c = Continue
    OBVIOUS
  <2>2. c.pc = "range" /\ c.todo = col.todo /\ c.rm = {} /\ c.built = col.built /\ "built" \in DOMAIN c
    BY <2>1 DEF HeldInv, Local, Continue
  <2>3. col' = [c EXCEPT !.built = Append(c.built, e)]
    BY <1>2, <2>1
  <2> HIDE DEF e
  <2> QED
    BY <2>2, <2>3
<1> SUFFICES ASSUME writes = 0 PROVE ReadsExact' /\ BuiltExact' /\ col'.pc # "done"
  BY <1>1, <1>3 DEF ExactInv
<1>4. ReadsExact /\ BuiltExact /\ Mapped' = Mapped /\ since' = Held'
  BY <1>1, Undisturbed
<1>5. col.rm = {m} /\ m \in Mapped /\ m \notin col.todo /\ m.RouteGUID \in DOMAIN routes /\ TheRoute = routes[m.RouteGUID]
  BY <1>1, <1>4 DEF HeldInv, Local, ReadsExact
<1>6. m.CAPIProcessGUID \in DOMAIN associations /\ BackendsOf(m) = col.backends
  BY <1>1, GatheredNow
<1>7. Contributes(m)
  BY <1>1, <1>5, <1>6 DEF Contributes
<1>8. Unweighted(e) = Contribution(m, 0)
  BY <1>5, <1>6 DEF Unweighted, Contribution, RouteWithBackends
<1> HIDE DEF e, m
<1>9. Handled' = Handled \cup {m} /\ m \notin Handled
  <2>1. \A x : Contributes(x)' <=> Contributes(x)
    BY <1>1, ExactFrame
  <2> QED
    BY <1>3, <1>4, <1>5, <1>7, <2>1 DEF Handled
<1>10. Cardinality(Handled') = Cardinality(Handled) + 1
  BY <1>9, HandledFinite, FS_AddElement
<1> DEFINE b == col.built
           l == Append(b, e)
           n == Len(b)
<1>11. IsList(l) /\ Len(l) = n + 1 /\ l[n + 1] = e /\ \A i \in 1 .. n : l[i] = b[i]
  BY ListAppend DEF HeldInv, Built
<1>12. n \in Nat /\ DOMAIN b = 1 .. n /\ DOMAIN l = 1 .. n + 1
  BY <1>11, ListShape DEF HeldInv, Built
<1> HIDE DEF b, l, n
<1>13. {Unweighted(l[i]) : i \in DOMAIN l} = {Unweighted(b[i]) : i \in DOMAIN b} \cup {Unweighted(e)}
  <2>1. \A i \in DOMAIN l : i = n + 1 \/ i \in DOMAIN b
    BY <1>12
  <2>2. n + 1 \in DOMAIN l /\ \A i \in DOMAIN b : i \in DOMAIN l
    BY <1>12
  <2>3. \A i \in DOMAIN b : l[i] = b[i]
    BY <1>11, <1>12
  <2> QED
    BY <1>11, <2>1, <2>2, <2>3
<1>14. {Contribution(x, 0) : x \in Handled}' = {Contribution(x, 0) : x \in Handled} \cup {Contribution(m, 0)}
  <2>1. \A x : Contribution(x, 0)' = Contribution(x, 0)
    BY <1>1, ExactFrame
  <2> QED
    BY <1>9, <2>1
<1>15. BuiltExact'
  <2>1. {Unweighted(b[i]) : i \in DOMAIN b} = {Contribution(x, 0) : x \in Handled} /\ n = Cardinality(Handled)
    BY <1>4 DEF BuiltExact, b, n
  <2>2. {Unweighted(l[i]) : i \in DOMAIN l} = {Contribution(x, 0) : x \in Handled}'
    BY <1>8, <1>13, <1>14, <2>1
  <2>3. Len(l) = Cardinality(Handled')
    BY <1>10, <1>11, <2>1
  <2>4. col'.built = l
    BY <1>3 DEF l, b
  <2> QED
    BY <2>2, <2>3, <2>4 DEF BuiltExact
<1> QED
  BY <1>3, <1>4, <1>15 DEF ReadsExact

\* The order and the correction.
LEMMA FinishExact ==
    ASSUME HeldInv, ExactInv, Finish
    PROVE  ExactInv'
<1>1. UNCHANGED <<repoVars, writes, since>> /\ col.pc = "range" /\ col.todo = {}
  BY DEF Finish
<1> DEFINE r == fixRouteWeights(InOrder(col.built))
<1>2. /\ Len(r) = Len(col.built) /\ Ordered(r)
      /\ {Unweighted(r[i]) : i \in DOMAIN r} = {Unweighted(col.built[i]) : i \in DOMAIN col.built}
  BY FinishedList
<1>3. col' = [pc |-> "done", todo |-> {}, rm |-> {}, route |-> {}, procs |-> <<>>,
              backends |-> <<>>, built |-> r]
  BY DEF Finish, Idle
<1> HIDE DEF r
<1> SUFFICES ASSUME writes = 0 PROVE ReadsExact' /\ BuiltExact' /\ Ordered(col.built)'
  BY <1>1 DEF ExactInv
<1>4. ReadsExact /\ BuiltExact /\ Mapped' = Mapped /\ since' = Held'
  BY <1>1, Undisturbed
<1>5. Handled' = Handled
  <2>1. \A x : Contributes(x)' <=> Contributes(x)
    BY <1>1, ExactFrame
  <2> QED
    BY <1>1, <1>3, <1>4, <2>1 DEF Handled, ReadsExact
<1>6. {Contribution(x, 0) : x \in Handled}' = {Contribution(x, 0) : x \in Handled}
  <2>1. \A x : Contribution(x, 0)' = Contribution(x, 0)
    BY <1>1, ExactFrame
  <2> QED
    BY <1>5, <2>1
<1>7. BuiltExact'
  BY <1>2, <1>3, <1>4, <1>5, <1>6 DEF BuiltExact
<1>8. ReadsExact'
  BY <1>3, <1>4 DEF ReadsExact
<1> QED
  BY <1>2, <1>3, <1>7, <1>8 DEF Ordered

\* Every step keeps it.
LEMMA ExactInvNext == HeldInv /\ SumsInv /\ ExactInv /\ [Next]_vars => ExactInv'
<1> SUFFICES ASSUME HeldInv, SumsInv, ExactInv, [Next]_vars PROVE ExactInv'
  OBVIOUS
<1>1. CASE Writer
  <2>1. col' = col /\ (col.pc # "idle" => writes' = writes + 1) /\ writes \in Nat
    BY <1>1 DEF Writer, Write, HeldInv, Tables
  <2> QED
    BY <2>1 DEF ExactInv
<1>2. ASSUME NEW rm \in col.todo, GetRoute(rm) PROVE ExactInv'
  BY <1>2, GetRouteExact
<1>3. CASE Return
  BY <1>3 DEF Return, Idle, ExactInv
<1>4. CASE UNCHANGED vars
  <2>1. UNCHANGED repoVars /\ UNCHANGED <<col, writes, since>> /\ TheMapping' = TheMapping /\ TheRoute' = TheRoute
    BY <1>4 DEF vars, repoVars, TheMapping, TheRoute
  <2>2. Mapped' = Mapped /\ Held' = Held /\ routes' = routes /\ \A x : Contributes(x)' <=> Contributes(x)
    BY <2>1, ExactFrame
  <2>3. Handled' = Handled
    BY <2>1, <2>2 DEF Handled
  <2>4. BuiltExact => BuiltExact'
    BY <2>1, <2>3, BuiltExactStays
  <2>5. ReadsExact => ReadsExact'
    BY <2>1, <2>2 DEF ReadsExact
  <2> QED
    BY <2>1, <2>4, <2>5 DEF ExactInv, Ordered
<1> QED
  BY <1>1, <1>2, <1>3, <1>4, ListExact, GetAssociationExact, GetBackendsExact, NoBackendsExact, GetWeightExact,
     FinishExact DEF Next, Collect

\* A collection that no write falls into publishes one entry for each mapping
\* that has a route, an association and a backend, and in the right order.
THEOREM CollectionExact == Spec => []CollectExact
<1>1. ExactInv => CollectExact
  <2> SUFFICES ASSUME ExactInv, col.pc = "done", writes = 0
               PROVE  LET live == {rm \in Mapped : Contributes(rm)} IN
                      /\ {[e EXCEPT !.RouteWeight = 0] : e \in Entries} = {Contribution(rm, 0) : rm \in live}
                      /\ Len(Published) = Cardinality(live)
                      /\ \A i, j \in DOMAIN Published : Comes(Published[i], Published[j]) => i < j
    BY DEF CollectExact
  <2>1. ReadsExact /\ BuiltExact /\ Ordered(col.built)
    BY DEF ExactInv
  <2>2. Published = col.built /\ Entries = {col.built[i] : i \in DOMAIN col.built}
    BY DEF Published, Entries
  <2>3. Handled = {rm \in Mapped : Contributes(rm)}
    BY <2>1 DEF Handled, ReadsExact
  <2>4. {[e EXCEPT !.RouteWeight = 0] : e \in Entries} = {Unweighted(col.built[i]) : i \in DOMAIN col.built}
    BY <2>2 DEF Unweighted
  <2> QED
    BY <2>1, <2>2, <2>3, <2>4 DEF BuiltExact, Ordered
<1>2. Init => ExactInv
  BY DEF Init, Idle, ExactInv
<1>3. Spec => [](HeldInv /\ SumsInv /\ ExactInv)
  BY <1>2, HeldInvInit, SumsInvInit, HeldInvNext, SumsInvNext, ExactInvNext, PTL DEF Spec
<1> QED
  BY <1>1, <1>3, PTL
-----------------------------------------------------------------------------
(***************************************************************************)
(* Collect's local state.                                                  *)
(***************************************************************************)
LocalShape ==
    /\ col.todo \cup col.rm \subseteq RouteMappings /\ col.route \subseteq Routes
    /\ col.procs \in Seq(DiegoGuids) /\ col.backends \in Seq(Backends)
    /\ \A i \in DOMAIN col.built : col.built[i].Backends # <<>>

\* The mappings repository holds mappings under their keys, and its sums fit
\* into the word.
LEMMA MappingsTyped ==
    ASSUME SumsInv
    PROVE  MappingsStore!TypeOK
<1> DEFINE G == {m.RouteGUID : m \in RouteMappings}
           C == {m.CAPIProcessGUID : m \in RouteMappings}
           W == {m.RouteWeight : m \in RouteMappings}
<1>1. \A m \in RouteMappings : m \in [RouteGUID : G, CAPIProcessGUID : C, RouteWeight : W]
  <2> TAKE m \in RouteMappings
  <2>1. m = [RouteGUID |-> m.RouteGUID, CAPIProcessGUID |-> m.CAPIProcessGUID, RouteWeight |-> m.RouteWeight]
    BY MappingsAssumption
  <2>2. m.RouteGUID \in G /\ m.CAPIProcessGUID \in C /\ m.RouteWeight \in W
    OBVIOUS
  <2> HIDE DEF G, C, W
  <2> QED
    BY <2>1, <2>2
<1>2. \A m \in RouteMappings : Key(m) \in G \X C
  BY DEF Key
<1> HIDE DEF G, C, W
<1>3. DOMAIN mappings \subseteq G \X C
  BY <1>2 DEF SumsInv, MappingsTable
<1>4. mappings \in [DOMAIN mappings -> [RouteGUID : G, CAPIProcessGUID : C, RouteWeight : W]]
  BY <1>1 DEF SumsInv, MappingsTable
<1>5. weightDenominator \in [G -> 0 .. Word - 1]
  <2>1. ASSUME NEW r \in RouteGuids PROVE WeightIn(mappings, r) % Word \in 0 .. Word - 1
    <3>1. WeightIn(mappings, r) \in Nat /\ Word \in Nat \ {0}
      BY MappedFinite, BoundsAssumption DEF SumsInv
    <3> QED
      BY <3>1
  <2>2. G = RouteGuids
    BY DEF G, RouteGuids
  <2> QED
    BY <2>1, <2>2 DEF SumsInv
<1> QED
  BY <1>3, <1>4, <1>5 DEF MappingsStore!TypeOK, MappingsStore!IsMap, MappingsStore!Mappings, MappingsStore!Keys, G, C, W

\* A list that is not empty is not empty when it is sorted.
LEMMA SortedNotEmpty ==
    ASSUME NEW s \in Seq(Backends), s # <<>>
    PROVE  ByAddress(s) # <<>>
<1>1. Len(s) \in Nat /\ Len(s) # 0 /\ DOMAIN s = 1 .. Len(s)
  OBVIOUS
<1>2. Cardinality(DOMAIN s) = Len(s)
  BY <1>1, FS_Interval
<1>3. DOMAIN ByAddress(s) = 1 .. Len(s)
  BY <1>2 DEF ByAddress, SortedAt
<1>4. 1 \in DOMAIN ByAddress(s)
  BY <1>1, <1>3
<1> QED
  BY <1>4

\* The steps that only move on.
LEMMA ListShaped ==
    ASSUME SumsInv, List
    PROVE  LocalShape'
<1>1. col' = [pc |-> "range", todo |-> Mapped, rm |-> {}, route |-> {}, procs |-> <<>>,
              backends |-> <<>>, built |-> <<>>]
  BY DEF List, Idle
<1>2. Mapped \subseteq RouteMappings
  BY DEF Mapped, SumsInv, MappingsTable
<1> QED
  BY <1>1, <1>2 DEF LocalShape

\* The route of a mapping is one of the repository's.
LEMMA GetRouteShaped ==
    ASSUME HeldInv, LocalShape, NEW rm, GetRoute(rm)
    PROVE  LocalShape'
<1>1. rm \in col.todo
  BY DEF GetRoute
<1>2. CASE rm.RouteGUID \notin DOMAIN routes
  <2>1. col' = [col EXCEPT !.todo = col.todo \ {rm}]
    BY <1>2 DEF GetRoute
  <2>2. /\ col'.todo = col.todo \ {rm} /\ col'.rm = col.rm /\ col'.route = col.route
        /\ col'.procs = col.procs /\ col'.backends = col.backends /\ col'.built = col.built
    BY <2>1 DEF HeldInv, Local
  <2> QED
    BY <2>2 DEF LocalShape
<1>3. CASE rm.RouteGUID \in DOMAIN routes
  <2>1. col' = [col EXCEPT !.todo = col.todo \ {rm}, !.pc = "association",
                           !.rm = {rm}, !.route = {routes[rm.RouteGUID]}]
    BY <1>3 DEF GetRoute
  <2>2. /\ col'.todo = col.todo \ {rm} /\ col'.rm = {rm} /\ col'.route = {routes[rm.RouteGUID]}
        /\ col'.procs = col.procs /\ col'.backends = col.backends /\ col'.built = col.built
    BY <2>1 DEF HeldInv, Local
  <2>3. routes[rm.RouteGUID] \in Routes
    BY <1>3 DEF HeldInv, Tables
  <2> QED
    BY <1>1, <2>2, <2>3 DEF LocalShape
<1> QED
  BY <1>2, <1>3

\* The rest of the loop's body is skipped.
LEMMA ContinueShaped ==
    ASSUME HeldInv, LocalShape, col' = Continue
    PROVE  LocalShape'
<1>1. /\ col'.todo = col.todo /\ col'.rm = {} /\ col'.route = {}
      /\ col'.procs = <<>> /\ col'.backends = <<>> /\ col'.built = col.built
  BY DEF HeldInv, Local, Continue
<1> QED
  BY <1>1 DEF LocalShape

\* The processes to ask are those of an association of the repository.
LEMMA GetAssociationShaped ==
    ASSUME HeldInv, LocalShape, GetAssociation
    PROVE  LocalShape'
<1> DEFINE guid == TheMapping.CAPIProcessGUID
<1>1. CASE guid \notin DOMAIN associations
  BY <1>1, ContinueShaped DEF GetAssociation
<1>2. CASE guid \in DOMAIN associations
  <2> DEFINE ds == associations[guid].DiegoProcessGUIDs
  <2>1. col' = [col EXCEPT !.pc = "backends", !.procs = ds]
    BY <1>2 DEF GetAssociation
  <2>2. ds \in Seq(DiegoGuids)
    BY <1>2, RecordsAssumption DEF HeldInv, Tables
  <2> HIDE DEF ds
  <2>3. /\ col'.todo = col.todo /\ col'.rm = col.rm /\ col'.route = col.route
        /\ col'.procs = ds /\ col'.backends = col.backends /\ col'.built = col.built
    BY <2>1 DEF HeldInv, Local
  <2> QED
    BY <2>2, <2>3 DEF LocalShape
<1> QED
  BY <1>1, <1>2

\* The backends of one more process.
LEMMA GetBackendsShaped ==
    ASSUME HeldInv, LocalShape, GetBackends
    PROVE  LocalShape'
<1> DEFINE s == content[Head(col.procs)]
           more == col.backends \o s[KindOf(TheRoute)]
           rest == Tail(col.procs)
<1>1. col.procs \in Seq(DiegoGuids) /\ col.procs # <<>> /\ col.backends \in Seq(Backends)
  BY DEF GetBackends, LocalShape
<1>2. Head(col.procs) \in DiegoGuids /\ rest \in Seq(DiegoGuids)
  BY <1>1
<1>3. s \in BackendSets
  BY <1>2 DEF HeldInv, Tables
<1>4. more \in Seq(Backends)
  <2>1. s[KindOf(TheRoute)] \in Seq(Backends)
    BY <1>3, SetLists
  <2> QED
    BY <1>1, <2>1
<1>5. col' = [col EXCEPT !.procs = rest, !.backends = more]
  BY DEF GetBackends
<1> HIDE DEF more, rest
<1>6. /\ col'.todo = col.todo /\ col'.rm = col.rm /\ col'.route = col.route
      /\ col'.procs = rest /\ col'.backends = more /\ col'.built = col.built
  BY <1>5 DEF HeldInv, Local
<1> QED
  BY <1>2, <1>4, <1>6 DEF LocalShape

\* Only a route with backends is built.
LEMMA GetWeightShaped ==
    ASSUME HeldInv, LocalShape, GetWeight
    PROVE  LocalShape'
<1>1. PICK weight : col' = [Continue EXCEPT !.built =
                               Append(@, RouteWithBackends(TheMapping, TheRoute, col.backends, weight))]
  BY DEF GetWeight
<1> DEFINE e == RouteWithBackends(TheMapping, TheRoute, col.backends, weight)
           b == col.built
           l == Append(b, e)
           n == Len(b)
<1>2. e.Backends # <<>>
  <2>1. e.Backends = ByAddress(col.backends)
    BY DEF RouteWithBackends
  <2>2. col.backends \in Seq(Backends) /\ col.backends # <<>>
    BY DEF GetWeight, LocalShape
  <2> HIDE DEF e
  <2> QED
    BY <2>1, <2>2, SortedNotEmpty
<1> HIDE DEF e
<1>3. /\ col'.todo = col.todo /\ col'.rm = {} /\ col'.route = {}
      /\ col'.procs = <<>> /\ col'.backends = <<>> /\ col'.built = l
  <2>1. PICK c : c = Continue
    OBVIOUS
  <2>2. /\ c.todo = col.todo /\ c.rm = {} /\ c.route = {} /\ c.procs = <<>> /\ c.backends = <<>>
        /\ c.built = b /\ "built" \in DOMAIN c
    BY <2>1 DEF HeldInv, Local, Continue
  <2>3. col' = [c EXCEPT !.built = Append(c.built, e)]
    BY <1>1, <2>1 DEF e
  <2> QED
    BY <2>2, <2>3
<1>4. IsList(b)
  BY DEF HeldInv, Built
<1>5. IsList(l) /\ Len(l) = n + 1 /\ l[n + 1] = e /\ \A i \in 1 .. n : l[i] = b[i]
  BY <1>4, ListAppend
<1>6. n \in Nat /\ DOMAIN b = 1 .. n /\ DOMAIN l = 1 .. n + 1
  BY <1>4, <1>5, ListShape
<1>7. \A i \in DOMAIN b : b[i].Backends # <<>>
  BY DEF LocalShape
<1> HIDE DEF b, l, n
<1>8. ASSUME NEW i \in DOMAIN l PROVE l[i].Backends # <<>>
  <2>1. i = n + 1 \/ i \in 1 .. n
    BY <1>6
  <2> QED
    BY <1>2, <1>5, <1>6, <1>7, <2>1
<1> QED
  BY <1>3, <1>8 DEF LocalShape

\* The order and the correction of the weights leave the backends alone.
LEMMA FinishShaped ==
    ASSUME HeldInv, LocalShape, Finish
    PROVE  LocalShape'
<1> DEFINE b == col.built
           r == fixRouteWeights(InOrder(b))
<1>1. col' = [pc |-> "done", todo |-> {}, rm |-> {}, route |-> {}, procs |-> <<>>,
              backends |-> <<>>, built |-> r]
  BY DEF Finish, Idle
<1>2. /\ \A i \in DOMAIN r : EntryHeld(r[i], since)
      /\ {Unweighted(r[i]) : i \in DOMAIN r} = {Unweighted(b[i]) : i \in DOMAIN b}
  BY FinishedList
<1>3. \A i \in DOMAIN b : EntryHeld(b[i], since) /\ b[i].Backends # <<>>
  BY DEF HeldInv, Built, LocalShape
<1> HIDE DEF b, r
<1>4. ASSUME NEW i \in DOMAIN r PROVE r[i].Backends # <<>>
  <2>1. PICK j \in DOMAIN b : Unweighted(r[i]) = Unweighted(b[j])
    BY <1>2
  <2>2. DOMAIN r[i] = EntryFields /\ DOMAIN b[j] = EntryFields
    BY <1>2, <1>3 DEF EntryHeld
  <2>3. Unweighted(r[i]).Backends = r[i].Backends /\ Unweighted(b[j]).Backends = b[j].Backends
    BY <2>2 DEF Unweighted, EntryFields
  <2> QED
    BY <1>3, <2>1, <2>3
<1> QED
  BY <1>1, <1>4 DEF LocalShape

\* Every step keeps the shape; the writers do not touch it.
LEMMA LocalShapeNext == SumsInv /\ HeldInv /\ LocalShape /\ [Next]_vars => LocalShape'
<1> SUFFICES ASSUME SumsInv, HeldInv, LocalShape, [Next]_vars PROVE LocalShape'
  OBVIOUS
<1>1. CASE Writer \/ UNCHANGED vars
  BY <1>1 DEF Writer, Write, vars, LocalShape
<1>2. ASSUME NEW rm \in col.todo, GetRoute(rm) PROVE LocalShape'
  BY <1>2, GetRouteShaped
<1>3. CASE NoBackends
  BY <1>3, ContinueShaped DEF NoBackends
<1>4. CASE Return
  BY <1>4 DEF Return, Idle, LocalShape
<1> QED
  BY <1>1, <1>2, <1>3, <1>4, ListShaped, GetAssociationShaped, GetBackendsShaped, GetWeightShaped, FinishShaped
     DEF Next, Collect

\* Collect asks for known processes only, and publishes no route without a
\* backend: the checks for an absent route, an absent association and an empty
\* list of backends leave nothing else through.
THEOREM TypeCorrect == Spec => []TypeOK
<1>1. SumsInv /\ LocalShape => TypeOK
  BY MappingsTyped DEF TypeOK, LocalShape
<1>2. Init => LocalShape
  BY DEF Init, Idle, LocalShape
<1>3. Spec => [](SumsInv /\ HeldInv /\ LocalShape)
  BY <1>2, SumsInvInit, HeldInvInit, SumsInvNext, HeldInvNext, LocalShapeNext, PTL DEF Spec
<1> QED
  BY <1>1, <1>3, PTL
=============================================================================
