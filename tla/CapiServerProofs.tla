-------------------------- MODULE CapiServerProofs --------------------------
(***************************************************************************)
(* Proofs about CapiServer, for all routes, mappings and associations, any *)
(* number of concurrent bulk syncs, calls, retries and crashes, and every  *)
(* width of the running sums.                                              *)
(***************************************************************************)
EXTENDS CapiServer, DataTheorems

RouteGuids == {m.RouteGUID : m \in RouteMappings}
Key(m) == <<m.RouteGUID, m.CAPIProcessGUID>>

\* Finite tables whose records are filed under their own keys, and a database
\* of three of them.
IsTable(t, V) == /\ t = [k \in DOMAIN t |-> t[k]]
                 /\ IsFiniteSet(DOMAIN t)
                 /\ \A k \in DOMAIN t : t[k] \in V
RoutesTable(t) == IsTable(t, Routes) /\ \A k \in DOMAIN t : t[k].GUID = k
MappingsTable(t) == IsTable(t, RouteMappings) /\ \A k \in DOMAIN t : Key(t[k]) = k
AssociationsTable(t) == IsTable(t, Associations) /\ \A k \in DOMAIN t : t[k].CAPIProcessGUID = k
Database(d) == /\ d = [routes |-> d.routes, mappings |-> d.mappings, associations |-> d.associations]
               /\ RoutesTable(d.routes) /\ MappingsTable(d.mappings) /\ AssociationsTable(d.associations)

\* A call carries the kind of record that its operation is about.
ArgOf(op) == CASE op \in {"UpsertRoute", "DeleteRoute"} -> Routes
               [] op \in {"MapRoute", "UnmapRoute"} -> RouteMappings
               [] op \in {"UpsertAssociation", "DeleteAssociation"} -> Associations
Ops == {"UpsertRoute", "DeleteRoute", "MapRoute", "UnmapRoute", "UpsertAssociation", "DeleteAssociation"}
IsCall(c) == /\ c = [op |-> c.op, arg |-> c.arg, retries |-> c.retries]
             /\ c.op \in Ops /\ c.arg \in ArgOf(c.op)

CallsRight == /\ IsFiniteSet(calls) /\ Cardinality(calls) <= MaxCalls
              /\ \A c \in calls : IsCall(c)

Repos == /\ RoutesTable(routes)
         /\ MappingsTable(mappings)
         /\ weightDenominator \in [RouteGuids -> 0 .. Word - 1]
         /\ AssociationsTable(associations)

\* The mappings of a route in a table, and the sum of their weights.
MappedIn(t, r) == {t[k] : k \in {k \in DOMAIN t : k[1] = r}}
WeightIn(t, r) == SumFunctionOnSet([m \in MappedIn(t, r) |-> m.RouteWeight], MappedIn(t, r))

IsStream(b) == /\ b = [pc |-> b.pc, request |-> b.request, disturbed |-> b.disturbed]
               /\ b.pc \in {"idle", "recv", "routes", "associations"}
               /\ Database(b.request) /\ b.disturbed \in BOOLEAN

StreamsRight == /\ bulk = [s \in Streams |-> bulk[s]]
                /\ \A s \in Streams : IsStream(bulk[s])

\* What an undisturbed bulk sync has installed so far.
MappingsInstalled(s) == mappings = bulk[s].request.mappings /\ MappingsStore!DenominatorExact
RoutesInstalled(s) == routes = bulk[s].request.routes /\ IndexRight
Installed(s) ==
    ~bulk[s].disturbed =>
        /\ bulk[s].pc \in {"routes", "associations"} => MappingsInstalled(s)
        /\ bulk[s].pc = "associations" => RoutesInstalled(s)

Inv == /\ Database(db) /\ CallsRight /\ Repos /\ StreamsRight
       /\ \A s \in Streams : Installed(s)
-----------------------------------------------------------------------------
(***************************************************************************)
(* The request of a bulk sync as a list.                                   *)
(***************************************************************************)
\* The list holds every record of a finite table exactly once.
LEMMA ListOfTable ==
    ASSUME NEW t, IsFiniteSet(DOMAIN t)
    PROVE  \E n \in Nat :
               /\ ListOf(t) \in [1 .. n -> {t[k] : k \in DOMAIN t}]
               /\ \A i \in 1 .. n : \E k \in DOMAIN t : ListOf(t)[i] = t[k]
               /\ \A k \in DOMAIN t : \E i \in 1 .. n : ListOf(t)[i] = t[k]
               /\ \A i, j \in 1 .. n : ListOf(t)[i] = ListOf(t)[j] => i = j
<1> DEFINE vals == {t[k] : k \in DOMAIN t}
           n == Cardinality(vals)
           list == ListOf(t)
<1>1. IsFiniteSet(vals)
  <2>1. [k \in DOMAIN t |-> t[k]] \in Surjection(DOMAIN t, vals)
    BY DEF Surjection
  <2> HIDE DEF vals
  <2> QED
    BY <2>1, FS_Surjection
<1>2. n \in Nat /\ \E f : f \in Bijection(1 .. n, vals)
  <2> HIDE DEF vals
  <2> QED
    BY <1>1, FS_CardinalityType DEF ExistsBijection
<1>3. list \in [1 .. n -> vals] /\ {list[i] : i \in DOMAIN list} = vals
  <2>1. PICK f : f \in Bijection(1 .. n, vals)
    BY <1>2
  <2>2. f \in [1 .. n -> vals] /\ \A v \in vals : \E i \in 1 .. n : f[i] = v
    <3> HIDE DEF vals, n
    <3> QED
      BY <2>1 DEF Bijection, Injection, Surjection
  <2>3. {f[i] : i \in DOMAIN f} = vals
    <3> HIDE DEF vals, n
    <3> QED
      BY <2>2
  <2>4. list = CHOOSE l \in [1 .. n -> vals] : {l[i] : i \in DOMAIN l} = vals
    BY DEF ListOf
  <2> HIDE DEF vals, n, list
  <2> QED
    BY <2>2, <2>3, <2>4
<1>4. list \in Surjection(1 .. n, vals)
  <2> HIDE DEF vals, n, list
  <2> QED
    BY <1>3 DEF Surjection
<1>5. list \in Injection(1 .. n, vals)
  <2>1. IsFiniteSet(1 .. n) /\ Cardinality(1 .. n) = n
    <3> HIDE DEF n
    <3> QED
      BY <1>2, FS_Interval
  <2>2. Cardinality(vals) = Cardinality(1 .. n)
    BY <2>1
  <2> HIDE DEF vals, n, list
  <2> QED
    BY <1>4, <2>1, <2>2, FS_Surjection
<1>6. \A i, j \in 1 .. n : list[i] = list[j] => i = j
  <2> HIDE DEF vals, n, list
  <2> QED
    BY <1>3, <1>5 DEF Injection, IsInjective
<1>7. \A i \in 1 .. n : \E k \in DOMAIN t : list[i] = t[k]
  <2>1. \A i \in 1 .. n : list[i] \in vals
    BY <1>3
  <2> HIDE DEF n, list
  <2> QED
    BY <2>1
<1>8. \A k \in DOMAIN t : \E i \in 1 .. n : list[i] = t[k]
  <2>1. \A v \in vals : \E i \in 1 .. n : list[i] = v
    BY <1>4 DEF Surjection
  <2> HIDE DEF n, list
  <2> QED
    BY <2>1
<1> HIDE DEF n
<1> QED
  BY <1>2, <1>3, <1>6, <1>7, <1>8

\* Pouring the list of a table into a map yields the table: the associations.
LEMMA AssociationsPoured ==
    ASSUME NEW t, AssociationsTable(t)
    PROVE  AssociationsStore!Poured(ListOf(t), AssociationsStore!CapiGuidOf, AssociationsStore!Itself) = t
<1> DEFINE list == ListOf(t)
<1>1. PICK n \in Nat :
          /\ list \in [1 .. n -> {t[k] : k \in DOMAIN t}] /\ DOMAIN list = 1 .. n
          /\ \A i \in 1 .. n : \E k \in DOMAIN t : list[i] = t[k]
          /\ \A k \in DOMAIN t : \E i \in 1 .. n : list[i] = t[k]
          /\ \A i, j \in 1 .. n : list[i] = list[j] => i = j
  <2>1. IsFiniteSet(DOMAIN t)
    BY DEF AssociationsTable, IsTable
  <2> QED
    BY <2>1, ListOfTable
<1> HIDE DEF list
<1>2. ASSUME NEW k, \E i \in 1 .. n : list[i].CAPIProcessGUID = k
      PROVE  LET j == AssociationsStore!LastWith(list, AssociationsStore!CapiGuidOf, k)
             IN  j \in 1 .. n /\ list[j].CAPIProcessGUID = k
  <2> DEFINE T == {i \in 1 .. n : list[i].CAPIProcessGUID = k}
  <2>1. PICK j \in T : \A x \in T : x <= j
    <3>1. T \in SUBSET (1 .. n) /\ T # {}
      BY <1>2
    <3> HIDE DEF T
    <3> QED
      BY <1>1, <3>1, LastPosition
  <2>2. /\ j \in DOMAIN list /\ AssociationsStore!CapiGuidOf(list[j]) = k
        /\ \A x \in DOMAIN list : AssociationsStore!CapiGuidOf(list[x]) = k => x <= j
    BY <1>1, <2>1 DEF AssociationsStore!CapiGuidOf
  <2> QED
    BY <1>1, <2>2 DEF AssociationsStore!LastWith, AssociationsStore!CapiGuidOf
<1>3. \A i \in 1 .. n : list[i].CAPIProcessGUID \in DOMAIN t /\ list[i] = t[list[i].CAPIProcessGUID]
  BY <1>1 DEF AssociationsTable
<1>4. AssociationsStore!Poured(list, AssociationsStore!CapiGuidOf, AssociationsStore!Itself) = t
  <2>1. {AssociationsStore!CapiGuidOf(list[i]) : i \in DOMAIN list} = DOMAIN t
    <3>1. \A i \in 1 .. n : AssociationsStore!CapiGuidOf(list[i]) \in DOMAIN t
      BY <1>3 DEF AssociationsStore!CapiGuidOf
    <3>2. \A k \in DOMAIN t : \E i \in 1 .. n : k = AssociationsStore!CapiGuidOf(list[i])
      BY <1>1 DEF AssociationsTable, AssociationsStore!CapiGuidOf
    <3>3. DOMAIN list = 1 .. n
      BY <1>1
    <3> QED
      BY <3>1, <3>2, <3>3
  <2>2. ASSUME NEW k \in DOMAIN t
        PROVE  AssociationsStore!Itself(list[AssociationsStore!LastWith(list, AssociationsStore!CapiGuidOf, k)]) = t[k]
    <3>1. \E i \in 1 .. n : list[i].CAPIProcessGUID = k
      BY <1>1 DEF AssociationsTable
    <3> QED
      BY <3>1, <1>2, <1>3 DEF AssociationsStore!Itself
  <2>3. t = [k \in DOMAIN t |-> t[k]]
    BY DEF AssociationsTable, IsTable
  <2> QED
    BY <2>1, <2>2, <2>3 DEF AssociationsStore!Poured
<1> QED
  BY <1>4 DEF list

\* The mappings.
LEMMA MappingsPoured ==
    ASSUME NEW t, MappingsTable(t)
    PROVE  MappingsStore!Poured(ListOf(t), MappingsStore!Key, MappingsStore!Itself) = t
<1> DEFINE list == ListOf(t)
<1>1. PICK n \in Nat :
          /\ list \in [1 .. n -> {t[k] : k \in DOMAIN t}] /\ DOMAIN list = 1 .. n
          /\ \A i \in 1 .. n : \E k \in DOMAIN t : list[i] = t[k]
          /\ \A k \in DOMAIN t : \E i \in 1 .. n : list[i] = t[k]
          /\ \A i, j \in 1 .. n : list[i] = list[j] => i = j
  <2>1. IsFiniteSet(DOMAIN t)
    BY DEF MappingsTable, IsTable
  <2> QED
    BY <2>1, ListOfTable
<1> HIDE DEF list
<1>2. ASSUME NEW k, \E i \in 1 .. n : Key(list[i]) = k
      PROVE  LET j == MappingsStore!LastWith(list, MappingsStore!Key, k)
             IN  j \in 1 .. n /\ Key(list[j]) = k
  <2> DEFINE T == {i \in 1 .. n : Key(list[i]) = k}
  <2>1. PICK j \in T : \A x \in T : x <= j
    <3>1. T \in SUBSET (1 .. n) /\ T # {}
      BY <1>2
    <3> HIDE DEF T
    <3> QED
      BY <1>1, <3>1, LastPosition
  <2>2. /\ j \in DOMAIN list /\ MappingsStore!Key(list[j]) = k
        /\ \A x \in DOMAIN list : MappingsStore!Key(list[x]) = k => x <= j
    BY <1>1, <2>1 DEF MappingsStore!Key, Key
  <2> QED
    BY <1>1, <2>2 DEF MappingsStore!LastWith, MappingsStore!Key, Key
<1>3. \A i \in 1 .. n : Key(list[i]) \in DOMAIN t /\ list[i] = t[Key(list[i])]
  BY <1>1 DEF MappingsTable
<1>4. MappingsStore!Poured(list, MappingsStore!Key, MappingsStore!Itself) = t
  <2>1. {MappingsStore!Key(list[i]) : i \in DOMAIN list} = DOMAIN t
    <3>1. \A i \in 1 .. n : MappingsStore!Key(list[i]) \in DOMAIN t
      BY <1>3 DEF MappingsStore!Key, Key
    <3>2. \A k \in DOMAIN t : \E i \in 1 .. n : k = MappingsStore!Key(list[i])
      BY <1>1 DEF MappingsTable, MappingsStore!Key, Key
    <3>3. DOMAIN list = 1 .. n
      BY <1>1
    <3> QED
      BY <3>1, <3>2, <3>3
  <2>2. ASSUME NEW k \in DOMAIN t
        PROVE  MappingsStore!Itself(list[MappingsStore!LastWith(list, MappingsStore!Key, k)]) = t[k]
    <3>1. \E i \in 1 .. n : Key(list[i]) = k
      BY <1>1 DEF MappingsTable
    <3> QED
      BY <3>1, <1>2, <1>3 DEF MappingsStore!Itself
  <2>3. t = [k \in DOMAIN t |-> t[k]]
    BY DEF MappingsTable, IsTable
  <2> QED
    BY <2>1, <2>2, <2>3 DEF MappingsStore!Poured
<1> QED
  BY <1>4 DEF list

\* The routes; and the index that is poured from the same list leads from every
\* host to a route that has it.
LEMMA RoutesPoured ==
    ASSUME NEW t, RoutesTable(t)
    PROVE  /\ RoutesStore!Poured(ListOf(t), RoutesStore!GUIDOf, RoutesStore!Itself) = t
           /\ LET x == RoutesStore!Poured(ListOf(t), RoutesStore!HostOf, RoutesStore!GUIDOf)
              IN  /\ DOMAIN x = {t[g].Host : g \in DOMAIN t}
                  /\ \A h \in DOMAIN x : x[h] \in DOMAIN t /\ t[x[h]].Host = h
<1> DEFINE list == ListOf(t)
<1>1. PICK n \in Nat :
          /\ list \in [1 .. n -> {t[k] : k \in DOMAIN t}] /\ DOMAIN list = 1 .. n
          /\ \A i \in 1 .. n : \E k \in DOMAIN t : list[i] = t[k]
          /\ \A k \in DOMAIN t : \E i \in 1 .. n : list[i] = t[k]
          /\ \A i, j \in 1 .. n : list[i] = list[j] => i = j
  <2>1. IsFiniteSet(DOMAIN t)
    BY DEF RoutesTable, IsTable
  <2> QED
    BY <2>1, ListOfTable
<1> HIDE DEF list
<1>2. ASSUME NEW k, \E i \in 1 .. n : list[i].GUID = k
      PROVE  LET j == RoutesStore!LastWith(list, RoutesStore!GUIDOf, k)
             IN  j \in 1 .. n /\ list[j].GUID = k
  <2> DEFINE T == {i \in 1 .. n : list[i].GUID = k}
  <2>1. PICK j \in T : \A x \in T : x <= j
    <3>1. T \in SUBSET (1 .. n) /\ T # {}
      BY <1>2
    <3> HIDE DEF T
    <3> QED
      BY <1>1, <3>1, LastPosition
  <2>2. /\ j \in DOMAIN list /\ RoutesStore!GUIDOf(list[j]) = k
        /\ \A x \in DOMAIN list : RoutesStore!GUIDOf(list[x]) = k => x <= j
    BY <1>1, <2>1 DEF RoutesStore!GUIDOf
  <2> QED
    BY <1>1, <2>2 DEF RoutesStore!LastWith, RoutesStore!GUIDOf
<1>3. \A i \in 1 .. n : list[i].GUID \in DOMAIN t /\ list[i] = t[list[i].GUID]
  BY <1>1 DEF RoutesTable
<1>4. RoutesStore!Poured(list, RoutesStore!GUIDOf, RoutesStore!Itself) = t
  <2>1. {RoutesStore!GUIDOf(list[i]) : i \in DOMAIN list} = DOMAIN t
    <3>1. \A i \in 1 .. n : RoutesStore!GUIDOf(list[i]) \in DOMAIN t
      BY <1>3 DEF RoutesStore!GUIDOf
    <3>2. \A k \in DOMAIN t : \E i \in 1 .. n : k = RoutesStore!GUIDOf(list[i])
      BY <1>1 DEF RoutesTable, RoutesStore!GUIDOf
    <3>3. DOMAIN list = 1 .. n
      BY <1>1
    <3> QED
      BY <3>1, <3>2, <3>3
  <2>2. ASSUME NEW k \in DOMAIN t
        PROVE  RoutesStore!Itself(list[RoutesStore!LastWith(list, RoutesStore!GUIDOf, k)]) = t[k]
    <3>1. \E i \in 1 .. n : list[i].GUID = k
      BY <1>1 DEF RoutesTable
    <3> QED
      BY <3>1, <1>2, <1>3 DEF RoutesStore!Itself
  <2>3. t = [k \in DOMAIN t |-> t[k]]
    BY DEF RoutesTable, IsTable
  <2> QED
    BY <2>1, <2>2, <2>3 DEF RoutesStore!Poured
<1>5. ASSUME NEW k, \E i \in 1 .. n : list[i].Host = k
      PROVE  LET j == RoutesStore!LastWith(list, RoutesStore!HostOf, k)
             IN  j \in 1 .. n /\ list[j].Host = k
  <2> DEFINE T == {i \in 1 .. n : list[i].Host = k}
  <2>1. PICK j \in T : \A x \in T : x <= j
    <3>1. T \in SUBSET (1 .. n) /\ T # {}
      BY <1>5
    <3> HIDE DEF T
    <3> QED
      BY <1>1, <3>1, LastPosition
  <2>2. /\ j \in DOMAIN list /\ RoutesStore!HostOf(list[j]) = k
        /\ \A x \in DOMAIN list : RoutesStore!HostOf(list[x]) = k => x <= j
    BY <1>1, <2>1 DEF RoutesStore!HostOf
  <2> QED
    BY <1>1, <2>2 DEF RoutesStore!LastWith, RoutesStore!HostOf
<1> DEFINE x == RoutesStore!Poured(list, RoutesStore!HostOf, RoutesStore!GUIDOf)
<1>6. DOMAIN x = {list[i].Host : i \in 1 .. n}
  BY <1>1 DEF RoutesStore!Poured, RoutesStore!HostOf
<1>7. DOMAIN x = {t[g].Host : g \in DOMAIN t}
  <2> HIDE DEF x
  <2>1. \A i \in 1 .. n : \E g \in DOMAIN t : list[i].Host = t[g].Host
    BY <1>3
  <2>2. \A g \in DOMAIN t : \E i \in 1 .. n : t[g].Host = list[i].Host
    BY <1>1
  <2> QED
    BY <1>6, <2>1, <2>2
<1>8. ASSUME NEW h \in DOMAIN x
      PROVE  x[h] \in DOMAIN t /\ t[x[h]].Host = h
  <2> DEFINE j == RoutesStore!LastWith(list, RoutesStore!HostOf, h)
  <2>1. x[h] = list[j].GUID
    BY DEF RoutesStore!Poured, RoutesStore!GUIDOf
  <2>2. \E i \in 1 .. n : list[i].Host = h
    <3> HIDE DEF x
    <3> QED
      BY <1>6
  <2>3. j \in 1 .. n /\ list[j].Host = h
    BY <1>5, <2>2
  <2> HIDE DEF j, x
  <2> QED
    BY <1>3, <2>1, <2>3
<1> QED
  BY <1>4, <1>7, <1>8 DEF list

-----------------------------------------------------------------------------
(***************************************************************************)
(* The sums.                                                               *)
(***************************************************************************)
\* The sums of the repository are the library's.
LEMMA SameSums ==
    ASSUME NEW f
    PROVE  MappingsStore!SumFunction(f) = SumFunctionOnSet(f, DOMAIN f)
BY DEF MappingsStore!SumFunction, MappingsStore!SumFunctionOnSet, MappingsStore!FoldFunctionOnSet,
       MappingsStore!MapThenFoldSet, SumFunctionOnSet, FoldFunctionOnSet, MapThenFoldSet

\* DenominatorExact, in the next state, in terms of WeightIn.
LEMMA ExactSums ==
    (MappingsStore!DenominatorExact)'
    <=> \A r \in RouteGuids : weightDenominator'[r] = WeightIn(mappings', r) % Word
BY SameSums DEF MappingsStore!DenominatorExact, MappingsStore!MappedTo, WeightIn, MappedIn, RouteGuids

\* The weights that a bulk sync adds up position by position are those of the
\* mappings it leaves in the repository: the list has no doubles.
LEMMA SyncSums ==
    ASSUME NEW t, MappingsTable(t), NEW r
    PROVE  /\ MappingsStore!SumFunction(MappingsStore!WeightsFor(r, ListOf(t))) = WeightIn(t, r)
           /\ WeightIn(t, r) \in Nat
<1> DEFINE list == ListOf(t)
<1>1. PICK n \in Nat :
          /\ list \in [1 .. n -> {t[k] : k \in DOMAIN t}] /\ DOMAIN list = 1 .. n
          /\ \A i \in 1 .. n : \E k \in DOMAIN t : list[i] = t[k]
          /\ \A k \in DOMAIN t : \E i \in 1 .. n : list[i] = t[k]
          /\ \A i, j \in 1 .. n : list[i] = list[j] => i = j
  <2>1. IsFiniteSet(DOMAIN t)
    BY DEF MappingsTable, IsTable
  <2> QED
    BY <2>1, ListOfTable
<1> HIDE DEF list
<1> DEFINE S == {i \in 1 .. n : list[i].RouteGUID = r}
           f == MappingsStore!WeightsFor(r, list)
           g == [m \in MappedIn(t, r) |-> m.RouteWeight]
<1>2. f = [i \in S |-> list[i].RouteWeight]
  BY <1>1 DEF MappingsStore!WeightsFor
<1>3. \A i \in 1 .. n : list[i] \in RouteMappings
  BY <1>1 DEF MappingsTable, IsTable
<1>4. IsFiniteSet(S)
  <2>1. IsFiniteSet(1 .. n)
    BY FS_Interval
  <2> QED
    BY <2>1, FS_Subset
<1>5. \A i \in S : f[i] \in Nat
  BY <1>2, <1>3, MappingsAssumption
<1>6. {list[i] : i \in S} = MappedIn(t, r)
  <2>1. \A k \in DOMAIN t : k[1] = t[k].RouteGUID
    BY DEF MappingsTable, Key
  <2>2. ASSUME NEW i \in S PROVE list[i] \in MappedIn(t, r)
    BY <1>1, <2>1 DEF MappedIn
  <2>3. ASSUME NEW m \in MappedIn(t, r) PROVE \E i \in S : m = list[i]
    BY <1>1, <2>1 DEF MappedIn
  <2> QED
    BY <2>2, <2>3
<1>7. \A i \in S : g[list[i]] = f[i]
  BY <1>2, <1>6
<1>8. SumFunctionOnSet(g, {list[i] : i \in S}) = SumFunctionOnSet(f, S)
  <2>1. \A i, j \in S : list[i] = list[j] => i = j
    BY <1>1
  <2> HIDE DEF f, g, S
  <2> QED
    BY <1>4, <1>5, <1>7, <2>1, SumRenamed
<1>9. SumFunctionOnSet(f, S) \in Nat
  <2> HIDE DEF f, S
  <2> QED
    BY <1>4, <1>5, SumType
<1>10. MappingsStore!SumFunction(f) = SumFunctionOnSet(f, S)
  <2>1. DOMAIN f = S
    BY <1>2
  <2> HIDE DEF f, S
  <2> QED
    BY <2>1, SameSums
<1> QED
  BY <1>6, <1>8, <1>9, <1>10 DEF WeightIn, list
-----------------------------------------------------------------------------
(***************************************************************************)
(* Single writes.                                                          *)
(***************************************************************************)
\* Writing or deleting one record keeps a table a table.
LEMMA PutTable ==
    ASSUME NEW t
    PROVE  /\ RoutesTable(t) => \A r \in Routes : RoutesTable(Put(t, r.GUID, r))
           /\ MappingsTable(t) => \A m \in RouteMappings : MappingsTable(Put(t, Key(m), m))
           /\ AssociationsTable(t) => \A a \in Associations : AssociationsTable(Put(t, a.CAPIProcessGUID, a))
<1>1. ASSUME NEW V, IsTable(t, V), NEW k, NEW v \in V PROVE IsTable(Put(t, k, v), V)
  <2>1. IsFiniteSet(DOMAIN t \cup {k})
    BY <1>1, FS_AddElement DEF IsTable
  <2>2. DOMAIN Put(t, k, v) = DOMAIN t \cup {k}
    BY DEF Put
  <2>3. \A x \in DOMAIN Put(t, k, v) : Put(t, k, v)[x] \in V
    BY <1>1 DEF Put, IsTable
  <2>4. Put(t, k, v) = [x \in DOMAIN Put(t, k, v) |-> Put(t, k, v)[x]]
    BY DEF Put
  <2> QED
    BY <2>1, <2>2, <2>3, <2>4 DEF IsTable
<1>2. ASSUME RoutesTable(t), NEW r \in Routes PROVE RoutesTable(Put(t, r.GUID, r))
  <2>1. IsTable(Put(t, r.GUID, r), Routes)
    BY <1>1, <1>2 DEF RoutesTable
  <2> QED
    BY <1>2, <2>1 DEF RoutesTable, Put
<1>3. ASSUME MappingsTable(t), NEW m \in RouteMappings PROVE MappingsTable(Put(t, Key(m), m))
  <2>1. IsTable(Put(t, Key(m), m), RouteMappings)
    BY <1>1, <1>3 DEF MappingsTable
  <2>2. \A k \in DOMAIN Put(t, Key(m), m) : Key(Put(t, Key(m), m)[k]) = k
    BY <1>3 DEF MappingsTable, Put
  <2> QED
    BY <2>1, <2>2 DEF MappingsTable
<1>4. ASSUME AssociationsTable(t), NEW a \in Associations PROVE AssociationsTable(Put(t, a.CAPIProcessGUID, a))
  <2>1. IsTable(Put(t, a.CAPIProcessGUID, a), Associations)
    BY <1>1, <1>4 DEF AssociationsTable
  <2> QED
    BY <1>4, <2>1 DEF AssociationsTable, Put
<1> QED
  BY <1>2, <1>3, <1>4

\* Deleting one record keeps a table a table.
LEMMA DropTable ==
    ASSUME NEW t, NEW k
    PROVE  /\ RoutesTable(t) => RoutesTable(Drop(t, k))
           /\ MappingsTable(t) => MappingsTable(Drop(t, k))
           /\ AssociationsTable(t) => AssociationsTable(Drop(t, k))
<1>1. ASSUME NEW V, IsTable(t, V) PROVE IsTable(Drop(t, k), V)
  <2>1. IsFiniteSet(DOMAIN t \ {k})
    BY <1>1, FS_Subset DEF IsTable
  <2> QED
    BY <1>1, <2>1 DEF IsTable, Drop
<1>2. \A x \in DOMAIN Drop(t, k) : x \in DOMAIN t /\ Drop(t, k)[x] = t[x]
  BY DEF Drop
<1> QED
  BY <1>1, <1>2 DEF RoutesTable, MappingsTable, AssociationsTable

\* make(map...) is a table of each kind.
LEMMA EmptyTable ==
    RoutesTable(EmptyMap) /\ MappingsTable(EmptyMap) /\ AssociationsTable(EmptyMap)
<1>1. IsFiniteSet({})
  BY FS_EmptySet
<1>2. DOMAIN EmptyMap = {} /\ EmptyMap = [k \in DOMAIN EmptyMap |-> EmptyMap[k]]
  BY DEF EmptyMap
<1> QED
  BY <1>1, <1>2 DEF RoutesTable, MappingsTable, AssociationsTable, IsTable

\* The stores write with the same maps.
LEMMA SameMaps ==
    ASSUME NEW m, NEW k, NEW v
    PROVE  /\ RoutesStore!Put(m, k, v) = Put(m, k, v) /\ RoutesStore!Drop(m, k) = Drop(m, k)
           /\ MappingsStore!Put(m, k, v) = Put(m, k, v) /\ MappingsStore!Drop(m, k) = Drop(m, k)
           /\ AssociationsStore!Put(m, k, v) = Put(m, k, v) /\ AssociationsStore!Drop(m, k) = Drop(m, k)
BY DEF RoutesStore!Put, RoutesStore!Drop, MappingsStore!Put, MappingsStore!Drop,
       AssociationsStore!Put, AssociationsStore!Drop, Put, Drop
-----------------------------------------------------------------------------
(***************************************************************************)
(* The parts of the state, one at a time.                                  *)
(***************************************************************************)
LEMMA AddOne ==
    ASSUME NEW S, IsFiniteSet(S), NEW x
    PROVE  IsFiniteSet(S \cup {x}) /\ Cardinality(S \cup {x}) <= Cardinality(S) + 1
<1>1. Cardinality(S) \in Nat
  BY FS_CardinalityType
<1> QED
  BY <1>1, FS_AddElement

\* Sending a call.
LEMMA AnnounceCalls ==
    ASSUME CallsRight, NEW op \in Ops, NEW arg \in ArgOf(op), Announce(op, arg)
    PROVE  CallsRight'
<1>1. IsCall(Call(op, arg))
  BY DEF IsCall, Call
<1>2. IsFiniteSet(calls') /\ Cardinality(calls') <= Cardinality(calls) + 1
  <2>1. calls' = calls \cup {Call(op, arg)} /\ IsFiniteSet(calls)
    BY DEF CallsRight, Announce
  <2> QED
    BY <2>1, AddOne
<1>3. Cardinality(calls) < MaxCalls /\ Cardinality(calls) \in Nat /\ Cardinality(calls') \in Nat
  BY <1>2, FS_CardinalityType DEF CallsRight, Announce
<1>4. Cardinality(calls') <= MaxCalls
  BY <1>2, <1>3, BoundsAssumption
<1>5. \A c \in calls' : IsCall(c)
  BY <1>1 DEF CallsRight, Announce
<1> QED
  BY <1>2, <1>4, <1>5 DEF CallsRight

\* A call that is answered or given up leaves the network, or is sent again.
LEMMA AnsweredCalls ==
    ASSUME CallsRight, NEW c \in calls, Answered(c) \/ calls' = calls \ {c}
    PROVE  CallsRight'
<1>1. /\ IsFiniteSet(calls \ {c}) /\ Cardinality(calls \ {c}) = Cardinality(calls) - 1
      /\ Cardinality(calls) \in Nat
  BY FS_RemoveElement, FS_CardinalityType DEF CallsRight
<1>2. CASE calls' = calls \ {c}
  BY <1>1, <1>2, BoundsAssumption DEF CallsRight
<1>3. CASE calls' = (calls \ {c}) \cup {[c EXCEPT !.retries = @ + 1]}
  <2> DEFINE d == [c EXCEPT !.retries = @ + 1]
  <2>1. IsCall(c)
    BY DEF CallsRight
  <2>2. IsCall(d)
    <3>1. d.op = c.op /\ d.arg = c.arg /\ d = [op |-> c.op, arg |-> c.arg, retries |-> c.retries + 1]
      BY <2>1 DEF IsCall
    <3> HIDE DEF d
    <3> QED
      BY <2>1, <3>1 DEF IsCall
  <2> HIDE DEF d
  <2>3. IsFiniteSet(calls') /\ Cardinality(calls') <= Cardinality(calls \ {c}) + 1 /\ Cardinality(calls') \in Nat
    <3>1. calls' = (calls \ {c}) \cup {d}
      BY <1>3 DEF d
    <3> QED
      BY <1>1, <3>1, AddOne, FS_CardinalityType
  <2>4. Cardinality(calls') <= MaxCalls
    BY <1>1, <2>3, BoundsAssumption DEF CallsRight
  <2>5. \A x \in calls' : IsCall(x)
    BY <1>3, <2>2 DEF CallsRight, d
  <2> QED
    BY <2>3, <2>4, <2>5 DEF CallsRight
<1> QED
  BY <1>2, <1>3 DEF Answered

\* A stream whose sync is disturbed is still a stream.
LEMMA DisturbedStream ==
    ASSUME NEW b, IsStream(b)
    PROVE  LET d == [b EXCEPT !.disturbed = TRUE] IN IsStream(d) /\ d.disturbed
<1> DEFINE d == [b EXCEPT !.disturbed = TRUE]
<1>1. DOMAIN b = {"pc", "request", "disturbed"}
  BY DEF IsStream
<1>2. d.pc = b.pc /\ d.request = b.request
  BY <1>1
<1>6. d.disturbed = TRUE
  BY <1>1, Zenon
<1>3. d.disturbed \in BOOLEAN /\ d.disturbed
  BY <1>6, Zenon
<1>4. d = [pc |-> d.pc, request |-> d.request, disturbed |-> d.disturbed]
  <2>1. DOMAIN d = {"pc", "request", "disturbed"} /\ d = [x \in DOMAIN d |-> d[x]]
    BY <1>1
  <2> HIDE DEF d
  <2> QED
    BY <2>1
<1> HIDE DEF d
<1>5. IsStream(d)
  BY <1>2, <1>3, <1>4 DEF IsStream
<1> QED
  BY <1>3, <1>5 DEF d

\* One step of a bulk sync disturbs the others.
LEMMA StepStreams ==
    ASSUME StreamsRight, NEW s \in Streams, NEW next, IsStream(next), Step(s, next)
    PROVE  StreamsRight' /\ bulk'[s] = next /\ \A t \in Streams : t # s => bulk'[t].disturbed
<1>1. \A t \in Streams : bulk'[t] = IF t = s THEN next ELSE [bulk[t] EXCEPT !.disturbed = TRUE]
  BY DEF Step
<1>2. ASSUME NEW t \in Streams, t # s PROVE IsStream(bulk'[t]) /\ bulk'[t].disturbed
  <2>1. IsStream(bulk[t]) /\ bulk'[t] = [bulk[t] EXCEPT !.disturbed = TRUE]
    BY <1>1, <1>2 DEF StreamsRight
  <2> QED
    BY <2>1, DisturbedStream, Zenon
<1>3. bulk' = [t \in Streams |-> bulk'[t]]
  BY DEF Step
<1>4. \A t \in Streams : IsStream(bulk'[t])
  BY <1>1, <1>2
<1> QED
  BY <1>1, <1>2, <1>3, <1>4 DEF StreamsRight

\* A unary handler disturbs every bulk sync in progress.
LEMMA DisturbStreams ==
    ASSUME StreamsRight, Disturb(Streams)
    PROVE  StreamsRight' /\ \A t \in Streams : bulk'[t].disturbed
<1>1. \A t \in Streams : bulk'[t] = [bulk[t] EXCEPT !.disturbed = TRUE]
  BY DEF Disturb
<1>2. ASSUME NEW t \in Streams PROVE IsStream(bulk'[t]) /\ bulk'[t].disturbed
  <2>1. IsStream(bulk[t]) /\ bulk'[t] = [bulk[t] EXCEPT !.disturbed = TRUE]
    BY <1>1 DEF StreamsRight
  <2> QED
    BY <2>1, DisturbedStream, Zenon
<1>3. bulk' = [t \in Streams |-> bulk'[t]]
  BY DEF Disturb
<1> QED
  BY <1>2, <1>3 DEF StreamsRight

\* A stream that waits holds an empty database.
LEMMA IdleIsStream == Database(NoRequest) /\ IsStream(IdleStream)
<1>1. Database(NoRequest)
  BY EmptyTable DEF Database, NoRequest
<1>2. /\ IdleStream.pc = "idle" /\ IdleStream.request = NoRequest
      /\ IdleStream = [pc |-> IdleStream.pc, request |-> IdleStream.request, disturbed |-> IdleStream.disturbed]
  BY DEF IdleStream
<1>3. IdleStream.disturbed \in BOOLEAN
  BY Zenon DEF IdleStream
<1> QED
  BY <1>1, <1>2, <1>3 DEF IsStream
-----------------------------------------------------------------------------
(***************************************************************************)
(* The actions.                                                            *)
(***************************************************************************)
LEMMA InitInv == Init => Inv
<1> SUFFICES ASSUME Init PROVE Inv
  OBVIOUS
<1>1. Database(db)
  BY IdleIsStream DEF Init
<1>2. CallsRight
  BY FS_EmptySet, BoundsAssumption DEF Init, CallsRight
<1>3. Repos
  <2>1. weightDenominator \in [RouteGuids -> 0 .. Word - 1]
    BY BoundsAssumption DEF Init, EmptyRepos, RouteGuids
  <2> QED
    BY <2>1, EmptyTable DEF Init, EmptyRepos, Repos
<1>4. StreamsRight /\ \A s \in Streams : bulk[s].pc = "idle"
  <2>1. bulk = [s \in Streams |-> IdleStream]
    BY DEF Init
  <2>2. \A s \in Streams : bulk[s] = IdleStream
    BY <2>1
  <2>3. IdleStream.pc = "idle"
    BY DEF IdleStream
  <2> QED
    BY <2>1, <2>2, <2>3, IdleIsStream DEF StreamsRight
<1> QED
  BY <1>1, <1>2, <1>3, <1>4 DEF Inv, Installed

\* Changing one table of a database.
LEMMA ChangedDatabase ==
    ASSUME NEW d, Database(d), NEW t
    PROVE  /\ RoutesTable(t) => Database([d EXCEPT !["routes"] = t])
           /\ MappingsTable(t) => Database([d EXCEPT !["mappings"] = t])
           /\ AssociationsTable(t) => Database([d EXCEPT !["associations"] = t])
<1>1. DOMAIN d = {"routes", "mappings", "associations"}
  BY DEF Database
<1>2. RoutesTable(t) => Database([d EXCEPT !["routes"] = t])
  <2> DEFINE e == [d EXCEPT !["routes"] = t]
  <2>1. e.routes = t /\ e.mappings = d.mappings /\ e.associations = d.associations
    BY <1>1
  <2>2. e = [routes |-> e.routes, mappings |-> e.mappings, associations |-> e.associations]
    <3>1. DOMAIN e = {"routes", "mappings", "associations"} /\ e = [x \in DOMAIN e |-> e[x]]
      BY <1>1
    <3> HIDE DEF e
    <3> QED
      BY <3>1
  <2> HIDE DEF e
  <2>3. RoutesTable(t) => Database(e)
    BY <2>1, <2>2 DEF Database
  <2> QED
    BY <2>3 DEF e
<1>3. MappingsTable(t) => Database([d EXCEPT !["mappings"] = t])
  <2> DEFINE e == [d EXCEPT !["mappings"] = t]
  <2>1. e.mappings = t /\ e.routes = d.routes /\ e.associations = d.associations
    BY <1>1
  <2>2. e = [routes |-> e.routes, mappings |-> e.mappings, associations |-> e.associations]
    <3>1. DOMAIN e = {"routes", "mappings", "associations"} /\ e = [x \in DOMAIN e |-> e[x]]
      BY <1>1
    <3> HIDE DEF e
    <3> QED
      BY <3>1
  <2> HIDE DEF e
  <2>3. MappingsTable(t) => Database(e)
    BY <2>1, <2>2 DEF Database
  <2> QED
    BY <2>3 DEF e
<1>4. AssociationsTable(t) => Database([d EXCEPT !["associations"] = t])
  <2> DEFINE e == [d EXCEPT !["associations"] = t]
  <2>1. e.associations = t /\ e.routes = d.routes /\ e.mappings = d.mappings
    BY <1>1
  <2>2. e = [routes |-> e.routes, mappings |-> e.mappings, associations |-> e.associations]
    <3>1. DOMAIN e = {"routes", "mappings", "associations"} /\ e = [x \in DOMAIN e |-> e[x]]
      BY <1>1
    <3> HIDE DEF e
    <3> QED
      BY <3>1
  <2> HIDE DEF e
  <2>3. AssociationsTable(t) => Database(e)
    BY <2>1, <2>2 DEF Database
  <2> QED
    BY <2>3 DEF e
<1> QED
  BY <1>2, <1>3, <1>4

\* A step that leaves the repositories and the streams alone.
LEMMA QuietInv ==
    ASSUME Inv, Database(db)', CallsRight', UNCHANGED <<bulk, repoVars>>
    PROVE  Inv'
<1> USE DEF repoVars, routesVars, mappingsVars
<1>1. Repos' /\ StreamsRight'
  BY DEF Inv, Repos, StreamsRight
<1>2. (MappingsStore!DenominatorExact)' <=> MappingsStore!DenominatorExact
  BY DEF MappingsStore!DenominatorExact, MappingsStore!MappedTo
<1>3. IndexRight' <=> IndexRight
  BY DEF IndexRight
<1>4. \A s \in Streams : Installed(s)'
  BY <1>2, <1>3 DEF Inv, Installed, MappingsInstalled, RoutesInstalled
<1> QED
  BY <1>1, <1>4 DEF Inv

\* Cloud Controller changes a record and sends the call.
LEMMA CloudControllerInv ==
    ASSUME Inv, CloudController
    PROVE  Inv'
<1>1. Database(db) /\ CallsRight
  BY DEF Inv
<1>2. ASSUME NEW op \in Ops, NEW arg \in ArgOf(op), Announce(op, arg), Database(db')
      PROVE  Inv'
  <2>1. CallsRight'
    BY <1>1, <1>2, AnnounceCalls
  <2>2. UNCHANGED <<bulk, repoVars>>
    BY <1>2 DEF Announce
  <2> QED
    BY <1>2, <2>1, <2>2, QuietInv
<1>3. ASSUME NEW r \in Routes, Save("routes", r.GUID, r, "UpsertRoute") PROVE Inv'
  <2>1. Database(db')
    BY <1>1, <1>3, PutTable, ChangedDatabase DEF Save, Database
  <2> QED
    BY <1>2, <1>3, <2>1 DEF Save, Ops, ArgOf
<1>4. ASSUME NEW r \in Routes, Destroy("routes", r.GUID, "DeleteRoute") PROVE Inv'
  <2>1. Database(db')
    BY <1>1, <1>4, DropTable, ChangedDatabase DEF Destroy, Database
  <2>2. db["routes"][r.GUID] \in Routes
    BY <1>1, <1>4 DEF Destroy, Database, RoutesTable, IsTable
  <2> QED
    BY <1>2, <1>4, <2>1, <2>2 DEF Destroy, Ops, ArgOf
<1>5. ASSUME NEW m \in RouteMappings, Save("mappings", MappingsStore!Key(m), m, "MapRoute") PROVE Inv'
  <2>1. Database(db')
    BY <1>1, <1>5, PutTable, ChangedDatabase DEF Save, Database, MappingsStore!Key, Key
  <2> QED
    BY <1>2, <1>5, <2>1 DEF Save, Ops, ArgOf
<1>6. ASSUME NEW m \in RouteMappings, Destroy("mappings", MappingsStore!Key(m), "UnmapRoute") PROVE Inv'
  <2>1. Database(db')
    BY <1>1, <1>6, DropTable, ChangedDatabase DEF Destroy, Database
  <2>2. db["mappings"][MappingsStore!Key(m)] \in RouteMappings
    BY <1>1, <1>6 DEF Destroy, Database, MappingsTable, IsTable
  <2> QED
    BY <1>2, <1>6, <2>1, <2>2 DEF Destroy, Ops, ArgOf
<1>7. ASSUME NEW a \in Associations, Save("associations", a.CAPIProcessGUID, a, "UpsertAssociation") PROVE Inv'
  <2>1. Database(db')
    BY <1>1, <1>7, PutTable, ChangedDatabase DEF Save, Database
  <2> QED
    BY <1>2, <1>7, <2>1 DEF Save, Ops, ArgOf
<1>8. ASSUME NEW a \in Associations, Destroy("associations", a.CAPIProcessGUID, "DeleteAssociation") PROVE Inv'
  <2>1. Database(db')
    BY <1>1, <1>8, DropTable, ChangedDatabase DEF Destroy, Database
  <2>2. db["associations"][a.CAPIProcessGUID] \in Associations
    BY <1>1, <1>8 DEF Destroy, Database, AssociationsTable, IsTable
  <2> QED
    BY <1>2, <1>8, <2>1, <2>2 DEF Destroy, Ops, ArgOf
<1> QED
  BY <1>3, <1>4, <1>5, <1>6, <1>7, <1>8 DEF CloudController
\* A running sum stays within the word, whatever is added or subtracted.
LEMMA SumsInWord ==
    ASSUME NEW w \in [RouteGuids -> 0 .. Word - 1], NEW r, NEW x \in Int
    PROVE  [w EXCEPT ![r] = x % Word] \in [RouteGuids -> 0 .. Word - 1]
<1>1. (x % Word) \in 0 .. Word - 1
  BY BoundsAssumption
<1> HIDE DEF RouteGuids
<1> QED
  BY <1>1

\* A handler writes to one repository.
LEMMA HandleRepos ==
    ASSUME Repos, NEW c, IsCall(c), Handle(c)
    PROVE  Repos'
<1>1. CASE UpsertRoute(c)
  <2>1. c.arg \in Routes
    BY <1>1 DEF UpsertRoute, IsCall, ArgOf
  <2>2. routes' = Put(routes, c.arg.GUID, c.arg)
    BY <1>1, SameMaps DEF UpsertRoute, RoutesStore!Upsert
  <2>3. UNCHANGED <<mappings, weightDenominator, associations>>
    BY <1>1 DEF UpsertRoute, mappingsVars
  <2> QED
    BY <2>1, <2>2, <2>3, PutTable DEF Repos
<1>2. CASE DeleteRoute(c)
  <2>1. routes' = Drop(routes, c.arg.GUID)
    BY <1>2, SameMaps DEF DeleteRoute, RoutesStore!Delete
  <2>2. UNCHANGED <<mappings, weightDenominator, associations>>
    BY <1>2 DEF DeleteRoute, mappingsVars
  <2> QED
    BY <2>1, <2>2, DropTable DEF Repos
<1>3. CASE MapRoute(c)
  <2>1. c.arg \in RouteMappings
    BY <1>3 DEF MapRoute, IsCall, ArgOf
  <2>2. mappings' = Put(mappings, Key(c.arg), c.arg)
    BY <1>3, SameMaps DEF MapRoute, MappingsStore!Map, MappingsStore!Key, Key
  <2>3. /\ weightDenominator' = [weightDenominator EXCEPT ![c.arg.RouteGUID] =
                                     (weightDenominator[c.arg.RouteGUID] + c.arg.RouteWeight) % Word]
        /\ c.arg.RouteGUID \in RouteGuids /\ c.arg.RouteWeight \in Nat
    BY <1>3, <2>1, MappingsAssumption DEF MapRoute, MappingsStore!Map, RouteGuids
  <2>4. weightDenominator' \in [RouteGuids -> 0 .. Word - 1]
    <3>1. weightDenominator[c.arg.RouteGUID] + c.arg.RouteWeight \in Int
      BY <2>3, BoundsAssumption DEF Repos
    <3> QED
      BY <2>3, <3>1, SumsInWord DEF Repos
  <2>5. UNCHANGED <<routes, associations>>
    BY <1>3 DEF MapRoute, routesVars
  <2> QED
    BY <2>1, <2>2, <2>4, <2>5, PutTable DEF Repos
<1>4. CASE UnmapRoute(c)
  <2>1. c.arg \in RouteMappings
    BY <1>4 DEF UnmapRoute, IsCall, ArgOf
  <2>2. mappings' = Drop(mappings, Key(c.arg))
    BY <1>4, SameMaps DEF UnmapRoute, MappingsStore!Unmap, MappingsStore!Key, Key
  <2>3. /\ weightDenominator' = [weightDenominator EXCEPT ![c.arg.RouteGUID] =
                                     (weightDenominator[c.arg.RouteGUID] - c.arg.RouteWeight) % Word]
        /\ c.arg.RouteGUID \in RouteGuids /\ c.arg.RouteWeight \in Nat
    BY <1>4, <2>1, MappingsAssumption DEF UnmapRoute, MappingsStore!Unmap, RouteGuids
  <2>4. weightDenominator' \in [RouteGuids -> 0 .. Word - 1]
    <3>1. weightDenominator[c.arg.RouteGUID] - c.arg.RouteWeight \in Int
      BY <2>3, BoundsAssumption DEF Repos
    <3> QED
      BY <2>3, <3>1, SumsInWord DEF Repos
  <2>5. UNCHANGED <<routes, associations>>
    BY <1>4 DEF UnmapRoute, routesVars
  <2> QED
    BY <2>2, <2>4, <2>5, DropTable DEF Repos
<1>5. CASE UpsertCapiDiegoProcessAssociation(c)
  <2>1. c.arg \in Associations
    BY <1>5 DEF UpsertCapiDiegoProcessAssociation, IsCall, ArgOf
  <2>2. associations' = Put(associations, c.arg.CAPIProcessGUID, c.arg)
    BY <1>5, SameMaps DEF UpsertCapiDiegoProcessAssociation, AssociationsStore!Upsert
  <2>3. UNCHANGED <<routes, mappings, weightDenominator>>
    BY <1>5 DEF UpsertCapiDiegoProcessAssociation, routesVars, mappingsVars
  <2> QED
    BY <2>1, <2>2, <2>3, PutTable DEF Repos
<1>6. CASE DeleteCapiDiegoProcessAssociation(c)
  <2>1. associations' = Drop(associations, c.arg.CAPIProcessGUID)
    BY <1>6, SameMaps DEF DeleteCapiDiegoProcessAssociation, AssociationsStore!Delete
  <2>2. UNCHANGED <<routes, mappings, weightDenominator>>
    BY <1>6 DEF DeleteCapiDiegoProcessAssociation, routesVars, mappingsVars
  <2> QED
    BY <2>1, <2>2, DropTable DEF Repos
<1> QED
  BY <1>1, <1>2, <1>3, <1>4, <1>5, <1>6 DEF Handle

\* A call that is handled disturbs every bulk sync in progress; one that is
\* lost or rejected changes nothing else.
LEMMA CallInv ==
    ASSUME Inv, NEW c \in calls, Handle(c) \/ Fail(c)
    PROVE  Inv'
<1>1. CASE Handle(c)
  <2>1. IsCall(c)
    BY DEF Inv, CallsRight
  <2>2. Repos'
    BY <1>1, <2>1, HandleRepos DEF Inv
  <2>3. CallsRight'
    BY <1>1, AnsweredCalls DEF Inv, Handle
  <2>4. StreamsRight' /\ \A t \in Streams : bulk'[t].disturbed
    BY <1>1, DisturbStreams DEF Inv, Handle
  <2>5. \A t \in Streams : Installed(t)'
    BY <2>4 DEF Installed
  <2>6. Database(db)'
    BY <1>1 DEF Inv, Handle
  <2> QED
    BY <2>2, <2>3, <2>4, <2>5, <2>6 DEF Inv
<1>2. CASE Fail(c)
  <2>1. CallsRight'
    BY <1>2, AnsweredCalls DEF Inv, Fail
  <2>2. Database(db)' /\ UNCHANGED <<bulk, repoVars>>
    BY <1>2 DEF Inv, Fail
  <2> QED
    BY <2>1, <2>2, QuietInv
<1> QED
  BY <1>1, <1>2
\* A bulk sync begins or fails: nothing is installed yet, or any more.
LEMMA StartInv ==
    ASSUME Inv, NEW s \in Streams, BulkSyncStart(s) \/ BulkSyncError(s)
    PROVE  Inv'
<1> DEFINE fresh == [pc |-> "recv", request |-> db, disturbed |-> FALSE]
<1>1. PICK b : b \in {fresh, IdleStream} /\ bulk' = [bulk EXCEPT ![s] = b]
  BY DEF BulkSyncStart, BulkSyncError
<1>2. UNCHANGED <<db, calls, repoVars>>
  BY DEF BulkSyncStart, BulkSyncError
<1>3. IsStream(b) /\ b.pc \in {"idle", "recv"}
  <2>1. CASE b = fresh
    <3>1. fresh.pc = "recv" /\ fresh.request = db
      OBVIOUS
    <3>2. fresh = [pc |-> fresh.pc, request |-> fresh.request, disturbed |-> fresh.disturbed]
      OBVIOUS
    <3>3. fresh.disturbed \in BOOLEAN
      BY Zenon
    <3> HIDE DEF fresh
    <3> QED
      BY <2>1, <3>1, <3>2, <3>3 DEF Inv, IsStream
  <2>2. CASE b = IdleStream
    <3>1. IdleStream.pc = "idle"
      BY DEF IdleStream
    <3> QED
      BY <2>2, <3>1, IdleIsStream
  <2> QED
    BY <1>1, <2>1, <2>2
<1> HIDE DEF fresh
<1>4. bulk'[s] = b /\ \A t \in Streams : t # s => bulk'[t] = bulk[t]
  BY <1>1 DEF Inv, StreamsRight
<1>5. StreamsRight'
  <2>1. bulk' = [t \in Streams |-> bulk'[t]]
    BY <1>1 DEF Inv, StreamsRight
  <2>2. \A t \in Streams : IsStream(bulk'[t])
    BY <1>3, <1>4 DEF Inv, StreamsRight
  <2> QED
    BY <2>1, <2>2 DEF StreamsRight
<1>6. UNCHANGED <<routes, repoByHostname, mappings, weightDenominator, associations>>
  BY <1>2 DEF repoVars, routesVars, mappingsVars
<1>7. Installed(s)'
  BY <1>3, <1>4 DEF Installed
<1>8. ASSUME NEW t \in Streams, t # s PROVE Installed(t)'
  <2>1. (MappingsStore!DenominatorExact)' <=> MappingsStore!DenominatorExact
    BY <1>6 DEF MappingsStore!DenominatorExact, MappingsStore!MappedTo
  <2>2. IndexRight' <=> IndexRight
    BY <1>6 DEF IndexRight
  <2>3. Installed(t)
    BY DEF Inv
  <2> QED
    BY <1>4, <1>6, <1>8, <2>1, <2>2, <2>3 DEF Installed, MappingsInstalled, RoutesInstalled
<1> QED
  BY <1>2, <1>5, <1>6, <1>7, <1>8 DEF Inv, CallsRight, Repos

\* The first step installs the mappings and adds up their weights.
LEMMA SyncMappingsInv ==
    ASSUME Inv, NEW s \in Streams, SyncMappingsStep(s)
    PROVE  Inv'
<1> DEFINE b == bulk[s]
           t == b.request.mappings
           next == [b EXCEPT !.pc = "routes", !.disturbed = FALSE]
<1>1. IsStream(b) /\ MappingsTable(t)
  BY DEF Inv, StreamsRight, IsStream, Database
<1>2. IsStream(next) /\ next.pc = "routes" /\ next.request = b.request
  <2>1. DOMAIN b = {"pc", "request", "disturbed"}
    BY <1>1 DEF IsStream
  <2>2. next.pc = "routes" /\ next.request = b.request
    BY <2>1
  <2>3. next.disturbed \in BOOLEAN
    <3>1. next.disturbed = FALSE
      BY <2>1, Zenon
    <3> QED
      BY <3>1, Zenon
  <2>4. next = [pc |-> next.pc, request |-> next.request, disturbed |-> next.disturbed]
    <3>1. DOMAIN next = {"pc", "request", "disturbed"} /\ next = [x \in DOMAIN next |-> next[x]]
      BY <2>1
    <3> HIDE DEF next
    <3> QED
      BY <3>1
  <2> HIDE DEF next
  <2> QED
    BY <1>1, <2>2, <2>3, <2>4 DEF IsStream
<1>3. Step(s, next)
  BY DEF SyncMappingsStep
<1>4. StreamsRight' /\ bulk'[s] = next /\ \A x \in Streams : x # s => bulk'[x].disturbed
  <2> HIDE DEF next
  <2> QED
    BY <1>2, <1>3, StepStreams DEF Inv
<1>5. mappings' = t
  BY <1>1, MappingsPoured DEF SyncMappingsStep, MappingsStore!Sync
<1>6. weightDenominator' = [r \in RouteGuids |-> WeightIn(t, r) % Word]
  BY <1>1, SyncSums DEF SyncMappingsStep, MappingsStore!Sync, RouteGuids
<1>7. UNCHANGED <<db, calls, routes, repoByHostname, associations>>
  BY DEF SyncMappingsStep, routesVars
<1>8. Repos'
  <2>1. ASSUME NEW r \in RouteGuids PROVE (WeightIn(t, r) % Word) \in 0 .. Word - 1
    <3>1. WeightIn(t, r) \in Nat
      BY <1>1, SyncSums
    <3> QED
      BY <3>1, BoundsAssumption
  <2>2. weightDenominator' \in [RouteGuids -> 0 .. Word - 1]
    BY <1>6, <2>1
  <2> QED
    BY <1>1, <1>5, <1>7, <2>2 DEF Inv, Repos
<1>9. (MappingsStore!DenominatorExact)'
  BY <1>5, <1>6, ExactSums
<1> HIDE DEF next
<1>10. Installed(s)'
  BY <1>2, <1>4, <1>5, <1>9 DEF Installed, MappingsInstalled
<1>11. ASSUME NEW x \in Streams, x # s PROVE Installed(x)'
  BY <1>4, <1>11 DEF Installed
<1> QED
  BY <1>4, <1>7, <1>8, <1>10, <1>11 DEF Inv, CallsRight

\* The second step installs the routes and their index, if nothing else was
\* written since the first.
LEMMA SyncRoutesInv ==
    ASSUME Inv, NEW s \in Streams, SyncRoutesStep(s)
    PROVE  Inv'
<1> DEFINE b == bulk[s]
           t == b.request.routes
           next == [b EXCEPT !.pc = "associations"]
<1>1. IsStream(b) /\ RoutesTable(t) /\ b.pc = "routes"
  BY DEF Inv, StreamsRight, IsStream, Database, SyncRoutesStep
<1>2. /\ IsStream(next) /\ next.pc = "associations" /\ next.request = b.request
      /\ next.disturbed = b.disturbed
  <2>1. DOMAIN b = {"pc", "request", "disturbed"}
    BY <1>1 DEF IsStream
  <2>2. next.pc = "associations" /\ next.request = b.request /\ next.disturbed = b.disturbed
    BY <2>1
  <2>3. next = [pc |-> next.pc, request |-> next.request, disturbed |-> next.disturbed]
    <3>1. DOMAIN next = {"pc", "request", "disturbed"} /\ next = [x \in DOMAIN next |-> next[x]]
      BY <2>1
    <3> HIDE DEF next
    <3> QED
      BY <3>1
  <2> HIDE DEF next
  <2> QED
    BY <1>1, <2>2, <2>3 DEF IsStream
<1>3. Step(s, next)
  BY DEF SyncRoutesStep
<1>4. StreamsRight' /\ bulk'[s] = next /\ \A x \in Streams : x # s => bulk'[x].disturbed
  <2> HIDE DEF next
  <2> QED
    BY <1>2, <1>3, StepStreams DEF Inv
<1>5. /\ routes' = t
      /\ DOMAIN repoByHostname' = {t[g].Host : g \in DOMAIN t}
      /\ \A h \in DOMAIN repoByHostname' : repoByHostname'[h] \in DOMAIN t /\ t[repoByHostname'[h]].Host = h
  BY <1>1, RoutesPoured DEF SyncRoutesStep, RoutesStore!Sync
<1>6. IndexRight'
  BY <1>5 DEF IndexRight
<1>7. UNCHANGED <<db, calls, mappings, weightDenominator, associations>>
  BY DEF SyncRoutesStep, mappingsVars
<1>8. Repos'
  BY <1>1, <1>5, <1>7 DEF Inv, Repos
<1>9. (MappingsStore!DenominatorExact)' <=> MappingsStore!DenominatorExact
  BY <1>7 DEF MappingsStore!DenominatorExact, MappingsStore!MappedTo
<1> HIDE DEF next
<1>10. Installed(s)'
  <2>1. Installed(s)
    BY DEF Inv
  <2> QED
    BY <1>1, <1>2, <1>4, <1>5, <1>6, <1>7, <1>9, <2>1
    DEF Installed, MappingsInstalled, RoutesInstalled
<1>11. ASSUME NEW x \in Streams, x # s PROVE Installed(x)'
  BY <1>4, <1>11 DEF Installed
<1> QED
  BY <1>4, <1>7, <1>8, <1>10, <1>11 DEF Inv, CallsRight

\* The third step installs the associations.
LEMMA SyncAssociationsInv ==
    ASSUME Inv, NEW s \in Streams, SyncAssociationsStep(s)
    PROVE  Inv' /\ associations' = bulk[s].request.associations
<1> DEFINE t == bulk[s].request.associations
<1>1. AssociationsTable(t)
  BY DEF Inv, StreamsRight, IsStream, Database
<1>2. Step(s, IdleStream)
  BY DEF SyncAssociationsStep
<1>3. StreamsRight' /\ bulk'[s] = IdleStream /\ \A x \in Streams : x # s => bulk'[x].disturbed
  BY <1>2, IdleIsStream, StepStreams DEF Inv
<1>4. associations' = t
  BY <1>1, AssociationsPoured DEF SyncAssociationsStep, AssociationsStore!Sync
<1>5. UNCHANGED <<db, calls, routes, repoByHostname, mappings, weightDenominator>>
  BY DEF SyncAssociationsStep, routesVars, mappingsVars
<1>6. Repos'
  BY <1>1, <1>4, <1>5 DEF Inv, Repos
<1>7. Installed(s)'
  <2>1. IdleStream.pc = "idle"
    BY DEF IdleStream
  <2> QED
    BY <1>3, <2>1 DEF Installed
<1>8. ASSUME NEW x \in Streams, x # s PROVE Installed(x)'
  BY <1>3, <1>8 DEF Installed
<1> QED
  BY <1>3, <1>4, <1>5, <1>6, <1>7, <1>8 DEF Inv, CallsRight

\* Copilot dies and starts again with nothing.
LEMMA CrashInv ==
    ASSUME Inv, Crash
    PROVE  Inv'
<1>1. StreamsRight' /\ \A s \in Streams : bulk'[s].pc = "idle"
  <2>1. bulk' = [s \in Streams |-> IdleStream]
    BY DEF Crash
  <2>2. \A s \in Streams : bulk'[s] = IdleStream
    BY <2>1
  <2>3. IdleStream.pc = "idle"
    BY DEF IdleStream
  <2> QED
    BY <2>1, <2>2, <2>3, IdleIsStream DEF StreamsRight
<1>2. Repos'
  <2>1. weightDenominator' \in [RouteGuids -> 0 .. Word - 1]
    BY BoundsAssumption DEF Crash, Inv, Repos
  <2> QED
    BY <2>1, EmptyTable DEF Crash, Repos
<1>3. Database(db)' /\ CallsRight'
  BY DEF Crash, Inv, CallsRight
<1> QED
  BY <1>1, <1>2, <1>3 DEF Inv, Installed

\* Every step keeps the invariant.
LEMMA NextInv == Inv /\ [Next]_vars => Inv'
<1> SUFFICES ASSUME Inv, [Next]_vars PROVE Inv'
  OBVIOUS
<1>1. CASE UNCHANGED vars
  <2>1. UNCHANGED <<bulk, repoVars>> /\ Database(db)' /\ CallsRight'
    BY <1>1 DEF vars, repoVars, routesVars, mappingsVars, Inv, CallsRight
  <2> QED
    BY <2>1, QuietInv
<1> QED
  BY <1>1, CloudControllerInv, CallInv, StartInv, SyncMappingsInv, SyncRoutesInv, SyncAssociationsInv, CrashInv
  DEF Next, Install

\* Inv holds in every reachable state.
THEOREM InductiveInvariant == Spec => []Inv
BY InitInv, NextInv, PTL DEF Spec

\* The repositories, the running sums and the bulk syncs in progress keep their
\* shape, whatever is lost, repeated, reordered or crashes.
THEOREM TypeCorrect == Spec => []TypeOK
<1>1. Inv => TypeOK
  <2> SUFFICES ASSUME Inv PROVE TypeOK
    OBVIOUS
  <2>1. IsMap(routes, {r.GUID : r \in Routes}, Routes)
    BY DEF Inv, Repos, RoutesTable, IsTable, IsMap
  <2>2. IsMap(associations, {a.CAPIProcessGUID : a \in Associations}, Associations)
    BY DEF Inv, Repos, AssociationsTable, IsTable, IsMap
  <2>3. MappingsStore!TypeOK
    <3>1. \A k \in DOMAIN mappings : mappings[k] \in RouteMappings /\ k = Key(mappings[k])
      BY DEF Inv, Repos, MappingsTable, IsTable
    <3>2. \A m \in RouteMappings : m \in MappingsStore!Mappings /\ Key(m) \in MappingsStore!Keys
      BY MappingsAssumption DEF MappingsStore!Mappings, MappingsStore!Keys, Key
    <3>3. mappings = [k \in DOMAIN mappings |-> mappings[k]]
      BY DEF Inv, Repos, MappingsTable, IsTable
    <3>4. MappingsStore!IsMap(mappings, MappingsStore!Keys, MappingsStore!Mappings)
      BY <3>1, <3>2, <3>3 DEF MappingsStore!IsMap
    <3> QED
      BY <3>4 DEF MappingsStore!TypeOK, Inv, Repos, RouteGuids
  <2> QED
    BY <2>1, <2>2, <2>3 DEF TypeOK, Inv, StreamsRight, IsStream, CallsRight
<1> QED
  BY <1>1, InductiveInvariant, PTL

\* A bulk sync that no other writer disturbs leaves copilot with exactly its
\* request, the host index and the running sums included.
THEOREM BulkSyncRepairs == Spec => BulkSyncInstalls
<1>1. Inv /\ [Next]_vars =>
          [\A s \in Streams :
              (SyncAssociationsStep(s) /\ ~bulk[s].disturbed) =>
                  View' = bulk[s].request /\ IndexRight' /\ (MappingsStore!DenominatorExact)']_vars
  <2> SUFFICES ASSUME Inv, NEW s \in Streams, SyncAssociationsStep(s), ~bulk[s].disturbed
               PROVE  View' = bulk[s].request /\ IndexRight' /\ (MappingsStore!DenominatorExact)'
    OBVIOUS
  <2>1. MappingsInstalled(s) /\ RoutesInstalled(s)
    BY DEF Inv, Installed, SyncAssociationsStep
  <2>2. UNCHANGED <<routes, repoByHostname, mappings, weightDenominator>>
    BY DEF SyncAssociationsStep, routesVars, mappingsVars
  <2>3. associations' = bulk[s].request.associations
    BY SyncAssociationsInv
  <2>4. IndexRight' /\ (MappingsStore!DenominatorExact)'
    BY <2>1, <2>2 DEF IndexRight, MappingsStore!DenominatorExact, MappingsStore!MappedTo,
                      MappingsInstalled, RoutesInstalled
  <2>5. View' = bulk[s].request
    <3>1. Database(bulk[s].request)
      BY DEF Inv, StreamsRight, IsStream
    <3> QED
      BY <2>1, <2>2, <2>3, <3>1 DEF View, Database, MappingsInstalled, RoutesInstalled
  <2> QED
    BY <2>4, <2>5
<1> QED
  BY <1>1, InductiveInvariant, PTL DEF Spec, BulkSyncInstalls
=============================================================================
