----------------------------- MODULE RouteList -----------------------------
(***************************************************************************)
(* routes/routes.go: the order of the collected routes and the correction  *)
(* of their weights, as functions of the list.                             *)
(***************************************************************************)
EXTENDS FiniteSetsExt, SequencesExt, Int32

\* sort.SliceStable of the entries of s at some positions, by a key for each:
\* the n-th of them is the one that n - 1 others come before.
Earlier(positions, key, i) ==
    {j \in positions : key[j] < key[i] \/ (key[j] = key[i] /\ j < i)}
Nth(positions, key, n) ==
    CHOOSE i \in positions : Cardinality(Earlier(positions, key, i)) = n - 1
SortedAt(s, positions, key) ==
    [n \in 1 .. Cardinality(positions) |-> s[Nth(positions, key, n)]]

ByAddress(backends) ==
    SortedAt(backends, DOMAIN backends, [i \in DOMAIN backends |-> backends[i].Address])

WithPath(built) == {i \in DOMAIN built : built[i].Path # <<>>}
WithoutPath(built) == {i \in DOMAIN built : built[i].Path = <<>>}
PathLengths(built) == [i \in DOMAIN built |-> Len(built[i].Path)]
Processes(built) == [i \in DOMAIN built |-> built[i].CapiProcessGUID]

\* Faulty variant: routes without a path first, so that they hide the others.
InOrderPathsLast(built) ==
    SortedAt(built, WithoutPath(built), Processes(built)) \o SortedAt(built, WithPath(built), PathLengths(built))

\* Routes with a path first, by the length of the path, then the others by process.
InOrder(built) ==
    SortedAt(built, WithPath(built), PathLengths(built)) \o SortedAt(built, WithoutPath(built), Processes(built))

\* What that order should be.
Comes(e, f) == \/ e.Path # <<>> /\ f.Path = <<>>
               \/ e.Path # <<>> /\ f.Path # <<>> /\ Len(e.Path) < Len(f.Path)
               \/ e.Path = <<>> /\ f.Path = <<>> /\ e.CapiProcessGUID < f.CapiProcessGUID

routeKey(r) == <<r.Hostname, r.Path>>

\* 100 minus the sum of the weights of a key, in int32.
Leftover(list, key) ==
    Sub32(100, FoldLeft(LAMBDA sum, r : IF routeKey(r) = key THEN Add32(sum, r.RouteWeight) ELSE sum,
                        0, list))

\* Faulty variant: one entry too few is corrected.
fixOneLess(list) ==
    [i \in DOMAIN list |->
        IF Cardinality({j \in 1 .. i : routeKey(list[j]) = routeKey(list[i])})
               < Leftover(list, routeKey(list[i]))
        THEN [list[i] EXCEPT !.RouteWeight = Add32(@, 1)]
        ELSE list[i]]

\* The entries of one key get one more each, in order, until the leftover is
\* used up; a negative leftover is never used up.
fixRouteWeights(list) ==
    [i \in DOMAIN list |->
        LET left == Leftover(list, routeKey(list[i]))
            rank == Cardinality({j \in 1 .. i : routeKey(list[j]) = routeKey(list[i])})
        IN  IF left < 0 \/ rank <= left
            THEN [list[i] EXCEPT !.RouteWeight = Add32(@, 1)]
            ELSE list[i]]
=============================================================================
