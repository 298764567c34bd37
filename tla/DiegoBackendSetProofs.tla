----------------------- MODULE DiegoBackendSetProofs -----------------------
(***************************************************************************)
(* Proofs about DiegoBackendSet, for every set of ActualLRPs and every     *)
(* bound on pending events.                                                *)
(***************************************************************************)
EXTENDS DiegoBackendSet, TLAPS

(***************************************************************************)
(* The inductive invariant.                                                *)
(***************************************************************************)
\* A goroutine inside a store call has a call to make.
Busy == coll.pc \in {"call", "append"} => coll.todo # <<>>

\* Between the two critical sections of Insert the backend may have been put
\* into the table once, by a reconciliation.
OnceWhileAppending ==
    coll.pc = "append" =>
        \A b \in Call.backend :
            Call.guid \in DOMAIN content => content[Call.guid][Call.kind][b] <= 1

\* b is what a reported ActualLRP of process g contributes.
Sourced(g, k, b) == \E l \in reported : l.ProcessGuid = g /\ b \in processActualLRP(l)[k]

\* Whatever can still reach the table comes from an ActualLRP the BBS held.
AllSourced ==
    /\ lrps \subseteq reported
    /\ rec.fetched \subseteq reported
    /\ \A i \in 1 .. Len(stream) : stream[i].lrp \in reported
    /\ \A i \in 1 .. Len(coll.todo) : \A b \in coll.todo[i].backend :
            Sourced(coll.todo[i].guid, coll.todo[i].kind, b)
    /\ \A g \in DOMAIN content, k \in Kinds, b \in Backends :
            content[g][k][b] > 0 => Sourced(g, k, b)

IInv == TypeOK /\ Busy /\ AtMostTwice /\ OnceWhileAppending /\ AllSourced
-----------------------------------------------------------------------------
\* What processActualLRP makes of an instance is a backend.
LEMMA BackendsOfLRP ==
    ASSUME NEW l \in LRPs, NEW k \in Kinds
    PROVE  processActualLRP(l)[k] \subseteq Backends
BY DEF Backends

\* What processActualLRP returns is of a running, not evacuating instance.
LEMMA BackendIsRunning ==
    ASSUME NEW l, NEW k \in Kinds, NEW b \in processActualLRP(l)[k]
    PROVE  /\ l.State = "RUNNING" /\ l.Presence # "Evacuating"
           /\ b.Address = IF k = "External" THEN l.Address ELSE l.InstanceAddress
BY DEF processActualLRP, Kinds, Takes

\* The entry of a process without backends.
LEMMA NoSetsType == NoSets \in [Kinds -> [Backends -> Nat]]
BY DEF NoSets

\* The table that a reconciliation builds.
LEMMA TableOfType ==
    ASSUME NEW S \in SUBSET LRPs
    PROVE  IsMap(TableOf(S), Guids, [Kinds -> [Backends -> Nat]])
BY DEF IsMap, TableOf, Guids

\* The calls on the store that an event leads to carry the event's own data.
LEMMA StoreCallsType ==
    ASSUME NEW e \in Events, e.type \in {"Created", "Removed"}
    PROVE  /\ StoreCalls(e) \in Seq(Calls)
           /\ StoreCalls(e) # <<>>
           /\ \A i \in 1 .. Len(StoreCalls(e)) : \A b \in StoreCalls(e)[i].backend :
                 StoreCalls(e)[i].guid = e.lrp.ProcessGuid /\ b \in processActualLRP(e.lrp)[StoreCalls(e)[i].kind]
<1>1. e.lrp \in LRPs BY DEF Events
<1>2. \A k \in Kinds : InsertCall(e.lrp, k) \in Calls
  BY <1>1, BackendsOfLRP DEF InsertCall, Calls, Guids
<1>3. RemoveCall(e.lrp) \in Calls
  BY <1>1 DEF RemoveCall, Calls, Guids, Kinds
<1>4. CASE e.type = "Created"
  <2>1. StoreCalls(e) = <<InsertCall(e.lrp, "External"), InsertCall(e.lrp, "Internal")>>
    BY <1>4 DEF StoreCalls
  <2>2. /\ InsertCall(e.lrp, "External") \in Calls /\ InsertCall(e.lrp, "Internal") \in Calls
    BY <1>2 DEF Kinds
  <2>3. \A k \in Kinds : /\ InsertCall(e.lrp, k).guid = e.lrp.ProcessGuid
                         /\ InsertCall(e.lrp, k).kind = k
                         /\ InsertCall(e.lrp, k).backend = processActualLRP(e.lrp)[k]
    BY DEF InsertCall
  <2> QED BY <2>1, <2>2, <2>3 DEF Kinds
<1>5. CASE e.type = "Removed"
  <2>1. StoreCalls(e) = <<RemoveCall(e.lrp)>>
    BY <1>5 DEF StoreCalls
  <2>2. RemoveCall(e.lrp).backend = {} BY DEF RemoveCall
  <2> QED BY <1>3, <2>1, <2>2
<1> QED BY <1>4, <1>5
-----------------------------------------------------------------------------
CollType == [pc : {"off", "select", "next", "call", "append", "done"}, todo : Seq(Calls)]

\* A stream without its first event.
LEMMA TailOfSeq ==
    ASSUME NEW S, NEW s \in Seq(S), s # <<>>
    PROVE  /\ Tail(s) \in Seq(S) /\ Len(Tail(s)) = Len(s) - 1
           /\ \A i \in 1 .. Len(Tail(s)) : Tail(s)[i] = s[i + 1]
           /\ Head(s) = s[1] /\ Head(s) \in S /\ Len(s) \in Nat \ {0}
OBVIOUS

\* A store call returns: collectEvents goes on with the calls that are left.
LEMMA ReturnStep ==
    ASSUME IInv, coll.pc \in {"call", "append"}, Return
    PROVE  /\ coll' \in CollType
           /\ Busy'
           /\ coll.pc' # "append"
           /\ \A i \in 1 .. Len(coll.todo') : i + 1 \in 1 .. Len(coll.todo) /\ coll.todo'[i] = coll.todo[i + 1]
<1>1. coll.todo \in Seq(Calls) /\ coll.todo # <<>>
  BY DEF IInv, TypeOK, Busy
<1>2. /\ Tail(coll.todo) \in Seq(Calls) /\ Len(Tail(coll.todo)) = Len(coll.todo) - 1
      /\ \A i \in 1 .. Len(Tail(coll.todo)) : Tail(coll.todo)[i] = coll.todo[i + 1]
      /\ Len(coll.todo) \in Nat \ {0}
  BY <1>1, TailOfSeq
<1>3. /\ coll'.todo = Tail(coll.todo) /\ coll'.pc \in {"select", "call"}
      /\ coll' = [pc |-> coll'.pc, todo |-> coll'.todo]
      /\ coll'.pc = "call" => Len(coll.todo) # 1
  BY DEF Return
<1>4. coll' \in CollType
  BY <1>2, <1>3 DEF CollType
<1>5. coll'.pc = "call" => coll'.todo # <<>>
  <2> SUFFICES ASSUME coll'.pc = "call" PROVE Len(coll'.todo) # 0
    OBVIOUS
  <2> QED BY <1>2, <1>3
<1>6. Busy'
  BY <1>3, <1>5 DEF Busy
<1> QED BY <1>2, <1>3, <1>4, <1>6

\* A step of the BBS: only reported and the stream grow.
LEMMA BBSStep ==
    ASSUME IInv, NEW type \in {"Created", "Changed", "Removed"}, NEW l \in LRPs,
           NEW table \in SUBSET LRPs, l \in table \/ l \in lrps,
           Emit(type, l), Holds(table)
    PROVE  IInv'
<1>2. /\ lrps' = table /\ reported' = reported \cup table
      /\ UNCHANGED <<status, coll, rec, content>>
  BY DEF Holds
<1>3. l \in reported'
  BY <1>2 DEF IInv, AllSourced
<1>4. /\ stream' \in Seq(Events)
      /\ \A i \in 1 .. Len(stream') : stream'[i].lrp \in reported'
  <2>1. stream \in Seq(Events) /\ \A i \in 1 .. Len(stream) : stream[i].lrp \in reported'
    BY <1>2 DEF IInv, TypeOK, AllSourced
  <2>2. CASE stream' = stream
    BY <2>1, <2>2
  <2>3. CASE stream' = Append(stream, [type |-> type, lrp |-> l])
    <3>1. [type |-> type, lrp |-> l] \in Events BY DEF Events
    <3> QED BY <2>1, <2>3, <3>1, <1>3
  <2> QED BY <2>2, <2>3 DEF Emit
<1>5. \A g, k, b : Sourced(g, k, b) => Sourced(g, k, b)'
  BY <1>2 DEF Sourced
<1>6. TypeOK'
  BY <1>2, <1>4 DEF IInv, TypeOK
<1>7. Busy' /\ AtMostTwice' /\ OnceWhileAppending'
  BY <1>2 DEF IInv, Busy, AtMostTwice, OnceWhileAppending, Call
<1>8. AllSourced'
  BY <1>2, <1>4, <1>5 DEF IInv, AllSourced
<1> QED BY <1>6, <1>7, <1>8 DEF IInv

\* Steps of the BBS.
LEMMA DiegoStep ==
    ASSUME IInv, Diego
    PROVE  IInv'
<1>0. lrps \subseteq LRPs
  BY DEF IInv, TypeOK
<1>1. ASSUME NEW l \in LRPs, DiegoCreate(l) PROVE IInv'
  <2>1. Emit("Created", l) /\ Holds(lrps \cup {l}) BY <1>1 DEF DiegoCreate
  <2> QED BY <1>0, <2>1, BBSStep
<1>2. ASSUME NEW l \in LRPs, DiegoRemove(l) PROVE IInv'
  <2>1. l \in lrps /\ Emit("Removed", l) /\ Holds(lrps \ {l}) BY <1>2 DEF DiegoRemove
  <2> QED BY <1>0, <2>1, BBSStep
<1>3. ASSUME NEW l \in LRPs, NEW m \in LRPs, DiegoChange(l, m) PROVE IInv'
  <2>1. Emit("Changed", m) /\ Holds((lrps \ {l}) \cup {m}) BY <1>3 DEF DiegoChange
  <2> QED BY <1>0, <2>1, BBSStep
<1> QED BY <1>1, <1>2, <1>3 DEF Diego

\* A step that leaves the table, the calls to make and the BBS alone, and at
\* most consumes an event.
LEMMA ControlStep ==
    ASSUME IInv,
           UNCHANGED <<lrps, reported, content>>, status' \in {"starting", "running", "stopped", "failed", "panicked"},
           stream' = stream \/ (stream # <<>> /\ stream' = Tail(stream)),
           coll' \in CollType, coll'.todo = coll.todo,
           coll'.pc = coll.pc \/ coll'.pc \in {"select", "next", "done"},
           rec' \in [pc : {"off", "select", "replace", "done"}, fetched : SUBSET LRPs],
           rec'.fetched \subseteq reported
    PROVE  IInv'
<1>1. /\ stream' \in Seq(Events)
      /\ \A i \in 1 .. Len(stream') : stream'[i].lrp \in reported
  <2>1. stream \in Seq(Events) /\ \A i \in 1 .. Len(stream) : stream[i].lrp \in reported
    BY DEF IInv, TypeOK, AllSourced
  <2>2. CASE stream' = stream BY <2>1, <2>2
  <2>3. CASE stream # <<>> /\ stream' = Tail(stream)
    BY <2>1, <2>3, TailOfSeq
  <2> QED BY <2>2, <2>3
<1>2. TypeOK'
  BY <1>1 DEF IInv, TypeOK, CollType
<1>3. Busy' /\ AtMostTwice' /\ OnceWhileAppending'
  BY DEF IInv, Busy, AtMostTwice, OnceWhileAppending, Call
<1>4. AllSourced'
  BY <1>1 DEF IInv, AllSourced, Sourced
<1> QED BY <1>2, <1>3, <1>4 DEF IInv

\* Steps of Run and of the supervisor.
LEMMA RunStep ==
    ASSUME IInv, Run
    PROVE  IInv'
<1>0. /\ coll \in CollType /\ rec \in [pc : {"off", "select", "replace", "done"}, fetched : SUBSET LRPs]
      /\ rec.fetched \subseteq reported
      /\ status \in {"starting", "running", "stopped", "failed", "panicked"}
  BY DEF IInv, TypeOK, AllSourced, CollType
<1>1. CASE Subscribe
  <2>1. /\ coll' \in CollType /\ coll'.todo = coll.todo /\ coll'.pc = "select"
        /\ rec' \in [pc : {"off", "select", "replace", "done"}, fetched : SUBSET LRPs]
        /\ rec'.fetched = rec.fetched
    BY <1>0, <1>1 DEF Subscribe, CollType
  <2> QED BY <1>0, <1>1, <2>1, ControlStep DEF Subscribe, diegoVars
<1>2. CASE SubscribeError
  BY <1>0, <1>2, ControlStep DEF SubscribeError, diegoVars
<1>3. CASE Signal
  BY <1>0, <1>3, ControlStep DEF Signal, diegoVars
<1>4. CASE Restart
  <2>1. /\ coll' = CollOff /\ rec' = RecOff /\ content' = EmptyMap /\ stream' = <<>>
        /\ lrps' = lrps /\ reported' = reported /\ status' = "starting"
    BY <1>4 DEF Restart, diegoVars
  <2>2. TypeOK'
    BY <2>1 DEF IInv, TypeOK, CollOff, RecOff, EmptyMap, IsMap
  <2>3. Busy' /\ AtMostTwice' /\ OnceWhileAppending'
    BY <2>1 DEF CollOff, EmptyMap, Busy, AtMostTwice, OnceWhileAppending
  <2>4. AllSourced'
    BY <2>1 DEF IInv, AllSourced, CollOff, RecOff, EmptyMap
  <2> QED BY <2>2, <2>3, <2>4 DEF IInv
<1> QED BY <1>1, <1>2, <1>3, <1>4 DEF Run

\* Facts about the call a busy collector is making.
LEMMA CurrentCall ==
    ASSUME IInv, coll.pc \in {"call", "append"}
    PROVE  /\ Call \in Calls /\ Call = coll.todo[1] /\ 1 \in 1 .. Len(coll.todo)
           /\ \A b \in Call.backend : Sourced(Call.guid, Call.kind, b)
<1>1. coll.todo \in Seq(Calls) /\ coll.todo # <<>>
  BY DEF IInv, TypeOK, Busy
<1>2. Head(coll.todo) = coll.todo[1] /\ Head(coll.todo) \in Calls /\ Len(coll.todo) \in Nat \ {0}
  BY <1>1, TailOfSeq
<1>3. 1 \in 1 .. Len(coll.todo)
  BY <1>2
<1> QED BY <1>2, <1>3 DEF IInv, AllSourced, Call

\* A step that changes only the table and the collector's place in its calls.
LEMMA TableStep ==
    ASSUME IInv, UNCHANGED <<lrps, reported, stream, status, rec>>,
           coll' \in CollType, Busy', OnceWhileAppending',
           \A i \in 1 .. Len(coll'.todo) : \E j \in 1 .. Len(coll.todo) : coll'.todo[i] = coll.todo[j],
           IsMap(content', Guids, [Kinds -> [Backends -> Nat]]),
           \A g \in DOMAIN content', k \in Kinds, b \in Backends :
               /\ content'[g][k][b] <= 2
               /\ content'[g][k][b] > 0 => Sourced(g, k, b)
    PROVE  IInv'
<1>1. TypeOK'
  BY DEF IInv, TypeOK, CollType
<1>2. AtMostTwice'
  BY DEF AtMostTwice
<1>3. AllSourced'
  BY DEF IInv, AllSourced, Sourced
<1> QED BY <1>1, <1>2, <1>3 DEF IInv

\* Steps of collectEvents, Insert and Remove.
LEMMA CollectStep ==
    ASSUME IInv, collectEvents
    PROVE  IInv'
<1>0. /\ coll \in CollType /\ rec \in [pc : {"off", "select", "replace", "done"}, fetched : SUBSET LRPs]
      /\ rec.fetched \subseteq reported
      /\ status \in {"starting", "running", "stopped", "failed", "panicked"}
      /\ IsMap(content, Guids, [Kinds -> [Backends -> Nat]])
  BY DEF IInv, TypeOK, AllSourced, CollType
<1>1. CASE CollectStop \/ CollectPoll
  <2>1. coll' \in CollType /\ coll'.todo = coll.todo /\ coll'.pc \in {"next", "done"}
    BY <1>0, <1>1 DEF CollectStop, CollectPoll, CollType
  <2>2. UNCHANGED <<lrps, reported, content, stream, status, rec>>
    BY <1>1 DEF CollectStop, CollectPoll, diegoVars
  <2> QED BY <1>0, <2>1, <2>2, ControlStep
<1>2. CASE CollectUnhandled \/ CollectError
  <2>1. coll' \in CollType /\ coll'.todo = coll.todo /\ coll'.pc \in {"select", "done"}
    BY <1>0, <1>2 DEF CollectUnhandled, CollectError, CollType
  <2>2. UNCHANGED <<lrps, reported, content, status, rec>>
    BY <1>2 DEF CollectUnhandled, CollectError, diegoVars
  <2>3. stream' = stream \/ (stream # <<>> /\ stream' = Tail(stream))
    BY <1>2 DEF CollectUnhandled, CollectError
  <2> QED BY <1>0, <2>1, <2>2, <2>3, ControlStep
<1>3. CASE CollectEvent
  <2> DEFINE e == Head(stream)
  <2>1. /\ stream \in Seq(Events) /\ stream # <<>> /\ e.type \in {"Created", "Removed"}
        /\ coll' = [pc |-> "call", todo |-> StoreCalls(e)]
        /\ stream' = Tail(stream)
        /\ UNCHANGED <<lrps, reported, status, rec, content>>
    BY <1>3 DEF CollectEvent, IInv, TypeOK, diegoVars
  <2>2. /\ e \in Events /\ e = stream[1] /\ Len(stream) \in Nat \ {0}
        /\ stream' \in Seq(Events)
        /\ Len(stream') = Len(stream) - 1
        /\ \A i \in 1 .. Len(stream') : stream'[i] = stream[i + 1]
    BY <2>1, TailOfSeq
  <2>3. \A i \in 1 .. Len(stream) : stream[i].lrp \in reported
    BY DEF IInv, AllSourced
  <2>4. e.lrp \in reported /\ \A i \in 1 .. Len(stream') : stream'[i].lrp \in reported
    BY <2>2, <2>3
  <2>5. /\ StoreCalls(e) \in Seq(Calls) /\ StoreCalls(e) # <<>>
        /\ \A i \in 1 .. Len(StoreCalls(e)) : \A b \in StoreCalls(e)[i].backend :
              /\ StoreCalls(e)[i].guid = e.lrp.ProcessGuid
              /\ b \in processActualLRP(e.lrp)[StoreCalls(e)[i].kind]
    BY <2>1, <2>2, StoreCallsType
  <2>6. TypeOK'
    BY <2>1, <2>2, <2>5 DEF IInv, TypeOK
  <2>7. Busy' /\ AtMostTwice' /\ OnceWhileAppending'
    BY <2>1, <2>5 DEF IInv, Busy, AtMostTwice, OnceWhileAppending
  <2>8. AllSourced'
    <3>0. coll'.todo = StoreCalls(e) /\ reported' = reported
      BY <2>1
    <3>1. ASSUME NEW i \in 1 .. Len(StoreCalls(e)), NEW b \in StoreCalls(e)[i].backend
          PROVE  Sourced(StoreCalls(e)[i].guid, StoreCalls(e)[i].kind, b)
      BY <2>4, <2>5, <3>1 DEF Sourced
    <3>2. \A g, k, b : Sourced(g, k, b)' <=> Sourced(g, k, b)
      BY <3>0 DEF Sourced
    <3>3. (\A i \in 1 .. Len(coll.todo) : \A b \in coll.todo[i].backend :
              Sourced(coll.todo[i].guid, coll.todo[i].kind, b))'
      BY <3>0, <3>1 DEF Sourced
    <3>4. \A g \in DOMAIN content', k \in Kinds, b \in Backends :
              content'[g][k][b] > 0 => Sourced(g, k, b)'
      BY <2>1, <3>2 DEF IInv, AllSourced
    <3>5. lrps' \subseteq reported' /\ rec'.fetched \subseteq reported'
      BY <2>1 DEF IInv, AllSourced
    <3> QED BY <2>1, <2>4, <3>3, <3>4, <3>5 DEF AllSourced
  <2> QED BY <2>6, <2>7, <2>8 DEF IInv
<1>4. CASE InsertNil
  <2>1. coll.pc \in {"call", "append"} /\ Return
    BY <1>4 DEF InsertNil, Calling
  <2>2. /\ coll' \in CollType /\ Busy' /\ coll.pc' # "append"
        /\ \A i \in 1 .. Len(coll.todo') : i + 1 \in 1 .. Len(coll.todo) /\ coll.todo'[i] = coll.todo[i + 1]
    BY <2>1, ReturnStep
  <2>3. UNCHANGED <<lrps, reported, stream, status, rec, content>>
    BY <1>4 DEF InsertNil, diegoVars
  <2>4. OnceWhileAppending'
    BY <2>2 DEF OnceWhileAppending
  <2>5. \A g \in DOMAIN content', k \in Kinds, b \in Backends :
               /\ content'[g][k][b] <= 2
               /\ content'[g][k][b] > 0 => Sourced(g, k, b)
    BY <2>3 DEF IInv, AtMostTwice, AllSourced
  <2> QED BY <1>0, <2>2, <2>3, <2>4, <2>5, TableStep
<1>5. CASE InsertLookup
  <2>1. /\ coll.pc = "call" /\ UNCHANGED <<lrps, reported, stream, status, rec>>
        /\ content' = IF Call.guid \in DOMAIN content THEN content ELSE Put(content, Call.guid, NoSets)
        /\ IF \E b \in Call.backend : Get(Call.guid, Call.kind)[b] > 0
           THEN Return ELSE coll' = [coll EXCEPT !.pc = "append"]
    BY <1>5 DEF InsertLookup, Calling, diegoVars
  <2>2. Call \in Calls
    BY <2>1, CurrentCall
  <2>3. /\ Call.guid \in Guids /\ Call.kind \in Kinds /\ Call.backend \subseteq Backends
    BY <2>2 DEF Calls
  <2>4. IsMap(content', Guids, [Kinds -> [Backends -> Nat]])
    BY <1>0, <2>1, <2>3, NoSetsType DEF IsMap, Put
  <2>5. \A g \in DOMAIN content', k \in Kinds, b \in Backends :
            \/ g \in DOMAIN content /\ content'[g][k][b] = content[g][k][b]
            \/ content'[g][k][b] = 0
    BY <2>1 DEF Put, NoSets
  <2>6. \A g \in DOMAIN content', k \in Kinds, b \in Backends :
               /\ content'[g][k][b] <= 2
               /\ content'[g][k][b] > 0 => Sourced(g, k, b)
    BY <2>5 DEF IInv, AtMostTwice, AllSourced
  <2>7. CASE Return
    <3>1. /\ coll' \in CollType /\ Busy' /\ coll.pc' # "append"
          /\ \A i \in 1 .. Len(coll.todo') : i + 1 \in 1 .. Len(coll.todo) /\ coll.todo'[i] = coll.todo[i + 1]
      BY <2>1, <2>7, ReturnStep
    <3>2. OnceWhileAppending'
      BY <3>1 DEF OnceWhileAppending
    <3> QED BY <2>1, <2>4, <2>6, <3>1, <3>2, TableStep
  <2>8. CASE /\ \A b \in Call.backend : ~(Get(Call.guid, Call.kind)[b] > 0)
             /\ coll' = [coll EXCEPT !.pc = "append"]
    <3>1. /\ coll' \in CollType /\ coll'.todo = coll.todo /\ coll'.pc = "append"
      BY <1>0, <2>8 DEF CollType
    <3>2. Busy'
      BY <2>1, <3>1 DEF IInv, Busy
    <3>3. \A b \in Call.backend : content'[Call.guid][Call.kind][b] = 0
      <4>1. Get(Call.guid, Call.kind) \in [Backends -> Nat]
        BY <1>0, <2>3, NoSetsType DEF Get, Lookup, IsMap
      <4>2. \A b \in Call.backend : Get(Call.guid, Call.kind)[b] = 0
        BY <2>3, <2>8, <4>1
      <4>3. content'[Call.guid][Call.kind] = Get(Call.guid, Call.kind)
        BY <2>1 DEF Get, Lookup, Put
      <4> QED BY <4>2, <4>3
    <3>4. OnceWhileAppending'
      <4>1. Call' = Call BY <3>1 DEF Call
      <4> QED BY <3>3, <4>1 DEF OnceWhileAppending
    <3> QED BY <2>1, <2>4, <2>6, <3>1, <3>2, <3>4, TableStep
  <2> QED BY <2>1, <2>7, <2>8
<1>6. CASE InsertAppend
  <2>1. /\ coll.pc = "append" /\ Return /\ Call.guid \in DOMAIN content
        /\ UNCHANGED <<lrps, reported, stream, status, rec>>
        /\ content' = [content EXCEPT ![Call.guid][Call.kind] =
                          [b \in Backends |-> IF b \in Call.backend THEN content[Call.guid][Call.kind][b] + 1
                                                                    ELSE content[Call.guid][Call.kind][b]]]
    BY <1>6 DEF InsertAppend, diegoVars
  <2>2. Call \in Calls /\ \A b \in Call.backend : Sourced(Call.guid, Call.kind, b)
    BY <2>1, CurrentCall
  <2>3. /\ Call.guid \in Guids /\ Call.kind \in Kinds /\ Call.backend \subseteq Backends
    BY <2>2 DEF Calls
  <2>4. /\ coll' \in CollType /\ Busy' /\ coll.pc' # "append"
        /\ \A i \in 1 .. Len(coll.todo') : i + 1 \in 1 .. Len(coll.todo) /\ coll.todo'[i] = coll.todo[i + 1]
    BY <2>1, ReturnStep
  <2>5. OnceWhileAppending'
    BY <2>4 DEF OnceWhileAppending
  <2>6. /\ content \in [DOMAIN content -> [Kinds -> [Backends -> Nat]]] /\ DOMAIN content \subseteq Guids
    BY <1>0 DEF IsMap
  <2>7. DOMAIN content' = DOMAIN content
    BY <2>1
  <2>8. IsMap(content', Guids, [Kinds -> [Backends -> Nat]])
    BY <2>1, <2>3, <2>6, <2>7 DEF IsMap
  <2>9. ASSUME NEW g \in DOMAIN content', NEW k \in Kinds, NEW b \in Backends
        PROVE  /\ content'[g][k][b] <= 2
               /\ content'[g][k][b] > 0 => Sourced(g, k, b)
    <3>1. content[g][k][b] \in Nat /\ content[g][k][b] <= 2 /\ (content[g][k][b] > 0 => Sourced(g, k, b))
      BY <2>6, <2>7, <2>9 DEF IInv, AtMostTwice, AllSourced
    <3>2. CASE g = Call.guid /\ k = Call.kind /\ b \in Call.backend
      <4>1. content'[g][k][b] = content[g][k][b] + 1
        BY <2>1, <2>6, <2>7, <2>9, <3>2
      <4>2. content[g][k][b] <= 1
        BY <2>1, <3>2 DEF IInv, OnceWhileAppending
      <4> QED BY <2>2, <3>1, <3>2, <4>1, <4>2
    <3>3. CASE ~(g = Call.guid /\ k = Call.kind /\ b \in Call.backend)
      <4>1. content'[g][k][b] = content[g][k][b]
        BY <2>1, <2>6, <2>7, <2>9, <3>3
      <4> QED BY <3>1, <4>1
    <3> QED BY <3>2, <3>3
  <2> QED BY <2>1, <2>4, <2>5, <2>8, <2>9, TableStep
<1>7. CASE InsertPanic
  BY <1>0, <1>7, ControlStep DEF InsertPanic, diegoVars
<1>8. CASE Remove
  <2>1. coll.pc \in {"call", "append"} /\ Return
    BY <1>8 DEF Remove, Calling
  <2>2. /\ coll' \in CollType /\ Busy' /\ coll.pc' # "append"
        /\ \A i \in 1 .. Len(coll.todo') : i + 1 \in 1 .. Len(coll.todo) /\ coll.todo'[i] = coll.todo[i + 1]
    BY <2>1, ReturnStep
  <2>3. content' = Drop(content, Call.guid) /\ UNCHANGED <<lrps, reported, stream, status, rec>>
    BY <1>8 DEF Remove, diegoVars
  <2>4. OnceWhileAppending'
    BY <2>2 DEF OnceWhileAppending
  <2>5. IsMap(content', Guids, [Kinds -> [Backends -> Nat]])
    BY <1>0, <2>3 DEF IsMap, Drop
  <2>6. \A g \in DOMAIN content', k \in Kinds, b \in Backends :
               /\ content'[g][k][b] <= 2
               /\ content'[g][k][b] > 0 => Sourced(g, k, b)
    BY <2>3 DEF Drop, IInv, AtMostTwice, AllSourced
  <2> QED BY <2>2, <2>3, <2>4, <2>5, <2>6, TableStep
<1> QED BY <1>1, <1>2, <1>3, <1>4, <1>5, <1>6, <1>7, <1>8 DEF collectEvents

\* Steps of reconcileLRPs.
LEMMA ReconcileStep ==
    ASSUME IInv, reconcileLRPs
    PROVE  IInv'
<1>0. /\ coll \in CollType /\ rec \in [pc : {"off", "select", "replace", "done"}, fetched : SUBSET LRPs]
      /\ rec.fetched \subseteq reported /\ lrps \subseteq reported /\ lrps \subseteq LRPs
      /\ status \in {"starting", "running", "stopped", "failed", "panicked"}
  BY DEF IInv, TypeOK, AllSourced, CollType
<1>1. CASE ReconcileFetch
  BY <1>0, <1>1, ControlStep DEF ReconcileFetch, diegoVars
<1>2. CASE ReconcileReplace
  <2> DEFINE T == TableOf(rec.fetched)
  <2>1. /\ content' = T /\ rec' = [pc |-> "select", fetched |-> {}]
        /\ UNCHANGED <<lrps, reported, stream, status, coll>>
    BY <1>2 DEF ReconcileReplace, diegoVars
  <2>2. IsMap(T, Guids, [Kinds -> [Backends -> Nat]])
    BY <1>0, TableOfType
  <2>3. \A g \in DOMAIN T, k \in Kinds, b \in Backends :
            /\ T[g][k][b] \in {0, 1}
            /\ T[g][k][b] = 1 => Sourced(g, k, b)
    BY <1>0 DEF TableOf, Sourced
  <2>4. TypeOK'
    BY <2>1, <2>2 DEF IInv, TypeOK
  <2>5. Busy' /\ AtMostTwice'
    BY <2>1, <2>3 DEF IInv, Busy, AtMostTwice
  <2>6. OnceWhileAppending'
    <3> SUFFICES ASSUME coll.pc = "append", NEW b \in Call.backend, Call.guid \in DOMAIN T
                 PROVE  T[Call.guid][Call.kind][b] <= 1
      BY <2>1 DEF OnceWhileAppending, Call
    <3>1. Call.kind \in Kinds /\ Call.backend \subseteq Backends
      BY CurrentCall DEF Calls
    <3> QED BY <2>3, <3>1
  <2>7. AllSourced'
    <3>1. \A g, k, b : Sourced(g, k, b)' <=> Sourced(g, k, b)
      BY <2>1 DEF Sourced
    <3>2. \A g \in DOMAIN content', k \in Kinds, b \in Backends :
              content'[g][k][b] > 0 => Sourced(g, k, b)'
      BY <2>1, <2>3, <3>1
    <3> QED BY <2>1, <3>1, <3>2 DEF IInv, AllSourced
  <2> QED BY <2>4, <2>5, <2>6, <2>7 DEF IInv
<1>3. CASE ReconcileStop
  <2>1. rec' \in [pc : {"off", "select", "replace", "done"}, fetched : SUBSET LRPs] /\ rec'.fetched = rec.fetched
    BY <1>0, <1>3 DEF ReconcileStop
  <2> QED BY <1>0, <1>3, <2>1, ControlStep DEF ReconcileStop, diegoVars
<1> QED BY <1>1, <1>2, <1>3 DEF reconcileLRPs
-----------------------------------------------------------------------------
\* The invariant holds initially.
LEMMA InitIInv == Init => IInv
<1> SUFFICES ASSUME Init PROVE IInv
  OBVIOUS
<1>1. TypeOK
  BY DEF Init, TypeOK, CollOff, RecOff, EmptyMap, IsMap
<1>2. Busy /\ AtMostTwice /\ OnceWhileAppending
  BY DEF Init, CollOff, EmptyMap, Busy, AtMostTwice, OnceWhileAppending
<1>3. AllSourced
  BY DEF Init, AllSourced, CollOff, RecOff, EmptyMap
<1> QED BY <1>1, <1>2, <1>3 DEF IInv

\* The invariant is inductive: the BBS, Run and the two goroutines keep it.
THEOREM Inductive == Spec => []IInv
<1>1. IInv /\ [Next]_vars => IInv'
  <2> SUFFICES ASSUME IInv, [Next]_vars PROVE IInv'
    OBVIOUS
  <2>1. CASE Diego BY <2>1, DiegoStep
  <2>2. CASE Run BY <2>2, RunStep
  <2>3. CASE collectEvents BY <2>3, CollectStep
  <2>4. CASE reconcileLRPs BY <2>4, ReconcileStep
  <2>5. CASE UNCHANGED vars
    BY <2>5 DEF vars, IInv, TypeOK, Busy, AtMostTwice, OnceWhileAppending, Call, AllSourced, Sourced
  <2> QED BY <2>1, <2>2, <2>3, <2>4, <2>5 DEF Next
<1> QED BY <1>1, InitIInv, PTL DEF Spec

\* store.content and the goroutines' local state keep their types in every
\* interleaving, so no step is ever taken from a malformed table.
THEOREM TypeCorrect == Spec => []TypeOK
<1>1. IInv => TypeOK BY DEF IInv
<1> QED BY <1>1, Inductive, PTL

\* The unlocked window in Insert costs at most one duplicate per backend.
THEOREM DuplicatesBounded == Spec => []AtMostTwice
<1>1. IInv => AtMostTwice BY DEF IInv
<1> QED BY <1>1, Inductive, PTL

\* Copilot never hands out a backend of an instance that was never reported
\* running for that process.
THEOREM NothingInvented == Spec => []ServedWasRunning
<1>1. IInv => ServedWasRunning
  <2> SUFFICES ASSUME IInv, NEW g \in DOMAIN content, NEW k \in Kinds, NEW b \in Backends, Serves(g, k, b)
               PROVE  \E l \in reported : /\ l.ProcessGuid = g
                                          /\ l.State = "RUNNING" /\ l.Presence # "Evacuating"
                                          /\ b.Address = IF k = "External" THEN l.Address ELSE l.InstanceAddress
    BY DEF ServedWasRunning
  <2>1. content[g][k][b] > 0
    BY DEF Serves, Get, Lookup
  <2>2. PICK l \in reported : l.ProcessGuid = g /\ b \in processActualLRP(l)[k]
    BY <2>1 DEF IInv, AllSourced, Sourced
  <2> QED BY <2>2, BackendIsRunning
<1> QED BY <1>1, Inductive, PTL
=============================================================================
