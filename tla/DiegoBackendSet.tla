-------------------------- MODULE DiegoBackendSet --------------------------
(***************************************************************************)
(* models/diego_process_backend_set.go: the in-memory table of application *)
(* backends that copilot keeps per Diego process GUID.  Two goroutines     *)
(* write it.  collectEvents applies the BBS event stream one event at a    *)
(* time, and store.Insert takes the store's lock twice: once to create the *)
(* entry and read its backends, once to append.  reconcileLRPs fetches all *)
(* ActualLRPs on every tick and later replaces the whole table.            *)
(*                                                                         *)
(* Each action below is one critical section or one call that blocks, so   *)
(* the interleavings of the model are the ones the locks allow.            *)
(*                                                                         *)
(* Abstraction: a []*Backend is a bag, [Backend -> number of occurrences]. *)
(* Its order is not modelled; that a backend is in it twice is.            *)
(***************************************************************************)
EXTENDS GoMap

CONSTANTS
    LRPs,        \* the ActualLRP records the BBS may hold
    MaxPending   \* bound: BBS events waiting in the subscription

ASSUME LRPsAssumption ==
    \A l \in LRPs : /\ DOMAIN l = {"Instance", "ProcessGuid", "State", "Presence",
                                   "Address", "InstanceAddress", "Ports"}
                    /\ l.Ports \in Seq([HostPort : Nat, ContainerPort : Nat])
ASSUME MaxPendingAssumption == MaxPending \in Nat

CF_APP_SSH_PORT == 2222

VARIABLES
    lrps,      \* the ActualLRPs the BBS holds now
    stream,    \* events the subscription has not handed out yet
    reported,  \* history: every ActualLRP the BBS ever held
    status,    \* where Run is, or how the process ended
    coll,      \* collectEvents: [pc, todo]
    rec,       \* reconcileLRPs: [pc, fetched]
    content    \* store.content

diegoVars == <<lrps, reported>>
vars == <<lrps, stream, reported, status, coll, rec, content>>
-----------------------------------------------------------------------------
(***************************************************************************)
(* processActualLRP: what one ActualLRP contributes.  A nil backend is the *)
(* empty set.                                                              *)
(***************************************************************************)
Kinds == {"External", "Internal"}

\* The loop over Ports overwrites, so the last port that is not the SSH port stays.
AppPort(l) ==
    LET app == SelectSeq(l.Ports, LAMBDA p : p.ContainerPort # CF_APP_SSH_PORT)
    IN  IF app = <<>> THEN [HostPort |-> 0, ContainerPort |-> 0] ELSE app[Len(app)]

\* Faulty variant: evacuating instances are taken too.
TakesEvacuating(l) == l.State = "RUNNING"

Takes(l) == l.Presence # "Evacuating" /\ l.State = "RUNNING"

processActualLRP(l) ==
    LET p == AppPort(l) IN
    [ External |-> {b \in {[Address |-> l.Address, Port |-> p.HostPort,
                            ContainerPort |-> p.ContainerPort]} :
                        Takes(l) /\ p.HostPort # 0},
      Internal |-> {b \in {[Address |-> l.InstanceAddress, Port |-> p.ContainerPort,
                            ContainerPort |-> p.ContainerPort]} :
                        Takes(l) /\ p.ContainerPort # 0} ]

Guids == {l.ProcessGuid : l \in LRPs}
Backends == UNION {processActualLRP(l)[k] : l \in LRPs, k \in Kinds}

\* Faulty variant: only the external set is allocated.
NoInternalSet == [k \in {"External"} |-> [b \in Backends |-> 0]]

\* &BackendSet{} twice
NoSets == [k \in Kinds |-> [b \in Backends |-> 0]]

\* What Get (External) and GetInternalBackends (Internal) hand out.
Get(g, k) == Lookup(content, g, NoSets)[k]
-----------------------------------------------------------------------------
(***************************************************************************)
(* The BBS: ActualLRPs appear, change and disappear, and every such step   *)
(* puts an event on the subscription, if there is one.                     *)
(***************************************************************************)
Events == [type : {"Created", "Changed", "Removed"}, lrp : LRPs]

Emit(type, l) ==
    /\ Len(stream) < MaxPending
    /\ stream' = IF status = "running" THEN Append(stream, [type |-> type, lrp |-> l]) ELSE stream

Holds(table) == /\ lrps' = table
                /\ reported' = reported \cup table
                /\ UNCHANGED <<status, coll, rec, content>>

DiegoCreate(l) ==
    /\ \A m \in lrps : m.Instance # l.Instance
    /\ Emit("Created", l)
    /\ Holds(lrps \cup {l})

DiegoChange(l, m) ==
    /\ l \in lrps /\ m # l
    /\ m.Instance = l.Instance /\ m.ProcessGuid = l.ProcessGuid
    /\ Emit("Changed", m)
    /\ Holds((lrps \ {l}) \cup {m})

DiegoRemove(l) ==
    /\ l \in lrps
    /\ Emit("Removed", l)
    /\ Holds(lrps \ {l})
-----------------------------------------------------------------------------
(***************************************************************************)
(* Run: subscribe, start both goroutines, wait for a signal.               *)
(***************************************************************************)
CollOff == [pc |-> "off", todo |-> <<>>]
RecOff == [pc |-> "off", fetched |-> {}]

Subscribe ==
    /\ status = "starting"
    /\ status' = "running"
    /\ coll' = [coll EXCEPT !.pc = "select"]
    /\ rec' = [rec EXCEPT !.pc = "select"]
    /\ UNCHANGED <<diegoVars, stream, content>>

SubscribeError ==
    /\ status = "starting"
    /\ status' = "failed"
    /\ UNCHANGED <<diegoVars, stream, coll, rec, content>>

\* case <-signals: close(stop)
Signal ==
    /\ status = "running"
    /\ status' = "stopped"
    /\ UNCHANGED <<diegoVars, stream, coll, rec, content>>

\* The process supervisor starts copilot again after a panic or a failed
\* subscription; nothing is persisted.
Restart ==
    /\ status \in {"panicked", "failed"}
    /\ status' = "starting"
    /\ coll' = CollOff /\ rec' = RecOff
    /\ content' = EmptyMap
    /\ stream' = <<>>
    /\ UNCHANGED diegoVars

Alive == status \in {"running", "stopped"}
-----------------------------------------------------------------------------
(***************************************************************************)
(* collectEvents and the store operations it performs.  todo holds the     *)
(* store calls the current event still has to make; the backend argument   *)
(* of an Insert is a set, empty for nil.                                   *)
(***************************************************************************)
InsertCall(l, k) == [op |-> "insert", guid |-> l.ProcessGuid, kind |-> k,
                     backend |-> processActualLRP(l)[k]]
RemoveCall(l) == [op |-> "remove", guid |-> l.ProcessGuid, kind |-> "External", backend |-> {}]

Calls == [op : {"insert", "remove"}, guid : Guids, kind : Kinds, backend : SUBSET Backends]

StoreCalls(e) == CASE e.type = "Created" -> <<InsertCall(e.lrp, "External"), InsertCall(e.lrp, "Internal")>>
                   [] e.type = "Removed" -> <<RemoveCall(e.lrp)>>

\* The select: stop is closed, or default falls through to Next.
CollectStop ==
    /\ coll.pc = "select" /\ status = "stopped"
    /\ coll' = [coll EXCEPT !.pc = "done"]
    /\ UNCHANGED <<diegoVars, stream, status, rec, content>>

CollectPoll ==
    /\ coll.pc = "select" /\ status = "running"
    /\ coll' = [coll EXCEPT !.pc = "next"]
    /\ UNCHANGED <<diegoVars, stream, status, rec, content>>

\* eventSource.Next() returned an event of a type the switch names.
CollectEvent ==
    /\ coll.pc = "next" /\ stream # <<>>
    /\ Head(stream).type \in {"Created", "Removed"}
    /\ coll' = [pc |-> "call", todo |-> StoreCalls(Head(stream))]
    /\ stream' = Tail(stream)
    /\ UNCHANGED <<diegoVars, status, rec, content>>

\* default: return.  The goroutine is gone for the rest of the process.
CollectUnhandled ==
    /\ coll.pc = "next" /\ stream # <<>>
    /\ Head(stream).type \notin {"Created", "Removed"}
    /\ coll' = [coll EXCEPT !.pc = "done"]
    /\ stream' = Tail(stream)
    /\ UNCHANGED <<diegoVars, status, rec, content>>

\* Next() failed: an event that could not be decoded or was dropped while the
\* source reconnected is lost, and the loop continues.
CollectError ==
    /\ coll.pc = "next"
    /\ \/ stream # <<>> /\ stream' = Tail(stream)
       \/ UNCHANGED stream
    /\ coll' = [coll EXCEPT !.pc = "select"]
    /\ UNCHANGED <<diegoVars, status, rec, content>>

\* The current store call returns.
Return == coll' = [pc |-> IF Len(coll.todo) = 1 THEN "select" ELSE "call", todo |-> Tail(coll.todo)]

Calling(op) == coll.pc = "call" /\ Head(coll.todo).op = op
Call == Head(coll.todo)

\* Insert: additionalBackend == nil
InsertNil ==
    /\ Calling("insert") /\ Call.backend = {}
    /\ Return
    /\ UNCHANGED <<diegoVars, stream, status, rec, content>>

\* Faulty variant: the backend is appended without looking for it first.
InsertBlindly ==
    /\ Calling("insert") /\ Call.backend # {}
    /\ content' = IF Call.guid \in DOMAIN content THEN content ELSE Put(content, Call.guid, NoSets)
    /\ coll' = [coll EXCEPT !.pc = "append"]
    /\ UNCHANGED <<diegoVars, stream, status, rec>>

\* Insert, first critical section (create the entry, read its backends) and
\* the comparison with what was read.
InsertLookup ==
    /\ Calling("insert") /\ Call.backend # {}
    /\ content' = IF Call.guid \in DOMAIN content THEN content ELSE Put(content, Call.guid, NoSets)
    /\ IF \E b \in Call.backend : Get(Call.guid, Call.kind)[b] > 0
       THEN Return
       ELSE coll' = [coll EXCEPT !.pc = "append"]
    /\ UNCHANGED <<diegoVars, stream, status, rec>>

\* Insert, second critical section.
InsertAppend ==
    /\ coll.pc = "append"
    /\ Call.guid \in DOMAIN content
    /\ content' = [content EXCEPT ![Call.guid][Call.kind] =
                      [b \in Backends |-> IF b \in Call.backend THEN @[b] + 1 ELSE @[b]]]
    /\ Return
    /\ UNCHANGED <<diegoVars, stream, status, rec>>

\* Insert, second critical section, when the table was replaced in between by
\* one without the GUID: s.content[guid].External is a nil pointer.
InsertPanic ==
    /\ coll.pc = "append"
    /\ Call.guid \notin DOMAIN content
    /\ status' = "panicked"
    /\ UNCHANGED <<diegoVars, stream, coll, rec, content>>

Remove ==
    /\ Calling("remove")
    /\ content' = Drop(content, Call.guid)
    /\ Return
    /\ UNCHANGED <<diegoVars, stream, status, rec>>

collectEvents ==
    /\ Alive
    /\ \/ CollectStop \/ CollectPoll \/ CollectEvent \/ CollectUnhandled \/ CollectError
       \/ InsertNil \/ InsertLookup \/ InsertAppend \/ InsertPanic \/ Remove
-----------------------------------------------------------------------------
(***************************************************************************)
(* reconcileLRPs.  A failed fetch (`continue`) changes nothing.            *)
(***************************************************************************)
\* The table built from a list of ActualLRPs: Insert creates no entry for a
\* nil backend and keeps each backend once.
TableOf(S) ==
    [g \in {l.ProcessGuid : l \in {m \in S : \E k \in Kinds : processActualLRP(m)[k] # {}}} |->
        [k \in Kinds |-> [b \in Backends |->
            IF \E l \in S : l.ProcessGuid = g /\ b \in processActualLRP(l)[k] THEN 1 ELSE 0]]]

ReconcileFetch ==
    /\ rec.pc = "select"
    /\ rec' = [pc |-> "replace", fetched |-> lrps]
    /\ UNCHANGED <<diegoVars, stream, status, coll, content>>

\* Faulty variant: the fetched table is merged into the old one.
ReconcileMerge ==
    /\ rec.pc = "replace"
    /\ content' = [g \in DOMAIN content \cup DOMAIN TableOf(rec.fetched) |->
                      Lookup(TableOf(rec.fetched), g, Lookup(content, g, NoSets))]
    /\ rec' = [pc |-> "select", fetched |-> {}]
    /\ UNCHANGED <<diegoVars, stream, status, coll>>

ReconcileReplace ==
    /\ rec.pc = "replace"
    /\ content' = TableOf(rec.fetched)
    /\ rec' = [pc |-> "select", fetched |-> {}]
    /\ UNCHANGED <<diegoVars, stream, status, coll>>

ReconcileStop ==
    /\ rec.pc = "select" /\ status = "stopped"
    /\ rec' = [rec EXCEPT !.pc = "done"]
    /\ UNCHANGED <<diegoVars, stream, status, coll, content>>

reconcileLRPs == Alive /\ (ReconcileFetch \/ ReconcileReplace \/ ReconcileStop)
-----------------------------------------------------------------------------
Init ==
    /\ lrps \in {S \in SUBSET LRPs : \A l, m \in S : l.Instance = m.Instance => l = m}
    /\ reported = lrps
    /\ status = "starting"
    /\ coll = CollOff /\ rec = RecOff
    /\ content = EmptyMap
    /\ stream = <<>>

Diego == \/ \E l \in LRPs : DiegoCreate(l) \/ DiegoRemove(l)
         \/ \E l, m \in LRPs : DiegoChange(l, m)

Run == Subscribe \/ SubscribeError \/ Signal \/ Restart

Next == Diego \/ Run \/ collectEvents \/ reconcileLRPs

Spec == Init /\ [][Next]_vars

\* The goroutines keep running and the ticker keeps ticking; a fetch and a
\* subscription that are attempted over and over succeed at some point.
Fairness ==
    /\ WF_vars(collectEvents)
    /\ WF_vars(reconcileLRPs)
    /\ SF_vars(Subscribe)
    /\ WF_vars(Restart)

FairSpec == Spec /\ Fairness
-----------------------------------------------------------------------------
(***************************************************************************)
(* Properties.                                                             *)
(***************************************************************************)
Serves(g, k, b) == Get(g, k)[b] > 0
Offers(g, k, b) == \E l \in lrps : l.ProcessGuid = g /\ b \in processActualLRP(l)[k]

\* store.content and the local state of the goroutines keep their shape.
TypeOK ==
    /\ lrps \subseteq LRPs /\ reported \subseteq LRPs
    /\ stream \in Seq(Events)
    /\ status \in {"starting", "running", "stopped", "failed", "panicked"}
    /\ coll \in [pc : {"off", "select", "next", "call", "append", "done"}, todo : Seq(Calls)]
    /\ rec \in [pc : {"off", "select", "replace", "done"}, fetched : SUBSET LRPs]
    /\ IsMap(content, Guids, [Kinds -> [Backends -> Nat]])

\* The de-duplication of Insert reads and appends under two separate locks, so
\* a reconciliation in between can produce a duplicate, but never a second one:
\* no backend is listed more than twice in a BackendSet, however events and
\* reconciliations interleave.
AtMostTwice ==
    \A g \in DOMAIN content, k \in Kinds, b \in Backends : content[g][k][b] <= 2

\* Every backend handed out belongs to an instance of that very process which
\* the BBS reported as running and not evacuating at some time; no interleaving
\* of half-done inserts, removals and replacements attributes a backend to
\* another process or serves one that never ran.
ServedWasRunning ==
    \A g \in DOMAIN content, k \in Kinds, b \in Backends :
        Serves(g, k, b) =>
            \E l \in reported : /\ l.ProcessGuid = g
                                /\ l.State = "RUNNING" /\ l.Presence # "Evacuating"
                                /\ b.Address = IF k = "External" THEN l.Address ELSE l.InstanceAddress

\* Missed events, events applied late, stale snapshots written after newer
\* events, a dead collector, panics and restarts are all repaired by the
\* periodic reconciliation: once the BBS stops changing, the table ends up
\* equal to what the BBS holds, without duplicates, and stays so.
Matches == \A g \in Guids, k \in Kinds : Get(g, k) = Lookup(TableOf(lrps), g, NoSets)[k]
Converges == (<>[][UNCHANGED lrps]_vars) => <>[](status = "stopped" \/ Matches)

\* Even if the BBS never comes to rest, a backend that is gone from it is not
\* served for ever: it is withdrawn, or reported again, or copilot is stopped.
StaleWithdrawn ==
    \A g \in Guids, k \in Kinds, b \in Backends :
        (Serves(g, k, b) /\ ~Offers(g, k, b))
            ~> (~Serves(g, k, b) \/ Offers(g, k, b) \/ status = "stopped")

\* A copilot that is up applies every BBS event to its table: processing one
\* never brings the process down.
NoPanic == status # "panicked"
=============================================================================
