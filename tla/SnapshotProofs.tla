--------------------------- MODULE SnapshotProofs ---------------------------
(***************************************************************************)
(* What a watch that Pilot holds open says about its configuration,        *)
(* whatever the collections are, whatever Collect, the policy server and   *)
(* the configuration may answer, and however often the process, the stream *)
(* and the policy server fail.                                             *)
(*                                                                         *)
(* A watch alone says nothing: its version was acknowledged with the       *)
(* request before it, and its contents arrived with the response before    *)
(* that.  The invariant follows a version through all three.               *)
(*                                                                         *)
(* The second part is about the resources of a snapshot, for all routes    *)
(* and policies.  Each Create function is a loop over the routes, and its  *)
(* proof has the form of one: what the variables of the loop hold after k  *)
(* routes, that one route more keeps it, and what it means at the end.     *)
(***************************************************************************)
EXTENDS SnapshotRunner, IstioConfig, DataTheorems

PCs == {"select", "policies", "compare", "set", "exited", "stopping", "panicked", "down"}

Resources == {Nothing} \cup
    UNION {Create(c, r, p, k) : c \in Collections, r \in RouteLists, p \in PolicyLists, k \in CertLists}

Snapshots == [Collections -> [version : Nat, resources : Resources]]

Streams ==
    [Collections -> [at : {"closed", "request", "watch", "response"}, version : Nat, resources : Resources]]

Runs == [pc : PCs, routes : RouteLists \cup {Nothing}, policies : PolicyLists \cup {Nothing}, shot : Snapshots]

Shape ==
    /\ routes \in RouteLists /\ policies \in PolicyLists /\ certs \in CertLists
    /\ run \in Runs
    /\ cached \in [routes : RouteLists \cup {Nothing}, policies : PolicyLists \cup {Nothing}]
    /\ initialized \in BOOLEAN /\ ver \in Nat
    /\ shot \in Snapshots
    /\ stream \in Streams
    /\ objects \in [Collections -> Resources] /\ refused \subseteq Collections

\* The locals of Run have been assigned where they are used.
Locals ==
    /\ run.pc \in {"policies", "compare"} => run.routes \in RouteLists
    /\ run.pc = "compare" => run.policies \in PolicyLists
    /\ initialized \/ run.pc = "set" => cached \in [routes : RouteLists, policies : PolicyLists]

\* Made of what the next tick is compared with.
FromCached(new) ==
    \A c \in Collections : new[c].resources \in Create(c, cached.routes, cached.policies, certs)

\* A collection with a constant version has the only contents it can have.
Constant(new) ==
    \A c \in Collections \ Versioned : \A r \in RouteLists, p \in PolicyLists :
        new[c].resources \in Create(c, r, p, certs)

HasVersion(new, v) == \A c \in Collections : new[c].version = VersionOf(c, v)

\* Between Build and Publish the snapshot in the cache is one version behind.
Published == IF run.pc = "set" THEN ver - 1 ELSE ver

\* The snapshot in the cache, and the one about to be set.
Cache ==
    /\ initialized => /\ Published >= 1
                      /\ HasVersion(shot, Published)
                      /\ Constant(shot)
                      /\ run.pc # "set" => FromCached(shot)
    /\ ~initialized => shot = NoSnapshot
    /\ run.pc = "set" => /\ ver >= 1
                         /\ HasVersion(run.shot, ver)
                         /\ Constant(run.shot)
                         /\ FromCached(run.shot)
    /\ run.pc = "down" => ~initialized /\ stream = NoStream

\* A collection of the stream, from a response to the watch that follows it.
InStream(c) ==
    /\ stream[c].version <= shot[c].version
    /\ stream[c].at = "response" =>
          /\ initialized
          /\ stream[c].version = shot[c].version => stream[c].resources = shot[c].resources
    /\ stream[c].at \in {"request", "watch"} /\ initialized /\ stream[c].version = shot[c].version =>
          c \in refused \/ objects[c] = shot[c].resources
    /\ stream[c].at = "watch" => stream[c].version = shot[c].version

Inv == Shape /\ Locals /\ Cache /\ \A c \in Collections : InStream(c)
-----------------------------------------------------------------------------
(***************************************************************************)
(* The values that the actions assign have their shape.                    *)
(***************************************************************************)
\* The snapshot and the stream that a process starts with are well shaped.
LEMMA EmptyShapes ==
    /\ NoSnapshot \in Snapshots /\ NoStream \in Streams
    /\ AtSelect \in Runs
    /\ NothingCached \in [routes : RouteLists \cup {Nothing}, policies : PolicyLists \cup {Nothing}]
<1>1. Nothing \in Resources
  BY DEF Resources
<1>2. NoSnapshot \in Snapshots
  BY <1>1 DEF NoSnapshot, Snapshots
<1>3. NoStream \in Streams
  BY <1>1 DEF NoStream, Streams
<1>4. AtSelect \in Runs
  BY <1>2 DEF AtSelect, Runs, PCs
<1> QED
  BY <1>2, <1>3, <1>4 DEF NothingCached

\* What the Create methods make are resources.
LEMMA CreateMakesResources ==
    ASSUME NEW c \in Collections, NEW r \in RouteLists, NEW p \in PolicyLists, NEW k \in CertLists
    PROVE  Create(c, r, p, k) \subseteq Resources
BY DEF Resources

\* Picks picks one of the possible results for each collection.
LEMMA PicksRight ==
    ASSUME NEW possible, NEW made \in Picks(possible), NEW c \in DOMAIN possible
    PROVE  made[c] \in possible[c]
BY DEF Picks

\* The contents of a collection with a constant version do not depend on when
\* they were made.
LEMMA ConstantUnique ==
    ASSUME certs \in CertLists, NoRoutes \in RouteLists, policies \in PolicyLists,
           NEW old, NEW new, Constant(old), Constant(new),
           NEW c \in Collections \ Versioned
    PROVE  old[c].resources = new[c].resources
<1>1. /\ old[c].resources \in Create(c, NoRoutes, policies, certs)
      /\ new[c].resources \in Create(c, NoRoutes, policies, certs)
  BY DEF Constant
<1> QED
  BY <1>1, CreateAssumption
-----------------------------------------------------------------------------
(***************************************************************************)
(* The steps that change the snapshot or the stream.                       *)
(***************************************************************************)
\* Build leaves the cache alone, one version behind, and makes a snapshot of
\* the inputs that it remembers.
LEMMA BuildInv == Inv /\ Build => Inv'
<1> SUFFICES ASSUME Inv, Build PROVE Inv'
  OBVIOUS
<1> USE DEF Inv
<1> DEFINE possible == [c \in Collections |-> Create(c, run.routes, run.policies, certs)]
<1>1. PICK made \in Picks(possible) :
         run' = [run EXCEPT !.pc = "set",
                            !.shot = [c \in Collections |-> [version |-> VersionOf(c, ver + 1), resources |-> made[c]]]]
  BY DEF Build, increment
<1>2. /\ run.routes \in RouteLists /\ run.policies \in PolicyLists /\ certs \in CertLists
      /\ ver \in Nat /\ ver' = ver + 1 /\ run.pc = "compare" /\ run \in Runs
      /\ UNCHANGED <<routes, policies, certs, initialized, shot, stream, objects, refused>>
  BY DEF Build, Locals, Shape, increment
<1>3. \A c \in Collections : made[c] \in Create(c, run.routes, run.policies, certs)
  BY PicksRight
<1>4. \A c \in Collections : made[c] \in Resources
  BY <1>2, <1>3, CreateMakesResources
<1> HIDE DEF possible
<1>5. /\ run'.pc = "set" /\ run'.routes = run.routes /\ run'.policies = run.policies
      /\ run'.shot = [c \in Collections |-> [version |-> VersionOf(c, ver + 1), resources |-> made[c]]]
      /\ run' = [pc |-> "set", routes |-> run.routes, policies |-> run.policies, shot |-> run'.shot]
  BY <1>1, <1>2 DEF Runs
<1>6. run'.shot \in Snapshots
  BY <1>2, <1>4, <1>5 DEF Snapshots, VersionOf
<1>7. run' \in Runs
  BY <1>2, <1>5, <1>6 DEF Runs, PCs
<1>8. cached' = [routes |-> run.routes, policies |-> run.policies]
  BY DEF Build
<1>9. Shape'
  BY <1>2, <1>7, <1>8 DEF Shape
<1>10. Locals'
  BY <1>2, <1>5, <1>8 DEF Locals
<1>11. HasVersion(run'.shot, ver') /\ ver' >= 1
  BY <1>2, <1>5 DEF HasVersion
<1>12. FromCached(run.shot)'
  BY <1>2, <1>3, <1>5, <1>8 DEF FromCached
<1>13. Constant(run.shot)'
  <2> SUFFICES ASSUME NEW c \in Collections \ Versioned, NEW r \in RouteLists, NEW p \in PolicyLists
               PROVE  made[c] \in Create(c, r, p, certs)
    BY <1>2, <1>5 DEF Constant
  <2> QED
    BY <1>2, <1>3, CreateAssumption
<1>14. initialized => Published' = Published
  BY <1>2, <1>5 DEF Published
<1>15. Cache'
  <2>1. initialized => Published' >= 1 /\ HasVersion(shot, Published)' /\ Constant(shot)'
    BY <1>14, <1>2 DEF Cache, HasVersion, Constant
  <2>2. (HasVersion(run.shot, ver) /\ ver >= 1)'
    BY <1>11 DEF HasVersion
  <2> QED
    BY <2>1, <2>2, <1>2, <1>5, <1>12, <1>13 DEF Cache, NoSnapshot
<1>16. \A c \in Collections : InStream(c)'
  BY <1>2 DEF InStream
<1> QED
  BY <1>9, <1>10, <1>15, <1>16

\* Publish answers every watch whose version changes, and the watches whose
\* version is constant already hold what is published.
LEMMA PublishInv == Inv /\ Publish => Inv'
<1> SUFFICES ASSUME Inv, Publish PROVE Inv'
  OBVIOUS
<1> USE DEF Inv
<1>1. /\ run.pc = "set" /\ run \in Runs /\ run.shot \in Snapshots
      /\ ver \in Nat /\ stream \in Streams /\ shot \in Snapshots
      /\ shot' = run.shot /\ run' = AtSelect /\ initialized' = TRUE
      /\ UNCHANGED <<routes, policies, certs, cached, ver, objects, refused>>
  BY DEF Publish, SetSnapshot, Shape, Runs
<1>2. stream' = [c \in Collections |->
                    IF stream[c].at = "watch" /\ stream[c].version # run.shot[c].version
                    THEN Response(run.shot[c]) ELSE stream[c]]
  BY DEF Publish, SetSnapshot
<1>3. stream' \in Streams
  BY <1>1, <1>2 DEF Streams, Snapshots, Response
<1>4. Shape'
  BY <1>1, <1>3, EmptyShapes DEF Shape
<1>5. run'.pc = "select" /\ Published' = ver
  BY <1>1 DEF AtSelect, Published
<1>6. Locals'
  BY <1>1, <1>5 DEF Locals
<1>7. Cache'
  BY <1>1, <1>5 DEF Cache, HasVersion, Constant, FromCached
<1>8. ASSUME NEW c \in Collections PROVE InStream(c)'
  <2>1. /\ run.shot[c].version = VersionOf(c, ver) /\ ver >= 1
        /\ shot[c].version \in Nat /\ stream[c].version \in Nat
        /\ InStream(c)
    BY <1>1 DEF Cache, HasVersion, Snapshots, Streams
  <2>2. \/ /\ stream[c].at = "watch" /\ stream[c].version # run.shot[c].version
           /\ stream'[c].at = "response" /\ stream'[c].version = run.shot[c].version
           /\ stream'[c].resources = run.shot[c].resources
        \/ /\ stream[c].at # "watch" \/ stream[c].version = run.shot[c].version
           /\ stream'[c] = stream[c]
    BY <1>2 DEF Response
  <2>3. CASE ~initialized
    <3>1. stream[c].version = 0 /\ stream[c].at # "response" /\ run.shot[c].version >= 1
      BY <1>1, <2>1, <2>3 DEF InStream, Cache, NoSnapshot, VersionOf
    <3>2. shot'[c] = run.shot[c] /\ initialized' /\ run.shot[c].version \in Nat
      BY <1>1 DEF Snapshots
    <3>3. CASE stream'[c] = stream[c]
      BY <2>1, <2>2, <3>1, <3>2, <3>3 DEF InStream
    <3> QED
      BY <2>1, <2>2, <3>1, <3>2, <3>3 DEF InStream
  <2>4. CASE initialized /\ c \in Versioned
    <3>1. shot[c].version = ver - 1 /\ run.shot[c].version = ver
      BY <1>1, <2>1, <2>4 DEF Cache, HasVersion, VersionOf, Published
    <3>2. stream[c].version < run.shot[c].version
      BY <1>1, <2>1, <3>1 DEF InStream
    <3>3. shot'[c] = run.shot[c] /\ initialized' /\ run.shot[c].version \in Nat
      BY <1>1 DEF Snapshots
    <3>4. CASE stream'[c] = stream[c]
      BY <2>1, <2>2, <3>2, <3>3, <3>4 DEF InStream
    <3> QED
      BY <2>1, <2>2, <3>2, <3>3, <3>4 DEF InStream
  <2>5. CASE initialized /\ c \notin Versioned
    <3>1. shot[c].version = 1 /\ run.shot[c].version = 1
      BY <1>1, <2>1, <2>5 DEF Cache, HasVersion, VersionOf, Published
    <3>2. /\ Constant(shot) /\ Constant(run.shot) /\ c \in Collections \ Versioned
          /\ certs \in CertLists /\ NoRoutes \in RouteLists /\ policies \in PolicyLists
      BY <1>1, <2>5, BoundsAssumption DEF Cache, Shape
    <3>3. shot[c].resources = run.shot[c].resources
      BY <3>2, ConstantUnique
    <3> QED
      BY <1>1, <2>1, <2>2, <2>5, <3>1, <3>3 DEF InStream
  <2> QED
    BY <2>3, <2>4, <2>5
<1> QED
  BY <1>4, <1>6, <1>7, <1>8

\* A request is answered with what is in the cache or becomes a watch whose
\* version is that of the cache.
LEMMA WatchInv == ASSUME NEW c \in Collections PROVE Inv /\ Watch(c) => Inv'
<1> SUFFICES ASSUME Inv, Watch(c) PROVE Inv'
  OBVIOUS
<1> USE DEF Inv
<1>1. /\ stream \in Streams /\ shot \in Snapshots /\ stream[c].at = "request" /\ run.pc # "down"
      /\ UNCHANGED <<routes, policies, certs, run, cached, initialized, ver, shot, objects, refused>>
  BY DEF Watch, Shape, Up, copilotVars
<1>2. stream' = [stream EXCEPT ![c] = IF initialized /\ shot[c].version # stream[c].version
                                      THEN Response(shot[c])
                                      ELSE [stream[c] EXCEPT !.at = "watch"]]
  BY DEF Watch
<1>3. stream' \in Streams
  BY <1>1, <1>2 DEF Streams, Snapshots, Response
<1>4. Shape' /\ Locals' /\ Cache'
  BY <1>1, <1>3 DEF Shape, Locals, Cache, HasVersion, Constant, FromCached, Published
<1>5. \A d \in Collections \ {c} : InStream(d)'
  BY <1>1, <1>2 DEF InStream, Streams
<1>6. InStream(c)'
  <2>1. /\ InStream(c) /\ stream[c].version \in Nat /\ shot[c].version \in Nat
    BY <1>1 DEF Streams, Snapshots
  <2>2. CASE initialized /\ shot[c].version # stream[c].version
    <3>1. stream'[c] = Response(shot[c])
      BY <1>1, <1>2, <2>2 DEF Streams
    <3> QED
      BY <1>1, <2>1, <2>2, <3>1 DEF InStream, Response
  <2>3. CASE ~(initialized /\ shot[c].version # stream[c].version)
    <3>1. stream'[c] = [stream[c] EXCEPT !.at = "watch"]
      BY <1>1, <1>2, <2>3 DEF Streams
    <3>2. stream'[c].at = "watch" /\ stream'[c].version = stream[c].version
      BY <1>1, <3>1 DEF Streams
    <3>3. stream[c].version = shot[c].version
      BY <2>1, <2>3 DEF InStream, Cache, NoSnapshot
    <3> QED
      BY <1>1, <2>1, <3>2, <3>3 DEF InStream
  <2> QED
    BY <2>2, <2>3
<1> QED
  BY <1>4, <1>5, <1>6

\* The contents that Pilot applies belong to the version it acknowledges.
LEMMA ApplyInv == ASSUME NEW c \in Collections PROVE Inv /\ Apply(c) => Inv'
<1> SUFFICES ASSUME Inv, Apply(c) PROVE Inv'
  OBVIOUS
<1> USE DEF Inv
<1>1. /\ stream \in Streams /\ shot \in Snapshots /\ stream[c].at = "response"
      /\ objects \in [Collections -> Resources] /\ stream[c].resources \in Resources
      /\ UNCHANGED <<routes, policies, certs, run, cached, initialized, ver, shot>>
  BY DEF Apply, Shape, copilotVars, Streams
<1>2. /\ stream' = [stream EXCEPT ![c] = [at |-> "request", version |-> stream[c].version, resources |-> Nothing]]
      /\ objects' = [objects EXCEPT ![c] = stream[c].resources]
      /\ refused' = refused \ {c}
  BY DEF Apply, Request
<1>3. stream' \in Streams /\ objects' \in [Collections -> Resources] /\ refused' \subseteq Collections
  BY <1>1, <1>2 DEF Streams, Resources, Shape
<1>4. run.pc # "down"
  BY <1>1 DEF Cache, NoStream
<1>5. Shape' /\ Locals' /\ Cache'
  BY <1>1, <1>3, <1>4 DEF Shape, Locals, Cache, HasVersion, Constant, FromCached, Published
<1>6. \A d \in Collections \ {c} : InStream(d)'
  BY <1>1, <1>2 DEF InStream, Streams
<1>7. InStream(c)'
  <2>1. /\ stream'[c].at = "request" /\ stream'[c].version = stream[c].version
        /\ objects'[c] = stream[c].resources
    BY <1>1, <1>2 DEF Streams
  <2> QED
    BY <1>1, <2>1 DEF InStream
<1> QED
  BY <1>5, <1>6, <1>7

\* A response that Pilot refuses leaves its objects as they are, and no watch
\* that follows says anything about them.
LEMMA RefuseInv == ASSUME NEW c \in Collections PROVE Inv /\ Refuse(c) => Inv'
<1> SUFFICES ASSUME Inv, Refuse(c) PROVE Inv'
  OBVIOUS
<1> USE DEF Inv
<1>1. /\ stream \in Streams /\ shot \in Snapshots /\ stream[c].at = "response"
      /\ UNCHANGED <<routes, policies, certs, run, cached, initialized, ver, shot, objects>>
  BY DEF Refuse, Shape, copilotVars
<1>2. /\ stream' = [stream EXCEPT ![c] = [at |-> "request", version |-> stream[c].version, resources |-> Nothing]]
      /\ refused' = refused \cup {c}
  BY DEF Refuse, Request
<1>3. stream' \in Streams /\ refused' \subseteq Collections
  BY <1>1, <1>2 DEF Streams, Resources, Shape
<1>4. run.pc # "down"
  BY <1>1 DEF Cache, NoStream
<1>5. Shape' /\ Locals' /\ Cache'
  BY <1>1, <1>3, <1>4 DEF Shape, Locals, Cache, HasVersion, Constant, FromCached, Published
<1>6. \A d \in Collections \ {c} : InStream(d)'
  BY <1>1, <1>2 DEF InStream, Streams
<1>7. InStream(c)'
  <2>1. stream'[c].at = "request" /\ stream'[c].version = stream[c].version /\ c \in refused'
    BY <1>1, <1>2 DEF Streams
  <2> QED
    BY <1>1, <2>1 DEF InStream
<1> QED
  BY <1>5, <1>6, <1>7

\* Nothing is known of a stream that is closed or has just been opened.
LEMMA NewStreamInv ==
    ASSUME Inv, UNCHANGED <<routes, policies, certs, run, cached, initialized, ver, shot, objects, refused>>,
           NEW at \in {"closed", "request"}, at = "closed" \/ run.pc # "down",
           stream' = [c \in Collections |-> [at |-> at, version |-> 0, resources |-> Nothing]]
    PROVE  Inv'
<1> USE DEF Inv
<1>1. stream' \in Streams
  BY DEF Streams, Resources
<1>2. Shape' /\ Locals'
  BY <1>1 DEF Shape, Locals
<1>3. Cache'
  BY DEF Cache, HasVersion, Constant, FromCached, Published, NoStream
<1>4. ASSUME NEW c \in Collections PROVE InStream(c)'
  <2>1. shot[c].version \in Nat /\ (initialized => shot[c].version >= 1)
    BY DEF Shape, Snapshots, Cache, HasVersion, VersionOf
  <2> QED
    BY <2>1 DEF InStream
<1> QED
  BY <1>2, <1>3, <1>4

\* The inputs may change at any time.
LEMMA InputsInv ==
    ASSUME Inv, UNCHANGED <<certs, run, cached, initialized, ver, shot, stream, objects, refused>>,
           routes' \in RouteLists, policies' \in PolicyLists
    PROVE  Inv'
<1> USE DEF Inv
<1>1. Shape' /\ Locals' /\ Cache'
  BY DEF Shape, Locals, Cache, HasVersion, Constant, FromCached, Published
<1>2. \A c \in Collections : InStream(c)'
  BY DEF InStream
<1> QED
  BY <1>1, <1>2

\* The runner moves on without touching the cache.
LEMMA RunInv ==
    ASSUME Inv, UNCHANGED <<routes, policies, certs, cached, initialized, ver, shot, stream, objects, refused>>,
           run' \in Runs, Locals', run.pc # "set", run'.pc \notin {"set", "down"}
    PROVE  Inv'
<1> USE DEF Inv
<1>1. Shape'
  BY DEF Shape
<1>2. Cache'
  BY DEF Cache, HasVersion, Constant, FromCached, Published
<1>3. \A c \in Collections : InStream(c)'
  BY DEF InStream
<1> QED
  BY <1>1, <1>2, <1>3

\* A process that has ended knows nothing, and Pilot's stream is closed.
LEMMA DownInv == Inv /\ Down => Inv'
<1> SUFFICES ASSUME Inv, Down PROVE Inv'
  OBVIOUS
<1> USE DEF Inv
<1>1. /\ run' = [pc |-> "down", routes |-> Nothing, policies |-> Nothing, shot |-> NoSnapshot]
      /\ run'.pc = "down"
  BY DEF Down, AtSelect
<1>2. run' \in Runs
  BY <1>1, EmptyShapes DEF Runs, PCs
<1>3. initialized' = FALSE /\ ver' = 0 /\ shot' = NoSnapshot /\ stream' = NoStream
  BY DEF Down
<1>4. Shape'
  <2>1. /\ routes' \in RouteLists /\ policies' \in PolicyLists /\ certs' \in CertLists
        /\ objects' \in [Collections -> Resources] /\ cached' = NothingCached
        /\ refused' \subseteq Collections
    BY BoundsAssumption DEF Shape, Down
  <2>2. initialized' \in BOOLEAN
    BY <1>3
  <2> QED
    BY <1>2, <1>3, <2>1, <2>2, EmptyShapes DEF Shape
<1>5. Locals' /\ Cache'
  BY <1>1, <1>3 DEF Locals, Cache, NoSnapshot, NoStream
<1>6. \A c \in Collections : InStream(c)'
  BY <1>3 DEF InStream, NoStream, NoSnapshot
<1> QED
  BY <1>4, <1>5, <1>6

\* Other certificates come with a process that has published nothing yet.
LEMMA RestartInv == Inv /\ Restart => Inv'
<1> SUFFICES ASSUME Inv, Restart PROVE Inv'
  OBVIOUS
<1> USE DEF Inv
<1>1. /\ run.pc = "down" /\ run \in Runs /\ ~initialized
      /\ UNCHANGED <<routes, policies, cached, initialized, ver, shot, stream, objects, refused>>
      /\ certs' \in CertLists
  BY DEF Restart, Shape, Cache
<1>2. run' \in Runs /\ run'.pc = "select"
  BY <1>1 DEF Restart, Runs, PCs
<1>3. Shape'
  BY <1>1, <1>2 DEF Shape
<1>4. Locals' /\ Cache'
  BY <1>1, <1>2 DEF Locals, Cache, NoSnapshot
<1>5. \A c \in Collections : InStream(c)'
  BY <1>1 DEF InStream
<1> QED
  BY <1>3, <1>4, <1>5
-----------------------------------------------------------------------------
(***************************************************************************)
(* The invariant is inductive, and implies what the runs check.            *)
(***************************************************************************)
\* At the start nothing has been published and no stream is open.
LEMMA InitInv == Init => Inv
<1> SUFFICES ASSUME Init PROVE Inv
  OBVIOUS
<1>1. Shape
  <2>1. objects \in [Collections -> Resources]
    BY DEF Init, Resources
  <2> QED
    BY <2>1, EmptyShapes, BoundsAssumption DEF Init, Shape
<1>2. Locals /\ Cache
  BY DEF Init, Locals, Cache, AtSelect
<1>3. \A c \in Collections : InStream(c)
  BY DEF Init, InStream, NoStream, NoSnapshot
<1> QED
  BY <1>1, <1>2, <1>3 DEF Inv

\* Every step of copilot, of Pilot and of their surroundings preserves Inv.
LEMMA NextInv == Inv /\ [Next]_vars => Inv'
<1> SUFFICES ASSUME Inv, [Next]_vars PROVE Inv'
  OBVIOUS
<1>1. /\ Shape /\ Locals /\ run \in Runs
      /\ routes \in RouteLists /\ policies \in PolicyLists
  BY DEF Inv, Shape
<1>2. ASSUME NEW r \in RouteLists, RoutesChange(r) PROVE Inv'
  BY <1>1, <1>2, InputsInv DEF RoutesChange, copilotVars
<1>3. ASSUME NEW p \in PolicyLists, PoliciesChange(p) PROVE Inv'
  BY <1>1, <1>3, InputsInv DEF PoliciesChange, copilotVars
<1>4. CASE Tick
  <2>1. run' \in Runs /\ run'.pc = "policies" /\ run'.routes = routes
    BY <1>1, <1>4 DEF Tick, Runs, PCs
  <2>2. Locals'
    BY <1>1, <1>4, <2>1 DEF Tick, Locals
  <2> QED
    BY <1>4, <2>1, <2>2, RunInv DEF Tick
<1>5. CASE GetPolicies
  <2>1. run' \in Runs /\ run'.pc = "compare" /\ run'.routes = run.routes /\ run'.policies = policies
    BY <1>1, <1>5 DEF GetPolicies, Runs, PCs
  <2>2. Locals'
    BY <1>1, <1>5, <2>1 DEF GetPolicies, Locals
  <2> QED
    BY <1>5, <2>1, <2>2, RunInv DEF GetPolicies
<1>6. CASE GetPoliciesFails \/ Unchanged
  <2>1. run' \in Runs /\ run'.pc = "select"
    BY <1>6, EmptyShapes DEF GetPoliciesFails, Unchanged, AtSelect
  <2>2. Locals'
    BY <1>1, <1>6, <2>1 DEF GetPoliciesFails, Unchanged, Locals
  <2> QED
    BY <1>6, <2>1, <2>2, RunInv DEF GetPoliciesFails, Unchanged
<1>7. CASE GetPoliciesPanics
  <2>1. run' \in Runs /\ run'.pc = "panicked"
    BY <1>7, EmptyShapes DEF GetPoliciesPanics, AtSelect, Runs, PCs
  <2> USE DEF Inv
  <2>2. stream' = NoStream /\ run.pc = "policies"
        /\ UNCHANGED <<routes, policies, certs, cached, initialized, ver, shot, objects, refused>>
    BY <1>7 DEF GetPoliciesPanics
  <2>3. Shape'
    BY <2>1, <2>2, EmptyShapes DEF Shape
  <2>4. Locals' /\ Cache'
    BY <1>1, <2>1, <2>2 DEF Locals, Cache, HasVersion, Constant, FromCached, Published
  <2>5. \A c \in Collections : InStream(c)'
    BY <2>2 DEF InStream, NoStream, Shape, Snapshots
  <2> QED
    BY <2>3, <2>4, <2>5
<1>8. CASE Build
  BY <1>8, BuildInv
<1>9. CASE Publish
  BY <1>9, PublishInv
<1>10. CASE Mcp
  BY <1>10, WatchInv, ApplyInv, RefuseInv DEF Mcp
<1>11. CASE Connect
  BY <1>11, NewStreamInv DEF Connect, Up, copilotVars
<1>12. CASE Disconnect \/ PilotLeaves
  BY <1>12, NewStreamInv DEF Disconnect, PilotLeaves, NoStream, copilotVars
<1>13. CASE Signal
  <2>1. run' \in Runs /\ run'.pc = "exited"
    BY <1>13, EmptyShapes DEF Signal, AtSelect, Runs, PCs
  <2>2. Locals'
    BY <1>1, <1>13, <2>1 DEF Signal, Locals
  <2> QED
    BY <1>13, <2>1, <2>2, RunInv DEF Signal
<1>14. CASE GracefulStop
  <2>1. run' \in Runs /\ run'.pc = "stopping" /\ run.pc = "exited"
    BY <1>1, <1>14 DEF GracefulStop, Runs, PCs
  <2>2. Locals'
    BY <1>1, <1>14, <2>1 DEF GracefulStop, Locals
  <2> QED
    BY <1>14, <2>1, <2>2, RunInv DEF GracefulStop
<1>15. CASE Crash \/ Exit
  BY <1>15, DownInv DEF Crash, Exit
<1>16. CASE Restart
  BY <1>16, RestartInv
<1>17. CASE UNCHANGED vars
  BY <1>1, <1>17, InputsInv DEF vars, copilotVars
<1> QED
  BY <1>2, <1>3, <1>4, <1>5, <1>6, <1>7, <1>8, <1>9, <1>10, <1>11, <1>12, <1>13, <1>14, <1>15, <1>16, <1>17
  DEF Next, Runner

\* Inv holds in every reachable state.
THEOREM InductiveInvariant == Spec => []Inv
BY InitInv, NextInv, PTL DEF Spec

\* The parts of the state keep their shape, and neither the cache nor Pilot
\* ever has a version that increment has not issued since copilot started.
THEOREM TypeCorrect == Spec => []TypeOK
<1>1. Inv => TypeOK
  <2> SUFFICES ASSUME Inv PROVE TypeOK
    OBVIOUS
  <2> USE DEF Inv
  <2>1. \A c \in Collections : /\ shot[c].version \in 0 .. ver
                               /\ stream[c].version \in 0 .. ver
                               /\ stream[c].at \in {"closed", "request", "watch", "response"}
    <3> TAKE c \in Collections
    <3>1. /\ ver \in Nat /\ shot[c].version \in Nat /\ stream[c].version \in Nat
          /\ stream[c].at \in {"closed", "request", "watch", "response"}
          /\ stream[c].version <= shot[c].version
      BY DEF Shape, Snapshots, Streams, InStream
    <3>2. shot[c].version <= ver
      BY <3>1 DEF Cache, NoSnapshot, HasVersion, VersionOf, Published
    <3> QED
      BY <3>1, <3>2
  <2>2. run.pc \in PCs
    BY DEF Shape, Runs
  <2> QED
    BY <2>1, <2>2 DEF TypeOK, Shape, Locals, PCs
<1> QED
  BY <1>1, InductiveInvariant, PTL

\* While a watch is open, Pilot has refused the version in the cache or holds
\* what the cache holds, made of the routes and policies that Run compares the
\* next ones with.
THEOREM AcknowledgedIsCurrent == Spec => []AckMeansCurrent
<1>1. Inv => AckMeansCurrent
  BY DEF Inv, AckMeansCurrent, InStream, Cache, FromCached
<1> QED
  BY <1>1, InductiveInvariant, PTL
-----------------------------------------------------------------------------
(***************************************************************************)
(* The resources.  Every loop over the routes or the policies is shown to  *)
(* be a sequence of its intermediate results, to which LoopKeeps applies.  *)
(***************************************************************************)
Names == {Name(e) : e \in Entries}
Guids == {e.CapiProcessGUID : e \in Entries}

\* Maps from any of the keys K to values in V.
Maps(K, V) == UNION {[D -> V] : D \in SUBSET K}

\* Assigning to a key.
LEMMA PutInMaps ==
    ASSUME NEW K, NEW V, NEW m \in Maps(K, V), NEW k \in K, NEW v \in V
    PROVE  /\ Put(m, k, v) \in Maps(K, V)
           /\ DOMAIN Put(m, k, v) = DOMAIN m \cup {k}
           /\ Put(m, k, v)[k] = v
           /\ \A x \in DOMAIN m : x # k => Put(m, k, v)[x] = m[x]
<1>1. PICK D \in SUBSET K : m \in [D -> V]
  BY DEF Maps
<1>2. Put(m, k, v) \in [D \cup {k} -> V]
  BY <1>1 DEF Put
<1>3. D \cup {k} \in SUBSET K
  BY <1>1
<1> QED
  BY <1>1, <1>2, <1>3 DEF Maps, Put

\* A map has values for its keys.
LEMMA InMaps ==
    ASSUME NEW K, NEW V, NEW m \in Maps(K, V)
    PROVE  DOMAIN m \subseteq K /\ (\A k \in DOMAIN m : m[k] \in V) /\ m = [k \in DOMAIN m |-> m[k]]
BY DEF Maps

\* The empty map is one.
LEMMA EmptyInMaps == \A K, V : EmptyMap \in Maps(K, V) /\ DOMAIN EmptyMap = {}
<1> SUFFICES ASSUME NEW K, NEW V PROVE EmptyMap \in Maps(K, V) /\ DOMAIN EmptyMap = {}
  OBVIOUS
<1>1. EmptyMap \in [{} -> V] /\ DOMAIN EmptyMap = {}
  BY DEF EmptyMap
<1>2. {} \in SUBSET K
  OBVIOUS
<1> QED
  BY <1>1, <1>2 DEF Maps

Rule == [Host : {e.Hostname : e \in Entries}, Subsets : Seq(Guids)]

\* One more subset keeps the destination rules destination rules.
LEMMA AddSubsetType ==
    ASSUME NEW rules \in Maps(Names, Rule), NEW e \in Entries
    PROVE  AddSubset(rules, e) \in Maps(Names, Rule)
<1>1. Subsets(rules, Name(e)) \in Seq(Guids)
  <2>1. CASE Name(e) \in DOMAIN rules
    <3>1. rules[Name(e)] \in Rule
      BY <2>1, InMaps
    <3> QED
      BY <2>1, <3>1 DEF Subsets, Rule
  <2>2. CASE Name(e) \notin DOMAIN rules
    BY <2>2 DEF Subsets
  <2> QED
    BY <2>1, <2>2
<1>2. Append(Subsets(rules, Name(e)), e.CapiProcessGUID) \in Seq(Guids)
  BY <1>1 DEF Guids
<1>3. [Host |-> e.Hostname, Subsets |-> Append(Subsets(rules, Name(e)), e.CapiProcessGUID)] \in Rule
  BY <1>2 DEF Rule
<1>4. Name(e) \in Names
  BY DEF Names
<1> QED
  BY <1>3, <1>4, PutInMaps DEF AddSubset

\* The loop over the routes that makes the destination rules.
LEMMA RulesLoop ==
    ASSUME NEW list \in Seq(Entries)
    PROVE  \E g \in [0 .. Len(list) -> Maps(Names, Rule)] :
              /\ g[0] = EmptyMap
              /\ \A i \in 1 .. Len(list) : g[i] = AddSubset(g[i - 1], list[i])
              /\ CreateDestinationRuleResources(list) = g[Len(list)]
<1> DEFINE n == Len(list)
           A == Maps(Names, Rule)
           F == [p \in A \X Entries |-> AddSubset(p[1], p[2])]
           b == EmptyMap
           Solves(f) == f = [s \in SUBSET DOMAIN list |->
                                IF s = {} THEN b ELSE AddSubset(f[s \ {Max(s)}], list[Max(s)])]
           iter == CHOOSE f : Solves(f)
<1>1. n \in Nat /\ DOMAIN list = 1 .. n /\ list \in [1 .. n -> Entries]
  OBVIOUS
<1>2. CreateDestinationRuleResources(list) = iter[DOMAIN list]
  BY DEF CreateDestinationRuleResources, FoldLeft, MapThenFoldSet
<1>3. F \in [A \X Entries -> A] /\ \A a \in A, e \in Entries : F[<<a, e>>] = AddSubset(a, e)
  BY AddSubsetType
<1>4. b \in A
  BY EmptyInMaps
<1> HIDE DEF A, F, n, b
<1>5. ASSUME NEW f, NEW s \in SUBSET (1 .. n), s # {}, f[s \ {Max(s)}] \in A
      PROVE  F[<<f[s \ {Max(s)}], list[Max(s)]>>] = AddSubset(f[s \ {Max(s)}], list[Max(s)])
  <2>1. Max(s) \in 1 .. n
    BY <1>1, <1>5, LastPosition DEF Max
  <2> QED
    BY <1>1, <1>3, <1>5, <2>1
<1>6. \E f : Solves(f)
  <2>1. PICK f \in [SUBSET (1 .. n) -> A] : Folds(f, F, b, list, n)
    BY <1>1, <1>3, <1>4, FoldSolvable
  <2>2. \A s \in SUBSET (1 .. n) : f[s \ {Max(s)}] \in A
    BY <2>1
  <2>3. \A s \in SUBSET (1 .. n) :
            f[s] = IF s = {} THEN b ELSE AddSubset(f[s \ {Max(s)}], list[Max(s)])
    BY <1>5, <2>1, <2>2 DEF Folds
  <2> QED
    BY <1>1, <2>1, <2>3
<1>7. Solves(iter)
  BY <1>6
<1> HIDE DEF iter
<1>8. FoldsIn(iter, A, F, b, list, n)
  BY <1>1, <1>5, <1>7 DEF FoldsIn
<1>9. PICK g \in [0 .. n -> A] : LoopOf(g, F, b, list, n, iter[1 .. n])
  BY <1>1, <1>3, <1>4, <1>8, FoldRuns
<1>10. g[0] = b /\ \A i \in 1 .. n : g[i] = AddSubset(g[i - 1], list[i])
  <2>1. \A i \in 1 .. n : g[i - 1] \in A /\ list[i] \in Entries
    BY <1>1, <1>9
  <2> QED
    BY <1>3, <1>9, <2>1 DEF LoopOf
<1> QED
  BY <1>1, <1>2, <1>9, <1>10 DEF A, n, b, LoopOf

Keys == {routeKey(e) : e \in Entries}
Destinations == {createDestinationWeight(e) : e \in Entries}
Service == [Gateway : BOOLEAN, Http : Seq(Keys)]
HTTPRoute == [Prefix : {<<>>} \cup {e.Path : e \in Entries}, Retries : {0, 3}, Route : Seq(Destinations)]
ServiceState == [services : Maps(Names, Service), httpRoutes : Maps(Keys, HTTPRoute)]
NoServices == [services |-> EmptyMap, httpRoutes |-> EmptyMap]

\* The list of a virtual service after an entry, and the entry's HTTP route.
HttpAfter(acc, e) ==
    LET http == Http(acc.services, Name(e))
    IN  IF routeKey(e) \in DOMAIN acc.httpRoutes THEN http
        ELSE IF e.Path # <<>> THEN <<routeKey(e)>> \o http
        ELSE Append(http, routeKey(e))
RouteAfter(acc, e) ==
    LET h == acc.httpRoutes[routeKey(e)]
    IN  IF routeKey(e) \in DOMAIN acc.httpRoutes
        THEN [h EXCEPT !.Route = Append(h.Route, createDestinationWeight(e))]
        ELSE createHTTPRoute(e)

\* An entry changes one virtual service and one HTTP route.
LEMMA AddHTTPRouteIs ==
    \A acc, e :
        AddHTTPRoute(acc, e) =
            [services |-> Put(acc.services, Name(e), [Gateway |-> ~e.Internal, Http |-> HttpAfter(acc, e)]),
             httpRoutes |-> Put(acc.httpRoutes, routeKey(e), RouteAfter(acc, e))]
BY DEF AddHTTPRoute, HttpAfter, RouteAfter

\* What an entry adds to a virtual service.
LEMMA HttpAfterRight ==
    ASSUME NEW acc \in ServiceState, NEW e \in Entries
    PROVE  /\ Http(acc.services, Name(e)) \in Seq(Keys)
           /\ HttpAfter(acc, e) \in Seq(Keys)
           /\ [Gateway |-> ~e.Internal, Http |-> HttpAfter(acc, e)] \in Service
<1>1. acc.services \in Maps(Names, Service) /\ routeKey(e) \in Keys
  BY DEF ServiceState, Keys
<1>2. Http(acc.services, Name(e)) \in Seq(Keys)
  <2>1. CASE Name(e) \in DOMAIN acc.services
    <3>1. acc.services[Name(e)] \in Service
      BY <1>1, <2>1, InMaps
    <3> QED
      BY <2>1, <3>1 DEF Http, Service
  <2>2. CASE Name(e) \notin DOMAIN acc.services
    BY <2>2 DEF Http
  <2> QED
    BY <2>1, <2>2
<1>3. HttpAfter(acc, e) \in Seq(Keys)
  <2> DEFINE http == Http(acc.services, Name(e))
  <2>1. http \in Seq(Keys)
    BY <1>2
  <2> HIDE DEF http
  <2>2. Append(http, routeKey(e)) \in Seq(Keys) /\ <<routeKey(e)>> \o http \in Seq(Keys)
    <3> DEFINE k == routeKey(e)
    <3>1. k \in Keys
      BY <1>1
    <3> HIDE DEF k
    <3>2. Append(http, k) \in Seq(Keys) /\ <<k>> \o http \in Seq(Keys)
      BY <2>1, <3>1
    <3> QED
      BY <3>2 DEF k
  <2> QED
    BY <2>1, <2>2 DEF HttpAfter, http
<1>4. (~e.Internal) \in BOOLEAN
  BY EntriesAssumption
<1> QED
  BY <1>2, <1>3, <1>4 DEF Service

\* What an entry makes of its HTTP route.
LEMMA RouteAfterRight ==
    ASSUME NEW acc \in ServiceState, NEW e \in Entries
    PROVE  RouteAfter(acc, e) \in HTTPRoute
<1>1. acc.httpRoutes \in Maps(Keys, HTTPRoute) /\ createDestinationWeight(e) \in Destinations
  BY DEF ServiceState, Destinations
<1>2. CASE routeKey(e) \in DOMAIN acc.httpRoutes
  <2> DEFINE h == acc.httpRoutes[routeKey(e)]
  <2>1. h \in HTTPRoute
    BY <1>1, <1>2, InMaps
  <2> HIDE DEF h
  <2>2. h.Route \in Seq(Destinations)
    BY <2>1 DEF HTTPRoute
  <2>3. Append(h.Route, createDestinationWeight(e)) \in Seq(Destinations)
    BY <1>1, <2>2
  <2> QED
    BY <1>2, <2>1, <2>3 DEF RouteAfter, HTTPRoute, h
<1>3. CASE routeKey(e) \notin DOMAIN acc.httpRoutes
  <2>1. <<createDestinationWeight(e)>> \in Seq(Destinations)
    BY <1>1
  <2> QED
    BY <1>3, <2>1 DEF RouteAfter, createHTTPRoute, HTTPRoute
<1> QED
  BY <1>2, <1>3

\* The loop keeps its variables what they are.
LEMMA AddHTTPRouteType ==
    ASSUME NEW acc \in ServiceState, NEW e \in Entries
    PROVE  AddHTTPRoute(acc, e) \in ServiceState
<1>1. Name(e) \in Names /\ routeKey(e) \in Keys
  BY DEF Names, Keys
<1>2. acc.services \in Maps(Names, Service) /\ acc.httpRoutes \in Maps(Keys, HTTPRoute)
  BY DEF ServiceState
<1>3. Put(acc.services, Name(e), [Gateway |-> ~e.Internal, Http |-> HttpAfter(acc, e)]) \in Maps(Names, Service)
  BY <1>1, <1>2, HttpAfterRight, PutInMaps
<1>4. Put(acc.httpRoutes, routeKey(e), RouteAfter(acc, e)) \in Maps(Keys, HTTPRoute)
  BY <1>1, <1>2, RouteAfterRight, PutInMaps
<1> QED
  BY <1>3, <1>4, AddHTTPRouteIs DEF ServiceState

\* It begins with nothing.
LEMMA NoServicesType == NoServices \in ServiceState
BY EmptyInMaps DEF NoServices, ServiceState

\* The loop over the routes that makes the virtual services.
LEMMA ServicesLoop ==
    ASSUME NEW list \in Seq(Entries)
    PROVE  \E g \in [0 .. Len(list) -> ServiceState] :
              /\ g[0] = NoServices
              /\ \A i \in 1 .. Len(list) : g[i] = AddHTTPRoute(g[i - 1], list[i])
              /\ FoldLeft(AddHTTPRoute, [services |-> EmptyMap, httpRoutes |-> EmptyMap], list) = g[Len(list)]
<1> DEFINE n == Len(list)
           A == ServiceState
           F == [p \in A \X Entries |-> AddHTTPRoute(p[1], p[2])]
           b == NoServices
           Solves(f) == f = [s \in SUBSET DOMAIN list |->
                                IF s = {} THEN b ELSE AddHTTPRoute(f[s \ {Max(s)}], list[Max(s)])]
           iter == CHOOSE f : Solves(f)
<1>1. n \in Nat /\ DOMAIN list = 1 .. n /\ list \in [1 .. n -> Entries]
  OBVIOUS
<1>2. FoldLeft(AddHTTPRoute, [services |-> EmptyMap, httpRoutes |-> EmptyMap], list) = iter[DOMAIN list]
  BY DEF NoServices, FoldLeft, MapThenFoldSet
<1>3. F \in [A \X Entries -> A] /\ \A a \in A, e \in Entries : F[<<a, e>>] = AddHTTPRoute(a, e)
  BY AddHTTPRouteType
<1>4. b \in A
  BY NoServicesType
<1> HIDE DEF A, F, n, b
<1>5. ASSUME NEW f, NEW s \in SUBSET (1 .. n), s # {}, f[s \ {Max(s)}] \in A
      PROVE  F[<<f[s \ {Max(s)}], list[Max(s)]>>] = AddHTTPRoute(f[s \ {Max(s)}], list[Max(s)])
  <2>1. Max(s) \in 1 .. n
    BY <1>1, <1>5, LastPosition DEF Max
  <2> QED
    BY <1>1, <1>3, <1>5, <2>1
<1>6. \E f : Solves(f)
  <2>1. PICK f \in [SUBSET (1 .. n) -> A] : Folds(f, F, b, list, n)
    BY <1>1, <1>3, <1>4, FoldSolvable
  <2>2. \A s \in SUBSET (1 .. n) : f[s \ {Max(s)}] \in A
    BY <2>1
  <2>3. \A s \in SUBSET (1 .. n) :
            f[s] = IF s = {} THEN b ELSE AddHTTPRoute(f[s \ {Max(s)}], list[Max(s)])
    BY <1>5, <2>1, <2>2 DEF Folds
  <2> QED
    BY <1>1, <2>1, <2>3
<1>7. Solves(iter)
  BY <1>6
<1> HIDE DEF iter
<1>8. FoldsIn(iter, A, F, b, list, n)
  BY <1>1, <1>5, <1>7 DEF FoldsIn
<1>9. PICK g \in [0 .. n -> A] : LoopOf(g, F, b, list, n, iter[1 .. n])
  BY <1>1, <1>3, <1>4, <1>8, FoldRuns
<1>10. g[0] = b /\ \A i \in 1 .. n : g[i] = AddHTTPRoute(g[i - 1], list[i])
  <2>1. \A i \in 1 .. n : g[i - 1] \in A /\ list[i] \in Entries
    BY <1>1, <1>9
  <2> QED
    BY <1>3, <1>9, <2>1 DEF LoopOf
<1> QED
  BY <1>1, <1>2, <1>9, <1>10 DEF A, n, b, LoopOf
-----------------------------------------------------------------------------
(***************************************************************************)
(* What the virtual services are after k entries of a list.                *)
(***************************************************************************)
\* The keys of a name, and the destinations of a key.
KeysOf(list, k, name) == {routeKey(list[i]) : i \in {i \in 1 .. k : Name(list[i]) = name}}
DestinationsOf(list, k, key) == {createDestinationWeight(list[i]) : i \in {i \in 1 .. k : routeKey(list[i]) = key}}

\* No host and path is both internal and external.
Apart(list) == \A i, j \in DOMAIN list : routeKey(list[i]) = routeKey(list[j]) => list[i].Internal = list[j].Internal

\* Before an entry with a path there are only entries with paths that are not longer.
Ascending(list) ==
    \A i, j \in DOMAIN list :
        i < j /\ list[j].Path # <<>> => Len(list[i].Path) <= Len(list[j].Path)

HTTPRoutesRight(routes_, list, k) ==
    /\ DOMAIN routes_ = {routeKey(list[i]) : i \in 1 .. k}
    /\ \A i \in 1 .. k :
          routes_[routeKey(list[i])].Prefix = IF list[i].Internal THEN <<>> ELSE list[i].Path
    /\ \A key \in DOMAIN routes_ : Range(routes_[key].Route) = DestinationsOf(list, k, key)

\* Each virtual service has the keys of its name, longer paths first.
LongerFirst(http) == \A a, b \in DOMAIN http : a < b => Len(http[a][2]) >= Len(http[b][2])

ServicesRight(services, list, k) ==
    /\ DOMAIN services = {Name(list[i]) : i \in 1 .. k}
    /\ \A name \in DOMAIN services : /\ Range(services[name].Http) = KeysOf(list, k, name)
                                     /\ LongerFirst(services[name].Http)

\* Appending and prepending add one element.
LEMMA RangeMore ==
    ASSUME NEW X, NEW s \in Seq(X), NEW x \in X
    PROVE  /\ Range(Append(s, x)) = Range(s) \cup {x}
           /\ Range(<<x>> \o s) = Range(s) \cup {x}
<1>1. Len(s) \in Nat /\ DOMAIN s = 1 .. Len(s)
  OBVIOUS
<1>2. Range(Append(s, x)) = Range(s) \cup {x}
  <2> DEFINE t == Append(s, x)
  <2>1. /\ DOMAIN t = 1 .. Len(s) + 1 /\ t[Len(s) + 1] = x
        /\ \A i \in 1 .. Len(s) : t[i] = s[i]
    BY <1>1
  <2> HIDE DEF t
  <2>2. \A i \in DOMAIN t : t[i] \in Range(s) \cup {x}
    BY <1>1, <2>1 DEF Range
  <2>3. \A y \in Range(s) \cup {x} : \E i \in DOMAIN t : t[i] = y
    BY <1>1, <2>1 DEF Range
  <2> QED
    BY <2>2, <2>3 DEF Range, t
<1>3. Range(<<x>> \o s) = Range(s) \cup {x}
  <2> DEFINE t == <<x>> \o s
  <2>1. /\ DOMAIN t = 1 .. Len(s) + 1 /\ t[1] = x
        /\ \A i \in 1 .. Len(s) : t[i + 1] = s[i]
    BY <1>1
  <2> HIDE DEF t
  <2>2. \A i \in DOMAIN t : t[i] \in Range(s) \cup {x}
    <3> SUFFICES ASSUME NEW i \in DOMAIN t, i # 1 PROVE t[i] \in Range(s) \cup {x}
      BY <2>1
    <3>1. i - 1 \in 1 .. Len(s) /\ (i - 1) + 1 = i
      BY <1>1, <2>1
    <3>2. t[i] = s[i - 1]
      BY <2>1, <3>1
    <3> QED
      BY <1>1, <3>1, <3>2 DEF Range
  <2>3. \A y \in Range(s) \cup {x} : \E i \in DOMAIN t : t[i] = y
    <3>1. 1 \in DOMAIN t /\ \A i \in 1 .. Len(s) : i + 1 \in DOMAIN t
      BY <1>1, <2>1
    <3> QED
      BY <1>1, <2>1, <3>1 DEF Range
  <2> QED
    BY <2>2, <2>3 DEF Range, t
<1> QED
  BY <1>2, <1>3

\* One entry more.
LEMMA OneEntryMore ==
    ASSUME NEW list, NEW k \in Nat \ {0}
    PROVE  /\ \A i \in 1 .. k : i = k \/ i \in 1 .. k - 1
           /\ \A i \in 1 .. k - 1 : i \in 1 .. k /\ i < k
           /\ {Name(list[i]) : i \in 1 .. k} = {Name(list[i]) : i \in 1 .. k - 1} \cup {Name(list[k])}
           /\ {routeKey(list[i]) : i \in 1 .. k} = {routeKey(list[i]) : i \in 1 .. k - 1} \cup {routeKey(list[k])}
           /\ \A name : KeysOf(list, k, name) = IF Name(list[k]) = name
                                                THEN KeysOf(list, k - 1, name) \cup {routeKey(list[k])}
                                                ELSE KeysOf(list, k - 1, name)
           /\ \A key : DestinationsOf(list, k, key) = IF routeKey(list[k]) = key
                                                      THEN DestinationsOf(list, k - 1, key) \cup {createDestinationWeight(list[k])}
                                                      ELSE DestinationsOf(list, k - 1, key)
<1>1. 1 .. k = (1 .. k - 1) \cup {k} /\ k \in 1 .. k
  OBVIOUS
<1>2. ASSUME NEW name
      PROVE KeysOf(list, k, name) = IF Name(list[k]) = name
                                    THEN KeysOf(list, k - 1, name) \cup {routeKey(list[k])}
                                    ELSE KeysOf(list, k - 1, name)
  BY <1>1 DEF KeysOf
<1>3. ASSUME NEW key
      PROVE DestinationsOf(list, k, key) = IF routeKey(list[k]) = key
                                           THEN DestinationsOf(list, k - 1, key) \cup {createDestinationWeight(list[k])}
                                           ELSE DestinationsOf(list, k - 1, key)
  BY <1>1 DEF DestinationsOf
<1>4. /\ {Name(list[i]) : i \in 1 .. k} = {Name(list[i]) : i \in 1 .. k - 1} \cup {Name(list[k])}
      /\ {routeKey(list[i]) : i \in 1 .. k} = {routeKey(list[i]) : i \in 1 .. k - 1} \cup {routeKey(list[k])}
  BY <1>1
<1> QED
  BY <1>1, <1>2, <1>3, <1>4

\* An entry keeps the HTTP routes right.
LEMMA HTTPRoutesStep ==
    ASSUME NEW list \in Seq(Entries), Apart(list), NEW k \in 1 .. Len(list),
           NEW acc \in ServiceState, HTTPRoutesRight(acc.httpRoutes, list, k - 1)
    PROVE  HTTPRoutesRight(AddHTTPRoute(acc, list[k]).httpRoutes, list, k)
<1> DEFINE e == list[k]
           m == acc.httpRoutes
           key == routeKey(e)
           v == RouteAfter(acc, e)
           p == Put(m, key, v)
           d == createDestinationWeight(e)
<1>1. e \in Entries /\ k \in Nat \ {0} /\ DOMAIN list = 1 .. Len(list) /\ 1 .. k \subseteq DOMAIN list
  OBVIOUS
<1>2. m \in Maps(Keys, HTTPRoute) /\ key \in Keys /\ v \in HTTPRoute /\ d \in Destinations
  BY <1>1, RouteAfterRight DEF ServiceState, Keys, Destinations
<1>3. AddHTTPRoute(acc, e).httpRoutes = p
  BY AddHTTPRouteIs
<1>4. /\ DOMAIN p = DOMAIN m \cup {key} /\ p[key] = v
      /\ \A x \in DOMAIN m : x # key => p[x] = m[x]
  BY DEF Put
<1>5. key \in DOMAIN m => m[key] \in HTTPRoute
  BY <1>2, InMaps
<1>6. \A i \in 1 .. k : routeKey(list[i]) = key => list[i].Path = e.Path /\ list[i].Internal = e.Internal
  BY <1>1 DEF Apart, routeKey
<1> HIDE DEF p
<1>7. v.Prefix = IF e.Internal THEN <<>> ELSE e.Path
  <2>1. CASE key \in DOMAIN m
    <3>1. PICK i \in 1 .. k - 1 : routeKey(list[i]) = key
      BY <2>1 DEF HTTPRoutesRight
    <3>2. m[key].Prefix = IF list[i].Internal THEN <<>> ELSE list[i].Path
      BY <3>1 DEF HTTPRoutesRight
    <3>3. i \in 1 .. k
      BY <1>1, <3>1
    <3>4. v.Prefix = m[key].Prefix
      BY <1>5, <2>1 DEF RouteAfter, HTTPRoute
    <3> QED
      BY <1>6, <3>1, <3>2, <3>3, <3>4
  <2>2. CASE key \notin DOMAIN m
    BY <2>2 DEF RouteAfter, createHTTPRoute
  <2> QED
    BY <2>1, <2>2
<1>8. Range(v.Route) = DestinationsOf(list, k, key)
  <2>1. DestinationsOf(list, k, key) = DestinationsOf(list, k - 1, key) \cup {d}
    BY <1>1, OneEntryMore
  <2>2. CASE key \in DOMAIN m
    <3>1. v.Route = Append(m[key].Route, d) /\ m[key].Route \in Seq(Destinations)
      BY <1>5, <2>2 DEF RouteAfter, HTTPRoute
    <3>2. Range(m[key].Route) = DestinationsOf(list, k - 1, key)
      BY <2>2 DEF HTTPRoutesRight
    <3>3. Range(Append(m[key].Route, d)) = Range(m[key].Route) \cup {d}
      <4> DEFINE h == m[key].Route
      <4> HIDE DEF d, h
      <4>1. d \in Destinations
        BY <1>2
      <4>2. h \in Seq(Destinations)
        BY <3>1 DEF h
      <4>3. Range(Append(h, d)) = Range(h) \cup {d} /\ Range(<<d>> \o h) = Range(h) \cup {d}
        BY <4>1, <4>2, RangeMore
      <4> QED
        BY <4>3 DEF h
    <3> QED
      BY <2>1, <3>1, <3>2, <3>3
  <2>3. CASE key \notin DOMAIN m
    <3>1. v.Route = <<d>>
      BY <2>3 DEF RouteAfter, createHTTPRoute
    <3>2. DestinationsOf(list, k - 1, key) = {}
      BY <2>3 DEF HTTPRoutesRight, DestinationsOf
    <3>3. Range(<<d>>) = {d}
      BY DEF Range
    <3> QED
      BY <2>1, <3>1, <3>2, <3>3
  <2> QED
    BY <2>2, <2>3
<1> HIDE DEF key, v, m
<1>9. DOMAIN p = {routeKey(list[i]) : i \in 1 .. k}
  <2>1. {routeKey(list[i]) : i \in 1 .. k} = {routeKey(list[i]) : i \in 1 .. k - 1} \cup {routeKey(list[k])}
    BY <1>1, OneEntryMore
  <2>2. DOMAIN m = {routeKey(list[i]) : i \in 1 .. k - 1}
    BY DEF HTTPRoutesRight, m
  <2> QED
    BY <1>4, <2>1, <2>2 DEF key
<1>10. ASSUME NEW i \in 1 .. k
       PROVE  p[routeKey(list[i])].Prefix = IF list[i].Internal THEN <<>> ELSE list[i].Path
  <2>1. CASE routeKey(list[i]) = key
    BY <1>4, <1>6, <1>7, <2>1
  <2>2. CASE routeKey(list[i]) # key
    <3>1. i \in 1 .. k - 1
      BY <1>1, <2>2, OneEntryMore DEF key
    <3>2. /\ routeKey(list[i]) \in DOMAIN m
          /\ m[routeKey(list[i])].Prefix = IF list[i].Internal THEN <<>> ELSE list[i].Path
      BY <3>1 DEF HTTPRoutesRight, m
    <3> QED
      BY <1>4, <2>2, <3>2
  <2> QED
    BY <2>1, <2>2
<1>11. ASSUME NEW x \in DOMAIN p
       PROVE  Range(p[x].Route) = DestinationsOf(list, k, x)
  <2>1. CASE x = key
    BY <1>4, <1>8, <2>1
  <2>2. CASE x # key
    <3>1. x \in DOMAIN m /\ p[x] = m[x]
      BY <1>4, <2>2
    <3>2. Range(m[x].Route) = DestinationsOf(list, k - 1, x)
      BY <3>1 DEF HTTPRoutesRight, m
    <3>3. DestinationsOf(list, k, x) = DestinationsOf(list, k - 1, x)
      BY <1>1, <2>2, OneEntryMore DEF key
    <3> QED
      BY <3>1, <3>2, <3>3
  <2> QED
    BY <2>1, <2>2
<1> QED
  BY <1>3, <1>9, <1>10, <1>11 DEF HTTPRoutesRight

\* An entry keeps the virtual services right.
LEMMA ServicesStep ==
    ASSUME NEW list \in Seq(Entries), Apart(list), Ascending(list), NEW k \in 1 .. Len(list),
           NEW acc \in ServiceState, HTTPRoutesRight(acc.httpRoutes, list, k - 1),
           ServicesRight(acc.services, list, k - 1)
    PROVE  ServicesRight(AddHTTPRoute(acc, list[k]).services, list, k)
<1> DEFINE e == list[k]
           m == acc.services
           name == Name(e)
           key == routeKey(e)
           http == Http(m, name)
           new == HttpAfter(acc, e)
           v == [Gateway |-> ~e.Internal, Http |-> new]
           p == Put(m, name, v)
<1>1. e \in Entries /\ k \in Nat \ {0} /\ DOMAIN list = 1 .. Len(list) /\ 1 .. k \subseteq DOMAIN list
  OBVIOUS
<1>2. m \in Maps(Names, Service) /\ name \in Names /\ v \in Service /\ key \in Keys
  BY <1>1, HttpAfterRight DEF ServiceState, Names, Keys
<1>3. AddHTTPRoute(acc, e).services = p
  BY AddHTTPRouteIs
<1>4. /\ DOMAIN p = DOMAIN m \cup {name} /\ p[name] = v
      /\ \A x \in DOMAIN m : x # name => p[x] = m[x]
  BY DEF Put
<1>5. http \in Seq(Keys) /\ new \in Seq(Keys)
  BY <1>1, HttpAfterRight
<1>6. new = IF key \in DOMAIN acc.httpRoutes THEN http
            ELSE IF e.Path # <<>> THEN <<key>> \o http ELSE Append(http, key)
  BY DEF HttpAfter
<1>7. Range(http) = KeysOf(list, k - 1, name) /\ LongerFirst(http)
  <2>1. CASE name \in DOMAIN m
    BY <2>1 DEF ServicesRight, Http
  <2>2. CASE name \notin DOMAIN m
    <3>1. http = <<>>
      BY <2>2 DEF Http
    <3>2. KeysOf(list, k - 1, name) = {}
      BY <2>2 DEF KeysOf, ServicesRight
    <3> HIDE DEF http
    <3> QED
      BY <3>1, <3>2 DEF Range, LongerFirst
  <2> QED
    BY <2>1, <2>2
<1>8. v.Http = new
  OBVIOUS
<1> HIDE DEF p, v, http, new
<1>9. Range(new) = KeysOf(list, k, name)
  <2>1. KeysOf(list, k, name) = KeysOf(list, k - 1, name) \cup {key}
    BY <1>1, OneEntryMore
  <2>2. CASE key \in DOMAIN acc.httpRoutes
    <3>1. PICK i \in 1 .. k - 1 : routeKey(list[i]) = key
      BY <2>2 DEF HTTPRoutesRight
    <3>2. i \in 1 .. k
      BY <1>1, <3>1
    <3>3. list[i].Internal = e.Internal /\ list[i].Hostname = e.Hostname
      BY <1>1, <3>1, <3>2 DEF Apart, routeKey
    <3>4. key \in KeysOf(list, k - 1, name)
      BY <3>1, <3>3 DEF KeysOf, Name
    <3> QED
      BY <1>6, <1>7, <2>1, <2>2, <3>4
  <2>3. CASE key \notin DOMAIN acc.httpRoutes
    <3> HIDE DEF key
    <3>1. Range(Append(http, key)) = Range(http) \cup {key} /\ Range(<<key>> \o http) = Range(http) \cup {key}
      BY <1>2, <1>5, RangeMore
    <3> QED
      BY <1>6, <1>7, <2>1, <2>3, <3>1
  <2> QED
    BY <2>2, <2>3
<1>10. LongerFirst(new)
  <2>1. Len(http) \in Nat /\ DOMAIN http = 1 .. Len(http) /\ \A a \in DOMAIN http : http[a] \in Range(http)
    BY <1>5 DEF Range
  <2>2. \A a \in DOMAIN http : \E i \in 1 .. k - 1 : http[a] = routeKey(list[i])
    BY <1>7, <2>1 DEF KeysOf
  <2>3. \A i \in 1 .. k - 1 : Len(list[i].Path) \in Nat /\ routeKey(list[i])[2] = list[i].Path
    <3> TAKE i \in 1 .. k - 1
    <3>1. list[i] \in Entries
      BY <1>1
    <3> QED
      BY <3>1, EntriesAssumption DEF routeKey
  <2>4. key[2] = e.Path /\ Len(e.Path) \in Nat
    BY <1>1, EntriesAssumption DEF routeKey
  <2> HIDE DEF key
  <2>5. CASE e.Path # <<>>
    <3> DEFINE t == <<key>> \o http
    <3>1. DOMAIN t = 1 .. Len(http) + 1 /\ t[1] = key /\ \A a \in 2 .. Len(http) + 1 : t[a] = http[a - 1]
      BY <1>2, <1>5, <2>1
    <3>2. \A i \in 1 .. k - 1 : Len(list[i].Path) <= Len(e.Path)
      BY <1>1, <2>5 DEF Ascending
    <3>3. \A a \in DOMAIN http : Len(http[a][2]) <= Len(key[2])
      BY <2>2, <2>3, <2>4, <3>2
    <3> HIDE DEF t
    <3>4. LongerFirst(t)
      <4> SUFFICES ASSUME NEW a \in DOMAIN t, NEW b \in DOMAIN t, a < b PROVE Len(t[a][2]) >= Len(t[b][2])
        BY DEF LongerFirst
      <4>1. b \in 2 .. Len(http) + 1 /\ b - 1 \in DOMAIN http /\ t[b] = http[b - 1]
        BY <2>1, <3>1
      <4>2. Len(http[b - 1][2]) \in Nat /\ Len(key[2]) \in Nat
        BY <2>2, <2>3, <2>4, <4>1
      <4>3. CASE a = 1
        BY <3>1, <3>3, <4>1, <4>2, <4>3
      <4>4. CASE a # 1
        <5>1. a \in 2 .. Len(http) + 1 /\ a - 1 \in DOMAIN http /\ t[a] = http[a - 1] /\ a - 1 < b - 1
          BY <2>1, <3>1, <4>4
        <5> QED
          BY <1>7, <4>1, <5>1 DEF LongerFirst
      <4> QED
        BY <4>3, <4>4
    <3> QED
      BY <1>6, <1>7, <2>5, <3>4 DEF t
  <2>6. CASE e.Path = <<>>
    <3> DEFINE t == Append(http, key)
    <3>1. DOMAIN t = 1 .. Len(http) + 1 /\ t[Len(http) + 1] = key /\ \A a \in 1 .. Len(http) : t[a] = http[a]
      BY <1>2, <1>5, <2>1
    <3> HIDE DEF t
    <3>2. LongerFirst(t)
      <4> SUFFICES ASSUME NEW a \in DOMAIN t, NEW b \in DOMAIN t, a < b PROVE Len(t[a][2]) >= Len(t[b][2])
        BY DEF LongerFirst
      <4>1. a \in DOMAIN http /\ t[a] = http[a]
        BY <2>1, <3>1
      <4>2. Len(http[a][2]) \in Nat
        BY <2>2, <2>3, <4>1
      <4>3. CASE b = Len(http) + 1
        <5>1. Len(t[b][2]) = 0
          BY <2>4, <2>6, <3>1, <4>3
        <5> QED
          BY <4>1, <4>2, <5>1
      <4>4. CASE b # Len(http) + 1
        <5>1. b \in DOMAIN http /\ t[b] = http[b]
          BY <2>1, <3>1, <4>4
        <5> QED
          BY <1>7, <4>1, <5>1 DEF LongerFirst
      <4> QED
        BY <4>3, <4>4
    <3> QED
      BY <1>6, <1>7, <2>6, <3>2 DEF t
  <2> QED
    BY <2>5, <2>6
<1> HIDE DEF m, name
<1>11. DOMAIN p = {Name(list[i]) : i \in 1 .. k}
  <2>1. {Name(list[i]) : i \in 1 .. k} = {Name(list[i]) : i \in 1 .. k - 1} \cup {Name(list[k])}
    BY <1>1, OneEntryMore
  <2>2. DOMAIN m = {Name(list[i]) : i \in 1 .. k - 1}
    BY DEF ServicesRight, m
  <2> QED
    BY <1>4, <2>1, <2>2 DEF name
<1>12. ASSUME NEW x \in DOMAIN p
       PROVE  Range(p[x].Http) = KeysOf(list, k, x) /\ LongerFirst(p[x].Http)
  <2>1. CASE x = name
    BY <1>4, <1>8, <1>9, <1>10, <2>1
  <2>2. CASE x # name
    <3>1. x \in DOMAIN m /\ p[x] = m[x]
      BY <1>4, <2>2
    <3>2. Range(m[x].Http) = KeysOf(list, k - 1, x) /\ LongerFirst(m[x].Http)
      BY <3>1 DEF ServicesRight, m
    <3>3. KeysOf(list, k, x) = KeysOf(list, k - 1, x)
      BY <1>1, <2>2, OneEntryMore DEF name
    <3> QED
      BY <3>1, <3>2, <3>3
  <2> QED
    BY <2>1, <2>2
<1> QED
  BY <1>3, <1>11, <1>12 DEF ServicesRight

\* The virtual services and the HTTP routes at the end of the loop.
LEMMA ServicesAre ==
    ASSUME NEW list \in Seq(Entries), Apart(list), Ascending(list)
    PROVE  \E acc \in ServiceState :
              /\ FoldLeft(AddHTTPRoute, [services |-> EmptyMap, httpRoutes |-> EmptyMap], list) = acc
              /\ HTTPRoutesRight(acc.httpRoutes, list, Len(list))
              /\ ServicesRight(acc.services, list, Len(list))
<1>1. PICK g \in [0 .. Len(list) -> ServiceState] :
              /\ g[0] = NoServices
              /\ \A i \in 1 .. Len(list) : g[i] = AddHTTPRoute(g[i - 1], list[i])
              /\ FoldLeft(AddHTTPRoute, [services |-> EmptyMap, httpRoutes |-> EmptyMap], list) = g[Len(list)]
  BY ServicesLoop
<1> DEFINE n == Len(list)
           S == {k \in 0 .. n : HTTPRoutesRight(g[k].httpRoutes, list, k) /\ ServicesRight(g[k].services, list, k)}
<1>2. n \in Nat /\ n \in 0 .. n
  OBVIOUS
<1>3. 0 \in S
  <2>1. g[0].services = EmptyMap /\ g[0].httpRoutes = EmptyMap /\ DOMAIN EmptyMap = {}
    BY <1>1, EmptyInMaps DEF NoServices
  <2>2. 1 .. 0 = {}
    OBVIOUS
  <2> QED
    BY <1>2, <2>1, <2>2 DEF HTTPRoutesRight, ServicesRight
<1>4. ASSUME NEW k \in 1 .. n, k - 1 \in S PROVE k \in S
  <2>1. g[k - 1] \in ServiceState /\ g[k] = AddHTTPRoute(g[k - 1], list[k])
    BY <1>1, <1>4
  <2>2. HTTPRoutesRight(g[k - 1].httpRoutes, list, k - 1) /\ ServicesRight(g[k - 1].services, list, k - 1)
    BY <1>4
  <2>3. HTTPRoutesRight(g[k].httpRoutes, list, k) /\ ServicesRight(g[k].services, list, k)
    BY <2>1, <2>2, HTTPRoutesStep, ServicesStep
  <2> QED
    BY <2>3
<1> HIDE DEF S
<1>5. n \in S
  BY <1>2, <1>3, <1>4, LoopKeeps
<1> QED
  BY <1>1, <1>2, <1>5 DEF S

\* A virtual service of a name is right: its HTTP routes are those of the keys
\* of the name, longer paths first, each with the destinations of its key.
Fits(http, list, name, keys) ==
    /\ keys \in Seq(Keys) /\ DOMAIN http = DOMAIN keys
    /\ Range(keys) = KeysOf(list, Len(list), name) /\ LongerFirst(keys)
    /\ \A i \in DOMAIN keys : /\ http[i].Prefix = IF name.Internal THEN <<>> ELSE keys[i][2]
                              /\ Range(http[i].Route) = DestinationsOf(list, Len(list), keys[i])

\* The virtual services are right.
LEMMA VirtualServicesRight ==
    ASSUME NEW list \in Seq(Entries), Apart(list), Ascending(list)
    PROVE  /\ DOMAIN CreateVirtualServiceResources(list) = {Name(list[i]) : i \in DOMAIN list}
           /\ \A name \in DOMAIN CreateVirtualServiceResources(list) :
                 \E keys : Fits(CreateVirtualServiceResources(list)[name].Http, list, name, keys)
<1>1. PICK acc \in ServiceState :
              /\ FoldLeft(AddHTTPRoute, [services |-> EmptyMap, httpRoutes |-> EmptyMap], list) = acc
              /\ HTTPRoutesRight(acc.httpRoutes, list, Len(list))
              /\ ServicesRight(acc.services, list, Len(list))
  BY ServicesAre
<1> DEFINE vss == CreateVirtualServiceResources(list)
<1>2. vss = [name \in DOMAIN acc.services |->
                [acc.services[name] EXCEPT !.Http = [i \in DOMAIN acc.services[name].Http |->
                                                        acc.httpRoutes[acc.services[name].Http[i]]]]]
  BY <1>1 DEF CreateVirtualServiceResources
<1> HIDE DEF vss
<1>3. DOMAIN list = 1 .. Len(list)
  OBVIOUS
<1>4. DOMAIN vss = {Name(list[i]) : i \in DOMAIN list}
  BY <1>1, <1>2, <1>3 DEF ServicesRight
<1>5. ASSUME NEW name \in DOMAIN vss
      PROVE  \E keys : Fits(vss[name].Http, list, name, keys)
  <2> DEFINE keys == acc.services[name].Http
  <2>1. acc.services[name] \in Service
    BY <1>2, InMaps DEF ServiceState
  <2>2. keys \in Seq(Keys) /\ Range(keys) = KeysOf(list, Len(list), name) /\ LongerFirst(keys)
    BY <1>1, <1>2, <2>1 DEF Service, ServicesRight
  <2>3. vss[name].Http = [i \in DOMAIN keys |-> acc.httpRoutes[keys[i]]]
    BY <1>2, <2>1 DEF Service
  <2> HIDE DEF keys
  <2>4. ASSUME NEW i \in DOMAIN keys
        PROVE  /\ vss[name].Http[i].Prefix = IF name.Internal THEN <<>> ELSE keys[i][2]
               /\ Range(vss[name].Http[i].Route) = DestinationsOf(list, Len(list), keys[i])
    <3>1. keys[i] \in KeysOf(list, Len(list), name)
      BY <2>2 DEF Range
    <3>2. PICK j \in 1 .. Len(list) : Name(list[j]) = name /\ routeKey(list[j]) = keys[i]
      BY <3>1 DEF KeysOf
    <3>3. keys[i] \in DOMAIN acc.httpRoutes
      BY <1>1, <3>2 DEF HTTPRoutesRight
    <3>4. Range(acc.httpRoutes[keys[i]].Route) = DestinationsOf(list, Len(list), keys[i])
      BY <1>1, <3>3 DEF HTTPRoutesRight
    <3>5. acc.httpRoutes[keys[i]].Prefix = IF list[j].Internal THEN <<>> ELSE list[j].Path
      BY <1>1, <3>2 DEF HTTPRoutesRight
    <3>6. name.Internal = list[j].Internal /\ keys[i][2] = list[j].Path
      BY <3>2 DEF Name, routeKey
    <3> QED
      BY <2>3, <3>4, <3>5, <3>6
  <2> QED
    BY <2>2, <2>3, <2>4 DEF Fits
<1> QED
  BY <1>4, <1>5 DEF vss
-----------------------------------------------------------------------------
(***************************************************************************)
(* The state of IstioConfig.                                               *)
(***************************************************************************)
InputsInOrder == collected \in Seq(Entries) /\ fetched \in Seq(PolicySet)

\* Whatever was collected and fetched are lists of entries and of policies.
LEMMA InputsAreLists == AnyInputs => []InputsInOrder
<1>1. NoInputs => InputsInOrder
  BY DEF NoInputs, InputsInOrder
<1>2. InputsInOrder /\ [NextInput]_inputs => InputsInOrder'
  <2> SUFFICES ASSUME InputsInOrder, [NextInput]_inputs PROVE InputsInOrder'
    OBVIOUS
  <2>1. ASSUME NEW e \in Entries, Route(e) PROVE InputsInOrder'
    BY <2>1 DEF InputsInOrder, Route
  <2>2. ASSUME NEW p \in PolicySet, Policy(p) PROVE InputsInOrder'
    BY <2>2 DEF InputsInOrder, Policy
  <2>3. CASE Forget
    BY <2>3 DEF InputsInOrder, Forget
  <2>4. CASE UNCHANGED inputs
    BY <2>4 DEF InputsInOrder, inputs
  <2> QED
    BY <2>1, <2>2, <2>3, <2>4 DEF NextInput
<1> QED
  BY <1>1, <1>2, PTL DEF AnyInputs

\* What Collect returns: the same entries, longer paths after shorter ones and
\* the entries without a path at the end.
LEMMA SortedRoutes ==
    ASSUME InputsInOrder
    PROVE  /\ sorted \in Seq(Entries) /\ Len(sorted) = Len(collected)
           /\ Range(sorted) = Range(collected)
           /\ Ascending(sorted)
           /\ KindsApart => Apart(sorted)
<1>1. collected \in Seq(Entries) /\ DOMAIN collected = 1 .. Len(collected) /\ Len(collected) \in Nat
  BY DEF InputsInOrder
<1>2. IsList(collected)
  <2>1. collected = [i \in DOMAIN collected |-> collected[i]]
    BY <1>1
  <2> QED
    BY <1>1, <2>1, SegmentIsList
<1>3. \A i \in DOMAIN collected : Len(collected[i].Path) \in Int /\ collected[i].CapiProcessGUID \in Int
  <2> TAKE i \in DOMAIN collected
  <2>1. collected[i] \in Entries
    BY <1>1
  <2> QED
    BY <2>1, EntriesAssumption
<1>4. /\ IsList(sorted) /\ Len(sorted) = Len(collected)
      /\ \A i \in DOMAIN sorted : \E j \in DOMAIN collected : sorted[i] = collected[j]
      /\ \A j \in DOMAIN collected : \E i \in DOMAIN sorted : sorted[i] = collected[j]
      /\ Ordered(sorted)
  BY <1>2, <1>3, InOrderRight DEF sorted
<1> HIDE DEF sorted
<1>5. DOMAIN sorted = 1 .. Len(sorted) /\ Len(sorted) \in Nat /\ \A i \in DOMAIN sorted : sorted[i] \in Entries
  BY <1>1, <1>4, ListShape
<1>6. sorted \in Seq(Entries)
  <2>1. sorted \in Seq({sorted[i] : i \in DOMAIN sorted})
    BY <1>4 DEF IsList
  <2>2. sorted \in [1 .. Len(sorted) -> Entries]
    BY <1>5, <2>1
  <2> QED
    BY <1>5, <2>2
<1>7. Range(sorted) = Range(collected)
  BY <1>4 DEF Range
<1>8. Ascending(sorted)
  <2> SUFFICES ASSUME NEW i \in DOMAIN sorted, NEW j \in DOMAIN sorted, i < j, sorted[j].Path # <<>>
               PROVE  Len(sorted[i].Path) <= Len(sorted[j].Path)
    BY DEF Ascending
  <2>1. ~Comes(sorted[j], sorted[i])
    <3>1. ~(j < i)
      BY <1>5
    <3> QED
      BY <1>4, <3>1 DEF Ordered
  <2>2. Len(sorted[i].Path) \in Nat /\ Len(sorted[j].Path) \in Nat
    BY <1>5, EntriesAssumption
  <2> QED
    BY <2>1, <2>2 DEF Comes
<1>9. KindsApart => Apart(sorted)
  <2>1. \A i \in DOMAIN sorted : sorted[i] \in Range(collected)
    BY <1>7 DEF Range
  <2> QED
    BY <2>1 DEF KindsApart, Apart
<1> QED
  BY <1>4, <1>6, <1>7, <1>8, <1>9

-----------------------------------------------------------------------------
(***************************************************************************)
(* Longest prefix first.                                                   *)
(***************************************************************************)
\* Prefixes of a list with the same length are the same.
LEMMA SamePrefix ==
    ASSUME NEW p, p \in Seq(Range(p)), NEW q, q \in Seq(Range(q)), NEW t,
           IsPrefix(p, t), IsPrefix(q, t), Len(p) = Len(q)
    PROVE  p = q
<1>1. ASSUME NEW s, s \in Seq(Range(s)) PROVE SubSeq(s, 1, Len(s)) = s
  <2> DEFINE X == Range(s)
  <2>1. s \in Seq(X)
    BY <1>1
  <2> HIDE DEF X
  <2> QED
    BY <2>1
<1>2. SubSeq(p, 1, Len(p)) = p /\ SubSeq(q, 1, Len(q)) = q
  BY <1>1
<1> QED
  BY <1>2 DEF IsPrefix

\* A non-empty set of positions has a first one.
LEMMA MinIs ==
    ASSUME NEW n \in Nat, NEW T \in SUBSET (1 .. n), T # {}
    PROVE  Min(T) \in T /\ \A y \in T : Min(T) <= y
<1>1. \E x \in T : \A y \in T : x <= y
  <2>1. T \in SUBSET Nat
    OBVIOUS
  <2> QED
    BY <2>1, LeastNat
<1> QED
  BY <1>1 DEF Min

\* Envoy's choice in one virtual service.
LEMMA ChosenIsWanted ==
    ASSUME InputsInOrder, KindsApart, NEW host, NEW path, NEW http, NEW keys,
           Fits(http, sorted, [Internal |-> FALSE, Hostname |-> host], keys)
    PROVE  Chosen(http, path) = Wanted(host, path)
<1> DEFINE name == [Internal |-> FALSE, Hostname |-> host]
           n == Len(sorted)
           fit == {i \in DOMAIN http : IsPrefix(http[i].Prefix, path)}
           Ours(r) == r \in Range(collected) /\ ~r.Internal /\ r.Hostname = host
<1>1. /\ sorted \in Seq(Entries) /\ n \in Nat /\ DOMAIN sorted = 1 .. n
      /\ Range(sorted) = Range(collected) /\ Apart(sorted)
  BY SortedRoutes
<1>2. \A r \in Range(collected) : r \in Entries /\ \E i \in 1 .. n : r = sorted[i]
  BY <1>1 DEF Range
<1>3. \A i \in 1 .. n : sorted[i] \in Range(collected)
  BY <1>1 DEF Range
<1>4. /\ keys \in Seq(Keys) /\ DOMAIN http = DOMAIN keys /\ DOMAIN keys = 1 .. Len(keys) /\ Len(keys) \in Nat
      /\ Range(keys) = KeysOf(sorted, n, name) /\ LongerFirst(keys)
      /\ \A i \in DOMAIN keys : http[i].Prefix = keys[i][2]
      /\ \A i \in DOMAIN keys : Range(http[i].Route) = DestinationsOf(sorted, n, keys[i])
  BY DEF Fits
<1>5. \A r : Ours(r) => \E i \in DOMAIN keys : keys[i] = <<host, r.Path>>
  <2> SUFFICES ASSUME NEW r, Ours(r) PROVE \E i \in DOMAIN keys : keys[i] = <<host, r.Path>>
    OBVIOUS
  <2>1. PICK j \in 1 .. n : r = sorted[j]
    BY <1>2
  <2>2. r.Internal = FALSE
    BY <1>2, EntriesAssumption
  <2>3. Name(sorted[j]) = name /\ routeKey(sorted[j]) = <<host, r.Path>>
    BY <2>1, <2>2 DEF Name, routeKey
  <2>4. <<host, r.Path>> \in Range(keys)
    BY <1>4, <2>1, <2>3 DEF KeysOf
  <2> QED
    BY <2>4 DEF Range
<1>6. \A i \in DOMAIN keys : \E r : Ours(r) /\ keys[i] = <<host, r.Path>>
  <2> SUFFICES ASSUME NEW i \in DOMAIN keys PROVE \E r : Ours(r) /\ keys[i] = <<host, r.Path>>
    OBVIOUS
  <2>1. keys[i] \in KeysOf(sorted, n, name)
    BY <1>4 DEF Range
  <2>2. PICK j \in 1 .. n : Name(sorted[j]) = name /\ keys[i] = routeKey(sorted[j])
    BY <2>1 DEF KeysOf
  <2>3. sorted[j].Hostname = host /\ sorted[j].Internal = FALSE
    BY <2>2 DEF Name
  <2>4. Ours(sorted[j])
    BY <1>3, <2>2, <2>3
  <2> QED
    BY <2>2, <2>3, <2>4 DEF routeKey
<1>7. \A r : Ours(r) => r.Path \in Seq(Range(r.Path)) /\ Len(r.Path) \in Nat
  BY <1>2, EntriesAssumption
<1> DEFINE paths == {r.Path : r \in {r \in Range(collected) :
                        ~r.Internal /\ r.Hostname = host /\ IsPrefix(r.Path, path)}}
<1>8. /\ BestPath(host, path) = {p \in paths : \A q \in paths : Len(q) <= Len(p)}
      /\ Wanted(host, path) = {createDestinationWeight(r) : r \in {r \in Range(collected) :
                                   ~r.Internal /\ r.Hostname = host /\ r.Path \in BestPath(host, path)}}
      /\ Chosen(http, path) = IF fit = {} THEN {} ELSE Range(http[Min(fit)].Route)
  BY DEF BestPath, Wanted, Chosen
<1>9. \A q \in paths : \E r : Ours(r) /\ q = r.Path /\ IsPrefix(q, path)
  OBVIOUS
<1>10. \A r : Ours(r) /\ IsPrefix(r.Path, path) => r.Path \in paths
  OBVIOUS
<1>11. \A q \in paths : \E i \in fit : keys[i] = <<host, q>>
  <2> SUFFICES ASSUME NEW q \in paths PROVE \E i \in fit : keys[i] = <<host, q>>
    OBVIOUS
  <2>1. PICK r : Ours(r) /\ q = r.Path /\ IsPrefix(q, path)
    BY <1>9
  <2>2. PICK i \in DOMAIN keys : keys[i] = <<host, q>>
    BY <1>5, <2>1
  <2>3. http[i].Prefix = q
    BY <1>4, <2>2
  <2> QED
    BY <1>4, <2>1, <2>2, <2>3
<1> HIDE DEF paths, sorted
<1>12. CASE fit = {}
  <2>1. paths = {}
    BY <1>11, <1>12
  <2>2. BestPath(host, path) = {}
    BY <1>8, <2>1
  <2> QED
    BY <1>8, <1>12, <2>2
<1>13. CASE fit # {}
  <2> DEFINE m == Min(fit)
  <2>1. m \in fit /\ \A i \in fit : m <= i
    <3>1. fit \in SUBSET (1 .. Len(keys))
      BY <1>4
    <3> HIDE DEF fit
    <3> QED
      BY <1>4, <1>13, <3>1, MinIs
  <2>2. m \in DOMAIN keys /\ IsPrefix(http[m].Prefix, path) /\ http[m].Prefix = keys[m][2]
    BY <1>4, <2>1
  <2>3. \A i \in fit : i \in DOMAIN keys
    BY <1>4
  <2> HIDE DEF m, fit
  <2>4. PICK r : Ours(r) /\ keys[m] = <<host, r.Path>>
    BY <1>6, <2>2
  <2> DEFINE p == r.Path
  <2>5. p \in paths /\ p \in Seq(Range(p)) /\ Len(p) \in Nat /\ IsPrefix(p, path)
    BY <1>7, <1>10, <2>2, <2>4
  <2>6. ASSUME NEW q \in paths PROVE Len(q) <= Len(p)
    <3>1. PICK i \in fit : keys[i] = <<host, q>>
      BY <1>11
    <3>2. CASE i = m
      BY <2>4, <2>5, <3>1, <3>2
    <3>3. CASE i # m
      <4>1. m < i /\ i \in DOMAIN keys
        BY <1>4, <2>1, <2>2, <2>3, <3>1, <3>3
      <4>2. Len(keys[m][2]) >= Len(keys[i][2])
        BY <1>4, <2>2, <4>1 DEF LongerFirst
      <4>3. Len(q) \in Nat
        BY <1>7, <1>9
      <4> QED
        BY <2>4, <2>5, <3>1, <4>2, <4>3
    <3> QED
      BY <3>2, <3>3
  <2>7. BestPath(host, path) = {p}
    <3>1. p \in BestPath(host, path)
      BY <1>8, <2>5, <2>6
    <3>2. ASSUME NEW q \in BestPath(host, path) PROVE q = p
      <4>1. q \in paths /\ Len(p) <= Len(q)
        BY <1>8, <2>5
      <4>2. q \in Seq(Range(q)) /\ Len(q) \in Nat /\ IsPrefix(q, path)
        BY <1>7, <1>9, <4>1
      <4>3. Len(q) = Len(p)
        BY <2>5, <2>6, <4>1, <4>2
      <4> HIDE DEF p
      <4> QED
        BY <2>5, <4>2, <4>3, SamePrefix
    <3> QED
      BY <3>1, <3>2
  <2>8. Wanted(host, path) = {createDestinationWeight(s) : s \in {s \in Range(collected) :
                                 ~s.Internal /\ s.Hostname = host /\ s.Path = p}}
    BY <1>8, <2>7
  <2>9. Chosen(http, path) = {createDestinationWeight(sorted[i]) : i \in {i \in 1 .. n : routeKey(sorted[i]) = <<host, p>>}}
    BY <1>4, <1>8, <1>13, <2>2, <2>4 DEF DestinationsOf, m
  <2>10. \A i \in 1 .. n : routeKey(sorted[i]) = <<host, p>> =>
             ~sorted[i].Internal /\ sorted[i].Hostname = host /\ sorted[i].Path = p
    <3>1. PICK j \in 1 .. n : r = sorted[j]
      BY <1>2, <2>4
    <3>2. routeKey(sorted[j]) = <<host, p>> /\ ~sorted[j].Internal
      BY <2>4, <3>1 DEF routeKey
    <3> QED
      BY <1>1, <3>2 DEF Apart, routeKey
  <2>11. \A s \in Range(collected) : s.Hostname = host /\ s.Path = p =>
             \E i \in 1 .. n : s = sorted[i] /\ routeKey(sorted[i]) = <<host, p>>
    BY <1>2 DEF routeKey
  <2> HIDE DEF p
  <2>12. ASSUME NEW d \in Wanted(host, path) PROVE d \in Chosen(http, path)
    BY <2>8, <2>9, <2>11
  <2>13. ASSUME NEW d \in Chosen(http, path) PROVE d \in Wanted(host, path)
    BY <1>3, <2>8, <2>9, <2>10
  <2> QED
    BY <2>12, <2>13
<1> QED
  BY <1>12, <1>13

\* Envoy takes the first HTTP route that matches: for any routes, in whatever
\* order Collect built them, every request for an external host goes to the
\* processes mapped with the longest matching path.
THEOREM LongestPrefixWins == AnyInputs => []RoutedToLongestPrefix
<1>1. InputsInOrder => RoutedToLongestPrefix
  <2> SUFFICES ASSUME InputsInOrder, KindsApart,
                      NEW r \in Range(collected), ~r.Internal, NEW path \in RequestPaths
               PROVE  Chosen(CreateVirtualServiceResources(sorted)[[Internal |-> FALSE, Hostname |-> r.Hostname]].Http, path)
                      = Wanted(r.Hostname, path)
    BY DEF RoutedToLongestPrefix
  <2> DEFINE name == [Internal |-> FALSE, Hostname |-> r.Hostname]
             vss == CreateVirtualServiceResources(sorted)
  <2>1. /\ sorted \in Seq(Entries) /\ Range(sorted) = Range(collected) /\ Apart(sorted) /\ Ascending(sorted)
    BY SortedRoutes
  <2> HIDE DEF sorted
  <2>2. PICK i \in DOMAIN sorted : r = sorted[i]
    BY <2>1 DEF Range
  <2>3. r \in Entries
    BY <2>1, <2>2
  <2>4. Name(sorted[i]) = name
    BY <2>2, <2>3, EntriesAssumption DEF Name
  <2>5. name \in DOMAIN vss
    BY <2>1, <2>2, <2>4, VirtualServicesRight
  <2>6. PICK keys : Fits(vss[name].Http, sorted, name, keys)
    BY <2>1, <2>5, VirtualServicesRight
  <2> HIDE DEF vss
  <2> QED
    BY <2>6, ChosenIsWanted DEF vss
<1> QED
  BY <1>1, InputsAreLists, PTL

\* The elements of two lists in a row.
LEMMA RangeOfBoth ==
    ASSUME NEW X, NEW s \in Seq(X), NEW t \in Seq(X)
    PROVE  s \o t \in Seq(X) /\ Range(s \o t) = Range(s) \cup Range(t)
<1> DEFINE u == s \o t
           n == Len(s)
           m == Len(t)
<1>1. n \in Nat /\ DOMAIN s = 1 .. n /\ m \in Nat /\ DOMAIN t = 1 .. m
  OBVIOUS
<1>2. /\ u \in Seq(X) /\ DOMAIN u = 1 .. n + m
      /\ \A i \in 1 .. n : u[i] = s[i]
      /\ \A i \in 1 .. m : u[n + i] = t[i]
  BY <1>1
<1> HIDE DEF u, n, m
<1>3. ASSUME NEW i \in DOMAIN u PROVE u[i] \in Range(s) \cup Range(t)
  <2>1. CASE i \in 1 .. n
    BY <1>1, <1>2, <2>1 DEF Range
  <2>2. CASE i \notin 1 .. n
    <3>1. i - n \in 1 .. m /\ n + (i - n) = i
      BY <1>1, <1>2, <2>2
    <3>2. u[i] = t[i - n]
      BY <1>2, <3>1
    <3> QED
      BY <1>1, <3>1, <3>2 DEF Range
  <2> QED
    BY <2>1, <2>2
<1>4. ASSUME NEW y \in Range(s) \cup Range(t) PROVE \E i \in DOMAIN u : u[i] = y
  <2>1. CASE y \in Range(s)
    <3>1. PICK i \in 1 .. n : y = s[i]
      BY <1>1, <2>1 DEF Range
    <3>2. i \in DOMAIN u
      BY <1>1, <1>2
    <3> QED
      BY <1>2, <3>1, <3>2
  <2>2. CASE y \in Range(t)
    <3>1. PICK i \in 1 .. m : y = t[i]
      BY <1>1, <2>2 DEF Range
    <3>2. n + i \in DOMAIN u
      BY <1>1, <1>2
    <3> QED
      BY <1>2, <3>1, <3>2
  <2> QED
    BY <2>1, <2>2
<1>5. Range(u) = Range(s) \cup Range(t)
  BY <1>3, <1>4 DEF Range
<1> QED
  BY <1>2, <1>5 DEF u
-----------------------------------------------------------------------------
(***************************************************************************)
(* Destination rules and service entries.                                  *)
(***************************************************************************)
EndpointsOf(e) == Range(createEndpoint(e))
AllEndpoints == UNION {EndpointsOf(e) : e \in Entries}
ServiceEntry == [Addresses : {createServiceEntry(e).Addresses : e \in Entries},
                 Ports : {createServiceEntry(e).Ports : e \in Entries},
                 Endpoints : Seq(AllEndpoints)]

\* The endpoints of an entry, one for each backend.
LEMMA EndpointsRight ==
    ASSUME NEW e \in Entries
    PROVE  createEndpoint(e) \in Seq(AllEndpoints)
<1> DEFINE s == createEndpoint(e)
           n == Len(e.Backends)
<1>1. n \in Nat /\ DOMAIN e.Backends = 1 .. n
  BY EntriesAssumption
<1>2. DOMAIN s = 1 .. n /\ s = [i \in DOMAIN s |-> s[i]]
  BY <1>1 DEF createEndpoint
<1> HIDE DEF s, n
<1>3. \A i \in 1 .. n : s[i] \in EndpointsOf(e)
  BY <1>2 DEF EndpointsOf, Range, s
<1>4. \A i \in 1 .. n : s[i] \in AllEndpoints
  BY <1>3 DEF AllEndpoints
<1>5. s \in [1 .. n -> AllEndpoints]
  BY <1>2, <1>4
<1> QED
  BY <1>1, <1>5 DEF s

\* The service entry that an entry adds its endpoints to, and the result.
EntryBefore(services, e) == IF Name(e) \in DOMAIN services THEN services[Name(e)] ELSE createServiceEntry(e)
EntryAfter(services, e) ==
    LET se == EntryBefore(services, e) IN [se EXCEPT !.Endpoints = se.Endpoints \o createEndpoint(e)]

LEMMA AddEndpointsIs ==
    ASSUME NEW services, NEW e \in Entries
    PROVE  AddEndpoints(services, e) = Put(services, Name(e), EntryAfter(services, e))
BY EntriesAssumption DEF AddEndpoints, EntryAfter, EntryBefore

\* An entry keeps a service entry a service entry.
LEMMA EntryAfterRight ==
    ASSUME NEW services \in Maps(Names, ServiceEntry), NEW e \in Entries
    PROVE  /\ EntryBefore(services, e) \in ServiceEntry
           /\ EntryAfter(services, e) \in ServiceEntry
           /\ EntryAfter(services, e).Ports = EntryBefore(services, e).Ports
           /\ Range(EntryAfter(services, e).Endpoints) = Range(EntryBefore(services, e).Endpoints) \cup EndpointsOf(e)
<1> DEFINE se == EntryBefore(services, e)
           new == createEndpoint(e)
<1>1. se \in ServiceEntry
  <2>1. CASE Name(e) \in DOMAIN services
    BY <2>1, InMaps DEF EntryBefore
  <2>2. CASE Name(e) \notin DOMAIN services
    <3>1. createServiceEntry(e) = [Addresses |-> createServiceEntry(e).Addresses,
                                   Ports |-> createServiceEntry(e).Ports, Endpoints |-> <<>>]
      BY DEF createServiceEntry
    <3>2. <<>> \in Seq(AllEndpoints)
      OBVIOUS
    <3>3. /\ createServiceEntry(e).Addresses \in {createServiceEntry(f).Addresses : f \in Entries}
          /\ createServiceEntry(e).Ports \in {createServiceEntry(f).Ports : f \in Entries}
      OBVIOUS
    <3>4. createServiceEntry(e) \in ServiceEntry
      <4> DEFINE a == createServiceEntry(e).Addresses
                 p == createServiceEntry(e).Ports
      <4> HIDE DEF a, p
      <4>1. [Addresses |-> a, Ports |-> p, Endpoints |-> <<>>] \in ServiceEntry
        BY <3>2, <3>3 DEF ServiceEntry, a, p
      <4> QED
        BY <3>1, <4>1 DEF a, p
    <3> QED
      BY <2>2, <3>4 DEF EntryBefore
  <2> QED
    BY <2>1, <2>2
<1>2. new \in Seq(AllEndpoints)
  BY EndpointsRight
<1>3. EntryAfter(services, e) = [se EXCEPT !.Endpoints = se.Endpoints \o new]
  BY DEF EntryAfter
<1> HIDE DEF se, new
<1> DEFINE old == se.Endpoints
<1>4. old \in Seq(AllEndpoints)
  BY <1>1 DEF ServiceEntry
<1>5. EntryAfter(services, e).Endpoints = old \o new /\ EntryAfter(services, e).Ports = se.Ports
  BY <1>1, <1>3 DEF ServiceEntry
<1> HIDE DEF old
<1>6. old \o new \in Seq(AllEndpoints) /\ Range(old \o new) = Range(old) \cup Range(new)
  BY <1>2, <1>4, RangeOfBoth
<1> QED
  BY <1>1, <1>3, <1>5, <1>6 DEF ServiceEntry, EndpointsOf, se, new, old

LEMMA AddEndpointsType ==
    ASSUME NEW services \in Maps(Names, ServiceEntry), NEW e \in Entries
    PROVE  AddEndpoints(services, e) \in Maps(Names, ServiceEntry)
<1>1. Name(e) \in Names
  BY DEF Names
<1>2. EntryAfter(services, e) \in ServiceEntry
  BY EntryAfterRight
<1>3. Put(services, Name(e), EntryAfter(services, e)) \in Maps(Names, ServiceEntry)
  BY <1>1, <1>2, PutInMaps
<1> QED
  BY <1>3, AddEndpointsIs

\* The loop over the routes that makes the service entries.
LEMMA EntriesLoop ==
    ASSUME NEW list \in Seq(Entries)
    PROVE  \E g \in [0 .. Len(list) -> Maps(Names, ServiceEntry)] :
              /\ g[0] = EmptyMap
              /\ \A i \in 1 .. Len(list) : g[i] = AddEndpoints(g[i - 1], list[i])
              /\ CreateServiceEntryResources(list) = g[Len(list)]
<1> DEFINE n == Len(list)
           A == Maps(Names, ServiceEntry)
           F == [p \in A \X Entries |-> AddEndpoints(p[1], p[2])]
           b == EmptyMap
           Solves(f) == f = [s \in SUBSET DOMAIN list |->
                                IF s = {} THEN b ELSE AddEndpoints(f[s \ {Max(s)}], list[Max(s)])]
           iter == CHOOSE f : Solves(f)
<1>1. n \in Nat /\ DOMAIN list = 1 .. n /\ list \in [1 .. n -> Entries]
  OBVIOUS
<1>2. CreateServiceEntryResources(list) = iter[DOMAIN list]
  BY DEF CreateServiceEntryResources, FoldLeft, MapThenFoldSet
<1>3. F \in [A \X Entries -> A] /\ \A a \in A, e \in Entries : F[<<a, e>>] = AddEndpoints(a, e)
  BY AddEndpointsType
<1>4. b \in A
  BY EmptyInMaps
<1> HIDE DEF A, F, n, b
<1>5. ASSUME NEW f, NEW s \in SUBSET (1 .. n), s # {}, f[s \ {Max(s)}] \in A
      PROVE  F[<<f[s \ {Max(s)}], list[Max(s)]>>] = AddEndpoints(f[s \ {Max(s)}], list[Max(s)])
  <2>1. Max(s) \in 1 .. n
    BY <1>1, <1>5, LastPosition DEF Max
  <2> QED
    BY <1>1, <1>3, <1>5, <2>1
<1>6. \E f : Solves(f)
  <2>1. PICK f \in [SUBSET (1 .. n) -> A] : Folds(f, F, b, list, n)
    BY <1>1, <1>3, <1>4, FoldSolvable
  <2>2. \A s \in SUBSET (1 .. n) : f[s \ {Max(s)}] \in A
    BY <2>1
  <2>3. \A s \in SUBSET (1 .. n) :
            f[s] = IF s = {} THEN b ELSE AddEndpoints(f[s \ {Max(s)}], list[Max(s)])
    BY <1>5, <2>1, <2>2 DEF Folds
  <2> QED
    BY <1>1, <2>1, <2>3
<1>7. Solves(iter)
  BY <1>6
<1> HIDE DEF iter
<1>8. FoldsIn(iter, A, F, b, list, n)
  BY <1>1, <1>5, <1>7 DEF FoldsIn
<1>9. PICK g \in [0 .. n -> A] : LoopOf(g, F, b, list, n, iter[1 .. n])
  BY <1>1, <1>3, <1>4, <1>8, FoldRuns
<1>10. g[0] = b /\ \A i \in 1 .. n : g[i] = AddEndpoints(g[i - 1], list[i])
  <2>1. \A i \in 1 .. n : g[i - 1] \in A /\ list[i] \in Entries
    BY <1>1, <1>9
  <2> QED
    BY <1>3, <1>9, <2>1 DEF LoopOf
<1> QED
  BY <1>1, <1>2, <1>9, <1>10 DEF A, n, b, LoopOf

\* What the destination rules and the service entries are after k entries.
Of(list, k, name) == {i \in 1 .. k : Name(list[i]) = name}

RulesRight(rules, list, k) ==
    /\ DOMAIN rules = {Name(list[i]) : i \in 1 .. k}
    /\ \A name \in DOMAIN rules :
          Range(rules[name].Subsets) = {list[i].CapiProcessGUID : i \in Of(list, k, name)}

EntriesRight(services, list, k) ==
    /\ DOMAIN services = {Name(list[i]) : i \in 1 .. k}
    /\ \A name \in DOMAIN services :
          /\ Range(services[name].Endpoints) = UNION {EndpointsOf(list[i]) : i \in Of(list, k, name)}
          /\ \E i \in Of(list, k, name) : services[name].Ports = createServiceEntry(list[i]).Ports

\* The positions of a name with one entry more.
LEMMA OfMore ==
    ASSUME NEW list, NEW k \in Nat \ {0}, NEW name
    PROVE  Of(list, k, name) = IF Name(list[k]) = name THEN Of(list, k - 1, name) \cup {k}
                               ELSE Of(list, k - 1, name)
<1>1. 1 .. k = (1 .. k - 1) \cup {k} /\ k \in 1 .. k
  OBVIOUS
<1> QED
  BY <1>1 DEF Of

\* An entry keeps the destination rules right.
LEMMA RulesStep ==
    ASSUME NEW list \in Seq(Entries), NEW k \in 1 .. Len(list),
           NEW rules \in Maps(Names, Rule), RulesRight(rules, list, k - 1)
    PROVE  RulesRight(AddSubset(rules, list[k]), list, k)
<1> DEFINE e == list[k]
           name == Name(e)
           old == Subsets(rules, name)
           new == Append(old, e.CapiProcessGUID)
           p == AddSubset(rules, e)
<1>1. e \in Entries /\ k \in Nat \ {0} /\ e.CapiProcessGUID \in Guids
  BY DEF Guids
<1>2. /\ DOMAIN p = DOMAIN rules \cup {name} /\ p[name].Subsets = new
      /\ \A x \in DOMAIN rules : x # name => p[x] = rules[x]
  BY DEF AddSubset, Put
<1>3. old \in Seq(Guids) /\ Range(old) = {list[i].CapiProcessGUID : i \in Of(list, k - 1, name)}
  <2>1. CASE name \in DOMAIN rules
    <3>1. rules[name] \in Rule
      BY <2>1, InMaps
    <3> QED
      BY <2>1, <3>1 DEF Subsets, Rule, RulesRight
  <2>2. CASE name \notin DOMAIN rules
    <3>1. old = <<>>
      BY <2>2 DEF Subsets
    <3>2. Of(list, k - 1, name) = {}
      BY <2>2 DEF Of, RulesRight
    <3> HIDE DEF old
    <3> QED
      BY <3>1, <3>2 DEF Range
  <2> QED
    BY <2>1, <2>2
<1> HIDE DEF p, old
<1>4. Range(new) = {list[i].CapiProcessGUID : i \in Of(list, k, name)}
  <2> DEFINE x == e.CapiProcessGUID
  <2>1. Range(Append(old, x)) = Range(old) \cup {x} /\ Range(<<x>> \o old) = Range(old) \cup {x}
    <3> HIDE DEF x
    <3>1. x \in Guids
      BY <1>1 DEF x
    <3> QED
      BY <1>3, <3>1, RangeMore
  <2>2. Of(list, k, name) = Of(list, k - 1, name) \cup {k}
    BY <1>1, OfMore
  <2> QED
    BY <1>3, <2>1, <2>2
<1> HIDE DEF new, name
<1>5. DOMAIN p = {Name(list[i]) : i \in 1 .. k}
  <2>1. {Name(list[i]) : i \in 1 .. k} = {Name(list[i]) : i \in 1 .. k - 1} \cup {Name(list[k])}
    BY <1>1, OneEntryMore
  <2>2. DOMAIN rules = {Name(list[i]) : i \in 1 .. k - 1}
    BY DEF RulesRight
  <2> QED
    BY <1>2, <2>1, <2>2 DEF name
<1>6. ASSUME NEW x \in DOMAIN p
      PROVE  Range(p[x].Subsets) = {list[i].CapiProcessGUID : i \in Of(list, k, x)}
  <2>1. CASE x = name
    BY <1>2, <1>4, <2>1
  <2>2. CASE x # name
    <3>1. x \in DOMAIN rules /\ p[x] = rules[x]
      BY <1>2, <2>2
    <3>2. Of(list, k, x) = Of(list, k - 1, x)
      BY <1>1, <2>2, OfMore DEF name
    <3> QED
      BY <3>1, <3>2 DEF RulesRight
  <2> QED
    BY <2>1, <2>2
<1> QED
  BY <1>5, <1>6 DEF RulesRight, p

\* An entry keeps the service entries right.
LEMMA EntriesStep ==
    ASSUME NEW list \in Seq(Entries), NEW k \in 1 .. Len(list),
           NEW services \in Maps(Names, ServiceEntry), EntriesRight(services, list, k - 1)
    PROVE  EntriesRight(AddEndpoints(services, list[k]), list, k)
<1> DEFINE e == list[k]
           name == Name(e)
           old == EntryBefore(services, e)
           new == EntryAfter(services, e)
           p == AddEndpoints(services, e)
<1>1. e \in Entries /\ k \in Nat \ {0}
  OBVIOUS
<1>2. /\ DOMAIN p = DOMAIN services \cup {name} /\ p[name] = new
      /\ \A x \in DOMAIN services : x # name => p[x] = services[x]
  <2>1. p = Put(services, name, new)
    BY <1>1, AddEndpointsIs
  <2> HIDE DEF p, name, new
  <2> QED
    BY <2>1 DEF Put
<1>3. /\ new.Ports = old.Ports
      /\ Range(new.Endpoints) = Range(old.Endpoints) \cup EndpointsOf(e)
  BY <1>1, EntryAfterRight
<1>4. Of(list, k, name) = Of(list, k - 1, name) \cup {k}
  BY <1>1, OfMore
<1>5. /\ Range(old.Endpoints) = UNION {EndpointsOf(list[i]) : i \in Of(list, k - 1, name)}
      /\ \E i \in Of(list, k, name) : old.Ports = createServiceEntry(list[i]).Ports
  <2>1. CASE name \in DOMAIN services
    BY <1>4, <2>1 DEF EntryBefore, EntriesRight
  <2>2. CASE name \notin DOMAIN services
    <3>1. old = createServiceEntry(e)
      BY <2>2 DEF EntryBefore
    <3>2. Of(list, k - 1, name) = {}
      BY <2>2 DEF Of, EntriesRight
    <3>3. createServiceEntry(e).Endpoints = <<>> /\ Range(<<>>) = {}
      BY DEF createServiceEntry, Range
    <3> HIDE DEF old, name
    <3> QED
      BY <1>4, <3>1, <3>2, <3>3
  <2> QED
    BY <2>1, <2>2
<1> HIDE DEF p, old, new, name
<1>6. /\ Range(new.Endpoints) = UNION {EndpointsOf(list[i]) : i \in Of(list, k, name)}
      /\ \E i \in Of(list, k, name) : new.Ports = createServiceEntry(list[i]).Ports
  BY <1>3, <1>4, <1>5
<1>7. DOMAIN p = {Name(list[i]) : i \in 1 .. k}
  <2>1. {Name(list[i]) : i \in 1 .. k} = {Name(list[i]) : i \in 1 .. k - 1} \cup {Name(list[k])}
    BY <1>1, OneEntryMore
  <2>2. DOMAIN services = {Name(list[i]) : i \in 1 .. k - 1}
    BY DEF EntriesRight
  <2> QED
    BY <1>2, <2>1, <2>2 DEF name
<1>8. ASSUME NEW x \in DOMAIN p
      PROVE  /\ Range(p[x].Endpoints) = UNION {EndpointsOf(list[i]) : i \in Of(list, k, x)}
             /\ \E i \in Of(list, k, x) : p[x].Ports = createServiceEntry(list[i]).Ports
  <2>1. CASE x = name
    BY <1>2, <1>6, <2>1
  <2>2. CASE x # name
    <3>1. x \in DOMAIN services /\ p[x] = services[x]
      BY <1>2, <2>2
    <3>2. Of(list, k, x) = Of(list, k - 1, x)
      BY <1>1, <2>2, OfMore DEF name
    <3> QED
      BY <3>1, <3>2 DEF EntriesRight
  <2> QED
    BY <2>1, <2>2
<1> QED
  BY <1>7, <1>8 DEF EntriesRight, p

\* The destination rules at the end.
LEMMA RulesAre ==
    ASSUME NEW list \in Seq(Entries)
    PROVE  RulesRight(CreateDestinationRuleResources(list), list, Len(list))
<1>1. PICK g \in [0 .. Len(list) -> Maps(Names, Rule)] :
              /\ g[0] = EmptyMap
              /\ \A i \in 1 .. Len(list) : g[i] = AddSubset(g[i - 1], list[i])
              /\ CreateDestinationRuleResources(list) = g[Len(list)]
  BY RulesLoop
<1> DEFINE n == Len(list)
           S == {k \in 0 .. n : RulesRight(g[k], list, k)}
<1>2. n \in Nat /\ n \in 0 .. n
  OBVIOUS
<1>3. 0 \in S
  <2>1. DOMAIN g[0] = {} /\ 1 .. 0 = {}
    BY <1>1, EmptyInMaps
  <2> QED
    BY <1>2, <2>1 DEF RulesRight
<1>4. ASSUME NEW k \in 1 .. n, k - 1 \in S PROVE k \in S
  <2>1. g[k - 1] \in Maps(Names, Rule) /\ g[k] = AddSubset(g[k - 1], list[k])
    BY <1>1, <1>4
  <2>2. RulesRight(g[k], list, k)
    BY <1>4, <2>1, RulesStep
  <2> QED
    BY <2>2
<1> HIDE DEF S
<1>5. n \in S
  BY <1>2, <1>3, <1>4, LoopKeeps
<1> QED
  BY <1>1, <1>5 DEF S

\* The service entries at the end.
LEMMA EntriesAre ==
    ASSUME NEW list \in Seq(Entries)
    PROVE  EntriesRight(CreateServiceEntryResources(list), list, Len(list))
<1>1. PICK g \in [0 .. Len(list) -> Maps(Names, ServiceEntry)] :
              /\ g[0] = EmptyMap
              /\ \A i \in 1 .. Len(list) : g[i] = AddEndpoints(g[i - 1], list[i])
              /\ CreateServiceEntryResources(list) = g[Len(list)]
  BY EntriesLoop
<1> DEFINE n == Len(list)
           S == {k \in 0 .. n : EntriesRight(g[k], list, k)}
<1>2. n \in Nat /\ n \in 0 .. n
  OBVIOUS
<1>3. 0 \in S
  <2>1. DOMAIN g[0] = {} /\ 1 .. 0 = {}
    BY <1>1, EmptyInMaps
  <2> QED
    BY <1>2, <2>1 DEF EntriesRight
<1>4. ASSUME NEW k \in 1 .. n, k - 1 \in S PROVE k \in S
  <2>1. g[k - 1] \in Maps(Names, ServiceEntry) /\ g[k] = AddEndpoints(g[k - 1], list[k])
    BY <1>1, <1>4
  <2>2. EntriesRight(g[k], list, k)
    BY <1>4, <2>1, EntriesStep
  <2> QED
    BY <2>2
<1> HIDE DEF S
<1>5. n \in S
  BY <1>2, <1>3, <1>4, LoopKeeps
<1> QED
  BY <1>1, <1>5 DEF S

\* The backends of a process as endpoints have them and as entries do.
HasEndpoints(endpoints, name) ==
    Range(endpoints) = UNION {EndpointsOf(sorted[i]) : i \in Of(sorted, Len(sorted), name)}
Labelled(endpoints, process) ==
    {<<e.Address, e.Port>> : e \in {e \in Range(endpoints) : e.cfapp = process}}
BackendsOf(name, process) ==
    UNION {{<<b.Address, b.Port>> : b \in Range(r.Backends)} :
        r \in {r \in Range(collected) : Name(r) = name /\ r.CapiProcessGUID = process}}

\* The backends of a process as the service entry of a name has them.
LEMMA EndpointsResolve ==
    ASSUME InputsInOrder, NEW name, NEW process, NEW endpoints, HasEndpoints(endpoints, name)
    PROVE  Labelled(endpoints, process) = BackendsOf(name, process)
<1> DEFINE n == Len(sorted)
           left == {<<e.Address, e.Port>> : e \in {e \in Range(endpoints) : e.cfapp = process}}
           ours == {r \in Range(collected) : Name(r) = name /\ r.CapiProcessGUID = process}
           right == UNION {{<<b.Address, b.Port>> : b \in Range(r.Backends)} : r \in ours}
<1>1. sorted \in Seq(Entries) /\ n \in Nat /\ DOMAIN sorted = 1 .. n /\ Range(sorted) = Range(collected)
  BY SortedRoutes
<1> HIDE DEF sorted
<1>2. ASSUME NEW r \in Range(collected), NEW j \in DOMAIN r.Backends
      PROVE  /\ createEndpoint(r)[j].Address = r.Backends[j].Address
             /\ createEndpoint(r)[j].Port = r.Backends[j].Port
             /\ createEndpoint(r)[j].cfapp = r.CapiProcessGUID
             /\ createEndpoint(r)[j] \in EndpointsOf(r)
  BY DEF createEndpoint, EndpointsOf, Range
<1>3. ASSUME NEW r \in Range(collected), NEW e \in EndpointsOf(r)
      PROVE  \E j \in DOMAIN r.Backends : e = createEndpoint(r)[j]
  BY DEF createEndpoint, EndpointsOf, Range
<1>4. ASSUME NEW x \in left PROVE x \in right
  <2>1. PICK e \in Range(endpoints) : e.cfapp = process /\ x = <<e.Address, e.Port>>
    OBVIOUS
  <2>2. PICK i \in Of(sorted, n, name) : e \in EndpointsOf(sorted[i])
    BY <2>1 DEF HasEndpoints
  <2> DEFINE r == sorted[i]
  <2>3. r \in Range(collected) /\ Name(r) = name /\ e \in EndpointsOf(r)
    BY <1>1, <2>2 DEF Of, Range
  <2> HIDE DEF r
  <2>4. PICK j \in DOMAIN r.Backends : e = createEndpoint(r)[j]
    BY <1>3, <2>3
  <2>5. r \in ours /\ x = <<r.Backends[j].Address, r.Backends[j].Port>>
    BY <1>2, <2>1, <2>3, <2>4
  <2>6. r.Backends[j] \in Range(r.Backends)
    BY <2>4 DEF Range
  <2> HIDE DEF ours
  <2> QED
    BY <2>5, <2>6
<1>5. ASSUME NEW x \in right PROVE x \in left
  <2>1. PICK r \in ours : x \in {<<b.Address, b.Port>> : b \in Range(r.Backends)}
    OBVIOUS
  <2>2. PICK j \in DOMAIN r.Backends : x = <<r.Backends[j].Address, r.Backends[j].Port>>
    BY <2>1 DEF Range
  <2>3. r \in Range(collected) /\ Name(r) = name /\ r.CapiProcessGUID = process
    BY <2>1
  <2>4. PICK i \in 1 .. n : r = sorted[i]
    BY <1>1, <2>3 DEF Range
  <2>5. i \in Of(sorted, n, name)
    BY <2>3, <2>4 DEF Of
  <2> DEFINE e == createEndpoint(r)[j]
  <2>6. e \in EndpointsOf(r) /\ x = <<e.Address, e.Port>> /\ e.cfapp = process
    BY <1>2, <2>2, <2>3
  <2> HIDE DEF e
  <2>7. e \in Range(endpoints)
    BY <2>4, <2>5, <2>6 DEF HasEndpoints
  <2> QED
    BY <2>6, <2>7
<1> QED
  BY <1>4, <1>5 DEF Labelled, BackendsOf

\* Resources of different types fit together: for any routes, every
\* destination of a virtual service is a subset of the destination rule, has
\* exactly its backends as endpoints of the service entry, and its port.
THEOREM ResourcesFitTogether == AnyInputs => []DestinationsResolve
<1>1. InputsInOrder => DestinationsResolve
  <2> DEFINE vss == CreateVirtualServiceResources(sorted)
             drs == CreateDestinationRuleResources(sorted)
             ses == CreateServiceEntryResources(sorted)
             n == Len(sorted)
  <2> SUFFICES ASSUME InputsInOrder, KindsApart, NEW name \in DOMAIN vss, NEW i \in DOMAIN vss[name].Http,
                      NEW d \in Range(vss[name].Http[i].Route)
               PROVE  /\ d.Subset \in Range(drs[name].Subsets)
                      /\ {<<e.Address, e.Port>> : e \in {e \in Range(ses[name].Endpoints) : e.cfapp = d.Subset}}
                         = UNION {{<<b.Address, b.Port>> : b \in Range(r.Backends)} :
                               r \in {r \in Range(collected) : Name(r) = name /\ r.CapiProcessGUID = d.Subset}}
                      /\ OnePort(name) => d.Port \in ses[name].Ports
    BY DEF DestinationsResolve
  <2>1. /\ sorted \in Seq(Entries) /\ Range(sorted) = Range(collected) /\ Apart(sorted) /\ Ascending(sorted)
        /\ DOMAIN sorted = 1 .. n
    BY SortedRoutes
  <2>2. RulesRight(drs, sorted, n) /\ EntriesRight(ses, sorted, n)
    BY <2>1, RulesAre, EntriesAre
  <2>3. DOMAIN vss = {Name(sorted[j]) : j \in 1 .. n}
    BY <2>1, VirtualServicesRight
  <2>4. PICK keys : Fits(vss[name].Http, sorted, name, keys)
    BY <2>1, VirtualServicesRight
  <2> HIDE DEF vss, drs, ses, n, sorted
  <2>5. /\ i \in DOMAIN keys /\ keys[i] \in KeysOf(sorted, n, name)
        /\ d \in DestinationsOf(sorted, n, keys[i])
    BY <2>4 DEF Fits, Range, n
  <2>6. PICK j \in 1 .. n : Name(sorted[j]) = name /\ routeKey(sorted[j]) = keys[i]
    BY <2>5 DEF KeysOf
  <2>7. PICK l \in 1 .. n : d = createDestinationWeight(sorted[l]) /\ routeKey(sorted[l]) = keys[i]
    BY <2>5 DEF DestinationsOf
  <2>8. Name(sorted[l]) = name
    BY <2>1, <2>6, <2>7 DEF Apart, routeKey, Name
  <2>9. l \in Of(sorted, n, name) /\ name \in DOMAIN drs /\ name \in DOMAIN ses
    BY <2>2, <2>3, <2>8 DEF Of, RulesRight, EntriesRight
  <2>10. d.Subset = sorted[l].CapiProcessGUID /\ d.Port = sorted[l].Backends[1].ContainerPort
    BY <2>7 DEF createDestinationWeight
  <2>11. d.Subset \in Range(drs[name].Subsets)
    BY <2>2, <2>9, <2>10 DEF RulesRight
  <2>12. Range(ses[name].Endpoints) = UNION {EndpointsOf(sorted[m]) : m \in Of(sorted, n, name)}
    BY <2>2, <2>9 DEF EntriesRight
  <2>13. {<<e.Address, e.Port>> : e \in {e \in Range(ses[name].Endpoints) : e.cfapp = d.Subset}}
         = UNION {{<<b.Address, b.Port>> : b \in Range(r.Backends)} :
               r \in {r \in Range(collected) : Name(r) = name /\ r.CapiProcessGUID = d.Subset}}
    <3> DEFINE endpoints == ses[name].Endpoints
               process == d.Subset
    <3>1. HasEndpoints(endpoints, name)
      BY <2>12 DEF n, HasEndpoints
    <3> HIDE DEF endpoints, process
    <3>2. Labelled(endpoints, process) = BackendsOf(name, process)
      BY <3>1, EndpointsResolve
    <3> QED
      BY <3>2 DEF endpoints, process, Labelled, BackendsOf
  <2>14. ASSUME OnePort(name) PROVE d.Port \in ses[name].Ports
    <3>1. PICK m \in Of(sorted, n, name) : ses[name].Ports = createServiceEntry(sorted[m]).Ports
      BY <2>2, <2>9 DEF EntriesRight
    <3>2. /\ sorted[m] \in Range(collected) /\ sorted[l] \in Range(collected)
          /\ Name(sorted[m]) = name /\ sorted[l] \in Entries
      <4>1. m \in 1 .. n /\ Name(sorted[m]) = name
        BY <3>1 DEF Of
      <4>2. sorted[m] \in Range(sorted) /\ sorted[l] \in Range(sorted)
        BY <2>1, <4>1 DEF Range
      <4>3. sorted[l] \in Entries
        BY <2>1 DEF n
      <4> QED
        BY <2>1, <4>1, <4>2, <4>3
    <3>3. createServiceEntry(sorted[m]).Ports = createServiceEntry(sorted[l]).Ports
      BY <2>8, <2>14, <3>2 DEF OnePort
    <3>4. 1 \in DOMAIN sorted[l].Backends
      <4> DEFINE b == sorted[l].Backends
                 X == Range(b)
      <4>1. b \in Seq(X) /\ b # <<>>
        BY <3>2, EntriesAssumption
      <4> HIDE DEF b, X
      <4>2. 1 \in DOMAIN b
        BY <4>1
      <4> QED
        BY <4>2 DEF b
    <3>5. d.Port \in createServiceEntry(sorted[l]).Ports
      BY <2>10, <3>4 DEF createServiceEntry
    <3> QED
      BY <3>1, <3>3, <3>5
  <2> QED
    BY <2>11, <2>13, <2>14
<1> QED
  BY <1>1, InputsAreLists, PTL
-----------------------------------------------------------------------------
(***************************************************************************)
(* Slices.                                                                 *)
(***************************************************************************)
HostNames == {e.Hostname : e \in Entries} \cup {""}
Heaps == Seq(Seq(HostNames))
Slice == [arr : Nat, len : Nat \ {0}]

\* The slice lies within its array.
Valid(heap, slice) == slice.arr \in 1 .. Len(heap) /\ slice.len <= Len(heap[slice.arr])

\* What a slice holds.
LEMMA HostsAre ==
    ASSUME NEW heap \in Heaps, NEW slice \in Slice, Valid(heap, slice)
    PROVE  /\ Hosts(heap, slice) = [i \in 1 .. slice.len |-> heap[slice.arr][i]]
           /\ Hosts(heap, slice) \in Seq(HostNames) /\ Len(Hosts(heap, slice)) = slice.len
           /\ Hosts(heap, slice) # <<>>
<1> DEFINE a == heap[slice.arr]
           n == slice.len
<1>1. a \in Seq(HostNames) /\ n \in Nat \ {0} /\ n <= Len(a)
  BY DEF Heaps, Slice, Valid
<1> HIDE DEF a, n
<1>2. /\ SubSeq(a, 1, n) = [i \in 1 .. n |-> a[i]]
      /\ SubSeq(a, 1, n) \in Seq(HostNames) /\ Len(SubSeq(a, 1, n)) = n
  BY <1>1
<1>3. SubSeq(a, 1, n) # <<>>
  BY <1>1, <1>2
<1> QED
  BY <1>2, <1>3 DEF Hosts, a, n

\* One list after the other.
LEMMA BothInARow ==
    ASSUME NEW X, NEW s \in Seq(X), NEW t \in Seq(X)
    PROVE  s \o t \in Seq(X) /\ Len(s \o t) = Len(s) + Len(t) /\ \A i \in 1 .. Len(s) : (s \o t)[i] = s[i]
OBVIOUS

\* What append does: the new slice holds the old hosts and the new ones, and
\* a slice in another array, or within the old slice, holds what it held.
Kept(heap, slice, o, heap2) ==
    /\ Valid(heap2, o)
    /\ (o.arr # slice.arr \/ o.len <= slice.len) => Hosts(heap2, o) = Hosts(heap, o)
Appended(heap, slice, hosts, heap2, slice2) ==
    /\ heap2 \in Heaps /\ slice2 \in Slice /\ Valid(heap2, slice2)
    /\ Hosts(heap2, slice2) = Hosts(heap, slice) \o hosts
    /\ slice2.len >= slice.len
    /\ slice2.arr = slice.arr \/ slice2.arr = Len(heap) + 1
    /\ \A o \in Slice : Valid(heap, o) => Kept(heap, slice, o, heap2)

\* In place or in a new array.
LEMMA GoAppendRight ==
    ASSUME NEW heap \in Heaps, NEW slice \in Slice, Valid(heap, slice), NEW hosts \in Seq(HostNames)
    PROVE  Appended(heap, slice, hosts, GoAppend(heap, slice, hosts).heap, GoAppend(heap, slice, hosts).slice)
<1> DEFINE need == slice.len + Len(hosts)
           old == heap[slice.arr]
           spare == IF need <= Len(old) THEN Len(old) - need
                    ELSE (IF 2 * Len(old) > need THEN 2 * Len(old) - need ELSE 0)
           new == Hosts(heap, slice) \o hosts
           rest == [i \in 1 .. spare |-> IF need + i <= Len(old) THEN old[need + i] ELSE ""]
           array == new \o rest
           r == GoAppend(heap, slice, hosts)
<1>1. /\ r = IF need <= Len(old)
             THEN [heap |-> [heap EXCEPT ![slice.arr] = array], slice |-> [slice EXCEPT !.len = need]]
             ELSE [heap |-> Append(heap, array), slice |-> [arr |-> Len(heap) + 1, len |-> need]]
  BY DEF GoAppend
<1>2. /\ slice.arr \in 1 .. Len(heap) /\ slice.len \in Nat \ {0} /\ slice.len <= Len(old)
      /\ Len(heap) \in Nat /\ old \in Seq(HostNames) /\ Len(old) \in Nat /\ Len(hosts) \in Nat
      /\ need \in Nat \ {0} /\ need >= slice.len /\ spare \in Nat
      /\ DOMAIN heap = 1 .. Len(heap) /\ DOMAIN old = 1 .. Len(old)
      /\ slice = [arr |-> slice.arr, len |-> slice.len]
  BY DEF Heaps, Slice, Valid
<1> HIDE DEF r, old
<1>3. rest \in Seq(HostNames) /\ Len(rest) = spare
  <2>1. ASSUME NEW i \in 1 .. spare PROVE rest[i] \in HostNames
    <3>1. rest[i] = IF need + i <= Len(old) THEN old[need + i] ELSE ""
      OBVIOUS
    <3>2. need + i \in Nat \ {0}
      BY <1>2
    <3>3. need + i <= Len(old) => old[need + i] \in HostNames
      <4> HIDE DEF need
      <4>1. need + i <= Len(old) => need + i \in DOMAIN old
        BY <1>2, <3>2
      <4> QED
        BY <1>2, <4>1
    <3>4. "" \in HostNames
      BY DEF HostNames
    <3> HIDE DEF rest, need
    <3> QED
      BY <3>1, <3>3, <3>4
  <2> HIDE DEF spare
  <2>2. rest \in [1 .. spare -> HostNames]
    BY <2>1
  <2> HIDE DEF rest
  <2> QED
    BY <1>2, <2>2
<1> HIDE DEF rest
<1> DEFINE held == Hosts(heap, slice)
<1>4. held \in Seq(HostNames) /\ Len(held) = slice.len /\ \A i \in 1 .. slice.len : held[i] = old[i]
  BY HostsAre DEF old
<1> HIDE DEF held
<1>5. /\ array \in Seq(HostNames) /\ Len(array) = need + spare
      /\ \A i \in 1 .. slice.len : array[i] = old[i]
      /\ new = [i \in 1 .. need |-> array[i]]
  <2>1. new = held \o hosts
    BY DEF held
  <2> HIDE DEF new, spare
  <2>2. new \in Seq(HostNames) /\ Len(new) = need /\ \A i \in 1 .. slice.len : new[i] = held[i]
    <3>1. held \o hosts \in Seq(HostNames) /\ Len(held \o hosts) = Len(held) + Len(hosts)
          /\ \A i \in 1 .. Len(held) : (held \o hosts)[i] = held[i]
      BY <1>4, BothInARow
    <3> QED
      BY <1>4, <2>1, <3>1
  <2> HIDE DEF need
  <2>3. array \in Seq(HostNames) /\ Len(array) = need + spare /\ \A i \in 1 .. need : array[i] = new[i]
    <3>1. new \o rest \in Seq(HostNames) /\ Len(new \o rest) = Len(new) + Len(rest)
          /\ \A i \in 1 .. Len(new) : (new \o rest)[i] = new[i]
      BY <1>3, <2>2, BothInARow
    <3> QED
      BY <1>3, <2>2, <3>1
  <2>4. new = [i \in 1 .. need |-> new[i]]
    BY <1>2, <2>2
  <2> HIDE DEF array
  <2>5. \A i \in 1 .. slice.len : i \in 1 .. need
    BY <1>2
  <2> QED
    BY <1>4, <2>2, <2>3, <2>4, <2>5
<1> HIDE DEF array, new
<1>6. /\ r.heap \in Heaps /\ r.slice \in Slice /\ Len(r.heap) \in Nat /\ Len(r.heap) >= Len(heap)
      /\ r.slice.len = need /\ r.slice.arr \in 1 .. Len(r.heap)
      /\ r.slice.arr = slice.arr \/ r.slice.arr = Len(heap) + 1
      /\ r.heap[r.slice.arr] = array
      /\ \A a \in 1 .. Len(heap) : a # slice.arr => r.heap[a] = heap[a]
      /\ Len(r.heap[slice.arr]) = Len(old)
      /\ \A i \in 1 .. slice.len : r.heap[slice.arr][i] = old[i]
  <2>1. CASE need <= Len(old)
    <3> DEFINE h == [heap EXCEPT ![slice.arr] = array]
    <3>1. r.heap = h /\ r.slice = [slice EXCEPT !.len = need]
      BY <1>1, <2>1
    <3>2. r.slice \in Slice /\ r.slice.len = need /\ r.slice.arr = slice.arr
      BY <1>2, <3>1 DEF Slice
    <3>3. h \in Seq(Seq(HostNames)) /\ Len(h) = Len(heap) /\ h[slice.arr] = array
          /\ \A a \in 1 .. Len(heap) : a # slice.arr => h[a] = heap[a]
      BY <1>2, <1>5 DEF Heaps
    <3>4. Len(array) = Len(old)
      BY <1>2, <1>5, <2>1
    <3> HIDE DEF h
    <3> QED
      BY <1>2, <1>5, <3>1, <3>2, <3>3, <3>4 DEF Heaps
  <2>2. CASE ~(need <= Len(old))
    <3> DEFINE h == Append(heap, array)
    <3>1. r.heap = h /\ r.slice = [arr |-> Len(heap) + 1, len |-> need]
      BY <1>1, <2>2
    <3>2. r.slice \in Slice /\ r.slice.len = need /\ r.slice.arr = Len(heap) + 1
      BY <1>2, <3>1 DEF Slice
    <3>3. h \in Seq(Seq(HostNames)) /\ Len(h) = Len(heap) + 1 /\ h[Len(heap) + 1] = array
          /\ \A a \in 1 .. Len(heap) : h[a] = heap[a]
      BY <1>2, <1>5 DEF Heaps
    <3>4. h[slice.arr] = old
      BY <1>2, <3>3 DEF old
    <3> HIDE DEF h, need, spare
    <3>5. Len(h) \in Nat /\ Len(h) >= Len(heap) /\ Len(heap) + 1 \in 1 .. Len(h)
      BY <1>2, <3>3
    <3>6. h \in Heaps /\ h[r.slice.arr] = array
      BY <3>2, <3>3 DEF Heaps
    <3> QED
      BY <1>5, <3>1, <3>2, <3>3, <3>4, <3>5, <3>6
  <2> QED
    BY <2>1, <2>2
<1>7. Valid(r.heap, r.slice)
  BY <1>2, <1>5, <1>6 DEF Valid
<1>8. Hosts(r.heap, r.slice) = new
  <2>1. Hosts(r.heap, r.slice) = [i \in 1 .. need |-> array[i]]
    <3> DEFINE h == r.heap
               q == r.slice
    <3>1. h \in Heaps /\ q \in Slice /\ Valid(h, q) /\ q.len = need /\ h[q.arr] = array
      BY <1>6, <1>7
    <3> HIDE DEF h, q, need
    <3>2. Hosts(h, q) = [i \in 1 .. q.len |-> h[q.arr][i]]
      BY <3>1, HostsAre
    <3> QED
      BY <3>1, <3>2 DEF h, q
  <2> QED
    BY <1>5, <2>1
<1>9. ASSUME NEW o \in Slice, Valid(heap, o) PROVE Kept(heap, slice, o, r.heap)
  <2>1. o.arr \in 1 .. Len(heap) /\ o.len \in Nat /\ o.len <= Len(heap[o.arr])
    BY <1>9 DEF Valid, Slice
  <2>2. Len(r.heap[o.arr]) = Len(heap[o.arr])
    BY <1>6, <2>1 DEF old
  <2>3. Valid(r.heap, o)
    BY <1>2, <1>6, <2>1, <2>2 DEF Valid
  <2>4. ASSUME o.arr # slice.arr \/ o.len <= slice.len PROVE Hosts(r.heap, o) = Hosts(heap, o)
    <3>1. ASSUME NEW i \in 1 .. o.len PROVE r.heap[o.arr][i] = heap[o.arr][i]
      <4>1. CASE o.arr # slice.arr
        BY <1>6, <2>1, <4>1
      <4>2. CASE o.arr = slice.arr
        <5>1. i \in 1 .. slice.len
          BY <1>2, <2>1, <2>4, <4>2
        <5> QED
          BY <1>6, <4>2, <5>1 DEF old
      <4> QED
        BY <4>1, <4>2
    <3>2. /\ Hosts(r.heap, o) = [i \in 1 .. o.len |-> r.heap[o.arr][i]]
          /\ Hosts(heap, o) = [i \in 1 .. o.len |-> heap[o.arr][i]]
      BY <1>6, <1>9, <2>3, HostsAre
    <3> QED
      BY <3>1, <3>2
  <2> QED
    BY <2>3, <2>4 DEF Kept
<1> QED
  BY <1>2, <1>6, <1>7, <1>8, <1>9 DEF Appended, r, new

-----------------------------------------------------------------------------
(***************************************************************************)
(* The first loop: every process has an array of its own.                  *)
(***************************************************************************)
RoutesApart(acc) ==
    \A p, q \in DOMAIN acc.routeMap :
        Valid(acc.heap, acc.routeMap[p]) /\ (p # q => acc.routeMap[p].arr # acc.routeMap[q].arr)
WellMapped(acc) == acc.heap \in Heaps /\ acc.routeMap \in Maps(Guids, Slice) /\ RoutesApart(acc)
MapState == {acc \in [heap : Heaps, routeMap : Maps(Guids, Slice)] : RoutesApart(acc)}
NoRouteMap == [heap |-> <<>>, routeMap |-> EmptyMap]

HostsAt(acc, p) == IF p \in DOMAIN acc.routeMap THEN Hosts(acc.heap, acc.routeMap[p]) ELSE <<>>

\* A process has hosts exactly if the map has it.
LEMMA HostsAtRight ==
    ASSUME NEW acc, WellMapped(acc), NEW p
    PROVE  /\ HostsAt(acc, p) \in Seq(HostNames)
           /\ HostsAt(acc, p) # <<>> <=> p \in DOMAIN acc.routeMap
<1>1. acc.heap \in Heaps /\ acc.routeMap \in Maps(Guids, Slice) /\ RoutesApart(acc)
  BY DEF WellMapped
<1>2. CASE p \in DOMAIN acc.routeMap
  <2> DEFINE slice == acc.routeMap[p]
             heap == acc.heap
  <2>1. slice \in Slice /\ Valid(heap, slice) /\ heap \in Heaps
    BY <1>1, <1>2, InMaps DEF RoutesApart
  <2>2. HostsAt(acc, p) = Hosts(heap, slice)
    BY <1>2 DEF HostsAt
  <2> HIDE DEF slice, heap
  <2>3. Hosts(heap, slice) \in Seq(HostNames) /\ Hosts(heap, slice) # <<>>
    BY <2>1, HostsAre
  <2> QED
    BY <1>2, <2>2, <2>3
<1>3. CASE p \notin DOMAIN acc.routeMap
  BY <1>3 DEF HostsAt
<1> QED
  BY <1>2, <1>3

\* The slices of the other processes hold what they held.
Undisturbed(acc, g, heap, slice) ==
    \A q \in DOMAIN acc.routeMap : q # g =>
        /\ Valid(heap, acc.routeMap[q]) /\ acc.routeMap[q].arr # slice.arr
        /\ Hosts(heap, acc.routeMap[q]) = Hosts(acc.heap, acc.routeMap[q])

\* A new slice for one process.
LEMMA NewSlice ==
    ASSUME NEW acc \in MapState, NEW g \in Guids, NEW heap \in Heaps, NEW slice \in Slice,
           Valid(heap, slice), Undisturbed(acc, g, heap, slice)
    PROVE  /\ [heap |-> heap, routeMap |-> Put(acc.routeMap, g, slice)] \in MapState
           /\ HostsAt([heap |-> heap, routeMap |-> Put(acc.routeMap, g, slice)], g) = Hosts(heap, slice)
           /\ \A q : q # g => HostsAt([heap |-> heap, routeMap |-> Put(acc.routeMap, g, slice)], q) = HostsAt(acc, q)
<1> DEFINE m == acc.routeMap
           p == Put(m, g, slice)
           r == [heap |-> heap, routeMap |-> p]
<1>1. m \in Maps(Guids, Slice) /\ RoutesApart(acc)
  BY DEF MapState
<1>2. DOMAIN p = DOMAIN m \cup {g} /\ p[g] = slice /\ \A q \in DOMAIN m : q # g => p[q] = m[q]
  BY DEF Put
<1>3. p \in Maps(Guids, Slice)
  <2> HIDE DEF m
  <2> QED
    BY <1>1, PutInMaps
<1> HIDE DEF p
<1>4. r.heap = heap /\ r.routeMap = p /\ r \in [heap : Heaps, routeMap : Maps(Guids, Slice)]
  BY <1>3
<1> HIDE DEF r
<1>5. RoutesApart(r)
  <2> SUFFICES ASSUME NEW x \in DOMAIN p, NEW y \in DOMAIN p
               PROVE  Valid(heap, p[x]) /\ (x # y => p[x].arr # p[y].arr)
    BY <1>4 DEF RoutesApart
  <2>1. CASE x = g
    BY <1>2, <2>1 DEF Undisturbed
  <2>2. CASE x # g
    BY <1>1, <1>2, <2>2 DEF Undisturbed, RoutesApart
  <2> QED
    BY <2>1, <2>2
<1>6. HostsAt(r, g) = Hosts(heap, slice)
  BY <1>2, <1>4 DEF HostsAt
<1>7. ASSUME NEW q, q # g PROVE HostsAt(r, q) = HostsAt(acc, q)
  BY <1>2, <1>4, <1>7 DEF HostsAt, Undisturbed
<1> QED
  BY <1>4, <1>5, <1>6, <1>7 DEF MapState, r, p

\* What a route adds to the hosts of a process.
HostFor(e, p) == IF e.Internal /\ e.CapiProcessGUID = p THEN <<e.Hostname>> ELSE <<>>

\* A step of the loop adds the host to the slice of the process.
LEMMA MapInternalRouteRight ==
    ASSUME NEW acc \in MapState, NEW e \in Entries
    PROVE  /\ MapInternalRoute(acc, e) \in MapState
           /\ \A p : HostsAt(MapInternalRoute(acc, e), p) = HostsAt(acc, p) \o HostFor(e, p)
<1> DEFINE g == e.CapiProcessGUID
           m == acc.routeMap
           r == MapInternalRoute(acc, e)
           hosts == <<e.Hostname>>
           heap == acc.heap
<1>1. /\ g \in Guids /\ e.Hostname \in HostNames /\ e.Internal \in BOOLEAN
      /\ heap \in Heaps /\ m \in Maps(Guids, Slice) /\ RoutesApart(acc)
  BY EntriesAssumption DEF MapState, Guids, HostNames
<1>2. \A p : HostsAt(acc, p) \in Seq(HostNames) /\ HostsAt(acc, p) \o <<>> = HostsAt(acc, p)
  <2> TAKE p
  <2> DEFINE h == HostsAt(acc, p)
  <2>1. h \in Seq(HostNames)
    BY <1>1, HostsAtRight DEF WellMapped
  <2> HIDE DEF h
  <2>2. h \o <<>> = h
    BY <2>1
  <2> QED
    BY <2>1, <2>2 DEF h
<1>3. hosts \in Seq(HostNames)
  BY <1>1
<1>4. \A q \in DOMAIN m : m[q] \in Slice /\ Valid(heap, m[q]) /\ m[q].arr \in 1 .. Len(heap)
  BY <1>1, InMaps DEF RoutesApart, Valid
<1>5. CASE ~e.Internal
  <2>1. r = acc
    BY <1>5 DEF MapInternalRoute
  <2>2. \A p : HostFor(e, p) = <<>>
    BY <1>5 DEF HostFor
  <2> QED
    BY <1>2, <2>1, <2>2
<1>6. CASE e.Internal
  <2> SUFFICES ASSUME NEW heap2 \in Heaps, NEW slice2 \in Slice, Valid(heap2, slice2),
                      r = [heap |-> heap2, routeMap |-> Put(m, g, slice2)],
                      Undisturbed(acc, g, heap2, slice2), Hosts(heap2, slice2) = HostsAt(acc, g) \o hosts
               PROVE  r \in MapState /\ \A p : HostsAt(r, p) = HostsAt(acc, p) \o HostFor(e, p)
    <3>1. CASE g \notin DOMAIN m
      <4> DEFINE h2 == Append(heap, hosts)
                 s2 == [arr |-> Len(heap) + 1, len |-> 1]
      <4>1. r = [heap |-> h2, routeMap |-> Put(m, g, s2)]
        BY <1>6, <3>1 DEF MapInternalRoute
      <4>2. /\ h2 \in Heaps /\ Len(h2) = Len(heap) + 1 /\ Len(heap) \in Nat
            /\ h2[Len(heap) + 1] = hosts /\ \A a \in 1 .. Len(heap) : h2[a] = heap[a]
        <5> HIDE DEF hosts, heap
        <5> QED
          BY <1>1, <1>3 DEF Heaps
      <4>3. s2 \in Slice /\ s2.arr = Len(heap) + 1 /\ s2.len = 1
        BY <4>2 DEF Slice
      <4> HIDE DEF h2, s2
      <4>4. Valid(h2, s2)
        <5>1. Len(hosts) = 1
          OBVIOUS
        <5> HIDE DEF hosts, heap
        <5>2. s2.arr \in 1 .. Len(h2) /\ h2[s2.arr] = hosts
          BY <4>2, <4>3
        <5> QED
          BY <4>3, <5>1, <5>2 DEF Valid
      <4>5. Undisturbed(acc, g, h2, s2)
        <5> SUFFICES ASSUME NEW q \in DOMAIN m
                     PROVE  Valid(h2, m[q]) /\ m[q].arr # s2.arr /\ Hosts(h2, m[q]) = Hosts(heap, m[q])
          BY DEF Undisturbed
        <5>1. m[q] \in Slice /\ Valid(heap, m[q]) /\ m[q].arr \in 1 .. Len(heap)
          BY <1>4
        <5> DEFINE o == m[q]
        <5> HIDE DEF m, heap, o
        <5>2. o \in Slice /\ Valid(heap, o) /\ o.arr \in 1 .. Len(heap)
          BY <5>1 DEF o
        <5>3. h2[o.arr] = heap[o.arr] /\ o.arr \in 1 .. Len(h2) /\ o.arr # Len(heap) + 1
          BY <4>2, <5>2
        <5>4. Valid(h2, o) /\ o.arr # s2.arr /\ Hosts(h2, o) = Hosts(heap, o)
          BY <4>3, <5>2, <5>3 DEF Valid, Hosts
        <5> QED
          BY <5>4 DEF o
      <4>6. Hosts(h2, s2) = HostsAt(acc, g) \o hosts
        <5>1. HostsAt(acc, g) = <<>>
          BY <3>1 DEF HostsAt
        <5>2. Hosts(h2, s2) = [i \in 1 .. 1 |-> hosts[i]]
          BY <4>2, <4>3, <4>4, HostsAre
        <5> HIDE DEF g
        <5> QED
          BY <1>3, <5>1, <5>2
      <4> QED
        BY <4>1, <4>2, <4>3, <4>4, <4>5, <4>6
    <3>2. CASE g \in DOMAIN m
      <4> DEFINE slice == m[g]
                 grown == GoAppend(heap, slice, hosts)
                 h2 == grown.heap
                 s2 == grown.slice
      <4>1. r = [heap |-> h2, routeMap |-> Put(m, g, s2)]
        BY <1>6, <3>2 DEF MapInternalRoute
      <4>2. slice \in Slice /\ Valid(heap, slice) /\ slice.arr \in 1 .. Len(heap)
        BY <1>4, <3>2
      <4>3. Appended(heap, slice, hosts, h2, s2)
        <5> HIDE DEF heap, slice, hosts
        <5> QED
          BY <1>1, <1>3, <4>2, GoAppendRight
      <4> HIDE DEF h2, s2, grown
      <4>4. h2 \in Heaps /\ s2 \in Slice /\ Valid(h2, s2) /\ Hosts(h2, s2) = Hosts(heap, slice) \o hosts
        BY <4>3 DEF Appended
      <4>5. Undisturbed(acc, g, h2, s2)
        <5> SUFFICES ASSUME NEW q \in DOMAIN m, q # g
                     PROVE  Valid(h2, m[q]) /\ m[q].arr # s2.arr /\ Hosts(h2, m[q]) = Hosts(heap, m[q])
          BY DEF Undisturbed
        <5>1. m[q] \in Slice /\ Valid(heap, m[q]) /\ m[q].arr \in 1 .. Len(heap)
          BY <1>4
        <5>2. m[q].arr # slice.arr
          BY <1>1, <3>2 DEF RoutesApart
        <5>3. Kept(heap, slice, m[q], h2) /\ (s2.arr = slice.arr \/ s2.arr = Len(heap) + 1) /\ Len(heap) \in Nat
          BY <1>1, <4>3, <5>1 DEF Appended, Heaps
        <5> HIDE DEF m, heap, slice
        <5> QED
          BY <5>1, <5>2, <5>3 DEF Kept
      <4>6. HostsAt(acc, g) = Hosts(heap, slice)
        BY <3>2 DEF HostsAt
      <4> QED
        BY <4>1, <4>4, <4>5, <4>6
    <3> QED
      BY <3>1, <3>2
  <2> HIDE DEF g, m, hosts, r
  <2>1. r \in MapState /\ HostsAt(r, g) = Hosts(heap2, slice2) /\ \A q : q # g => HostsAt(r, q) = HostsAt(acc, q)
    BY <1>1, NewSlice DEF m
  <2>2. HostFor(e, g) = hosts /\ \A q : q # g => HostFor(e, q) = <<>>
    BY <1>6 DEF HostFor, g, hosts
  <2>3. HostsAt(r, g) = HostsAt(acc, g) \o HostFor(e, g)
    BY <2>1, <2>2
  <2>4. ASSUME NEW p, p # g PROVE HostsAt(r, p) = HostsAt(acc, p) \o HostFor(e, p)
    <3>1. HostsAt(r, p) = HostsAt(acc, p) /\ HostFor(e, p) = <<>> /\ HostsAt(acc, p) \o <<>> = HostsAt(acc, p)
      BY <1>2, <2>1, <2>2, <2>4
    <3> QED
      BY <3>1
  <2> QED
    BY <2>1, <2>3, <2>4
<1> QED
  BY <1>1, <1>5, <1>6

LEMMA MapInternalRouteType ==
    ASSUME NEW acc \in MapState, NEW e \in Entries
    PROVE  MapInternalRoute(acc, e) \in MapState
BY MapInternalRouteRight

\* The loop begins with no process.
LEMMA NoRouteMapType == NoRouteMap \in MapState
<1>1. /\ NoRouteMap \in [heap : Heaps, routeMap : Maps(Guids, Slice)]
      /\ NoRouteMap.routeMap = EmptyMap /\ DOMAIN EmptyMap = {}
  BY EmptyInMaps DEF NoRouteMap, Heaps
<1> QED
  BY <1>1 DEF MapState, RoutesApart

\* The loop over the routes.
LEMMA RouteMapLoop ==
    ASSUME NEW list \in Seq(Entries)
    PROVE  \E g \in [0 .. Len(list) -> MapState] :
              /\ g[0] = NoRouteMap
              /\ \A i \in 1 .. Len(list) : g[i] = MapInternalRoute(g[i - 1], list[i])
              /\ FoldLeft(MapInternalRoute, [heap |-> <<>>, routeMap |-> EmptyMap], list) = g[Len(list)]
<1> DEFINE n == Len(list)
           A == MapState
           F == [p \in A \X Entries |-> MapInternalRoute(p[1], p[2])]
           b == NoRouteMap
           Solves(f) == f = [s \in SUBSET DOMAIN list |->
                                IF s = {} THEN b ELSE MapInternalRoute(f[s \ {Max(s)}], list[Max(s)])]
           iter == CHOOSE f : Solves(f)
<1>1. n \in Nat /\ DOMAIN list = 1 .. n /\ list \in [1 .. n -> Entries]
  OBVIOUS
<1>2. FoldLeft(MapInternalRoute, [heap |-> <<>>, routeMap |-> EmptyMap], list) = iter[DOMAIN list]
  BY DEF NoRouteMap, FoldLeft, MapThenFoldSet
<1>3. F \in [A \X Entries -> A] /\ \A a \in A, e \in Entries : F[<<a, e>>] = MapInternalRoute(a, e)
  BY MapInternalRouteType
<1>4. b \in A
  BY NoRouteMapType
<1> HIDE DEF A, F, n, b
<1>5. ASSUME NEW f, NEW s \in SUBSET (1 .. n), s # {}, f[s \ {Max(s)}] \in A
      PROVE  F[<<f[s \ {Max(s)}], list[Max(s)]>>] = MapInternalRoute(f[s \ {Max(s)}], list[Max(s)])
  <2>1. Max(s) \in 1 .. n
    BY <1>1, <1>5, LastPosition DEF Max
  <2> QED
    BY <1>1, <1>3, <1>5, <2>1
<1>6. \E f : Solves(f)
  <2>1. PICK f \in [SUBSET (1 .. n) -> A] : Folds(f, F, b, list, n)
    BY <1>1, <1>3, <1>4, FoldSolvable
  <2>2. \A s \in SUBSET (1 .. n) : f[s \ {Max(s)}] \in A
    BY <2>1
  <2>3. \A s \in SUBSET (1 .. n) :
            f[s] = IF s = {} THEN b ELSE MapInternalRoute(f[s \ {Max(s)}], list[Max(s)])
    BY <1>5, <2>1, <2>2 DEF Folds
  <2> QED
    BY <1>1, <2>1, <2>3
<1>7. Solves(iter)
  BY <1>6
<1> HIDE DEF iter
<1>8. FoldsIn(iter, A, F, b, list, n)
  BY <1>1, <1>5, <1>7 DEF FoldsIn
<1>9. PICK g \in [0 .. n -> A] : LoopOf(g, F, b, list, n, iter[1 .. n])
  BY <1>1, <1>3, <1>4, <1>8, FoldRuns
<1>10. g[0] = b /\ \A i \in 1 .. n : g[i] = MapInternalRoute(g[i - 1], list[i])
  <2>1. \A i \in 1 .. n : g[i - 1] \in A /\ list[i] \in Entries
    BY <1>1, <1>9
  <2> QED
    BY <1>3, <1>9, <2>1 DEF LoopOf
<1> QED
  BY <1>1, <1>2, <1>9, <1>10 DEF A, n, b, LoopOf

\* The hosts of a process, from the first k routes.
PiecesOf(list, k, p) == [i \in 1 .. k |-> HostFor(list[i], p)]

\* A list of nothing.
LEMMA FlattenNone == ASSUME NEW s, s = <<>> PROVE FlattenSeq(s) = <<>>
BY DEF FlattenSeq

\* One piece more.
LEMMA FlattenStep ==
    ASSUME NEW X, NEW k \in Nat \ {0}, NEW u \in [1 .. k - 1 -> Seq(X)], NEW v \in [1 .. k -> Seq(X)],
           \A i \in 1 .. k - 1 : u[i] = v[i]
    PROVE  FlattenSeq(v) = FlattenSeq(u) \o v[k]
<1> DEFINE n == k - 1
<1>1. n \in Nat /\ n + 1 = k
  OBVIOUS
<1> HIDE DEF n
<1>2. u \in [1 .. n -> Seq(X)] /\ v \in [1 .. n + 1 -> Seq(X)] /\ \A i \in 1 .. n : u[i] = v[i]
  BY <1>1 DEF n
<1>3. FlattenSeq(v) = FlattenSeq(u) \o v[n + 1]
  BY <1>1, <1>2, FlattenMore
<1> QED
  BY <1>1, <1>3

\* The hosts of every process after the first loop.
LEMMA RouteMapIs ==
    ASSUME NEW list \in Seq(Entries)
    PROVE  \E acc \in MapState :
              /\ FoldLeft(MapInternalRoute, [heap |-> <<>>, routeMap |-> EmptyMap], list) = acc
              /\ \A p : HostsAt(acc, p) = FlattenSeq(PiecesOf(list, Len(list), p))
<1>1. PICK g \in [0 .. Len(list) -> MapState] :
              /\ g[0] = NoRouteMap
              /\ \A i \in 1 .. Len(list) : g[i] = MapInternalRoute(g[i - 1], list[i])
              /\ FoldLeft(MapInternalRoute, [heap |-> <<>>, routeMap |-> EmptyMap], list) = g[Len(list)]
  BY RouteMapLoop
<1> DEFINE n == Len(list)
           S == {k \in 0 .. n : \A p : HostsAt(g[k], p) = FlattenSeq(PiecesOf(list, k, p))}
<1>2. n \in Nat /\ n \in 0 .. n
  OBVIOUS
<1>3. 0 \in S
  <2> SUFFICES ASSUME NEW p PROVE HostsAt(g[0], p) = FlattenSeq(PiecesOf(list, 0, p))
    BY <1>2
  <2>1. PiecesOf(list, 0, p) = <<>>
    BY DEF PiecesOf
  <2>2. FlattenSeq(PiecesOf(list, 0, p)) = <<>>
    BY <2>1, FlattenNone
  <2>3. g[0].routeMap = EmptyMap /\ DOMAIN EmptyMap = {}
    BY <1>1, EmptyInMaps DEF NoRouteMap
  <2> QED
    BY <2>2, <2>3 DEF HostsAt
<1>4. ASSUME NEW k \in 1 .. n, k - 1 \in S PROVE k \in S
  <2> SUFFICES ASSUME NEW p PROVE HostsAt(g[k], p) = FlattenSeq(PiecesOf(list, k, p))
    BY <1>4
  <2>1. g[k - 1] \in MapState /\ g[k] = MapInternalRoute(g[k - 1], list[k]) /\ list[k] \in Entries
    BY <1>1, <1>4
  <2>2. HostsAt(g[k], p) = HostsAt(g[k - 1], p) \o HostFor(list[k], p)
    <3> DEFINE a == g[k - 1]
               e == list[k]
    <3>1. a \in MapState /\ e \in Entries /\ g[k] = MapInternalRoute(a, e)
      BY <2>1
    <3> HIDE DEF a, e
    <3>2. HostsAt(MapInternalRoute(a, e), p) = HostsAt(a, p) \o HostFor(e, p)
      BY <3>1, MapInternalRouteRight
    <3> QED
      BY <3>1, <3>2 DEF a, e
  <2>3. HostsAt(g[k - 1], p) = FlattenSeq(PiecesOf(list, k - 1, p))
    BY <1>4
  <2> DEFINE u == PiecesOf(list, k - 1, p)
             v == PiecesOf(list, k, p)
  <2>4. \A i \in 1 .. n : HostFor(list[i], p) \in Seq(HostNames)
    <3> TAKE i \in 1 .. n
    <3>1. list[i] \in Entries
      OBVIOUS
    <3>2. list[i].Hostname \in HostNames
      BY <3>1 DEF HostNames
    <3> QED
      BY <3>2 DEF HostFor
  <2>5. /\ u \in [1 .. k - 1 -> Seq(HostNames)] /\ v \in [1 .. k -> Seq(HostNames)]
        /\ (\A i \in 1 .. k - 1 : u[i] = v[i]) /\ v[k] = HostFor(list[k], p) /\ k \in Nat \ {0}
    BY <1>2, <2>4 DEF PiecesOf
  <2> HIDE DEF u, v
  <2>6. FlattenSeq(v) = FlattenSeq(u) \o v[k]
    BY <2>5, FlattenStep
  <2> QED
    BY <2>2, <2>3, <2>5, <2>6 DEF u, v
<1> HIDE DEF S
<1>5. n \in S
  BY <1>2, <1>3, <1>4, LoopKeeps
<1> QED
  BY <1>1, <1>2, <1>5 DEF S
-----------------------------------------------------------------------------
(***************************************************************************)
(* The second loop.  The slice of a source that shares an array with a     *)
(* process reaches beyond the slice of the process, so that appending to   *)
(* it leaves the hosts of the process alone.                               *)
(***************************************************************************)
PolicySources == {p.Source : p \in PolicySet}

Beyond(acc) ==
    \A s \in DOMAIN acc.policyMap :
        /\ Valid(acc.heap, acc.policyMap[s])
        /\ \A d \in DOMAIN acc.routeMap :
              acc.policyMap[s].arr = acc.routeMap[d].arr => acc.routeMap[d].len <= acc.policyMap[s].len
PolicyState ==
    {acc \in [heap : Heaps, routeMap : Maps(Guids, Slice), policyMap : Maps(PolicySources, Slice)] :
        RoutesApart(acc) /\ Beyond(acc)}

HostsFor(acc, s) == IF s \in DOMAIN acc.policyMap THEN Hosts(acc.heap, acc.policyMap[s]) ELSE <<>>

\* No two sources share an array.
OwnArrays(acc) ==
    \A s, t \in DOMAIN acc.policyMap : s # t => acc.policyMap[s].arr # acc.policyMap[t].arr

\* What a step of the loop does.
PolicyMapped(acc, p, r) ==
    /\ r \in PolicyState /\ r.routeMap = acc.routeMap
    /\ \A d : HostsAt(r, d) = HostsAt(acc, d)
    /\ DOMAIN r.policyMap = DOMAIN acc.policyMap \cup (IF p.Destination \in DOMAIN acc.routeMap THEN {p.Source} ELSE {})
    /\ \A s \in DOMAIN acc.policyMap :
          r.policyMap[s].arr = acc.policyMap[s].arr \/ (s = p.Source /\ r.policyMap[s].arr = Len(acc.heap) + 1)
    /\ p.Destination \in DOMAIN acc.routeMap /\ p.Source \notin DOMAIN acc.policyMap
          => r.policyMap[p.Source] = acc.routeMap[p.Destination]
    /\ OwnArrays(acc) => \A s : HostsFor(r, s) = HostsFor(acc, s) \o (IF p.Source = s THEN HostsAt(acc, p.Destination) ELSE <<>>)

\* The slices of the loop lie within their arrays.
LEMMA PolicyStateIs ==
    ASSUME NEW acc \in PolicyState
    PROVE  /\ WellMapped(acc) /\ Beyond(acc)
           /\ acc.heap \in Heaps /\ Len(acc.heap) \in Nat
           /\ acc.routeMap \in Maps(Guids, Slice) /\ acc.policyMap \in Maps(PolicySources, Slice)
           /\ \A d \in DOMAIN acc.routeMap :
                 acc.routeMap[d] \in Slice /\ Valid(acc.heap, acc.routeMap[d]) /\ acc.routeMap[d].arr \in 1 .. Len(acc.heap)
           /\ \A s \in DOMAIN acc.policyMap :
                 acc.policyMap[s] \in Slice /\ Valid(acc.heap, acc.policyMap[s]) /\ acc.policyMap[s].arr \in 1 .. Len(acc.heap)
<1>1. /\ acc.heap \in Heaps /\ acc.routeMap \in Maps(Guids, Slice) /\ acc.policyMap \in Maps(PolicySources, Slice)
      /\ RoutesApart(acc) /\ Beyond(acc)
  BY DEF PolicyState
<1>2. Len(acc.heap) \in Nat
  BY <1>1 DEF Heaps
<1>3. ASSUME NEW d \in DOMAIN acc.routeMap
      PROVE  acc.routeMap[d] \in Slice /\ Valid(acc.heap, acc.routeMap[d]) /\ acc.routeMap[d].arr \in 1 .. Len(acc.heap)
  BY <1>1, InMaps DEF RoutesApart, Valid
<1>4. ASSUME NEW s \in DOMAIN acc.policyMap
      PROVE  acc.policyMap[s] \in Slice /\ Valid(acc.heap, acc.policyMap[s]) /\ acc.policyMap[s].arr \in 1 .. Len(acc.heap)
  BY <1>1, InMaps DEF Beyond, Valid
<1> QED
  BY <1>1, <1>2, <1>3, <1>4 DEF WellMapped

\* The hosts of a source are a list, and adding none changes nothing.
LEMMA HostsForRight ==
    ASSUME NEW acc \in PolicyState, NEW s
    PROVE  /\ HostsFor(acc, s) \in Seq(HostNames)
           /\ HostsFor(acc, s) \o <<>> = HostsFor(acc, s)
<1> DEFINE h == HostsFor(acc, s)
<1>1. h \in Seq(HostNames)
  <2>1. CASE s \in DOMAIN acc.policyMap
    <3> DEFINE slice == acc.policyMap[s]
               heap == acc.heap
    <3>1. slice \in Slice /\ Valid(heap, slice) /\ heap \in Heaps
      BY <2>1, PolicyStateIs
    <3> HIDE DEF slice, heap
    <3>2. Hosts(heap, slice) \in Seq(HostNames)
      BY <3>1, HostsAre
    <3> QED
      BY <2>1, <3>2 DEF HostsFor, slice, heap
  <2>2. CASE s \notin DOMAIN acc.policyMap
    BY <2>2 DEF HostsFor
  <2> QED
    BY <2>1, <2>2
<1> HIDE DEF h
<1>2. h \o <<>> = h
  BY <1>1
<1> QED
  BY <1>1, <1>2 DEF h

\* The destination has no internal route: nothing happens.
LEMMA NoDestination ==
    ASSUME NEW acc \in PolicyState, NEW p \in PolicySet, p.Destination \notin DOMAIN acc.routeMap
    PROVE  PolicyMapped(acc, p, MapPolicy(acc, p))
<1>1. MapPolicy(acc, p) = acc
  BY DEF MapPolicy
<1>2. HostsAt(acc, p.Destination) = <<>>
  BY DEF HostsAt
<1>3. \A s : HostsFor(acc, s) = HostsFor(acc, s) \o (IF p.Source = s THEN HostsAt(acc, p.Destination) ELSE <<>>)
  BY <1>2, HostsForRight
<1> QED
  BY <1>1, <1>3 DEF PolicyMapped

\* The first policy of a source: its slice is that of the destination.
LEMMA FirstPolicy ==
    ASSUME NEW acc \in PolicyState, NEW p \in PolicySet, p.Destination \in DOMAIN acc.routeMap,
           p.Source \notin DOMAIN acc.policyMap
    PROVE  PolicyMapped(acc, p, MapPolicy(acc, p))
<1> DEFINE src == p.Source
           slice == acc.routeMap[p.Destination]
           m == acc.policyMap
           q == Put(m, src, slice)
           r == MapPolicy(acc, p)
<1>1. r = [acc EXCEPT !.policyMap = q]
  BY DEF MapPolicy
<1>2. /\ WellMapped(acc) /\ Beyond(acc) /\ m \in Maps(PolicySources, Slice)
      /\ slice \in Slice /\ Valid(acc.heap, slice) /\ src \in PolicySources
  BY PolicyStateIs DEF PolicySources
<1>3. acc \in [heap : Heaps, routeMap : Maps(Guids, Slice), policyMap : Maps(PolicySources, Slice)]
  BY DEF PolicyState
<1>4. DOMAIN q = DOMAIN m \cup {src} /\ q[src] = slice /\ \A s \in DOMAIN m : q[s] = m[s]
  BY DEF Put
<1>5. q \in Maps(PolicySources, Slice)
  <2> HIDE DEF m, src, slice
  <2> QED
    BY <1>2, PutInMaps
<1> HIDE DEF q, r
<1>6. /\ r \in [heap : Heaps, routeMap : Maps(Guids, Slice), policyMap : Maps(PolicySources, Slice)]
      /\ r.heap = acc.heap /\ r.routeMap = acc.routeMap /\ r.policyMap = q
  BY <1>1, <1>3, <1>5
<1>7. RoutesApart(r)
  BY <1>2, <1>6 DEF RoutesApart, WellMapped
<1>8. Beyond(r)
  <2> SUFFICES ASSUME NEW s \in DOMAIN q
               PROVE  /\ Valid(acc.heap, q[s])
                      /\ \A d \in DOMAIN acc.routeMap : q[s].arr = acc.routeMap[d].arr => acc.routeMap[d].len <= q[s].len
    BY <1>6 DEF Beyond
  <2>1. CASE s \in DOMAIN m
    BY <1>2, <1>4, <2>1 DEF Beyond
  <2>2. CASE s \notin DOMAIN m
    <3>1. q[s] = slice /\ slice.len \in Nat
      BY <1>2, <1>4, <2>2 DEF Slice
    <3>2. \A d \in DOMAIN acc.routeMap : slice.arr = acc.routeMap[d].arr => d = p.Destination
      BY <1>2 DEF WellMapped, RoutesApart
    <3> QED
      BY <1>2, <3>1, <3>2
  <2> QED
    BY <2>1, <2>2
<1>9. \A d : HostsAt(r, d) = HostsAt(acc, d)
  BY <1>6 DEF HostsAt
<1>10. HostsFor(r, src) = HostsFor(acc, src) \o HostsAt(acc, p.Destination)
  <2> DEFINE h == HostsAt(acc, p.Destination)
  <2>1. HostsFor(r, src) = h /\ HostsFor(acc, src) = <<>>
    BY <1>4, <1>6 DEF HostsFor, HostsAt
  <2>2. h \in Seq(HostNames)
    BY <1>2, HostsAtRight
  <2> HIDE DEF h
  <2>3. <<>> \o h = h
    BY <2>2
  <2> QED
    BY <2>1, <2>3 DEF h
<1>11. ASSUME NEW s, s # src PROVE HostsFor(r, s) = HostsFor(acc, s) \o <<>>
  <2>1. HostsFor(r, s) = HostsFor(acc, s)
    BY <1>4, <1>6, <1>11 DEF HostsFor
  <2>2. HostsFor(acc, s) \o <<>> = HostsFor(acc, s)
    BY HostsForRight
  <2> QED
    BY <2>1, <2>2
<1>12. \A s : HostsFor(r, s) = HostsFor(acc, s) \o (IF p.Source = s THEN HostsAt(acc, p.Destination) ELSE <<>>)
  <2> TAKE s
  <2>1. CASE s = src
    BY <1>10, <2>1
  <2>2. CASE s # src
    BY <1>11, <2>2
  <2> QED
    BY <2>1, <2>2
<1>13. r \in PolicyState
  BY <1>6, <1>7, <1>8 DEF PolicyState
<1>14. /\ DOMAIN r.policyMap = DOMAIN acc.policyMap \cup (IF p.Destination \in DOMAIN acc.routeMap THEN {p.Source} ELSE {})
       /\ \A s \in DOMAIN acc.policyMap :
             r.policyMap[s].arr = acc.policyMap[s].arr \/ (s = p.Source /\ r.policyMap[s].arr = Len(acc.heap) + 1)
       /\ r.policyMap[p.Source] = acc.routeMap[p.Destination]
  BY <1>4, <1>6
<1> QED
  BY <1>6, <1>9, <1>12, <1>13, <1>14 DEF PolicyMapped, r

\* A later policy of a source appends to its slice.
LEMMA LaterPolicy ==
    ASSUME NEW acc \in PolicyState, NEW p \in PolicySet, p.Destination \in DOMAIN acc.routeMap,
           p.Source \in DOMAIN acc.policyMap
    PROVE  PolicyMapped(acc, p, MapPolicy(acc, p))
<1> DEFINE src == p.Source
           heap == acc.heap
           slice == acc.policyMap[src]
           hosts == HostsAt(acc, p.Destination)
           m == acc.policyMap
           grown == GoAppend(heap, slice, hosts)
           heap2 == grown.heap
           slice2 == grown.slice
           q == Put(m, src, slice2)
           r == MapPolicy(acc, p)
<1>1. r = [acc EXCEPT !.heap = heap2, !.policyMap = q]
  BY DEF MapPolicy, HostsAt
<1>2. /\ WellMapped(acc) /\ Beyond(acc) /\ m \in Maps(PolicySources, Slice) /\ heap \in Heaps /\ Len(heap) \in Nat
      /\ slice \in Slice /\ Valid(heap, slice) /\ src \in PolicySources
  BY PolicyStateIs DEF PolicySources
<1>3. acc \in [heap : Heaps, routeMap : Maps(Guids, Slice), policyMap : Maps(PolicySources, Slice)]
  BY DEF PolicyState
<1>4. hosts \in Seq(HostNames)
  BY <1>2, HostsAtRight
<1>5. Appended(heap, slice, hosts, heap2, slice2)
  <2> HIDE DEF heap, slice, hosts
  <2> QED
    BY <1>2, <1>4, GoAppendRight
<1>6. DOMAIN q = DOMAIN m \cup {src} /\ q[src] = slice2 /\ \A s \in DOMAIN m : s # src => q[s] = m[s]
  <2> HIDE DEF slice2
  <2> QED
    BY DEF Put
<1> HIDE DEF heap2, slice2, grown
<1>7. /\ heap2 \in Heaps /\ slice2 \in Slice /\ Valid(heap2, slice2)
      /\ Hosts(heap2, slice2) = Hosts(heap, slice) \o hosts
      /\ slice2.len >= slice.len /\ slice2.len \in Nat /\ slice.len \in Nat
      /\ slice2.arr = slice.arr \/ slice2.arr = Len(heap) + 1
  BY <1>2, <1>5 DEF Appended, Slice
<1>8. q \in Maps(PolicySources, Slice)
  <2> HIDE DEF m, src
  <2> QED
    BY <1>2, <1>7, PutInMaps
<1> HIDE DEF q, r
<1>9. /\ r \in [heap : Heaps, routeMap : Maps(Guids, Slice), policyMap : Maps(PolicySources, Slice)]
      /\ r.heap = heap2 /\ r.routeMap = acc.routeMap /\ r.policyMap = q
  BY <1>1, <1>3, <1>7, <1>8
<1>10. ASSUME NEW d \in DOMAIN acc.routeMap
       PROVE  /\ Valid(heap2, acc.routeMap[d]) /\ Hosts(heap2, acc.routeMap[d]) = Hosts(heap, acc.routeMap[d])
              /\ acc.routeMap[d].arr \in 1 .. Len(heap) /\ acc.routeMap[d].len \in Nat
              /\ acc.routeMap[d].arr # slice.arr \/ acc.routeMap[d].len <= slice.len
  <2> DEFINE o == acc.routeMap[d]
  <2>1. o \in Slice /\ Valid(heap, o) /\ o.arr \in 1 .. Len(heap)
    BY PolicyStateIs
  <2>2. o.arr # slice.arr \/ o.len <= slice.len
    BY <1>2 DEF Beyond
  <2> HIDE DEF o, slice, heap
  <2>3. Kept(heap, slice, o, heap2)
    BY <1>5, <2>1 DEF Appended
  <2>4. Valid(heap2, o) /\ Hosts(heap2, o) = Hosts(heap, o) /\ o.len \in Nat
    BY <2>1, <2>2, <2>3 DEF Kept, Slice
  <2> QED
    BY <2>1, <2>2, <2>4 DEF o
<1>11. ASSUME NEW s \in DOMAIN m, s # src
       PROVE  /\ Valid(heap2, m[s])
              /\ m[s].arr # slice.arr => Hosts(heap2, m[s]) = Hosts(heap, m[s])
  <2> DEFINE o == m[s]
  <2>1. o \in Slice /\ Valid(heap, o)
    BY PolicyStateIs
  <2> HIDE DEF o, slice, heap
  <2>2. Kept(heap, slice, o, heap2)
    BY <1>5, <2>1 DEF Appended
  <2> QED
    BY <2>2 DEF Kept, o
<1>12. RoutesApart(r)
  BY <1>2, <1>9, <1>10 DEF RoutesApart, WellMapped
<1>13. Beyond(r)
  <2> SUFFICES ASSUME NEW s \in DOMAIN q
               PROVE  /\ Valid(heap2, q[s])
                      /\ \A d \in DOMAIN acc.routeMap : q[s].arr = acc.routeMap[d].arr => acc.routeMap[d].len <= q[s].len
    BY <1>9 DEF Beyond
  <2>1. CASE s # src
    <3>1. s \in DOMAIN m /\ q[s] = m[s]
      BY <1>6, <2>1
    <3> QED
      BY <1>2, <1>11, <2>1, <3>1 DEF Beyond
  <2>2. CASE s = src
    <3>1. q[s] = slice2 /\ Valid(heap2, q[s])
      BY <1>6, <1>7, <2>2
    <3>2. ASSUME NEW d \in DOMAIN acc.routeMap, slice2.arr = acc.routeMap[d].arr
          PROVE  acc.routeMap[d].len <= slice2.len
      <4> DEFINE o == acc.routeMap[d]
      <4>1. o.arr \in 1 .. Len(heap) /\ o.len \in Nat /\ (o.arr # slice.arr \/ o.len <= slice.len) /\ slice2.arr = o.arr
        BY <1>10, <3>2
      <4> HIDE DEF o, slice, heap
      <4>2. o.len <= slice2.len
        BY <1>2, <1>7, <4>1
      <4> QED
        BY <4>2 DEF o
    <3> QED
      BY <3>1, <3>2
  <2> QED
    BY <2>1, <2>2
<1>14. \A d : HostsAt(r, d) = HostsAt(acc, d)
  BY <1>9, <1>10 DEF HostsAt
<1>15. HostsFor(r, src) = HostsFor(acc, src) \o hosts
  BY <1>6, <1>7, <1>9 DEF HostsFor
<1>16. ASSUME OwnArrays(acc), NEW s, s # src PROVE HostsFor(r, s) = HostsFor(acc, s) \o <<>>
  <2>1. HostsFor(r, s) = HostsFor(acc, s)
    <3>1. CASE s \in DOMAIN m
      <4>1. m[s].arr # slice.arr
        BY <1>16, <3>1 DEF OwnArrays
      <4> QED
        BY <1>6, <1>9, <1>11, <1>16, <3>1, <4>1 DEF HostsFor
    <3>2. CASE s \notin DOMAIN m
      BY <1>6, <1>9, <1>16, <3>2 DEF HostsFor
    <3> QED
      BY <3>1, <3>2
  <2>2. HostsFor(acc, s) \o <<>> = HostsFor(acc, s)
    BY HostsForRight
  <2> QED
    BY <2>1, <2>2
<1>17. OwnArrays(acc) => \A s : HostsFor(r, s) = HostsFor(acc, s) \o (IF p.Source = s THEN HostsAt(acc, p.Destination) ELSE <<>>)
  <2> SUFFICES ASSUME OwnArrays(acc), NEW s
               PROVE  HostsFor(r, s) = HostsFor(acc, s) \o (IF p.Source = s THEN HostsAt(acc, p.Destination) ELSE <<>>)
    OBVIOUS
  <2>1. CASE s = src
    BY <1>15, <2>1
  <2>2. CASE s # src
    BY <1>16, <2>2
  <2> QED
    BY <2>1, <2>2
<1>18. r \in PolicyState
  BY <1>9, <1>12, <1>13 DEF PolicyState
<1>19. /\ DOMAIN r.policyMap = DOMAIN acc.policyMap \cup (IF p.Destination \in DOMAIN acc.routeMap THEN {p.Source} ELSE {})
       /\ \A s \in DOMAIN acc.policyMap :
             r.policyMap[s].arr = acc.policyMap[s].arr \/ (s = p.Source /\ r.policyMap[s].arr = Len(acc.heap) + 1)
  BY <1>6, <1>7, <1>9
<1> QED
  BY <1>9, <1>14, <1>17, <1>18, <1>19 DEF PolicyMapped, r

\* What a policy does to the maps.
LEMMA MapPolicyRight ==
    ASSUME NEW acc \in PolicyState, NEW p \in PolicySet
    PROVE  PolicyMapped(acc, p, MapPolicy(acc, p))
BY NoDestination, FirstPolicy, LaterPolicy

LEMMA MapPolicyType ==
    ASSUME NEW acc \in PolicyState, NEW p \in PolicySet
    PROVE  MapPolicy(acc, p) \in PolicyState
BY MapPolicyRight DEF PolicyMapped

\* The loop begins with the map of the first one and no source.
NoPolicyMap(mapped) == [heap |-> mapped.heap, routeMap |-> mapped.routeMap, policyMap |-> EmptyMap]

LEMMA NoPolicyMapType ==
    ASSUME NEW mapped \in MapState
    PROVE  NoPolicyMap(mapped) \in PolicyState
<1> DEFINE acc == NoPolicyMap(mapped)
<1>1. mapped.heap \in Heaps /\ mapped.routeMap \in Maps(Guids, Slice) /\ RoutesApart(mapped)
  BY DEF MapState
<1>2. /\ acc \in [heap : Heaps, routeMap : Maps(Guids, Slice), policyMap : Maps(PolicySources, Slice)]
      /\ acc.heap = mapped.heap /\ acc.routeMap = mapped.routeMap /\ acc.policyMap = EmptyMap /\ DOMAIN EmptyMap = {}
  BY <1>1, EmptyInMaps DEF NoPolicyMap
<1> HIDE DEF acc
<1> QED
  BY <1>1, <1>2 DEF PolicyState, RoutesApart, Beyond, acc

\* The loop over the policies.
LEMMA PolicyMapLoop ==
    ASSUME NEW list \in Seq(PolicySet), NEW mapped \in MapState
    PROVE  \E g \in [0 .. Len(list) -> PolicyState] :
              /\ g[0] = NoPolicyMap(mapped)
              /\ \A i \in 1 .. Len(list) : g[i] = MapPolicy(g[i - 1], list[i])
              /\ FoldLeft(MapPolicy, [heap |-> mapped.heap, routeMap |-> mapped.routeMap, policyMap |-> EmptyMap],
                          list) = g[Len(list)]
<1> DEFINE n == Len(list)
           A == PolicyState
           F == [p \in A \X PolicySet |-> MapPolicy(p[1], p[2])]
           b == NoPolicyMap(mapped)
           Solves(f) == f = [s \in SUBSET DOMAIN list |->
                                IF s = {} THEN b ELSE MapPolicy(f[s \ {Max(s)}], list[Max(s)])]
           iter == CHOOSE f : Solves(f)
<1>1. n \in Nat /\ DOMAIN list = 1 .. n /\ list \in [1 .. n -> PolicySet]
  OBVIOUS
<1>2. FoldLeft(MapPolicy, [heap |-> mapped.heap, routeMap |-> mapped.routeMap, policyMap |-> EmptyMap], list) = iter[DOMAIN list]
  BY DEF NoPolicyMap, FoldLeft, MapThenFoldSet
<1>3. F \in [A \X PolicySet -> A] /\ \A a \in A, e \in PolicySet : F[<<a, e>>] = MapPolicy(a, e)
  BY MapPolicyType
<1>4. b \in A
  BY NoPolicyMapType
<1> HIDE DEF A, F, n, b
<1>5. ASSUME NEW f, NEW s \in SUBSET (1 .. n), s # {}, f[s \ {Max(s)}] \in A
      PROVE  F[<<f[s \ {Max(s)}], list[Max(s)]>>] = MapPolicy(f[s \ {Max(s)}], list[Max(s)])
  <2>1. Max(s) \in 1 .. n
    BY <1>1, <1>5, LastPosition DEF Max
  <2> QED
    BY <1>1, <1>3, <1>5, <2>1
<1>6. \E f : Solves(f)
  <2>1. PICK f \in [SUBSET (1 .. n) -> A] : Folds(f, F, b, list, n)
    BY <1>1, <1>3, <1>4, FoldSolvable
  <2>2. \A s \in SUBSET (1 .. n) : f[s \ {Max(s)}] \in A
    BY <2>1
  <2>3. \A s \in SUBSET (1 .. n) :
            f[s] = IF s = {} THEN b ELSE MapPolicy(f[s \ {Max(s)}], list[Max(s)])
    BY <1>5, <2>1, <2>2 DEF Folds
  <2> QED
    BY <1>1, <2>1, <2>3
<1>7. Solves(iter)
  BY <1>6
<1> HIDE DEF iter
<1>8. FoldsIn(iter, A, F, b, list, n)
  BY <1>1, <1>5, <1>7 DEF FoldsIn
<1>9. PICK g \in [0 .. n -> A] : LoopOf(g, F, b, list, n, iter[1 .. n])
  BY <1>1, <1>3, <1>4, <1>8, FoldRuns
<1>10. g[0] = b /\ \A i \in 1 .. n : g[i] = MapPolicy(g[i - 1], list[i])
  <2>1. \A i \in 1 .. n : g[i - 1] \in A /\ list[i] \in PolicySet
    BY <1>1, <1>9
  <2> QED
    BY <1>3, <1>9, <2>1 DEF LoopOf
<1> QED
  BY <1>1, <1>2, <1>9, <1>10 DEF A, n, b, LoopOf
-----------------------------------------------------------------------------
(***************************************************************************)
(* The sidecars.                                                           *)
(***************************************************************************)
\* The first loop gave every process its internal hosts.
WithHosts(mapped) == mapped \in MapState /\ \A p : HostsAt(mapped, p) = HostsOf(p)

\* No two sources have the same first destination.
FirstsApart == \A s, t \in Sources : s # t => FirstDestination(s) # FirstDestination(t)

\* The hosts that the first k policies give a source.
HostsWanted(mapped, k, s) ==
    [i \in 1 .. k |-> IF fetched[i].Source = s THEN HostsAt(mapped, fetched[i].Destination) ELSE <<>>]

\* The second loop after k policies: an array that a source shares with a
\* process is that of its first destination.
PoliciesRight(acc, mapped, k) ==
    /\ acc.routeMap = mapped.routeMap
    /\ \A d : HostsAt(acc, d) = HostsAt(mapped, d)
    /\ DOMAIN acc.policyMap = {fetched[j].Source : j \in {j \in 1 .. k : fetched[j].Destination \in DOMAIN mapped.routeMap}}
    /\ \A s \in DOMAIN acc.policyMap :
          \/ acc.policyMap[s].arr = mapped.routeMap[FirstDestination(s)].arr
          \/ \A d \in DOMAIN mapped.routeMap : acc.policyMap[s].arr # mapped.routeMap[d].arr
    /\ OwnArrays(acc)
    /\ \A s : HostsFor(acc, s) = FlattenSeq(HostsWanted(mapped, k, s))

\* The policies of a source that lead anywhere.
LEMMA RoutedIs ==
    ASSUME InputsInOrder, NEW mapped, WithHosts(mapped), NEW s
    PROVE  /\ Routed(s) = {j \in 1 .. Len(fetched) : fetched[j].Source = s /\ fetched[j].Destination \in DOMAIN mapped.routeMap}
           /\ Routed(s) # {} => /\ s \in Sources /\ FirstDestination(s) \in DOMAIN mapped.routeMap
                                /\ Min(Routed(s)) \in Routed(s) /\ \A j \in Routed(s) : Min(Routed(s)) <= j
<1>1. DOMAIN fetched = 1 .. Len(fetched) /\ Len(fetched) \in Nat
  BY DEF InputsInOrder
<1>2. \A d : HostsOf(d) # <<>> <=> d \in DOMAIN mapped.routeMap
  <2> TAKE d
  <2>1. WellMapped(mapped) /\ HostsAt(mapped, d) = HostsOf(d)
    BY DEF WithHosts, MapState, WellMapped
  <2> QED
    BY <2>1, HostsAtRight
<1>3. Routed(s) = {j \in 1 .. Len(fetched) : fetched[j].Source = s /\ fetched[j].Destination \in DOMAIN mapped.routeMap}
  BY <1>1, <1>2 DEF Routed
<1>4. ASSUME Routed(s) # {}
      PROVE  /\ s \in Sources /\ FirstDestination(s) \in DOMAIN mapped.routeMap
             /\ Min(Routed(s)) \in Routed(s) /\ \A j \in Routed(s) : Min(Routed(s)) <= j
  <2>1. Min(Routed(s)) \in Routed(s) /\ \A j \in Routed(s) : Min(Routed(s)) <= j
    <3> DEFINE T == Routed(s)
    <3>1. T \in SUBSET (1 .. Len(fetched)) /\ T # {}
      BY <1>3, <1>4
    <3> HIDE DEF T
    <3>2. Min(T) \in T /\ \A j \in T : Min(T) <= j
      BY <1>1, <3>1, MinIs
    <3> QED
      BY <3>2 DEF T
  <2>2. FirstDestination(s) \in DOMAIN mapped.routeMap
    BY <1>3, <2>1 DEF FirstDestination
  <2>3. s \in {p.Source : p \in Range(fetched)}
    BY <1>1, <1>3, <2>1 DEF Range
  <2> QED
    BY <1>4, <2>1, <2>2, <2>3 DEF Sources
<1> QED
  BY <1>3, <1>4

\* A policy keeps the second loop right.
LEMMA PoliciesStep ==
    ASSUME InputsInOrder, FirstsApart, NEW mapped, WithHosts(mapped), NEW k \in 1 .. Len(fetched),
           NEW acc \in PolicyState, PoliciesRight(acc, mapped, k - 1)
    PROVE  PoliciesRight(MapPolicy(acc, fetched[k]), mapped, k)
<1> DEFINE p == fetched[k]
           r == MapPolicy(acc, p)
           rm == mapped.routeMap
           m == acc.policyMap
           n == Len(fetched)
           Leading(i) == {j \in 1 .. i : fetched[j].Destination \in DOMAIN rm}
<1>1. fetched \in Seq(PolicySet) /\ n \in Nat /\ p \in PolicySet /\ k \in Nat \ {0} /\ 1 .. k \subseteq 1 .. n
  BY DEF InputsInOrder
<1>2. PolicyMapped(acc, p, r)
  BY <1>1, MapPolicyRight
<1>3. /\ acc.routeMap = rm /\ (\A d : HostsAt(acc, d) = HostsAt(mapped, d))
      /\ DOMAIN m = {fetched[j].Source : j \in Leading(k - 1)}
      /\ OwnArrays(acc) /\ \A s : HostsFor(acc, s) = FlattenSeq(HostsWanted(mapped, k - 1, s))
  BY DEF PoliciesRight
<1>4. \A s \in DOMAIN m : \/ m[s].arr = rm[FirstDestination(s)].arr
                          \/ \A d \in DOMAIN rm : m[s].arr # rm[d].arr
  BY DEF PoliciesRight
<1>5. /\ Len(acc.heap) \in Nat
      /\ \A d \in DOMAIN rm : rm[d].arr \in 1 .. Len(acc.heap)
      /\ \A s \in DOMAIN m : m[s].arr \in 1 .. Len(acc.heap)
  BY <1>3, PolicyStateIs
<1> HIDE DEF r
<1> DEFINE pm == r.policyMap
<1>6. /\ r.routeMap = rm /\ (\A d : HostsAt(r, d) = HostsAt(mapped, d))
      /\ DOMAIN pm = DOMAIN m \cup (IF p.Destination \in DOMAIN rm THEN {p.Source} ELSE {})
      /\ p.Destination \in DOMAIN rm /\ p.Source \notin DOMAIN m => pm[p.Source] = rm[p.Destination]
      /\ \A s : HostsFor(r, s) = HostsFor(acc, s) \o (IF p.Source = s THEN HostsAt(acc, p.Destination) ELSE <<>>)
  BY <1>2, <1>3 DEF PolicyMapped
<1>7. \A s \in DOMAIN m : pm[s].arr = m[s].arr \/ (s = p.Source /\ pm[s].arr = Len(acc.heap) + 1)
  BY <1>2 DEF PolicyMapped
<1> HIDE DEF m, pm, rm
<1>8. Leading(k) = Leading(k - 1) \cup (IF p.Destination \in DOMAIN rm THEN {k} ELSE {})
  <2>1. 1 .. k = (1 .. k - 1) \cup {k}
    BY <1>1
  <2> QED
    BY <2>1
<1>9. DOMAIN pm = {fetched[j].Source : j \in Leading(k)}
  <2> HIDE DEF Leading
  <2> QED
    BY <1>3, <1>6, <1>8
<1>10. \A s \in DOMAIN pm : s \in Sources /\ FirstDestination(s) \in DOMAIN rm
  <2> TAKE s \in DOMAIN pm
  <2>1. PICK j \in 1 .. k : s = fetched[j].Source /\ fetched[j].Destination \in DOMAIN rm
    BY <1>9
  <2>2. j \in Routed(s)
    BY <1>1, <2>1, RoutedIs DEF rm
  <2>3. Routed(s) # {}
    BY <2>2
  <2> QED
    BY <2>3, RoutedIs DEF rm
<1>11. ASSUME p.Destination \in DOMAIN rm, p.Source \notin DOMAIN m
       PROVE  pm[p.Source].arr = rm[FirstDestination(p.Source)].arr
  <2> DEFINE T == Routed(p.Source)
  <2>1. T = {j \in 1 .. n : fetched[j].Source = p.Source /\ fetched[j].Destination \in DOMAIN rm}
    BY RoutedIs DEF rm
  <2>2. k \in T
    BY <1>1, <1>11, <2>1
  <2>3. ASSUME NEW j \in T, j < k PROVE FALSE
    <3>1. j \in Leading(k - 1) /\ fetched[j].Source = p.Source
      BY <1>1, <2>1, <2>3
    <3> QED
      BY <1>3, <1>11, <3>1
  <2>4. T # {}
    BY <2>2
  <2>5. Min(T) \in T /\ Min(T) <= k
    BY <2>2, <2>4, RoutedIs
  <2> DEFINE x == Min(T)
  <2> HIDE DEF x
  <2>6. x \in T /\ x <= k /\ ~(x < k) /\ x \in Nat
    BY <2>1, <2>3, <2>5 DEF x
  <2>7. x = k
    BY <1>1, <2>6
  <2>8. FirstDestination(p.Source) = p.Destination
    BY <2>7 DEF FirstDestination, x
  <2> QED
    BY <1>6, <1>11, <2>8
<1>12. ASSUME NEW s \in DOMAIN pm
       PROVE  pm[s].arr = rm[FirstDestination(s)].arr \/ \A d \in DOMAIN rm : pm[s].arr # rm[d].arr
  <2>1. CASE s \in DOMAIN m
    <3>1. CASE pm[s].arr = m[s].arr
      BY <1>4, <2>1, <3>1 DEF m, rm
    <3>2. CASE pm[s].arr = Len(acc.heap) + 1
      <4>1. \A d \in DOMAIN rm : rm[d].arr # Len(acc.heap) + 1
        BY <1>5
      <4> QED
        BY <3>2, <4>1
    <3> QED
      BY <1>7, <2>1, <3>1, <3>2
  <2>2. CASE s \notin DOMAIN m
    BY <1>6, <1>11, <2>2
  <2> QED
    BY <2>1, <2>2
<1>13. ASSUME NEW s \in DOMAIN pm, NEW t \in DOMAIN pm, s # t, s \notin DOMAIN m PROVE pm[s].arr # pm[t].arr
  <2>1. s = p.Source /\ p.Destination \in DOMAIN rm
    BY <1>6, <1>13
  <2>2. pm[s].arr = rm[FirstDestination(s)].arr
    BY <1>11, <1>13, <2>1
  <2>3. FirstDestination(s) # FirstDestination(t) /\ FirstDestination(s) \in DOMAIN rm /\ FirstDestination(t) \in DOMAIN rm
    BY <1>10, <1>13 DEF FirstsApart
  <2>4. \A d, e \in DOMAIN rm : d # e => rm[d].arr # rm[e].arr
    BY DEF WithHosts, MapState, RoutesApart, rm
  <2>5. pm[t].arr = rm[FirstDestination(t)].arr \/ \A d \in DOMAIN rm : pm[t].arr # rm[d].arr
    BY <1>12
  <2> QED
    BY <2>2, <2>3, <2>4, <2>5
<1>14. OwnArrays(r)
  <2> SUFFICES ASSUME NEW s \in DOMAIN pm, NEW t \in DOMAIN pm, s # t PROVE pm[s].arr # pm[t].arr
    BY DEF OwnArrays, pm
  <2>1. CASE s \in DOMAIN m /\ t \in DOMAIN m
    <3>1. m[s].arr # m[t].arr
      BY <1>3, <2>1 DEF OwnArrays, m
    <3>2. m[s].arr # Len(acc.heap) + 1 /\ m[t].arr # Len(acc.heap) + 1
      BY <1>5, <2>1
    <3> QED
      BY <1>7, <2>1, <3>1, <3>2
  <2>2. CASE s \notin DOMAIN m
    BY <1>13, <2>2
  <2>3. CASE t \notin DOMAIN m
    BY <1>13, <2>3
  <2> QED
    BY <2>1, <2>2, <2>3
<1>15. ASSUME NEW s PROVE HostsFor(r, s) = FlattenSeq(HostsWanted(mapped, k, s))
  <2> DEFINE u == HostsWanted(mapped, k - 1, s)
             v == HostsWanted(mapped, k, s)
             X == HostNames
  <2>1. \A i \in 1 .. k : (IF fetched[i].Source = s THEN HostsAt(mapped, fetched[i].Destination) ELSE <<>>) \in Seq(X)
    <3> TAKE i \in 1 .. k
    <3>1. WellMapped(mapped)
      BY DEF WithHosts, MapState, WellMapped
    <3>2. HostsAt(mapped, fetched[i].Destination) \in Seq(X)
      BY <3>1, HostsAtRight
    <3> QED
      BY <3>2
  <2>2. /\ u \in [1 .. k - 1 -> Seq(X)] /\ v \in [1 .. k -> Seq(X)] /\ \A i \in 1 .. k - 1 : u[i] = v[i]
        /\ v[k] = IF p.Source = s THEN HostsAt(mapped, p.Destination) ELSE <<>>
    BY <1>1, <2>1 DEF HostsWanted
  <2> HIDE DEF u, v, X
  <2>3. FlattenSeq(v) = FlattenSeq(u) \o v[k]
    BY <1>1, <2>2, FlattenStep
  <2>4. HostsFor(acc, s) = FlattenSeq(u) /\ HostsAt(acc, p.Destination) = HostsAt(mapped, p.Destination)
    BY <1>3 DEF u
  <2>5. HostsFor(r, s) = FlattenSeq(u) \o v[k]
    BY <1>6, <2>2, <2>4
  <2> QED
    BY <2>3, <2>5 DEF v
<1> QED
  BY <1>6, <1>9, <1>12, <1>14, <1>15 DEF PoliciesRight, r, pm, rm

\* The second loop at its end.
LEMMA PoliciesAre ==
    ASSUME InputsInOrder, FirstsApart, NEW mapped, WithHosts(mapped)
    PROVE  \E acc \in PolicyState :
              /\ FoldLeft(MapPolicy, [heap |-> mapped.heap, routeMap |-> mapped.routeMap, policyMap |-> EmptyMap], fetched) = acc
              /\ PoliciesRight(acc, mapped, Len(fetched))
<1> DEFINE n == Len(fetched)
<1>1. fetched \in Seq(PolicySet) /\ mapped \in MapState /\ n \in Nat
  BY DEF InputsInOrder, WithHosts
<1>2. PICK g \in [0 .. n -> PolicyState] :
              /\ g[0] = NoPolicyMap(mapped)
              /\ \A i \in 1 .. n : g[i] = MapPolicy(g[i - 1], fetched[i])
              /\ FoldLeft(MapPolicy, [heap |-> mapped.heap, routeMap |-> mapped.routeMap, policyMap |-> EmptyMap], fetched) = g[n]
  BY <1>1, PolicyMapLoop
<1> DEFINE S == {k \in 0 .. n : PoliciesRight(g[k], mapped, k)}
<1>3. 0 \in S
  <2> DEFINE acc == g[0]
  <2>1. /\ acc.heap = mapped.heap /\ acc.routeMap = mapped.routeMap
        /\ acc.policyMap = EmptyMap /\ DOMAIN acc.policyMap = {}
    BY <1>2, EmptyInMaps DEF NoPolicyMap
  <2> HIDE DEF acc
  <2>2. ASSUME NEW s PROVE HostsFor(acc, s) = FlattenSeq(HostsWanted(mapped, 0, s))
    <3>1. HostsWanted(mapped, 0, s) = <<>>
      BY DEF HostsWanted
    <3>2. FlattenSeq(HostsWanted(mapped, 0, s)) = <<>>
      BY <3>1, FlattenNone
    <3> QED
      BY <2>1, <3>2 DEF HostsFor
  <2>3. \A d : HostsAt(acc, d) = HostsAt(mapped, d)
    BY <2>1 DEF HostsAt
  <2>4. DOMAIN acc.policyMap = {fetched[j].Source : j \in {j \in 1 .. 0 : fetched[j].Destination \in DOMAIN mapped.routeMap}}
    BY <2>1
  <2>5. PoliciesRight(acc, mapped, 0)
    BY <2>1, <2>2, <2>3, <2>4 DEF PoliciesRight, OwnArrays
  <2> QED
    BY <1>1, <2>5 DEF acc
<1>4. ASSUME NEW k \in 1 .. n, k - 1 \in S PROVE k \in S
  <2>1. g[k - 1] \in PolicyState /\ g[k] = MapPolicy(g[k - 1], fetched[k])
    BY <1>2, <1>4
  <2>2. PoliciesRight(g[k], mapped, k)
    BY <1>4, <2>1, PoliciesStep
  <2> QED
    BY <2>2
<1> HIDE DEF S
<1>5. n \in S
  <2> HIDE DEF n
  <2>1. \A k \in 0 .. n : k \in S
    BY <1>1, <1>3, <1>4, LoopKeeps
  <2> QED
    BY <1>1, <2>1
<1> QED
  BY <1>1, <1>2, <1>5 DEF S

\* An order of a finite set has each of its members.
LEMMA OrderHasAll ==
    ASSUME NEW S, IsFiniteSet(S), NEW order \in SetToSeqs(S), NEW s \in S
    PROVE  order \in [1 .. Cardinality(S) -> S] /\ \E n \in DOMAIN order : order[n] = s
<1> DEFINE c == Cardinality(S)
           D == 1 .. c
<1>1. c \in Nat
  BY FS_CardinalityType
<1>2. order \in [D -> S] /\ \A i, j \in D : i # j => order[i] # order[j]
  BY DEF SetToSeqs
<1>3. order \in Injection(D, S)
  BY <1>2 DEF Injection, IsInjective
<1>4. Cardinality(D) = c
  BY <1>1, FS_Interval
<1> HIDE DEF D, c
<1>5. order \in Surjection(D, S)
  BY <1>3, <1>4, FS_Injection DEF c
<1> QED
  BY <1>2, <1>5 DEF Surjection, D, c

\* The third loop puts each prefix once.
LEMMA SidecarsRight ==
    ASSUME InputsInOrder, NEW mapped, WithHosts(mapped), NEW acc \in PolicyState,
           PoliciesRight(acc, mapped, Len(fetched)), NEW order \in SetToSeqs(DOMAIN acc.policyMap)
    PROVE  Sidecars(acc, order) = WantedSidecars
<1> DEFINE D == DOMAIN acc.policyMap
           n == Len(fetched)
           T == {j \in 1 .. n : fetched[j].Destination \in DOMAIN mapped.routeMap}
<1>1. fetched \in Seq(PolicySet) /\ n \in Nat /\ DOMAIN fetched = 1 .. n
  BY DEF InputsInOrder
<1>2. D = {fetched[j].Source : j \in T} /\ OwnArrays(acc)
  BY DEF PoliciesRight
<1>3. D = Sources
  <2>1. ASSUME NEW s \in D PROVE s \in Sources
    <3>1. PICK j \in T : s = fetched[j].Source
      BY <1>2
    <3>2. j \in Routed(s)
      BY <3>1, RoutedIs
    <3>3. Routed(s) # {}
      BY <3>2
    <3> QED
      BY <3>3, RoutedIs
  <2>2. ASSUME NEW s \in Sources PROVE s \in D
    <3>1. Routed(s) # {}
      BY DEF Sources
    <3>2. PICK j \in 1 .. n : fetched[j].Source = s /\ fetched[j].Destination \in DOMAIN mapped.routeMap
      BY <3>1, RoutedIs
    <3> QED
      BY <1>2, <3>2
  <2> HIDE DEF D
  <2> QED
    BY <2>1, <2>2
<1>4. IsFiniteSet(D)
  <2> DEFINE f == [j \in T |-> fetched[j].Source]
  <2>1. T \subseteq 1 .. n /\ IsFiniteSet(1 .. n)
    BY <1>1, FS_Interval
  <2> HIDE DEF T, D
  <2>2. IsFiniteSet(T)
    BY <2>1, FS_Subset
  <2>3. f \in Surjection(T, D)
    BY <1>2 DEF Surjection
  <2> QED
    BY <2>2, <2>3, FS_Surjection
<1>5. ASSUME NEW s \in D PROVE Sidecars(acc, order)[s] = WantedHosts(s)
  <2> DEFINE slice == acc.policyMap[s]
             at == CHOOSE x \in DOMAIN order : order[x] = s
             before == {order[j] : j \in 1 .. at}
             counted(i) == {t \in before : acc.policyMap[t].arr = slice.arr /\ i <= acc.policyMap[t].len}
             held == Hosts(acc.heap, slice)
  <2>1. Sidecars(acc, order)[s] = [i \in 1 .. slice.len |->
                                      [prefixes |-> Cardinality(counted(i)), host |-> acc.heap[slice.arr][i]]]
    BY DEF Sidecars
  <2>2. slice \in Slice /\ Valid(acc.heap, slice) /\ acc.heap \in Heaps /\ slice.len \in Nat
    BY PolicyStateIs DEF Slice
  <2>3. order \in [1 .. Cardinality(D) -> D] /\ \E x \in DOMAIN order : order[x] = s
    <3> HIDE DEF D
    <3>1. order \in SetToSeqs(D)
      BY DEF D
    <3> QED
      BY <1>4, <3>1, OrderHasAll
  <2>4. at \in DOMAIN order /\ order[at] = s /\ Cardinality(D) \in Nat
    BY <1>4, <2>3, FS_CardinalityType
  <2>5. at \in 1 .. Cardinality(D)
    BY <2>3, <2>4
  <2> HIDE DEF at
  <2>6. s \in before /\ before \subseteq D
    <3> HIDE DEF D
    <3>1. at \in 1 .. at /\ \A j \in 1 .. at : j \in 1 .. Cardinality(D)
      BY <2>4, <2>5
    <3> QED
      BY <2>3, <2>4, <3>1
  <2> HIDE DEF before
  <2>7. ASSUME NEW i \in 1 .. slice.len PROVE Cardinality(counted(i)) = 1
    <3>1. i <= slice.len
      BY <2>2
    <3>2. counted(i) = {s}
      BY <1>2, <2>6, <3>1 DEF OwnArrays
    <3> QED
      BY <3>2, FS_Singleton
  <2>8. held = [i \in 1 .. slice.len |-> acc.heap[slice.arr][i]]
    <3> DEFINE heap == acc.heap
    <3>1. heap \in Heaps /\ slice \in Slice /\ Valid(heap, slice)
      BY <2>2
    <3> HIDE DEF heap, slice
    <3>2. Hosts(heap, slice) = [i \in 1 .. slice.len |-> heap[slice.arr][i]]
      BY <3>1, HostsAre
    <3> QED
      BY <3>2 DEF heap
  <2>9. held = FlattenSeq(HostsWanted(mapped, n, s))
    BY DEF PoliciesRight, HostsFor
  <2>10. HostsWanted(mapped, n, s) = [i \in DOMAIN fetched |->
             IF fetched[i].Source = s THEN HostsOf(fetched[i].Destination) ELSE <<>>]
    <3>1. \A p : HostsAt(mapped, p) = HostsOf(p)
      BY DEF WithHosts
    <3> QED
      BY <1>1, <3>1 DEF HostsWanted
  <2> DEFINE hosts == FlattenSeq([i \in DOMAIN fetched |->
                          IF fetched[i].Source = s THEN HostsOf(fetched[i].Destination) ELSE <<>>])
  <2>11. WantedHosts(s) = [i \in DOMAIN hosts |-> [prefixes |-> 1, host |-> hosts[i]]]
    BY DEF WantedHosts
  <2>12. hosts = held
    BY <2>9, <2>10
  <2> HIDE DEF hosts, held, counted
  <2>13. DOMAIN hosts = 1 .. slice.len /\ \A i \in 1 .. slice.len : hosts[i] = acc.heap[slice.arr][i]
    BY <2>8, <2>12
  <2> HIDE DEF slice
  <2> QED
    BY <2>1, <2>7, <2>11, <2>13
<1>6. Sidecars(acc, order) = [s \in D |-> Sidecars(acc, order)[s]]
  BY DEF Sidecars
<1>7. WantedSidecars = [s \in D |-> WantedHosts(s)]
  BY <1>3 DEF WantedSidecars
<1> HIDE DEF D
<1> QED
  BY <1>5, <1>6, <1>7

\* In spite of slices that share arrays and of appends in place, for any
\* routes and policies and any order of the range over policyMap, each source
\* gets the internal hosts of its destinations, each prefixed once, as long as
\* no two sources have the same first destination.
THEOREM SidecarsAreExact == AnyInputs => []SidecarsExact
<1>1. InputsInOrder => SidecarsExact
  <2> SUFFICES ASSUME InputsInOrder, FirstsApart, NEW result \in CreateSidecarResources(sorted, fetched)
               PROVE  result = WantedSidecars
    BY DEF SidecarsExact, FirstsApart
  <2>1. sorted \in Seq(Entries) /\ DOMAIN sorted = 1 .. Len(sorted)
    BY SortedRoutes
  <2>2. PICK mapped \in MapState :
              /\ FoldLeft(MapInternalRoute, [heap |-> <<>>, routeMap |-> EmptyMap], sorted) = mapped
              /\ \A p : HostsAt(mapped, p) = FlattenSeq(PiecesOf(sorted, Len(sorted), p))
    <3> HIDE DEF sorted
    <3> QED
      BY <2>1, RouteMapIs
  <2>3. WithHosts(mapped)
    <3> HIDE DEF sorted
    <3>1. ASSUME NEW p PROVE HostsAt(mapped, p) = HostsOf(p)
      <4>1. PiecesOf(sorted, Len(sorted), p) = [i \in DOMAIN sorted |->
                IF sorted[i].Internal /\ sorted[i].CapiProcessGUID = p THEN <<sorted[i].Hostname>> ELSE <<>>]
        BY <2>1 DEF PiecesOf, HostFor
      <4> QED
        BY <2>2, <4>1 DEF HostsOf
    <3> QED
      BY <3>1 DEF WithHosts
  <2>4. PICK acc \in PolicyState :
              /\ FoldLeft(MapPolicy, [heap |-> mapped.heap, routeMap |-> mapped.routeMap, policyMap |-> EmptyMap], fetched) = acc
              /\ PoliciesRight(acc, mapped, Len(fetched))
    BY <2>3, PoliciesAre
  <2>5. \E order \in SetToSeqs(DOMAIN acc.policyMap) : result = Sidecars(acc, order)
    BY <2>2, <2>4 DEF CreateSidecarResources
  <2> QED
    BY <2>3, <2>4, <2>5, SidecarsRight
<1> QED
  BY <1>1, InputsAreLists, PTL
=============================================================================
