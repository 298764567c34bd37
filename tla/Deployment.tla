---------------------------- MODULE Deployment -----------------------------
(***************************************************************************)
(* The librarian and copilot side by side.  Both are configured with       *)
(* TLSPems: the librarian writes the files, copilot publishes a gateway    *)
(* that names them.  Copilot takes its TLSPems when it starts, and keeps   *)
(* them while a later deployment replaces the files under it.              *)
(*                                                                         *)
(* The two only meet where copilot boots, which reads pems, and where it   *)
(* serves, which is when the files matter.  All their other steps commute, *)
(* so the librarian moves only while copilot is down or serves, and        *)
(* copilot starts and stops only while the librarian rests.                *)
(***************************************************************************)
EXTENDS Sequences

CONSTANTS PemLists, Roots, MaxFailures, ConfigFiles, Streaming

\* The certificates and their DNS names are strings of the configuration.
ASSUME PemsAssumption == PemLists \subseteq Seq([Id : STRING, Hosts : Seq(STRING)])

VARIABLES
    pems, root, disk, lib, failures,                    \* CertLocator
    main, cfg, member, told, signal, streams, code,       \* CopilotServer
    TLSPems,        \* of copilot's configuration
    stowed          \* history: the lists stowed under copilot's root without a failure

Librarian == INSTANCE CertLocator
Server == INSTANCE CopilotServer

libVars == <<pems, root, disk, lib, failures>>
serverVars == <<main, cfg, member, told, signal, streams, code>>
vars == <<pems, root, disk, lib, failures, main, cfg, member, told, signal, streams, code, TLSPems, stowed>>

Init ==
    /\ Librarian!Init /\ Server!Init
    /\ TLSPems = <<>> /\ stowed = {}

\* What the history keeps of a run that has ended.
Record ==
    stowed' = IF lib'.pc \in {"stowed", "malformed"} /\ root' = Librarian!istioCertRootPath
              THEN stowed \cup {pems'} ELSE stowed

\* Copilot has no step of its own to take.
Quiet ==
    /\ main \in {"exited", "serve"}
    /\ ~signal /\ streams = {} /\ \A m \in Server!Members : member[m] # "failed"

LibrarianStep ==
    /\ Quiet
    /\ Librarian!Next
    /\ Record
    /\ UNCHANGED <<serverVars, TLSPems>>

\* The TLSPems deployed last are in the file that copilot loads.
CopilotBoots ==
    /\ lib.pc \in Librarian!Resting
    /\ \E file \in ConfigFiles : Server!Boot(file)
    /\ TLSPems' = IF main' = "exited" THEN <<>> ELSE pems
    /\ UNCHANGED <<libVars, stowed>>

CopilotStep ==
    /\ lib.pc \in Librarian!Resting
    /\ \/ Server!Step
       \/ Server!BBSUnreachable \/ Server!SnapshotPanics \/ Server!InsertPanics \/ Server!Signal
       \/ \E m \in Server!Members : Server!Fails(m)
       \/ \E m \in Server!GrpcServers : Server!StreamOpens(m) \/ Server!StreamCloses(m)
    /\ TLSPems' = IF main' = "exited" THEN <<>> ELSE TLSPems
    /\ UNCHANGED <<libVars, stowed>>

Next == LibrarianStep \/ CopilotBoots \/ CopilotStep

\* Copilot's own steps are fair; deployments, failures, signals and clients are not.
Fairness == WF_vars(Server!Step /\ CopilotStep)

Spec == Init /\ [][Next]_vars /\ Fairness
-----------------------------------------------------------------------------
(***************************************************************************)
(* Properties.  The first five are those of the parts.                     *)
(***************************************************************************)
\* Every file that Locate names is stowed when a run ends without a failed write.
LocatedIsStowed == Librarian!LocatedIsStowed

\* One mismatched directory for each failed write and the write in progress.
MismatchedBounded == Librarian!MismatchedBounded

\* A member runs only while the members before it do.
LaterNeedEarlier == Server!LaterNeedEarlier

\* Exit codes have the reasons they stand for.
ExitExplained == Server!ExitExplained


\* Once the pairs that copilot was configured with have been stowed, every
\* HTTPS server of its gateway names a directory that exists, whatever is
\* deployed later, and unless a write has failed or is under way its
\* certificate and key belong together.
GatewayResolves ==
    (main = "serve" /\ TLSPems \in stowed) =>
        LET servers == Librarian!CreateGatewayResources(TLSPems) IN
        \A i \in DOMAIN servers : servers[i].Dir # <<>> =>
            /\ servers[i].Dir \in DOMAIN disk
            /\ (failures = 0 /\ lib.pc # "key") => servers[i].Dir \notin Librarian!Mismatched
=============================================================================
