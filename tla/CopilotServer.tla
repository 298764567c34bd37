--------------------------- MODULE CopilotServer ---------------------------
(***************************************************************************)
(* cmd/copilot-server and config: copilot loads its configuration, reaches *)
(* the BBS, starts its five members in order and stops them in reverse     *)
(* order.  The group and the signal monitor are ifrit's and the gRPC       *)
(* servers run in paraphernalia's grpcrunner, both vendored with copilot.  *)
(*                                                                         *)
(* A configuration file is a record of what the code tells apart: whether  *)
(* it parses, whether the required strings are there and the CIDR is one,  *)
(* the log level, the BBS section, the intervals, and whether the TLS      *)
(* files can be loaded.                                                    *)
(***************************************************************************)
EXTENDS Integers, FiniteSetsExt

CONSTANTS
    ConfigFiles,    \* the configuration files copilot may be started with
    Streaming       \* bound: the servers on which clients open streams

VARIABLES
    main,       \* where mainWithError and the group are
    cfg,        \* the configuration, after Load
    member,     \* state of each member
    told,       \* members that have been sent the signal
    signal,     \* a signal is pending
    streams,    \* servers on which a client has a stream open
    code        \* exit code

serverVars == <<main, cfg, member, told, signal, streams, code>>

\* cloud-controller, vip-resolver, mcp, mcp-snapshot, diego-backend-set-updater
Members == 1 .. 5
GrpcServers == 1 .. 3
Snapshot == 4
Diego == 5
Over == {"stopped", "failed"}
-----------------------------------------------------------------------------
(***************************************************************************)
(* config.Load                                                             *)
(***************************************************************************)
ValidLogLevels == {"debug", "info", "error", "fatal"}

DefaultMCPConvergeInterval == 30
DefaultBBSSyncInterval == 60
OrDefault(interval, default) == IF interval = 0 THEN default ELSE interval

\* The fields of the BBS section are not validated if BBS is disabled.
Valid(file) ==
    /\ file.Parses /\ file.LogLevel \in ValidLogLevels
    /\ file.BBS # "missing"
    /\ file.Nonzero /\ file.CIDR
    /\ file.BBS = "enabled" => file.BBSNonzero

LoadConfig(file) ==
    [file EXCEPT !.SyncInterval = OrDefault(@, DefaultBBSSyncInterval),
                 !.MCPConvergeInterval = OrDefault(@, DefaultMCPConvergeInterval)]
-----------------------------------------------------------------------------
(***************************************************************************)
(* mainWithError, up to the group.                                         *)
(***************************************************************************)
NoConfig == [Parses |-> FALSE]
Off == [m \in Members |-> "off"]

\* The process ends, and with it its goroutines and connections.
Exit(c) ==
    /\ main' = "exited" /\ code' = c
    /\ cfg' = NoConfig
    /\ member' = Off /\ told' = {} /\ signal' = FALSE /\ streams' = {}

Boot(file) ==
    /\ main = "exited"
    /\ IF Valid(file)
       THEN /\ main' = "tls" /\ cfg' = LoadConfig(file) /\ code' = -1
            /\ UNCHANGED <<member, told, signal, streams>>
       ELSE Exit(1)

\* ServerTLSConfigForPilot, ServerTLSConfigForCloudController
ServerTLS ==
    /\ main = "tls"
    /\ IF cfg.ServerTLS
       THEN main' = "bbs" /\ UNCHANGED <<cfg, member, told, signal, streams, code>>
       ELSE Exit(1)

\* bbs.NewClient and Cells; a ticker with a negative interval panics.
ReachBBS ==
    /\ main = "bbs"
    /\ IF cfg.BBS = "enabled" /\ cfg.SyncInterval < 0 THEN Exit(2)
       ELSE main' = "build" /\ UNCHANGED <<cfg, member, told, signal, streams, code>>

BBSUnreachable ==
    /\ main = "bbs" /\ cfg.BBS = "enabled"
    /\ Exit(1)

\* The servers, the collector and the snapshot runner are constructed.
Build ==
    /\ main = "build"
    /\ IF cfg.MCPConvergeInterval < 0 THEN Exit(2)
       ELSE IF ~cfg.PolicyServerDisabled /\ ~cfg.PolicyServerTLS THEN Exit(1)
       ELSE main' = "start" /\ UNCHANGED <<cfg, member, told, signal, streams, code>>
-----------------------------------------------------------------------------
(***************************************************************************)
(* The members.                                                            *)
(***************************************************************************)
InGroup == main \in {"start", "wait", "serve", "stop"}

\* A server listens; the snapshot runner and the no-op backend set are ready
\* at once; the Diego backend set has subscribed to events.
Ready(m) ==
    /\ InGroup /\ member[m] = "launched"
    /\ member' = [member EXCEPT ![m] = "ready"]
    /\ UNCHANGED <<main, cfg, told, signal, streams, code>>

\* Listen or Serve fails, or the subscription does.
Fails(m) ==
    /\ InGroup
    /\ \/ m \in GrpcServers /\ member[m] \in {"launched", "ready"}
       \/ m = Diego /\ member[m] = "launched" /\ cfg.BBS = "enabled"
    /\ member' = [member EXCEPT ![m] = "failed"]
    /\ streams' = streams \ {m}
    /\ UNCHANGED <<main, cfg, told, signal, code>>

\* A member that has been sent a signal returns nil; GracefulStop of a server
\* waits until the clients have closed their streams.
Stops(m) ==
    /\ InGroup /\ member[m] = "ready" /\ m \in told
    /\ m \notin streams
    /\ member' = [member EXCEPT ![m] = "stopped"]
    /\ UNCHANGED <<main, cfg, told, signal, streams, code>>

\* The snapshot runner's first tick without a policy server.
SnapshotPanics ==
    /\ InGroup /\ member[Snapshot] = "ready" /\ cfg.PolicyServerDisabled
    /\ Exit(2)

\* The collector of events inserts a backend for a process that the
\* reconciliation has just removed.  The two goroutines start before the member
\* is ready and may finish an iteration after it has returned.
InsertPanics ==
    /\ InGroup /\ cfg.BBS = "enabled" /\ member[Diego] \notin {"off", "failed"}
    /\ Exit(2)

\* Cloud Controller begins a BulkSync, Pilot subscribes, or someone asks for
\* the reflection that every server offers.
StreamOpens(m) ==
    /\ m \in Streaming
    /\ member[m] = "ready" /\ m \notin told /\ m \notin streams
    /\ streams' = streams \cup {m}
    /\ UNCHANGED <<main, cfg, member, told, signal, code>>

StreamCloses(m) ==
    /\ m \in streams
    /\ streams' = streams \ {m}
    /\ UNCHANGED <<main, cfg, member, told, signal, code>>
-----------------------------------------------------------------------------
(***************************************************************************)
(* ifrit: the signal monitor and the ordered group.                        *)
(***************************************************************************)
\* Before the monitor is installed a signal ends the process.
Signal ==
    \/ main \in {"tls", "bbs", "build"} /\ Exit(143)
    \/ /\ InGroup /\ ~signal
       /\ signal' = TRUE
       /\ UNCHANGED <<main, cfg, member, told, streams, code>>

Launch ==
    /\ main = "start"
    /\ LET m == Min({n \in Members : member[n] = "off"})
       IN  member' = [member EXCEPT ![m] = "launched"]
    /\ main' = "wait"
    /\ UNCHANGED <<cfg, told, signal, streams, code>>

Launched == {m \in Members : member[m] # "off"}

\* orderedStart goes on when the last member launched is ready.
Started ==
    /\ main = "wait" /\ member[Max(Launched)] = "ready"
    /\ main' = IF Launched = Members THEN "serve" ELSE "start"
    /\ UNCHANGED <<cfg, member, told, signal, streams, code>>


\* A signal, or the exit of any member that has been launched.
Notice ==
    /\ main \in {"wait", "serve"}
    /\ signal \/ \E m \in Launched : member[m] = "failed"
    /\ main' = "stop"
    /\ UNCHANGED <<cfg, member, told, signal, streams, code>>

\* Faulty variant: the members are stopped in the order of their start.
TellFirst ==
    /\ main = "stop"
    /\ \A m \in told : member[m] \in Over
    /\ \E m \in Launched : member[m] \notin Over
    /\ LET m == Min({n \in Launched : member[n] \notin Over})
       IN  told' = told \cup {m}
    /\ UNCHANGED <<main, cfg, member, signal, streams, code>>

\* stop: the last one that still runs is sent the signal, once the one before
\* it has exited.
Tell ==
    /\ main = "stop"
    /\ \A m \in told : member[m] \in Over
    /\ \E m \in Launched : member[m] \notin Over
    /\ LET m == Max({n \in Launched : member[n] \notin Over})
       IN  told' = told \cup {m}
    /\ UNCHANGED <<main, cfg, member, signal, streams, code>>

\* Faulty variant: the error of a member is dropped.
FinishQuietly ==
    /\ main = "stop"
    /\ \A m \in Launched : member[m] \in Over
    /\ Exit(0)

Finish ==
    /\ main = "stop"
    /\ \A m \in Launched : member[m] \in Over
    /\ Exit(IF \E m \in Launched : member[m] = "failed" THEN 1 ELSE 0)
-----------------------------------------------------------------------------
Init ==
    /\ main = "exited" /\ code = -1
    /\ cfg = NoConfig
    /\ member = Off /\ told = {} /\ signal = FALSE /\ streams = {}

\* What copilot itself does.
Step ==
    \/ ServerTLS \/ ReachBBS \/ Build
    \/ Launch \/ Started \/ Notice \/ Tell \/ Finish
    \/ \E m \in Members : Ready(m) \/ Stops(m)

\* What happens to it.
Environment ==
    \/ \E file \in ConfigFiles : Boot(file)
    \/ BBSUnreachable \/ SnapshotPanics \/ InsertPanics \/ Signal
    \/ \E m \in Members : Fails(m)
    \/ \E m \in GrpcServers : StreamOpens(m) \/ StreamCloses(m)

Next == Step \/ Environment

Fairness == WF_serverVars(Step)

Spec == Init /\ [][Next]_serverVars /\ Fairness
-----------------------------------------------------------------------------
(***************************************************************************)
(* Properties.                                                             *)
(***************************************************************************)
\* A member only ever runs while the members before it do, unless one of them
\* has failed by itself, at start, in service and during shutdown: the
\* snapshot runner never publishes into a server that copilot has stopped, and
\* Cloud Controller is answered until the end.
LaterNeedEarlier ==
    \A i, j \in Members :
        (i < j /\ member[j] \in {"launched", "ready"}) => member[i] \in {"ready", "failed"}

\* Exit code 0 is only for a shutdown that a signal asked for and in which
\* no member failed.  A panic needs a negative interval, a disabled policy
\* server, or a backend set that has subscribed to the events of Diego: a
\* copilot that has none of these does not panic.
ExitExplained ==
    [][/\ (main # "exited" /\ code' = 0)
              => signal /\ \A m \in Members : member[m] # "failed"
       /\ code' = 2 /\ code # 2
              => \/ cfg.PolicyServerDisabled \/ cfg.SyncInterval < 0 \/ cfg.MCPConvergeInterval < 0
                 \/ cfg.BBS = "enabled" /\ member[Diego] \notin {"off", "failed"}]_serverVars

=============================================================================
