---------------------------- MODULE MCDeployment ---------------------------
(***************************************************************************)
(* Model checking of Deployment.                                           *)
(***************************************************************************)
EXTENDS Deployment, Integers, Sequences

Pair(id, hosts) == [Id |-> id, Hosts |-> hosts]

\* Two pairs; then one of their directories for two pairs with the same first
\* host, a malformed pair and one behind it.
Rotation == {<<Pair("p", <<"a", "c">>), Pair("q", <<"b">>)>>,
             <<Pair("r", <<"b">>), Pair("s", <<"b", "a">>), Pair("u", <<>>), Pair("v", <<"c">>)>>}

Good == [Parses |-> TRUE, LogLevel |-> "info", BBS |-> "enabled", BBSNonzero |-> TRUE, Nonzero |-> TRUE,
         CIDR |-> TRUE, SyncInterval |-> 0, MCPConvergeInterval |-> 10, ServerTLS |-> TRUE,
         PolicyServerDisabled |-> FALSE, PolicyServerTLS |-> TRUE]

\* A good configuration, and one for each way to differ from it.
Files == {Good, [Good EXCEPT !.LogLevel = "loud"], [Good EXCEPT !.BBS = "missing"],
          [Good EXCEPT !.SyncInterval = -1],
          [Good EXCEPT !.MCPConvergeInterval = -1], [Good EXCEPT !.ServerTLS = FALSE],
          [Good EXCEPT !.PolicyServerTLS = FALSE],
          [Good EXCEPT !.BBS = "disabled", !.BBSNonzero = FALSE,
                       !.PolicyServerDisabled = TRUE, !.PolicyServerTLS = FALSE]}
=============================================================================
