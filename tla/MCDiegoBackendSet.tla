------------------------- MODULE MCDiegoBackendSet -------------------------
(***************************************************************************)
(* Model checking of DiegoBackendSet.  Process p1 has two instances: i1    *)
(* can start to evacuate, i2 is claimed before it runs and has no host     *)
(* port, so it is reachable only internally.                               *)
(***************************************************************************)
EXTENDS DiegoBackendSet

Port(host, container) == [HostPort |-> host, ContainerPort |-> container]
LRP(i, p, state, presence, address, instanceAddress, ports) ==
    [Instance |-> i, ProcessGuid |-> p, State |-> state, Presence |-> presence,
     Address |-> address, InstanceAddress |-> instanceAddress, Ports |-> ports]

Running1    == LRP("i1", "p1", "RUNNING", "Ordinary", "cell1", "c1", <<Port(61001, 8080), Port(61002, 2222)>>)
Evacuating1 == LRP("i1", "p1", "RUNNING", "Evacuating", "cell1", "c1", <<Port(61001, 8080), Port(61002, 2222)>>)
Claimed2    == LRP("i2", "p1", "CLAIMED", "Ordinary", "", "", <<>>)
Running2    == LRP("i2", "p1", "RUNNING", "Ordinary", "cell2", "c2", <<Port(0, 8080)>>)

TwoInstances == {Running1, Evacuating1, Claimed2, Running2}
=============================================================================
