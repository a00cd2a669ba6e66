--------------------------- MODULE MCRegistryHosts ---------------------------
(***************************************************************************)
(* Four hosts of the registry in one run. A behaviour is a behaviour of    *)
(* one of them, "host"; only the families nest children.                   *)
(***************************************************************************)
EXTENDS MCSubagentRegistry

VARIABLE host

Flat == \A a \in used : parent[a] = Root
\* Children spawned outside of every root turn.
Unowned == \A t \in Turns : spawned[t] = 0

HostsInit == Init /\ host \in {"coordinator", "sleepers", "family", "naming"}
HostsNext ==
    \/ host = "coordinator" /\ Coordinate /\ Flat' /\ UNCHANGED host
    \/ host = "sleepers" /\ Sleepers /\ Flat' /\ Unowned' /\ UNCHANGED host
    \/ host = "family" /\ Family /\ UNCHANGED host
    \/ host = "naming" /\ Naming /\ Flat' /\ UNCHANGED host

HostsSpec == HostsInit /\ [][HostsNext]_<<vars, host>>

=============================================================================
