------------------------------ MODULE MCPeers ------------------------------
(***************************************************************************)
(* Small neighbourhoods for model-checking PeerSession: 1 has an IPv4, 2   *)
(* an IPv6 address.                                                        *)
(***************************************************************************)
EXTENDS PeerSession

CONSTANTS home, tunnel, macA, macB

Entry(m, s) == [mac |-> m, state |-> s]

\* ip prints every row with its state; arp prints the IPv4 rows without.
LinuxSources == <<"ip", "arp">>
Linux == [ip |-> [keys |-> {1, 2}, states |-> TRUE],
          arp |-> [keys |-> {1}, states |-> FALSE]]

\* Two paths over one network, the second through a tunnel.
Networks == [p \in {home, tunnel} |-> {1, 2}]
ObservedGateways == [p \in {home, tunnel} |-> 1]
RouteGateways == (home :> 1) @@ (tunnel :> NONE)

Neighborhood == [k \in {1, 2} |-> Entry(macA, "STALE")]

Rows == {Entry(macA, "STALE"), Entry(macB, "STALE"), Entry(NONE, "FAILED")}
=============================================================================
