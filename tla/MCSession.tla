----------------------------- MODULE MCSession -----------------------------
(***************************************************************************)
(* Small hosts for model-checking Session.                                 *)
(***************************************************************************)
EXTENDS Session

CONSTANTS en0, utun4, wlanA, wlanB, home, cafe, r1, r2, g1, g2, l1, l2

OsLink(i, u, n, g, r, l) ==
  [interface |-> i, underlay |-> u, ssid |-> n, gateway |-> g,
   resolvers |-> r, lease |-> l]

\* A laptop that moves between two Wi-Fi networks.
TwoNetworks ==
  { OsLink(en0, NONE, home, g1, r1, NONE), OsLink(en0, NONE, cafe, g2, r1, NONE) }

\* Two networks, and no route between them.
SwitchWithLoss == TwoNetworks \cup { OsLink(NONE, NONE, NONE, NONE, r1, NONE) }

\* A network whose name the host withholds, whose lease and resolvers change
\* under it, with the route lost at times.
HiddenRouteAndResolvers ==
  { OsLink(en0, NONE, REDACTED, g1, r1, l1), OsLink(en0, NONE, REDACTED, g2, r2, l2),
    OsLink(NONE, NONE, NONE, NONE, r1, NONE) }

\* A tunnel over Wi-Fi whose corroboration comes and goes, and the tunnel
\* re-established with other addresses.
Tunnel ==
  { OsLink(utun4, wlanA, home, g1, r1, NONE), OsLink(utun4, NONE, NONE, g1, r1, NONE),
    OsLink(utun4, NONE, NONE, g2, r1, NONE), OsLink(utun4, wlanB, cafe, g2, r1, NONE) }
=============================================================================
