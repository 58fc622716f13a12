----------------------------- MODULE MCHistory -----------------------------
(***************************************************************************)
(* Small logs and networks for model-checking HistoryReport.               *)
(***************************************************************************)
EXTENDS HistoryReport

CONSTANTS wlan0, eth0, home, r1, r2, g1, g2, m1, m2, m3, here, there

OsLink(i, n, g) ==
  [interface |-> i, underlay |-> NONE, ssid |-> n, gateway |-> g,
   resolvers |-> r1, lease |-> NONE]

\* A Wi-Fi network and a cable.
WifiOrCable == {OsLink(wlan0, home, g1), OsLink(eth0, NONE, g2)}

\* A Wi-Fi network that gives its gateway the address the first one gives.
Twin == [OsLink(wlan0, REDACTED, g1) EXCEPT !.resolvers = r2]

\* Two Wi-Fi networks that are hard to tell apart, one with a name the host
\* withholds, and no network.
Roaming ==
  {OsLink(wlan0, home, g1), Twin, OsLink(NONE, NONE, NONE)}

Router == [l \in OsLinks |-> IF l.gateway = g1 /\ l # Twin THEN m1 ELSE m2]

Written(o, t, l, m) ==
  [observer |-> o, time |-> t, pid |-> 0, generation |-> 1,
   path |-> [interface |-> l.interface, ssid |-> l.ssid, gateway |-> l.gateway,
             mac |-> m, resolvers |-> l.resolvers]]

Home == OsLink(wlan0, home, g1)
Cable == OsLink(eth0, NONE, g2)

\* No log, one with a record, an interrupted one, an unreadable one.
Logs ==
  { [state |-> "absent", records |-> <<>>],
    [state |-> "good", records |-> <<Written(here, 1, Home, m1)>>],
    [state |-> "torn", records |-> <<Written(here, 1, Home, m1)>>],
    [state |-> "malformed", records |-> <<>>] }

\* A log that another host uses too, without and with a record of this host.
SharedLogs ==
  LET theirs == <<Written(there, 1, Home, m1), Written(there, 2, Cable, m2)>> IN
  { [state |-> "good", records |-> theirs],
    [state |-> "good", records |-> Append(theirs, Written(here, 4, Home, m1))] }
=============================================================================
