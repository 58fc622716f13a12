---------------------------- MODULE MCCommands ----------------------------
(***************************************************************************)
(* Small hosts, requests and evidence for model-checking Commands.         *)
(***************************************************************************)
EXTENDS Commands

Wired == [route |-> TRUE, whole |-> TRUE, medium |-> "wired", radio |-> FALSE]
Wifi == [Wired EXCEPT !.medium = "wifi"]
\* A tunnel whose physical network has not been found.
Tunnel == [Wired EXCEPT !.whole = FALSE]

StreamHosts == {NoLink, Wired, Wifi}
ShotHosts == {NoLink, Wired, Wifi, Tunnel}

CachePeers == [health |-> "ok", failed |-> FALSE]
NoPeers == [health |-> "unavailable", failed |-> TRUE]
SomePeers == [health |-> "degraded", failed |-> TRUE]
PeerCaches == {CachePeers, SomePeers, NoPeers}

\* Both sources of a report may answer with bindings that conflict.
Conflicting == [health |-> "degraded", failed |-> FALSE]
ReportCaches == PeerCaches \cup {Conflicting}

StreamResults ==
  [Gateway |-> {"ok", "failed"}, Dns |-> {"ok", "failed"},
   Https |-> {"ok", "degraded", "unavailable"}, PublicIp |-> {"ok"}]

PathResults == {"ok", "degraded", "failed"}
AnyResult ==
  [Gateway |-> PathResults, Dns |-> PathResults \cup {"unavailable"},
   Https |-> PathResults \cup {"unavailable"}, PublicIp |-> {"ok"}]

\* An active overview that has measured everything once.
Measured(link) ==
  [NewEvidence("active") EXCEPT
     !.generation = 1, !.link = link, !.settled = TRUE, !.counters = TRUE,
     !.rate = "clean", !.dwelt = {"interface"}, !.peers = CachePeers,
     !.workload = "ok", !.probes = [k \in ProbeKinds |-> "ok"],
     !.outcomes = <<"reply", "reply">>]

MeasuredOnce == {Measured(Wired), Measured([Wifi EXCEPT !.radio = TRUE])}

\* Loads of an interface that mostly receives and then mostly sends.
Bursts == {[rx |-> 3, tx |-> 1], [rx |-> 0, tx |-> 2]}

RadioReadings ==
  {[signal |-> 1, channel |-> 1], [signal |-> 2, channel |-> NONE],
   [signal |-> NONE, channel |-> 2]}

\* Two frames, with and without a key between them, in both lanes.
TwoFrames ==
  [native : BOOLEAN, timed : BOOLEAN, frames : {{1, 3}}, keys : {{}, {2}}]

\* Two processes of one program and one of another.
TwoPrograms == <<1, 1, 2>>
SecondsOfTraffic ==
  {[received |-> 0, transmitted |-> 0], [received |-> 1, transmitted |-> 0],
   [received |-> 1, transmitted |-> 2]}
=============================================================================
