----------------------------- MODULE LiveStream -----------------------------
(***************************************************************************)
(* The machine stream of a live observation (main.rs, run_jsonl; output.rs,*)
(* LiveObservationStream): every accepted update is reduced to evidence    *)
(* (model.rs, App::apply_at), and a line is printed when the evidence says *)
(* something else than before, or a checkpoint is due.  A bounded stream   *)
(* ends with a summary.                                                    *)
(*                                                                         *)
(* Session models how updates are fenced; here the updates that arrive are *)
(* the accepted ones, of the collectors the mode reads.                    *)
(***************************************************************************)
EXTENDS Absent, Assessment

CONSTANTS
  StreamLinks,     \* links a path may start with
  ProbeResults,    \* per probe kind, how a probe may end
  PeerReadings,    \* [health, failed] of a neighbour-cache snapshot
  WorkloadHealths, \* healths of a workload snapshot
  Underway,        \* evidence of overviews that have been told once
  MaxUpdates,      \* bound: updates received
  MaxGenerations   \* bound: paths

\* collect_peer_snapshot_for_link: no reading is whole of which a source failed.
CacheReading ==
  {r \in [health : {"ok", "degraded", "unavailable"}, failed : BOOLEAN] :
     r.health = "ok" => ~r.failed}

\* What an App can hold: a link with an interface has a type (link_type), a
\* single echo is answered or not (probe_gateway with one attempt), a public
\* address is learnt or not (probe_public_ip), what is stale has a result, and a
\* neighbour cache is not on display before it was read.
Sensible(e) ==
  /\ e.link.route => e.link.medium # "none"
  /\ e.probes["Gateway"] # "degraded"
  /\ e.probes["PublicIp"] \notin {"degraded", "failed"}
  /\ \A k \in e.stale : e.probes[k] \notin Pending
  /\ e.peers.health # "queued" => e.peers \in CacheReading
  /\ e.workload \in {"queued", "ok", "unavailable"}

ASSUME StreamAssumption ==
  /\ StreamLinks \subseteq {l \in LinkEvidence : l.route => l.medium # "none"}
  /\ Underway \subseteq {e \in Evidence : e.generation > 0 /\ Sensible(e)}
  /\ ProbeResults \in [ProbeKinds -> SUBSET (Health \ Pending)]
  /\ "degraded" \notin ProbeResults["Gateway"]
  /\ ProbeResults["PublicIp"] \subseteq {"ok", "unavailable"}
  /\ PeerReadings \subseteq CacheReading
  /\ WorkloadHealths \subseteq {"ok", "unavailable"}
  /\ MaxUpdates \in Nat /\ MaxGenerations \in Nat

VARIABLES
  evidence,  \* the App of the stream
  stream,    \* LiveObservationStream and the loop of run_jsonl
  line,      \* the line printed last, NONE before the first
  summary    \* the final summary, NONE if there is none
streamVars == <<evidence, stream, line, summary>>

\* LiveMaterialState: the parts of a projection that are worth a line.
Material(e, mode) ==
  [projection |-> Projection(e, mode),
   link |-> e.link,
   probes |-> IF mode = "overview" THEN <<e.probes, Assessed(e)>> ELSE NONE,
   peers |-> IF "peers" \in Scope(mode) THEN e.peers ELSE NONE]

NoStream == [phase |-> "off", mode |-> "overview", bounded |-> FALSE,
             sequence |-> 0, told |-> NONE, due |-> TRUE, updates |-> 0]

\* No stream yet, or one that has printed its first line.
StreamIdle ==
  /\ evidence = NewEvidence("passive")
  /\ stream = NoStream /\ line = NONE /\ summary = NONE

StreamInit ==
  \/ StreamIdle
  \/ /\ summary = NONE
     /\ /\ evidence \in Underway
        /\ stream = [NoStream EXCEPT !.phase = "running", !.bounded = TRUE,
                                     !.sequence = 1, !.due = FALSE, !.updates = 1,
                                     !.told = Material(evidence, "overview")]
        /\ line = [kind |-> "checkpoint", sequence |-> 1,
                   projection |-> Projection(evidence, "overview")]

\* Probes run only beside the overview, so only it can be active.
StartStream ==
  /\ stream.phase = "off"
  /\ \E policy \in ProbePolicies, mode \in Modes, bounded \in BOOLEAN :
       /\ policy = "active" => mode = "overview"
       /\ evidence' = NewEvidence(policy)
       /\ stream' = [stream EXCEPT !.phase = "running", !.mode = mode,
                                   !.bounded = bounded]
  /\ UNCHANGED <<line, summary>>

-----------------------------------------------------------------------------
(***************************************************************************)
(* What an update makes of the evidence.                                   *)
(***************************************************************************)
\* Another path: nothing of the one before remains.
OpenedPath(e, link) ==
  [NewEvidence(e.policy) EXCEPT !.generation = e.generation + 1, !.link = link]

RefreshedLink(e, whole) ==
  [e EXCEPT !.link.whole = whole, !.settling = FALSE]

WifiRead(e, radio) ==
  [e EXCEPT !.settled = TRUE, !.link.radio = radio,
            !.dwelt = IF radio THEN @ \cup {"wifi"} ELSE @]

\* A rate needs two readings of one interface between which no counter was
\* reset (interface_interval, counters_replaced_or_reset).
TrafficRead(e, reading) ==
  [e EXCEPT !.counters = reading # "none",
            !.rate = IF e.counters /\ reading \in {"clean", "loss"}
                     THEN reading ELSE "none",
            !.dwelt = IF reading # "none" THEN @ \cup {"interface"} ELSE @]

\* The result of a refresh replaces the previous one; until then it stays.
ProbeBegun(e, kind) ==
  [e EXCEPT !.probes[kind] = IF @ = "queued" THEN "running" ELSE @]

ProbeEnded(e, kind, health, varies) ==
  [e EXCEPT !.probes[kind] = health,
            !.stale = @ \ {kind},
            !.outcomes = IF kind = "Gateway" /\ health # "unavailable"
                         THEN Append(@, IF health = "failed" THEN "lost" ELSE "reply")
                         ELSE @,
            !.varies = varies]

\* The evidence after each update that may arrive: of the path, of a collector
\* the mode reads, of a probe.
PathUpdates(e) ==
  { RefreshedLink(e, whole) : whole \in IF e.generation > 0 THEN BOOLEAN ELSE {} }
  \cup { OpenedPath(e, link) :
           link \in IF e.generation < MaxGenerations THEN StreamLinks ELSE {} }
  \cup IF e.generation > 0 THEN {[e EXCEPT !.settling = TRUE]} ELSE {}

CollectorUpdates(e, mode) ==
  { WifiRead(e, radio) :
      radio \in IF "wifi" \in Scope(mode) THEN {FALSE, NeedsRadio(e)} ELSE {} }
  \cup { [e EXCEPT !.peers = reading] :
           reading \in IF "peers" \in Scope(mode) THEN PeerReadings ELSE {} }
  \cup { TrafficRead(e, reading) :
           reading \in IF "interface" \notin Scope(mode) THEN {}
                       ELSE IF e.link.route THEN {"none", "clean", "loss", "reset"}
                       ELSE {"none"} }
  \cup { [e EXCEPT !.workload = health] :
           health \in IF "workload" \in Scope(mode) THEN WorkloadHealths ELSE {} }

ProbeUpdates(e) ==
  UNION { {ProbeBegun(e, kind)}
            \cup { ProbeEnded(e, kind, health, varies) :
                     health \in ProbeResults[kind],
                     varies \in IF kind = "Gateway" THEN BOOLEAN ELSE {e.varies} } :
            kind \in IF Active(e) THEN ProbeKinds ELSE {} }

Updates(e, mode) ==
  PathUpdates(e)
    \cup IF e.generation = 0 THEN {} ELSE CollectorUpdates(e, mode) \cup ProbeUpdates(e)

-----------------------------------------------------------------------------
(***************************************************************************)
(* What is printed.                                                        *)
(***************************************************************************)
\* Fault: only another path, or a checkpoint, makes a line.
NewsOf_PathOnly(material) ==
  IF stream.told = NONE THEN TRUE
  ELSE \/ stream.told.projection.generation # material.projection.generation
       \/ stream.due

\* Whether the evidence earns a line.
NewsOf(material) == stream.told # material \/ stream.due

\* observe_at, after an update made `e` of the evidence.
Observe(e) ==
  LET material == Material(e, stream.mode)
      transition == /\ stream.told # NONE
                    /\ stream.told.projection.generation # e.generation
      kind == IF transition THEN "transition" ELSE "checkpoint"
      news == NewsOf(material)
  IN /\ stream' = [stream EXCEPT
                     !.told = material,
                     !.updates = @ + 1,
                     !.sequence = IF news THEN @ + 1 ELSE @,
                     !.due = IF news THEN FALSE ELSE @]
     /\ line' = IF news
                THEN [kind |-> kind, sequence |-> stream.sequence + 1,
                      projection |-> material.projection]
                ELSE line

Receive ==
  /\ stream.phase = "running" /\ stream.updates < MaxUpdates
  /\ \E e \in Updates(evidence, stream.mode) :
       /\ evidence' = e
       /\ Observe(e)
  /\ UNCHANGED summary

\* LIVE_CHECKPOINT_INTERVAL has passed since the last line.
CheckpointDue ==
  /\ stream.phase = "running" /\ ~stream.due
  /\ stream' = [stream EXCEPT !.due = TRUE]
  /\ UNCHANGED <<evidence, line, summary>>

\* A result passes its freshness window; no update says so.
EvidenceAges ==
  /\ stream.phase = "running"
  /\ \E kind \in ProbeKinds \ ({"Gateway"} \cup evidence.stale) :
       /\ Active(evidence) /\ evidence.probes[kind] \notin Pending
       /\ evidence' = [evidence EXCEPT !.stale = @ \cup {kind}]
  /\ UNCHANGED <<stream, line, summary>>

\* The deadline, or the end of the monitor.
EndStream ==
  /\ stream.phase = "running"
  /\ stream' = [stream EXCEPT !.phase = "over",
                              !.sequence = IF stream.bounded THEN @ + 1 ELSE @]
  /\ summary' = IF stream.bounded
                THEN [sequence |-> stream.sequence + 1,
                      projection |-> FinalProjection(evidence, stream.mode)]
                ELSE NONE
  /\ UNCHANGED <<evidence, line>>

\* print_jsonl fails for some update that earned a line: the line was counted,
\* nothing follows it, and the App that took the update is gone.
PrintFails ==
  /\ stream.phase = "running" /\ stream.updates < MaxUpdates
  /\ ~\A e \in Updates(evidence, stream.mode) : ~NewsOf(Material(e, stream.mode))
  /\ stream' = [stream EXCEPT !.phase = "failed", !.sequence = @ + 1]
  /\ UNCHANGED <<evidence, line, summary>>

StreamNext ==
  StartStream \/ Receive \/ CheckpointDue \/ EvidenceAges \/ EndStream \/ PrintFails

-----------------------------------------------------------------------------
(***************************************************************************)
(* Properties.                                                             *)
(***************************************************************************)
\* The summary says what the stream said last, save what time made stale,
\* and closes what it left open ("bounded_final_progress_closes_every_
\* collecting_claim"): nothing material was withheld from the lines.
FinalCloses ==
  summary # NONE /\ line # NONE =>
    LET last == line.projection
        end == summary.projection
    IN /\ summary.sequence = line.sequence + 1
       /\ end.generation = last.generation
       /\ end.coverage # "collecting" /\ end.situation.kind # "Collecting"
       /\ \A c \in DOMAIN end.progress :
            \/ end.progress[c] = "stale"
            \/ IF last.progress[c] = "collecting"
               THEN end.progress[c] \in {"insufficient", "unavailable"}
               ELSE end.progress[c] = last.progress[c]

\* The three conclusions are drawn by separate code from the same evidence and
\* support one another: a failure or success of the path is told only of
\* probes whose claims are current, "Ready" only of a complete overview, and
\* complete coverage only where no claim it rests on is open or missing.  (It is
\* asked of the evidence of every bounded run that ends, which it may at any time.)
VerdictsSupported ==
  LET now == Projection(evidence, "overview")
      health(k) == evidence.probes[k]
      claim(k) == now.progress[ClaimOf[k]]
      resting == {"PathContext", "InterfaceTotals", "RadioLink", "NeighborCache",
                  "GatewayRtt", "DnsReachability", "HttpsReachability",
                  "PublicEgress"}
  IN summary # NONE =>
     /\ now.path_status = "failed" =>
          \E k \in PathKinds : health(k) = "failed" /\ claim(k) = "available"
     /\ now.path_status = "ok" =>
          /\ \A k \in PathKinds : claim(k) \in {"available", "unavailable"}
          /\ \E k \in PathKinds : claim(k) = "available"
          /\ \A k \in PathKinds : health(k) \notin {"failed", "degraded"}
     /\ now.situation.kind = "Ready" => now.coverage = "complete"
     /\ now.coverage = "complete" =>
          \A c \in resting :
            now.progress[c] \in {"available", "unsupported", "not_collected"}
=============================================================================
