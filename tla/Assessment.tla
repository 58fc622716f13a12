----------------------------- MODULE Assessment -----------------------------
(***************************************************************************)
(* What a session concludes from its evidence (model.rs): the situation    *)
(* and status of the path, the coverage of the evidence and the progress   *)
(* of every claim, at any time and at the end of a bounded acquisition.    *)
(*                                                                         *)
(* Addresses, numbers, texts and ages are left out; what remains of a      *)
(* fact is whether it is there, and of a result how it ended.  Whether     *)
(* replies of the gateway vary too much (LatencyMetrics::health) is part   *)
(* of the evidence.                                                        *)
(***************************************************************************)
EXTENDS Integers, Sequences, FiniteSets

CONSTANTS
  MinSamples,  \* MIN_GATEWAY_ASSESSMENT_SAMPLES
  Window       \* GATEWAY_ASSESSMENT_WINDOW

ASSUME WindowAssumption ==
  /\ MinSamples \in Nat \ {0}
  /\ Window \in Nat
  /\ MinSamples <= Window

ProbeKinds == {"Gateway", "Dns", "Https", "PublicIp"}
PathKinds == {"Gateway", "Dns", "Https"}
Modes == {"overview", "link", "peers"}
ProbePolicies == {"passive", "active"}
Pending == {"queued", "running"}
Health == Pending \cup {"ok", "degraded", "failed", "unavailable"}

\* A LinkSnapshot: whether it has a default route, resolvers with addresses
\* and (for a vpn) an underlay, the medium observed, and radio telemetry.
LinkEvidence ==
  [route : BOOLEAN, whole : BOOLEAN, medium : {"none", "wired", "wifi"},
   radio : BOOLEAN]

NoLink == [route |-> FALSE, whole |-> FALSE, medium |-> "none", radio |-> FALSE]

\* What App holds of it all: `settled` is wifi_observation_settled, `dwelt`
\* the collectors of which the path's dwell has samples, `stale` the results
\* older than the freshness window, `varies` the verdict on RTT variation.
Evidence ==
  [policy : ProbePolicies, paused : BOOLEAN, generation : Nat,
   settling : BOOLEAN, link : LinkEvidence, settled : BOOLEAN,
   dwelt : SUBSET {"interface", "wifi"}, counters : BOOLEAN,
   rate : {"none", "clean", "loss"},
   peers : [health : Health, failed : BOOLEAN], workload : Health,
   probes : [ProbeKinds -> Health], stale : SUBSET (ProbeKinds \ {"Gateway"}),
   outcomes : Seq({"reply", "lost"}), varies : BOOLEAN]

\* ProbeView::queued, or ProbeView::disabled under a passive policy.
FreshProbes(policy) ==
  [k \in ProbeKinds |-> IF policy = "active" THEN "queued" ELSE "unavailable"]

NewEvidence(policy) ==
  [policy |-> policy, paused |-> FALSE, generation |-> 0, settling |-> FALSE,
   link |-> NoLink, settled |-> FALSE, dwelt |-> {}, counters |-> FALSE,
   rate |-> "none", peers |-> [health |-> "queued", failed |-> FALSE],
   workload |-> "queued", probes |-> FreshProbes(policy), stale |-> {},
   outcomes |-> <<>>, varies |-> FALSE]

Active(e) == e.policy = "active"
NeedsRadio(e) == e.link.medium = "wifi"

\* The next-hop attempts that are assessed (gateway_assessment_outcomes).
Assessed(e) ==
  SubSeq(e.outcomes,
         IF Len(e.outcomes) > Window THEN Len(e.outcomes) - Window + 1 ELSE 1,
         Len(e.outcomes))

Replies(e) == Cardinality({i \in DOMAIN Assessed(e) : Assessed(e)[i] = "reply"})
Losses(e) == Len(Assessed(e)) - Replies(e)

\* gateway_assessment_metrics, where its health is Degraded: with no reply at
\* all the metrics are unavailable.
GatewayDegraded(e) ==
  /\ Len(Assessed(e)) >= MinSamples
  /\ Replies(e) > 0
  /\ Losses(e) > 0 \/ e.varies

-----------------------------------------------------------------------------
\* evidence_coverage, of the overview.
OverviewCoverage(e) ==
  IF \/ e.settling
     \/ Active(e) /\ \E k \in ProbeKinds : e.probes[k] \in Pending
     \/ e.peers.health = "queued"
  THEN "collecting"
  ELSE IF /\ ~e.link.route /\ ~e.link.radio
          /\ e.peers.health = "unavailable"
          /\ Active(e) => \A k \in ProbeKinds : e.probes[k] = "unavailable"
  THEN "unavailable"
  ELSE IF \/ Active(e) /\ (\/ \E k \in ProbeKinds : e.probes[k] = "unavailable"
                           \/ e.stale # {})
          \/ e.peers.health \in {"degraded", "failed", "unavailable"}
          \/ e.peers.failed
          \/ ~e.link.route \/ ~e.link.whole \/ ~e.counters
          \/ NeedsRadio(e) /\ ~e.link.radio
  THEN "partial"
  ELSE "complete"

\* Fault: only the last probe of the path is asked its age.
StalePath_HttpsOnly(e) == "Https" \in e.stale

StalePath(e) == e.stale \cap {"Dns", "Https"} # {}

Verdict(health, kind) == [health |-> health, kind |-> kind]

\* The conditions of situation() in their order, each with what it concludes.
SituationRules(e) ==
  LET health(k) == e.probes[k]
      passive == ~Active(e)
  IN <<
    <<e.paused, Verdict("unavailable", "Paused")>>,
    <<e.settling, Verdict("running", "PathTransition")>>,
    <<Active(e) /\ health("Gateway") = "failed", Verdict("failed", "GatewayFailure")>>,
    <<e.rate = "loss", Verdict("degraded", "InterfaceLoss")>>,
    <<passive /\ e.generation = 0 /\ ~e.link.route, Verdict("running", "Collecting")>>,
    <<passive /\ ~e.link.route, Verdict("unavailable", "EvidenceGap")>>,
    <<passive, Verdict("unavailable", "PassiveObservation")>>,
    <<health("Gateway") \in Pending, Verdict("running", "Collecting")>>,
    <<StalePath(e), Verdict("unavailable", "StalePathEvidence")>>,
    <<health("Gateway") = "unavailable" /\ "failed" \in {health("Dns"), health("Https")},
      Verdict("failed", "UnlocalizedFailure")>>,
    <<health("Dns") = "failed", Verdict("failed", "DnsFailure")>>,
    <<health("Dns") \in Pending, Verdict("running", "Collecting")>>,
    <<health("Dns") = "unavailable" /\ health("Https") = "failed",
      Verdict("failed", "UnlocalizedFailure")>>,
    <<health("Https") = "failed", Verdict("failed", "HttpsFailure")>>,
    <<GatewayDegraded(e),
      Verdict("degraded", IF Losses(e) > 0 THEN "GatewayLoss" ELSE "GatewayVariation")>>,
    <<health("Dns") = "degraded", Verdict("degraded", "SlowDns")>>,
    <<health("Https") = "degraded", Verdict("degraded", "SlowHttps")>>,
    <<health("Https") \in Pending, Verdict("running", "Collecting")>>,
    <<\A k \in PathKinds : health(k) = "unavailable", Verdict("unavailable", "EvidenceGap")>>,
    <<OverviewCoverage(e) # "complete", Verdict("ok", "EvidenceGap")>>,
    <<TRUE, Verdict("ok", "Ready")>> >>

\* The first rule that applies.
Situation(e) ==
  LET rules == SituationRules(e)
      first == CHOOSE i \in DOMAIN rules :
                 rules[i][1] /\ \A j \in 1 .. i - 1 : ~rules[j][1]
  IN rules[first][2]

PathStatus(e, verdict) ==
  IF ~Active(e) THEN "untested"
  ELSE IF verdict.health \in {"ok", "degraded", "failed"} THEN verdict.health
  ELSE "unavailable"

-----------------------------------------------------------------------------
\* The collectors a mode reads (dwell_collector_scope).
Scope(mode) ==
  CASE mode = "overview" -> {"interface", "wifi", "workload", "peers"}
    [] mode = "link"     -> {"interface", "wifi"}
    [] mode = "peers"    -> {"peers"}

ClaimOf == [Gateway |-> "GatewayRtt", Dns |-> "DnsReachability",
            Https |-> "HttpsReachability", PublicIp |-> "PublicEgress"]

\* The progress of a collector that reports its own health.
CollectorClaim(health) ==
  IF health \in Pending THEN "collecting"
  ELSE IF health \in {"unavailable", "failed"} THEN "unavailable"
  ELSE "available"

RadioClaim(e) ==
  CASE e.link.medium = "none" -> "collecting"
    [] e.link.medium = "wired" -> "unsupported"
    [] NeedsRadio(e) -> IF e.link.radio THEN "available"
                        ELSE IF e.settled THEN "unavailable" ELSE "collecting"

ProbeClaim(e, kind) ==
  IF kind \in e.stale THEN "stale"
  ELSE IF e.probes[kind] \in Pending THEN "collecting"
  ELSE IF e.probes[kind] = "unavailable" THEN "unavailable"
  ELSE "available"

VariationClaim(e) ==
  IF Assessed(e) = <<>> THEN "collecting"
  ELSE IF Len(Assessed(e)) < MinSamples \/ Replies(e) < 2 THEN "insufficient"
  ELSE "available"

\* evidence_progress: the state of every claim.
Progress(e, mode) ==
  LET within(collector, state) ==
        IF collector \in Scope(mode) THEN state ELSE "not_collected"
      probed(state) == IF Active(e) THEN state ELSE "not_collected"
  IN [PathContext |-> IF e.settling \/ ~e.link.route THEN "collecting" ELSE "available",
      InterfaceTotals |-> within("interface",
                                 IF e.counters THEN "available" ELSE "collecting"),
      InterfaceRate |-> within("interface",
                               IF e.rate # "none" THEN "available"
                               ELSE IF e.counters THEN "insufficient"
                               ELSE "collecting"),
      RadioLink |-> within("wifi", RadioClaim(e)),
      NeighborCache |-> within("peers", CollectorClaim(e.peers.health)),
      WorkloadAttribution |-> within("workload", CollectorClaim(e.workload)),
      GatewayRtt |-> probed(ProbeClaim(e, "Gateway")),
      DnsReachability |-> probed(ProbeClaim(e, "Dns")),
      HttpsReachability |-> probed(ProbeClaim(e, "Https")),
      PublicEgress |-> probed(ProbeClaim(e, "PublicIp")),
      GatewayVariation |-> probed(VariationClaim(e))]

\* Claims of which something was observed, whatever their progress.
Observed(e, mode) ==
  (IF e.link.route THEN {"PathContext"} ELSE {})
    \cup (IF "interface" \in e.dwelt \cap Scope(mode) THEN {"InterfaceRate"} ELSE {})
    \cup (IF "wifi" \in e.dwelt \cap Scope(mode) THEN {"RadioLink"} ELSE {})
    \cup (IF Active(e) /\ Assessed(e) # <<>> THEN {"GatewayVariation"} ELSE {})

\* evidence_coverage_for.
CoverageFor(e, mode) ==
  LET progress == Progress(e, mode)
      states == {progress[c] : c \in DOMAIN progress} \ {"not_collected", "unsupported"}
  IN IF mode = "overview" THEN OverviewCoverage(e)
     ELSE IF "collecting" \in states THEN "collecting"
     ELSE IF states \subseteq {"unavailable", "stale"} THEN "unavailable"
     ELSE IF states # {"available"} THEN "partial"
     ELSE "complete"

Projection(e, mode) ==
  LET verdict == Situation(e)
  IN [generation |-> e.generation, situation |-> verdict,
      path_status |-> PathStatus(e, verdict), coverage |-> CoverageFor(e, mode),
      progress |-> Progress(e, mode)]

\* A claim still collecting when a bounded acquisition ends.
Closed(e, mode, state, claim) ==
  IF state # "collecting" THEN state
  ELSE IF claim \in Observed(e, mode) THEN "insufficient"
  ELSE "unavailable"

\* final_projection.
FinalProjection(e, mode) ==
  LET now == Projection(e, mode)
      progress == [c \in DOMAIN now.progress |->
                     Closed(e, mode, now.progress[c], c)]
      gap == now.situation.kind = "Collecting"
  IN [now EXCEPT
        !.progress = progress,
        !.coverage = IF @ # "collecting" THEN @
                     ELSE IF \E c \in DOMAIN progress : progress[c] = "available"
                     THEN "partial"
                     ELSE "unavailable",
        !.situation = IF gap THEN Verdict("unavailable", "EvidenceGap") ELSE @,
        !.path_status = IF gap THEN "unavailable" ELSE @]
=============================================================================
