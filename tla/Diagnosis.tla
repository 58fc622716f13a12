----------------------------- MODULE Diagnosis -----------------------------
(***************************************************************************)
(* What the overview tells the operator of the evidence (ui.rs,            *)
(* overview_diagnosis and the lines around it): status, summary, coverage  *)
(* line, next action, next-hop line and the coverage line of a narrow      *)
(* terminal.  Words are reduced to what they assert of the evidence.       *)
(***************************************************************************)
EXTENDS Absent, Assessment

\* The probe a summary is about.
Subject ==
  [GatewayFailure |-> "Gateway", DnsFailure |-> "Dns", HttpsFailure |-> "Https",
   SlowDns |-> "Dns", SlowHttps |-> "Https"]

\* overview_status_label.
StatusLabel(verdict) ==
  IF verdict.kind = "PassiveObservation" THEN "untested" ELSE verdict.health

\* The summary: which probes are said to have failed, to be slow, to have
\* responded, to be pending or stale, and whether the tested path responded, a
\* default route is observed, counters increased or the next hop lost echoes.
Summary(e, verdict) ==
  LET kind == verdict.kind
      about(kinds) == IF kind \in kinds THEN {Subject[kind]} ELSE {}
      when(k, said) == IF kind = k THEN said ELSE {}
  IN [failed |-> about({"GatewayFailure", "DnsFailure", "HttpsFailure"}),
      slow |-> about({"SlowDns", "SlowHttps"}),
      responded |-> when("Ready", PathKinds),
      pending |-> when("Collecting", {k \in PathKinds : e.probes[k] \in Pending}),
      stale |-> when("StalePathEvidence", {"Dns", "Https"}),
      path |-> kind = "EvidenceGap" /\ verdict.health # "unavailable",
      route |-> kind = "PassiveObservation",
      counters |-> kind = "InterfaceLoss",
      lost |-> IF kind = "GatewayLoss" THEN Losses(e) ELSE NONE,
      spread |-> IF kind = "GatewayVariation" THEN Replies(e) ELSE NONE]

\* Fault: the arm of an evidence gap has no guard on health.
Action_AnyGap(verdict) ==
  [passed |-> IF verdict.kind \in {"HttpsFailure", "SlowHttps"} THEN {"Gateway", "Dns"} ELSE {},
   missing |-> IF verdict.kind = "UnlocalizedFailure" THEN {"Gateway", "Dns"} ELSE {},
   usable |-> verdict.kind = "EvidenceGap",
   enable |-> verdict.kind = "PassiveObservation"]

\* The next action: what it takes for granted of the path.
Action(verdict) ==
  [passed |-> IF verdict.kind \in {"HttpsFailure", "SlowHttps"} THEN {"Gateway", "Dns"} ELSE {},
   missing |-> IF verdict.kind = "UnlocalizedFailure" THEN {"Gateway", "Dns"} ELSE {},
   usable |-> verdict.kind = "EvidenceGap" /\ verdict.health # "unavailable",
   enable |-> verdict.kind = "PassiveObservation"]

Widths == {"narrow", "medium", "wide"}

Settled(e) == Cardinality({k \in PathKinds : e.probes[k] \notin Pending})

\* The number of attempts, where they are said to be insufficient.
Insufficient(e) ==
  IF Active(e) /\ VariationClaim(e) = "insufficient" THEN Len(Assessed(e))
  ELSE NONE

PublicWord(e) ==
  CASE ~Active(e) -> "untested"
    [] Active(e) /\ e.probes["PublicIp"] \in Pending -> "pending"
    [] Active(e) /\ e.probes["PublicIp"] = "ok" -> "aged"
    [] OTHER -> "unavailable"

\* No source completed in a snapshot that is unavailable.
CacheWord(e) ==
  IF e.peers.health = "queued" THEN "pending"
  ELSE IF e.peers.failed \/ e.peers.health = "unavailable" THEN "partial"
  ELSE "listed"

RadioWord(e) ==
  IF e.link.radio THEN "observed"
  ELSE IF NeedsRadio(e) THEN "unavailable" ELSE "n/a"

\* The coverage line.
CoverageLine(e) ==
  IF Active(e)
  THEN [coverage |-> OverviewCoverage(e), cache |-> CacheWord(e), radio |-> RadioWord(e),
        core |-> Settled(e), public |-> PublicWord(e), variation |-> Insufficient(e)]
  ELSE [coverage |-> OverviewCoverage(e), cache |-> CacheWord(e), radio |-> RadioWord(e),
        route |-> IF e.link.route THEN "observed" ELSE "unavailable"]

\* interface_progress_summary: a rate, or how far it has come.
InterfaceLine(e, mode) ==
  IF e.rate # "none" THEN [rate |-> "available", errors |-> e.rate = "loss"]
  ELSE [totals |-> Progress(e, mode).InterfaceTotals,
        rate |-> Progress(e, mode).InterfaceRate]

\* compact_coverage_summary: which parts of the coverage a terminal has room for.
CompactCoverage(e, width) ==
  LET varied == Insufficient(e) # NONE
      rated == e.counters /\ e.rate = "none"
  IN CASE Active(e) /\ varied /\ width = "narrow" -> {"coverage", "core", "variation"}
       [] Active(e) /\ varied /\ width = "medium" -> {"core", "variation", "rate", "cache"}
       [] Active(e) /\ varied /\ width = "wide" ->
            {"coverage", "core", "variation", "rate", "cache"}
       [] Active(e) /\ ~varied -> {"coverage", "core", "rate", "cache"}
       [] ~Active(e) /\ rated /\ width = "narrow" -> {"rate", "cache"}
       [] OTHER -> {"coverage", "rate", "cache"}

\* gateway_summary_line: a distribution, the latest attempt, or neither.
NextHop(e) ==
  IF ~Active(e) THEN [says |-> "untested"]
  ELSE IF VariationClaim(e) = "available"
  THEN [says |-> "distribution", replies |-> Replies(e), attempts |-> Len(Assessed(e))]
  ELSE IF e.outcomes # <<>>
  THEN [says |-> "latest", replied |-> e.outcomes[Len(e.outcomes)] = "reply",
        attempts |-> Len(Assessed(e))]
  ELSE [says |-> "waiting", attempts |-> 0]

\* The title of the chart, which knows of losses without a distribution.
ChartTitle(e) ==
  IF NextHop(e).says = "latest" /\ Len(Assessed(e)) >= MinSamples
  THEN [says |-> "loss", lost |-> Losses(e), attempts |-> Len(Assessed(e))]
  ELSE NextHop(e)

-----------------------------------------------------------------------------
(***************************************************************************)
(* Properties.                                                             *)
(***************************************************************************)
\* Each sentence is chosen by the situation alone and asserts things the
\* situation does not carry; the evidence bears out every one of them.  A probe
\* that is said to have failed, been slow, passed or to be missing was; the path
\* is called usable only where nothing failed and something answered; a coverage
\* line that says complete has no gap in it, and one without room for the
\* coverage names a gap instead; the next-hop line has the replies its
\* percentiles need, and agrees with the chart.  One sentence is not borne out:
\* slow HTTPS is told with "gateway and DNS passed" where they were unavailable.
Backed(e) ==
  LET verdict == Situation(e)
      summary == Summary(e, verdict)
      action == Action(verdict)
      coverage == CoverageLine(e)
      hop == NextHop(e)
      With(healths) == {k \in PathKinds : e.probes[k] \in healths}
      answered == With({"ok", "degraded"}) \ e.stale
      excused == IF summary.slow = {"Https"} THEN With({"unavailable"}) ELSE {}
  IN /\ summary.failed \subseteq With({"failed"}) /\ summary.slow \subseteq With({"degraded"})
     /\ summary.responded \cup action.passed \subseteq answered \cup excused
     /\ action.missing # {} => action.missing \cap With({"unavailable"}) # {}
     /\ action.usable => summary.path /\ With({"failed"}) = {} /\ answered # {}
     /\ summary.path => action.usable
     /\ summary.stale # {} => summary.stale \cap e.stale # {}
     /\ verdict.kind = "Collecting" /\ Active(e) => summary.pending # {}
     /\ summary.counters => InterfaceLine(e, "overview") = [rate |-> "available", errors |-> TRUE]
     /\ summary.lost # NONE => summary.lost > 0 /\ Len(Assessed(e)) >= MinSamples
     /\ summary.spread # NONE => summary.spread > 0
     /\ StatusLabel(verdict) = "untested" \/ summary.route \/ action.enable =>
          ~Active(e) /\ e.link.route
     /\ coverage.coverage = "complete" =>
          /\ coverage.cache = "listed" /\ coverage.radio # "unavailable" /\ e.link.route
          /\ Active(e) => coverage.core = 3 /\ coverage.public = "aged"
     /\ coverage.coverage = "unavailable" =>
          coverage.radio # "observed" /\ coverage.cache = "partial"
     /\ \A width \in Widths :
          LET parts == CompactCoverage(e, width)
          IN \/ "coverage" \in parts \/ coverage.coverage = "complete"
             \/ "variation" \in parts
             \/ "rate" \in parts /\ e.counters /\ e.rate = "none"
     /\ hop.says = "distribution" => hop.replies >= 2 /\ hop.attempts >= MinSamples
     /\ hop.says = "waiting" => Assessed(e) = <<>>
     /\ ChartTitle(e).says = "loss" => ChartTitle(e).lost > 0 \/ MinSamples < 2
=============================================================================
