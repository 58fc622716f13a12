------------------------------- MODULE Panels -------------------------------
(***************************************************************************)
(* What the dashboard shows of the evidence (ui.rs): which lines a         *)
(* terminal of a given size has room for, and what each of them says.      *)
(* The lines are drawn by functions that each read the App on their own,   *)
(* so that nothing but their code makes them agree.                        *)
(***************************************************************************)
EXTENDS Diagnosis

\* Terminals at the thresholds of the layouts.  (What fits into 22 rows is
\* decided by the layout library, so the first full layout here has 23.)
Screens ==
  {[cols |-> 59, rows |-> 30], [cols |-> 60, rows |-> 10], [cols |-> 75, rows |-> 30],
   [cols |-> 76, rows |-> 23], [cols |-> 120, rows |-> 25], [cols |-> 120, rows |-> 28],
   [cols |-> 120, rows |-> 30]}

TooSmall(screen) == screen.cols < 60 \/ screen.rows < 10
Compact(screen) == screen.cols < 76 \/ screen.rows < 22

\* The width classes of compact_coverage_summary.
WidthOf(screen) ==
  IF screen.cols < 76 THEN "narrow" ELSE IF screen.cols < 120 THEN "medium" ELSE "wide"

\* The lines that fit into `room` rows.
Fitting(lines, room) == {lines[i] : i \in DOMAIN lines \cap 1 .. room}

ProbeRows == <<"Gateway", "Dns", "Https", "PublicIp">>

-----------------------------------------------------------------------------
(***************************************************************************)
(* Lines.                                                                  *)
(***************************************************************************)
\* The status in the header of a view.
HeaderStatus(e, mode) ==
  CASE mode = "overview" /\ ~Active(e) -> "passive"
    [] mode = "overview" /\ Active(e) -> Situation(e).health
    [] mode = "link" -> IF e.link.route THEN "observed" ELSE "discovering"
    [] mode = "peers" -> e.peers.health

\* A row of a probe: its health, and its age or that it is pending.
ProbeRow(e, kind) ==
  [health |-> e.probes[kind],
   age |-> IF e.probes[kind] \in Pending THEN "pending" ELSE "aged"]

\* workload_summary, of the latest sample.
WorkloadLine(e) ==
  CASE e.workload \in Pending -> "sampling"
    [] e.workload = "ok" -> "sampled"
    [] OTHER -> "unavailable"

\* The sources of the neighbour cache: none completed before the first reading,
\* and none in one that is unavailable.
SourceWord(e) == IF e.peers.health \in {"queued", "unavailable"} THEN "pending" ELSE "listed"

\* The scope panel's word for how complete that is.
CacheCompleteness(e) == IF e.peers.failed THEN "partial" ELSE e.peers.health

\* compact_telemetry_line, and the same of the panel of the path.
TelemetryLine(e) ==
  [radio |-> IF e.link.radio THEN "observed" ELSE "not observed",
   traffic |-> IF e.rate # "none" THEN "rate" ELSE "sampling"]

\* The same of the link view, with the totals of the counters.
LinkTelemetry(e) ==
  [radio |-> TelemetryLine(e).radio, traffic |-> TelemetryLine(e).traffic,
   totals |-> IF e.counters THEN "counted" ELSE "unavailable"]

DwellLabels ==
  [totals |-> "InterfaceTotals", rate |-> "InterfaceRate", radio |-> "RadioLink",
   workload |-> "WorkloadAttribution", cache |-> "NeighborCache"]

\* dwell_progress_summary: under each state the claims that are in it.
DwellProgress(e) ==
  LET progress == Progress(e, "overview")
      states == <<"available", "insufficient", "collecting", "stale", "unavailable",
                  "unsupported", "not_collected">>
      labels == [i \in DOMAIN states |->
                   {l \in DOMAIN DwellLabels : progress[DwellLabels[l]] = states[i]}]
  IN {[state |-> states[i], labels |-> labels[i]] : i \in {j \in DOMAIN states : labels[j] # {}}}

\* compact_diagnosis_summary below 90 columns, where it says something else.
CompactSummary(e, verdict) ==
  [route |-> verdict.kind = "PassiveObservation",
   passed |-> verdict.kind = "Ready",
   works |-> verdict.kind = "EvidenceGap" /\ verdict.health = "ok"]

\* compact_diagnosis_action: a narrow passive terminal is offered the probes.
CompactAction(e, verdict, screen) ==
  IF screen.cols < 76 /\ ~Active(e)
  THEN [passed |-> {}, missing |-> {}, usable |-> FALSE, enable |-> TRUE]
  ELSE Action(verdict)

-----------------------------------------------------------------------------
(***************************************************************************)
(* Layouts.                                                                *)
(***************************************************************************)
\* What a layout depends on besides the size: whether probes run, whether a
\* change is salient, a past path remembered, a completed window kept.
Looks ==
  [screen : Screens, active : BOOLEAN, salient : BOOLEAN, remembered : BOOLEAN,
   kept : BOOLEAN]

\* render_overview_compact: what is salient comes before the details.
CompactLines(look) ==
  LET room == look.screen.rows - 6
  IN Fitting(<<"status", "path", "coverage", "action">>
               \o (IF look.salient /\ 4 < room THEN <<"context">> ELSE <<>>)
               \o (IF look.active THEN <<"hop">> ELSE <<"workload">>)
               \o <<"configuration">>
               \o (IF look.active THEN ProbeRows ELSE <<>>)
               \o <<"telemetry">>, room)

\* Fault: what is remembered comes first, and is not asked whether it fits.
LedgerLines_MemoryFirst(look) ==
  LET lines == (IF look.active THEN <<"hop">> \o ProbeRows \o <<"workload">>
                ELSE <<"policy", "interface", "workload", "resolvers", "sources">>)
                 \o <<"scope">>
  IN Fitting(IF look.remembered THEN <<"anchor", "place">> \o lines ELSE lines,
             look.screen.rows - 17)

\* render_overview_evidence.
LedgerLines(look) ==
  LET room == look.screen.rows - 17
      lines == (IF look.active THEN <<"hop">> \o ProbeRows \o <<"workload">>
                ELSE <<"policy", "interface", "workload", "resolvers", "sources">>)
                 \o <<"scope">>
  IN Fitting(IF look.remembered /\ room >= Len(lines) + 2
             THEN lines \o <<"anchor", "place">> ELSE lines, room)

\* render_scope: a remembered path displaces the rest where there is no room.
ScopeLines(look) ==
  LET room == look.screen.rows - 23
      memory == IF look.remembered THEN <<"history", "place", "anchor">> ELSE <<>>
  IN Fitting(IF look.remembered /\ room < 6 THEN memory
             ELSE <<"local", "completeness", "probes">>
                    \o (IF room >= 9 THEN <<"sources", "fence">> ELSE <<>>) \o memory, room)

\* render_diagnosis, render_path and render_probes, which are drawn whole.
DiagnosisLines == {"status", "context", "coverage", "action"}
PathLines == {"path", "configuration", "telemetry"}
ProbePanel(active) == IF active THEN ProbeKinds ELSE {"policy"}

\* render and render_overview; on a wide terminal the path names the process.
Overview(look) ==
  LET rows == look.screen.rows
      wide == look.screen.cols >= 120 /\ rows >= 25
      top == {"header"} \cup DiagnosisLines \cup PathLines
  IN CASE TooSmall(look.screen) -> {"policy", "paused", "generation"}
       [] ~TooSmall(look.screen) /\ Compact(look.screen) -> {"header"} \cup CompactLines(look)
       [] ~Compact(look.screen) /\ (~wide \/ ~look.active) ->
            top \cup LedgerLines(look) \cup IF wide /\ rows >= 28 THEN {"windows"} ELSE {}
       [] ~Compact(look.screen) /\ wide /\ look.active ->
            top \cup {"hop", "workload"} \cup ProbePanel(look.active)
                \cup IF rows >= (IF look.kept THEN 30 ELSE 28) THEN {"windows"}
                      ELSE ScopeLines(look)

\* The sets of lines that a terminal may show of a session.
OverviewLines ==
  {[screen |-> look.screen, active |-> look.active, salient |-> look.salient,
    lines |-> Overview(look)] : look \in {l \in Looks : ~TooSmall(l.screen)}}

-----------------------------------------------------------------------------
(***************************************************************************)
(* Properties.                                                             *)
(***************************************************************************)
\* What the lines say of one thing agrees, whoever reads it from the App: a
\* header that says OK stands over no row that failed or is pending; a complete
\* coverage over no line that misses something; the claims of the dwell are each
\* listed once, where the line of the same collector puts them; a view that says
\* "pending" of a cache that was read is belied by the scope panel.  A link
\* header keeps "observed" while the route settles, and the sources of a cache
\* whose reading failed stay "pending".
LinesAgree(e) ==
  LET verdict == Situation(e)
      rows == [k \in ProbeKinds |-> ProbeRow(e, k)]
      header == HeaderStatus(e, "overview")
      dwell == DwellProgress(e)
      Under(label) == {under.state : under \in {u \in dwell : label \in u.labels}}
      compact == CompactSummary(e, verdict)
      coverage == OverviewCoverage(e)
      progress == Progress(e, "overview")
  IN /\ header \in {"passive", StatusLabel(verdict)}
     /\ header = "ok" =>
          \A k \in PathKinds : rows[k].health # "failed" /\ rows[k].age = "aged"
     /\ Active(e) => \A k \in ProbeKinds :
          rows[k].age = "pending" <=> progress[ClaimOf[k]] = "collecting"
     /\ HeaderStatus(e, "peers") = "ok" => CacheCompleteness(e) = "ok"
     /\ HeaderStatus(e, "link") = "discovering" => progress.PathContext = "collecting"
     /\ HeaderStatus(e, "link") = "observed" => progress.PathContext = "available" \/ e.settling
     /\ SourceWord(e) = "pending" => CacheCompleteness(e) \in {"queued", "partial", "unavailable"}
     /\ coverage = "complete" =>
          /\ Active(e) => \A k \in ProbeKinds : rows[k].age = "aged"
          /\ SourceWord(e) = "listed" /\ CacheCompleteness(e) = "ok"
          /\ LinkTelemetry(e).totals = "counted"
          /\ NeedsRadio(e) => TelemetryLine(e).radio = "observed"
     /\ CoverageFor(e, "link") = "complete" =>
          /\ LinkTelemetry(e).totals = "counted" /\ TelemetryLine(e).traffic = "rate"
          /\ NeedsRadio(e) => TelemetryLine(e).radio = "observed"
     /\ \A label \in DOMAIN DwellLabels : Cardinality(Under(label)) = 1
     /\ "available" \in Under("rate") <=> TelemetryLine(e).traffic = "rate"
     /\ "available" \in Under("radio") <=> TelemetryLine(e).radio = "observed" /\ NeedsRadio(e)
     /\ "available" \in Under("cache") <=> SourceWord(e) = "listed"
     /\ "collecting" \in Under("workload") <=> WorkloadLine(e) = "sampling"
     /\ "available" \in Under("workload") <=> WorkloadLine(e) = "sampled"
     /\ compact.passed => coverage = "complete"
     /\ compact.works => coverage # "complete" /\ \A k \in PathKinds : rows[k].health # "failed"

\* Whatever the size of the terminal, a session is not told better than it is:
\* above the minimum the status and the coverage are on the screen; from 76x23
\* up, and on a tall narrow one, every probe has its row; where it has none, a
\* status that is not OK stands for one that failed.  A neighbour cache that is
\* not whole is told by a line of its own or by the coverage.
ScreensTell(e) ==
  LET verdict == Situation(e)
      coverage == CoverageLine(e)
      compact == [width \in Widths |-> CompactCoverage(e, width)]
  IN \A shown \in OverviewLines :
       LET screen == shown.screen
           lines == shown.lines
           parts == IF screen.cols < 120 THEN compact[WidthOf(screen)]
                    ELSE DOMAIN coverage
       IN (shown.active <=> Active(e)) /\ (e.settling => shown.salient) =>
            /\ {"header", "status", "path", "coverage", "action"} \subseteq lines
            /\ e.settling /\ screen.rows > 10 => "context" \in lines
            /\ Active(e) /\ screen.rows > 10 => ProbeKinds \cup {"hop"} \subseteq lines
            /\ ~Active(e) => ProbeKinds \cap lines = {}
            /\ (\E k \in PathKinds \ lines : Active(e) /\ e.probes[k] = "failed") =>
                 verdict.health # "ok"
            /\ CacheCompleteness(e) \notin {"ok", "queued"} =>
                 \/ {"completeness", "scope"} \cap lines # {}
                 \/ "coverage" \in parts /\ coverage.coverage # "complete"
                 \/ "cache" \in parts
            /\ CompactAction(e, verdict, screen).enable => ~Active(e)
=============================================================================
