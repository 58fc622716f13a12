------------------------------ MODULE OneShot ------------------------------
(***************************************************************************)
(* The reports that are taken once.  `linktop probe` and `linktop          *)
(* readiness` are a bounded active diagnosis (net.rs, collect_snapshot):   *)
(* four probes answer on threads of their own until a deadline, the report *)
(* is put together from what arrived (model.rs, SnapshotReport), printed   *)
(* or turned into a document (output.rs), and its verdict becomes the exit *)
(* status (main.rs).  `snapshot` collects the same without the probes      *)
(* (collect_passive_snapshot), `link` and `peers` a part of it.            *)
(***************************************************************************)
EXTENDS Assessment

CONSTANTS
  ShotLinks,     \* links the host may have
  ShotResults,   \* per probe kind, how a probe may end
  ShotPeers,     \* neighbour-cache snapshots
  ShotDeadline   \* turns of the clock until the deadline

ASSUME ShotAssumption ==
  /\ ShotLinks \subseteq {l \in LinkEvidence : l.route => l.medium # "none"}
  /\ ShotResults \in [ProbeKinds -> SUBSET (Health \ Pending)]
  /\ ShotResults["PublicIp"] \subseteq {"ok", "unavailable"}
  /\ ShotPeers \subseteq [health : Health \ Pending, failed : BOOLEAN]
  /\ ShotDeadline \in Nat \ {0}

VARIABLES
  shot,    \* phase, clock and what has been collected
  probing, \* per probe kind: "none", "running", how it ended, or "dead"
  inbox    \* the channel: probe kinds whose result was sent
shotVars == <<shot, probing, inbox>>

Subjects == {"snapshot", "link", "peers", "diagnosis"}

\* What a subject reads beside the link.
Reads(subject) ==
  CASE subject = "link" -> {"radio", "counters"}
    [] subject = "peers" -> {"neighbors"}
    [] OTHER -> {"radio", "counters", "neighbors"}

Policy(report) == IF report.subject = "diagnosis" THEN "active" ELSE "passive"

ShotInit ==
  /\ shot = [phase |-> "off", subject |-> "snapshot", now |-> 0, link |-> NoLink,
             counters |-> FALSE, filtered |-> FALSE,
             peers |-> [health |-> "queued", failed |-> FALSE],
             results |-> [k \in ProbeKinds |-> "none"], answered |-> {}]
  /\ probing = [k \in ProbeKinds |-> "none"]
  /\ inbox = <<>>

StartShot ==
  /\ shot.phase = "off"
  /\ \E link \in ShotLinks, subject \in Subjects :
       LET active == subject = "diagnosis"
       IN /\ shot' = [shot EXCEPT !.phase = IF active THEN "probing" ELSE "joining",
                                  !.subject = subject, !.link = link]
          /\ probing' = IF active THEN [k \in ProbeKinds |-> "running"] ELSE probing
  /\ inbox' = inbox

\* run_probe returns; without a gateway the gateway probe has nothing to do.
\* Once results are no longer taken, nothing can tell whether it does.
ProbeAnswers(kind) ==
  /\ probing[kind] = "running" /\ shot.phase = "probing"
  /\ \E health \in IF kind = "Gateway" /\ ~shot.link.route
                   THEN {"unavailable"} ELSE ShotResults[kind] :
       probing' = [probing EXCEPT ![kind] = health]
  /\ inbox' = Append(inbox, kind)
  /\ UNCHANGED shot

\* The thread of a probe panics: it sends nothing.
ProbeDies(kind) ==
  /\ probing[kind] = "running" /\ shot.phase = "probing"
  /\ probing' = [probing EXCEPT ![kind] = "dead"]
  /\ UNCHANGED <<shot, inbox>>

ShotClock ==
  /\ shot.phase = "probing" /\ shot.now < ShotDeadline
  /\ shot' = [shot EXCEPT !.now = @ + 1]
  /\ UNCHANGED <<probing, inbox>>

\* recv_timeout, while time remains.
TakeResult ==
  /\ shot.phase = "probing" /\ shot.now < ShotDeadline /\ inbox # <<>>
  /\ LET kind == Head(inbox)
     IN shot' = [shot EXCEPT !.results[kind] = probing[kind],
                             !.answered = @ \cup {kind}]
  /\ inbox' = Tail(inbox)
  /\ UNCHANGED probing

\* Fault: a probe that is missing says nothing about the path.
Missing_Unavailable(kind) == "unavailable"

\* What stands in for a result that did not arrive (affects_path_health).
Missing(kind) == IF kind \in PathKinds THEN "failed" ELSE "unavailable"

\* All four have answered, time is up, or no sender is left.
StopTaking ==
  /\ shot.phase = "probing"
  /\ \/ shot.answered = ProbeKinds
     \/ shot.now = ShotDeadline
     \/ inbox = <<>> /\ \A k \in ProbeKinds : probing[k] # "running"
  /\ shot' = [shot EXCEPT
                !.phase = "joining",
                !.results = [k \in ProbeKinds |->
                               IF k \in shot.answered THEN @[k] ELSE Missing(k)]]
  /\ UNCHANGED <<probing, inbox>>

\* collect_wifi and collect_interface_counters: what may come of them.
RadioReading(link) == {FALSE, link.medium = "wifi"}
CountersReading(link) == {FALSE, link.route}

\* The Wi-Fi and neighbour threads are joined, however long they take, and the
\* counters read: a thread that panicked counts as an unavailable reading.  An
\* interface that lost its addresses meanwhile leaves the rows unfiltered.  What is
\* left in the channel is dropped with it.
Report ==
  /\ shot.phase = "joining"
  /\ LET Reading(part, results) == IF part \in Reads(shot.subject) THEN results ELSE {FALSE}
     IN \E radio \in Reading("radio", RadioReading(shot.link)),
           counters \in Reading("counters", CountersReading(shot.link)),
           filtered \in Reading("neighbors", {FALSE, shot.link.route}),
           peers \in IF "neighbors" \in Reads(shot.subject) THEN ShotPeers ELSE {shot.peers} :
          shot' = [shot EXCEPT !.phase = "reported", !.link.radio = radio,
                               !.counters = counters, !.filtered = filtered,
                               !.peers = peers]
  /\ inbox' = <<>>
  /\ UNCHANGED probing

ShotNext ==
  \/ StartShot \/ ShotClock \/ TakeResult \/ StopTaking \/ Report
  \/ \E kind \in ProbeKinds : ProbeAnswers(kind) \/ ProbeDies(kind)

-----------------------------------------------------------------------------
(***************************************************************************)
(* What the report says.                                                   *)
(***************************************************************************)
\* SnapshotReport::from_results.
SnapshotStatus(results) ==
  LET path == {results[k] : k \in PathKinds}
  IN CASE "failed" \in path -> "failed"
       [] "failed" \notin path /\ "degraded" \in path -> "degraded"
       [] path = {"unavailable"} -> "unavailable"
       [] OTHER -> "ok"

LinkIncomplete(report) == ~report.link.route \/ ~report.link.whole \/ ~report.counters
RadioMissing(report) == report.link.medium = "wifi" /\ ~report.link.radio

SnapshotCoverage(report) ==
  LET probes == {report.results[k] : k \in ProbeKinds}
      radioless == report.link.medium # "wifi" \/ RadioMissing(report)
  IN IF probes = {"unavailable"} /\ report.peers.health = "unavailable" /\ radioless
     THEN "unavailable"
     ELSE IF \/ "unavailable" \in probes
             \/ report.peers.health \in {"degraded", "failed", "unavailable"}
             \/ report.peers.failed
             \/ RadioMissing(report) \/ LinkIncomplete(report)
     THEN "partial"
     ELSE "complete"

\* passive_link_coverage and passive_peer_coverage.
PassiveLinkCoverage(report) ==
  IF ~report.link.route /\ ~report.link.radio THEN "unavailable"
  ELSE IF LinkIncomplete(report) \/ RadioMissing(report) THEN "partial"
  ELSE "complete"

PassivePeerCoverage(report) ==
  IF report.peers.health = "unavailable" THEN "unavailable"
  ELSE IF \/ report.peers.health \in {"degraded", "failed"}
          \/ report.peers.failed \/ ~report.filtered
  THEN "partial"
  ELSE "complete"

\* SnapshotReport::from_passive.
PassiveCoverage(report) ==
  LET parts == {PassiveLinkCoverage(report), PassivePeerCoverage(report)}
  IN IF parts = {"unavailable"} THEN "unavailable"
     ELSE IF parts # {"complete"} THEN "partial" ELSE "complete"

\* readiness_document_with_workload, of interactive use.
InteractiveUse(report) ==
  LET path == {report.results[k] : k \in PathKinds}
  IN IF path \cap {"failed", "degraded"} # {} THEN "degraded"
     ELSE IF ~report.link.route \/ ~report.link.whole \/ path # {"ok"}
     THEN "insufficient"
     ELSE "ready"

Status(report) ==
  IF report.subject = "diagnosis" THEN SnapshotStatus(report.results) ELSE "untested"

\* SnapshotSummary of each report; passive_link_summary, passive_peer_summary.
Coverage(report) ==
  CASE report.subject = "diagnosis" -> SnapshotCoverage(report)
    [] report.subject = "snapshot" -> PassiveCoverage(report)
    [] report.subject = "link" -> PassiveLinkCoverage(report)
    [] report.subject = "peers" -> PassivePeerCoverage(report)

ExitStatus(report) ==
  CASE report.subject = "diagnosis" /\ Status(report) = "failed" -> 1
    [] report.subject = "diagnosis" /\ Status(report) = "unavailable" -> 2
    [] report.subject = "peers" /\ report.peers.health = "unavailable" -> 2
    [] OTHER -> 0

\* The evidence a document holds (HostPathEvidence, LinkEvidence, PeerEvidence).
Holds(report) ==
  LET read == Reads(report.subject)
  IN (IF report.link.route THEN {"path"} ELSE {})
       \cup (IF report.link.radio THEN {"radio"} ELSE {})
       \cup (IF report.counters THEN {"counters"} ELSE {})
       \cup (IF "neighbors" \in read /\ report.peers.health # "unavailable"
            THEN {"neighbors"} ELSE {})
       \cup {k \in ProbeKinds : report.results[k] \notin {"none", "unavailable"}}

\* ObservationDocument.
Document(report) ==
  [policy |-> Policy(report), status |-> Status(report), coverage |-> Coverage(report),
   evidence |-> Holds(report)]

\* What the printed reports say of it.
SnapshotText(report) ==
  [status |-> "untested", coverage |-> PassiveCoverage(report),
   shows |-> Holds(report) \cap {"path", "radio", "neighbors", "counters"}]

ProbeText(report) ==
  [status |-> SnapshotStatus(report.results), coverage |-> SnapshotCoverage(report),
   shows |-> Holds(report) \cap ({"path", "neighbors"} \cup ProbeKinds)]

LinkText(report) ==
  [status |-> "untested", coverage |-> PassiveLinkCoverage(report),
   shows |-> Holds(report) \cap {"path", "radio", "counters"}]

PeersText(report) ==
  [status |-> "untested", coverage |-> PassivePeerCoverage(report),
   shows |-> Holds(report) \cap {"path", "neighbors"}]

Text(report) ==
  CASE report.subject = "diagnosis" -> ProbeText(report)
    [] report.subject = "snapshot" -> SnapshotText(report)
    [] report.subject = "link" -> LinkText(report)
    [] report.subject = "peers" -> PeersText(report)

-----------------------------------------------------------------------------
\* A live session that holds the evidence of the report, with an assessed
\* window of replies that varies where the report's gateway probe is degraded,
\* and a second reading of the counters.
AsLive(report) ==
  [NewEvidence(Policy(report)) EXCEPT
     !.generation = 1, !.link = report.link, !.settled = TRUE,
     !.counters = report.counters, !.rate = IF report.counters THEN "clean" ELSE "none",
     !.peers = report.peers,
     !.probes = IF report.subject = "diagnosis" THEN report.results ELSE @,
     !.outcomes = [i \in 1 .. MinSamples |-> "reply"],
     !.varies = report.results["Gateway"] = "degraded"]

\* What the live view of the same subject concludes of it in the end.
LiveMode(report) == IF report.subject \in {"link", "peers"} THEN report.subject ELSE "overview"
LiveCoverage(report) == FinalProjection(AsLive(report), LiveMode(report)).coverage

\* One set of facts, one verdict: what the reports conclude, by code of their
\* own, is what a live session concludes from the same evidence, except that a
\* live session counts a default route as evidence where an active report and
\* `peers` call their coverage unavailable, does not ask whether the neighbours
\* could be filtered, as `snapshot` and `peers` do, nor whether a source of theirs
\* failed or their bindings conflict, as `peers` does, nor whether the link is
\* whole, as `link` does.  Document, text and exit status
\* of a report say one thing, complete is told only of evidence the document
\* holds, and success only of a path all of whose probes answered in time.
VerdictsAgree ==
  shot.phase = "reported" =>
    LET coverage == Coverage(shot)
        live == AsLive(shot)
        document == Document(shot)
        text == Text(shot)
        strict == CASE shot.subject = "snapshot" -> ~shot.filtered
                    [] shot.subject = "peers" ->
                            ~shot.filtered \/ shot.peers.failed \/ shot.peers.health = "degraded"
                    [] shot.subject = "link" -> ~shot.link.whole
                    [] OTHER -> FALSE
    IN /\ IF shot.subject \in {"diagnosis", "peers"} /\ coverage = "unavailable" /\ shot.link.route
          THEN LiveCoverage(shot) = "partial"
          ELSE coverage = LiveCoverage(shot) \/ (strict /\ coverage = "partial")
       /\ text.status = document.status /\ text.coverage = document.coverage
       /\ text.shows = document.evidence
            \ (IF shot.subject = "diagnosis" THEN {"radio", "counters"} ELSE {})
       /\ coverage = "complete" =>
            (Reads(shot.subject) \ (IF NeedsRadio(live) THEN {} ELSE {"radio"}))
              \cup (IF Active(live) THEN ProbeKinds ELSE {}) \subseteq document.evidence
       /\ ExitStatus(shot) = 2 <=>
            \/ shot.subject = "diagnosis" /\ document.status = "unavailable"
            \/ shot.subject = "peers" /\ coverage = "unavailable"
       /\ shot.subject = "diagnosis" =>
            /\ document.status = PathStatus(live, Situation(live))
            /\ InteractiveUse(shot) = "degraded" <=> document.status \in {"failed", "degraded"}
            /\ InteractiveUse(shot) = "ready" =>
                 Situation(live).kind \in {"Ready", "EvidenceGap"}
            /\ ExitStatus(shot) = 0 =>
                 /\ PathKinds \subseteq shot.answered
                 /\ \A k \in PathKinds : probing[k] \in {"ok", "degraded", "unavailable"}
=============================================================================
