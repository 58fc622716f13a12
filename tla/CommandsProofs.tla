---------------------------- MODULE CommandsProofs ----------------------------
(***************************************************************************)
(* What a command reports at its end is what it said while it ran, what it *)
(* concludes from its evidence agrees with it and with every other way of  *)
(* concluding it, and what a command line asks for is what runs: for every *)
(* host and every order of updates, checkpoints and ageing results.        *)
(***************************************************************************)
EXTENDS Commands, ArtifactProofs, MeasurementProofs, WindowsProofs, FiniteSetTheorems,
        SequenceTheorems, WellFoundedInduction, TLAPS

Claims == {"PathContext", "InterfaceTotals", "InterfaceRate", "RadioLink", "NeighborCache",
           "WorkloadAttribution", "GatewayRtt", "DnsReachability", "HttpsReachability",
           "PublicEgress", "GatewayVariation"}

-----------------------------------------------------------------------------
(***************************************************************************)
(* Evidence and what is concluded from it.                                 *)
(***************************************************************************)
\* Evidence of an App, whatever it measured.
Held(e) ==
  e = [policy |-> e.policy, paused |-> e.paused, generation |-> e.generation,
       settling |-> e.settling, link |-> e.link, settled |-> e.settled,
       dwelt |-> e.dwelt, counters |-> e.counters, rate |-> e.rate, peers |-> e.peers,
       workload |-> e.workload, probes |-> e.probes, stale |-> e.stale,
       outcomes |-> e.outcomes, varies |-> e.varies]

LEMMA ProgressOfClaims ==
  ASSUME NEW e, NEW mode
  PROVE  DOMAIN Progress(e, mode) = Claims
BY DEF Progress, Claims

\* What ages loses its claim; nothing else changes.
LEMMA AgeingOnlyStales ==
  ASSUME NEW e, Held(e), NEW mode, NEW kind,
         NEW c \in Claims
  PROVE  LET aged == [e EXCEPT !.stale = @ \cup {kind}]
         IN /\ Held(aged)
            /\ aged.generation = e.generation
            /\ \/ Progress(aged, mode)[c] = "stale"
               \/ Progress(aged, mode)[c] = Progress(e, mode)[c]
<1> DEFINE aged == [e EXCEPT !.stale = @ \cup {kind}]
<1>1. /\ Held(aged)
      /\ aged.policy = e.policy /\ aged.generation = e.generation
      /\ aged.settling = e.settling /\ aged.link = e.link /\ aged.settled = e.settled
      /\ aged.counters = e.counters /\ aged.rate = e.rate /\ aged.peers = e.peers
      /\ aged.workload = e.workload /\ aged.probes = e.probes
      /\ aged.stale = e.stale \cup {kind} /\ aged.outcomes = e.outcomes
  BY DEF Held
<1> HIDE DEF aged
<1>2. Active(aged) = Active(e)
  BY <1>1 DEF Active
<1>3. RadioClaim(aged) = RadioClaim(e)
  BY <1>1 DEF RadioClaim, NeedsRadio
<1>4. VariationClaim(aged) = VariationClaim(e)
  <2>1. Assessed(aged) = Assessed(e)
    BY <1>1 DEF Assessed
  <2>2. Replies(aged) = Replies(e)
    BY <2>1 DEF Replies
  <2> QED BY <2>1, <2>2 DEF VariationClaim
<1>5. \A k : ProbeClaim(aged, k) = "stale" \/ ProbeClaim(aged, k) = ProbeClaim(e, k)
  BY <1>1 DEF ProbeClaim
<1>6. \/ Progress(aged, mode)[c] = "stale"
      \/ Progress(aged, mode)[c] = Progress(e, mode)[c]
  BY <1>1, <1>2, <1>3, <1>4, <1>5 DEF Progress, Claims
<1> QED BY <1>1, <1>6 DEF aged

\* A bounded run closes what is open and says the rest as it was.
LEMMA FinalIsClosed ==
  ASSUME NEW e, NEW mode
  PROVE  LET end == FinalProjection(e, mode)
         IN /\ end.generation = e.generation
            /\ end.coverage # "collecting" /\ end.situation.kind # "Collecting"
            /\ DOMAIN end.progress = Claims
            /\ \A c \in Claims :
                 IF Progress(e, mode)[c] = "collecting"
                 THEN end.progress[c] \in {"insufficient", "unavailable"}
                 ELSE end.progress[c] = Progress(e, mode)[c]
<1> DEFINE now == Projection(e, mode)
           progress == [c \in DOMAIN now.progress |-> Closed(e, mode, now.progress[c], c)]
           gap == now.situation.kind = "Collecting"
           coverage == IF now.coverage # "collecting" THEN now.coverage
                       ELSE IF \E c \in DOMAIN progress : progress[c] = "available"
                       THEN "partial" ELSE "unavailable"
           situation == IF gap THEN Verdict("unavailable", "EvidenceGap") ELSE now.situation
           status == IF gap THEN "unavailable" ELSE now.path_status
<1>1. /\ now = [generation |-> now.generation, situation |-> now.situation,
                path_status |-> now.path_status, coverage |-> now.coverage,
                progress |-> now.progress]
      /\ now.generation = e.generation /\ now.progress = Progress(e, mode)
  BY DEF Projection
<1>2. FinalProjection(e, mode) =
        [now EXCEPT !.progress = progress, !.coverage = coverage,
                    !.situation = situation, !.path_status = status]
  BY Zenon DEF FinalProjection
<1>3. /\ coverage # "collecting" /\ situation.kind # "Collecting"
  BY DEF Verdict
<1>4. /\ DOMAIN progress = Claims
      /\ \A c \in Claims :
           IF Progress(e, mode)[c] = "collecting"
           THEN progress[c] \in {"insufficient", "unavailable"}
           ELSE progress[c] = Progress(e, mode)[c]
  BY <1>1, ProgressOfClaims DEF Closed
<1> HIDE DEF now, progress, gap, coverage, situation, status
<1>5. FinalProjection(e, mode) =
        [generation |-> now.generation, situation |-> situation, path_status |-> status,
         coverage |-> coverage, progress |-> progress]
  BY <1>1, <1>2
<1> QED BY <1>1, <1>3, <1>4, <1>5

\* Evidence is sensible and stays so, whatever arrives.
Kept(e) == e \in Evidence /\ Sensible(e)

LEMMA KeptIsHeld ==
  ASSUME NEW e, Kept(e)
  PROVE  Held(e)
BY DEF Kept, Evidence, Held

LEMMA NewIsKept ==
  ASSUME NEW policy \in ProbePolicies
  PROVE  Kept(NewEvidence(policy))
<1>1. FreshProbes(policy) \in [ProbeKinds -> Health]
  BY DEF FreshProbes, Health, Pending
<1>2. NewEvidence(policy) \in Evidence
  BY <1>1 DEF NewEvidence, Evidence, LinkEvidence, NoLink, Health, Pending
<1>3. Sensible(NewEvidence(policy))
  BY DEF NewEvidence, Sensible, NoLink, FreshProbes, ProbeKinds, CacheReading
<1> QED BY <1>2, <1>3 DEF Kept

LEMMA OpenedIsKept ==
  ASSUME NEW e, Kept(e), NEW link \in StreamLinks
  PROVE  Kept(OpenedPath(e, link))
<1>1. FreshProbes(e.policy) \in [ProbeKinds -> Health]
  BY DEF FreshProbes, Health, Pending
<1>2. /\ FreshProbes(e.policy)["Gateway"] # "degraded"
      /\ FreshProbes(e.policy)["PublicIp"] \notin {"degraded", "failed"}
  BY DEF FreshProbes, ProbeKinds
<1>3. OpenedPath(e, link) =
        [policy |-> e.policy, paused |-> FALSE, generation |-> e.generation + 1,
         settling |-> FALSE, link |-> link, settled |-> FALSE, dwelt |-> {},
         counters |-> FALSE, rate |-> "none",
         peers |-> [health |-> "queued", failed |-> FALSE], workload |-> "queued",
         probes |-> FreshProbes(e.policy), stale |-> {}, outcomes |-> <<>>,
         varies |-> FALSE]
  <2> DEFINE new == NewEvidence(e.policy)
             next == e.generation + 1
  <2>1. new = [policy |-> e.policy, paused |-> FALSE, generation |-> 0,
               settling |-> FALSE, link |-> NoLink, settled |-> FALSE, dwelt |-> {},
               counters |-> FALSE, rate |-> "none",
               peers |-> [health |-> "queued", failed |-> FALSE], workload |-> "queued",
               probes |-> FreshProbes(e.policy), stale |-> {}, outcomes |-> <<>>,
               varies |-> FALSE]
    BY DEF NewEvidence
  <2>2. OpenedPath(e, link) = [new EXCEPT !.generation = next, !.link = link]
    BY Zenon DEF OpenedPath
  <2> HIDE DEF new
  <2> QED BY <2>1, <2>2
<1>4. /\ e.policy \in ProbePolicies /\ e.generation \in Nat
      /\ link \in LinkEvidence /\ (link.route => link.medium # "none")
  BY StreamAssumption DEF Kept, Evidence
<1> HIDE DEF OpenedPath
<1> QED BY <1>1, <1>2, <1>3, <1>4 DEF Kept, Evidence, Sensible, Health, Pending

LEMMA ProbeIsKept ==
  ASSUME NEW e, Kept(e), NEW kind \in ProbeKinds
  PROVE  /\ Kept(ProbeBegun(e, kind))
         /\ \A health \in ProbeResults[kind], varies \in BOOLEAN :
              Kept(ProbeEnded(e, kind, health, varies))
<1>1. Kept(ProbeBegun(e, kind))
  <2> DEFINE begun == [e.probes EXCEPT ![kind] = IF @ = "queued" THEN "running" ELSE @]
  <2>1. ProbeBegun(e, kind) = [e EXCEPT !.probes = begun]
    BY DEF ProbeBegun, Kept, Evidence
  <2>2. /\ begun \in [ProbeKinds -> Health] /\ begun["Gateway"] # "degraded"
        /\ begun["PublicIp"] \notin {"degraded", "failed"}
        /\ \A k \in e.stale : begun[k] \notin Pending
    BY DEF Kept, Evidence, Sensible, Health, Pending, ProbeKinds
  <2> HIDE DEF begun
  <2> QED BY <2>1, <2>2 DEF Kept, Evidence, Sensible
<1>2. ASSUME NEW health \in ProbeResults[kind], NEW varies \in BOOLEAN
      PROVE  Kept(ProbeEnded(e, kind, health, varies))
  <2> DEFINE ended == [e.probes EXCEPT ![kind] = health]
             outcomes == IF kind = "Gateway" /\ health # "unavailable"
                         THEN Append(e.outcomes, IF health = "failed" THEN "lost" ELSE "reply")
                         ELSE e.outcomes
             stale == e.stale \ {kind}
  <2>1. /\ health \in Health /\ (kind = "Gateway" => health # "degraded")
        /\ kind = "PublicIp" => health \notin {"degraded", "failed"}
        /\ health \notin Pending
    BY StreamAssumption
  <2>2. /\ ended \in [ProbeKinds -> Health] /\ ended["Gateway"] # "degraded"
        /\ ended["PublicIp"] \notin {"degraded", "failed"}
        /\ \A k \in stale : ended[k] \notin Pending
    BY <2>1 DEF Kept, Evidence, Sensible, ProbeKinds
  <2>3. outcomes \in Seq({"reply", "lost"})
    BY DEF Kept, Evidence
  <2>4. stale \in SUBSET (ProbeKinds \ {"Gateway"})
    BY DEF Kept, Evidence
  <2>5. ProbeEnded(e, kind, health, varies) =
          [e EXCEPT !.probes = ended, !.stale = stale, !.outcomes = outcomes,
                    !.varies = varies]
    BY Zenon DEF ProbeEnded
  <2> HIDE DEF ended, stale, outcomes
  <2>6. Held(e)
    BY KeptIsHeld
  <2>7. ProbeEnded(e, kind, health, varies) =
          [policy |-> e.policy, paused |-> e.paused, generation |-> e.generation,
           settling |-> e.settling, link |-> e.link, settled |-> e.settled,
           dwelt |-> e.dwelt, counters |-> e.counters, rate |-> e.rate,
           peers |-> e.peers, workload |-> e.workload, probes |-> ended,
           stale |-> stale, outcomes |-> outcomes, varies |-> varies]
    BY <2>5, <2>6 DEF Held
  <2> QED BY <2>2, <2>3, <2>4, <2>7 DEF Kept, Evidence, Sensible
<1> QED BY <1>1, <1>2

LEMMA ReadIsKept ==
  ASSUME NEW e, Kept(e)
  PROVE  /\ \A whole \in BOOLEAN : Kept(RefreshedLink(e, whole))
         /\ \A radio \in BOOLEAN : Kept(WifiRead(e, radio))
         /\ \A reading \in {"none", "clean", "loss", "reset"} : Kept(TrafficRead(e, reading))
         /\ Kept([e EXCEPT !.settling = TRUE])
         /\ \A reading \in PeerReadings : Kept([e EXCEPT !.peers = reading])
         /\ \A health \in WorkloadHealths : Kept([e EXCEPT !.workload = health])
<1>1. ASSUME NEW whole \in BOOLEAN PROVE Kept(RefreshedLink(e, whole))
  <2> DEFINE link == [e.link EXCEPT !.whole = whole]
  <2>1. RefreshedLink(e, whole) = [e EXCEPT !.link = link, !.settling = FALSE]
    BY DEF RefreshedLink, Kept, Evidence
  <2>2. link \in LinkEvidence /\ (link.route => link.medium # "none")
    BY DEF Kept, Evidence, Sensible, LinkEvidence
  <2> HIDE DEF link
  <2> QED BY ZenonT(40), <2>1, <2>2 DEF Kept, Evidence, Sensible
<1>2. ASSUME NEW radio \in BOOLEAN PROVE Kept(WifiRead(e, radio))
  <2> DEFINE link == [e.link EXCEPT !.radio = radio]
             dwelt == IF radio THEN e.dwelt \cup {"wifi"} ELSE e.dwelt
  <2>1. WifiRead(e, radio) = [e EXCEPT !.settled = TRUE, !.link = link, !.dwelt = dwelt]
    BY DEF WifiRead, Kept, Evidence
  <2>2. link \in LinkEvidence /\ (link.route => link.medium # "none")
    BY DEF Kept, Evidence, Sensible, LinkEvidence
  <2>3. dwelt \in SUBSET {"interface", "wifi"}
    BY DEF Kept, Evidence
  <2> HIDE DEF link, dwelt
  <2>4. WifiRead(e, radio) =
          [policy |-> e.policy, paused |-> e.paused, generation |-> e.generation,
           settling |-> e.settling, link |-> link, settled |-> TRUE,
           dwelt |-> dwelt, counters |-> e.counters, rate |-> e.rate,
           peers |-> e.peers, workload |-> e.workload, probes |-> e.probes,
           stale |-> e.stale, outcomes |-> e.outcomes, varies |-> e.varies]
    <3>1. Held(e)
      BY KeptIsHeld
    <3> QED BY <2>1, <3>1 DEF Held
  <2> QED BY <2>2, <2>3, <2>4 DEF Kept, Evidence, Sensible
<1>3. ASSUME NEW reading \in {"none", "clean", "loss", "reset"}
      PROVE  Kept(TrafficRead(e, reading))
  <2> DEFINE rate == IF e.counters /\ reading \in {"clean", "loss"} THEN reading ELSE "none"
             dwelt == IF reading # "none" THEN e.dwelt \cup {"interface"} ELSE e.dwelt
             counted == reading # "none"
  <2>1. TrafficRead(e, reading) =
          [e EXCEPT !.counters = counted, !.rate = rate, !.dwelt = dwelt]
    BY Zenon DEF TrafficRead
  <2>2. rate \in {"none", "clean", "loss"} /\ dwelt \in SUBSET {"interface", "wifi"}
        /\ counted \in BOOLEAN
    BY DEF Kept, Evidence
  <2> HIDE DEF rate, dwelt, counted
  <2> QED BY ZenonT(40), <2>1, <2>2 DEF Kept, Evidence, Sensible
<1>4. Kept([e EXCEPT !.settling = TRUE])
  BY DEF Kept, Evidence, Sensible
<1>5. ASSUME NEW reading \in PeerReadings PROVE Kept([e EXCEPT !.peers = reading])
  <2>1. reading \in CacheReading /\ reading \in [health : Health, failed : BOOLEAN]
    BY StreamAssumption DEF CacheReading, Health
  <2> QED BY <2>1 DEF Kept, Evidence, Sensible
<1>6. ASSUME NEW health \in WorkloadHealths PROVE Kept([e EXCEPT !.workload = health])
  BY StreamAssumption DEF Kept, Evidence, Sensible, Health
<1> QED BY <1>1, <1>2, <1>3, <1>4, <1>5, <1>6

LEMMA UpdatesAreKept ==
  ASSUME NEW e, Kept(e), NEW mode, NEW f \in Updates(e, mode)
  PROVE  Kept(f)
<1>1. CASE f \in PathUpdates(e)
  <2>1. \/ \E whole \in BOOLEAN : f = RefreshedLink(e, whole)
        \/ \E link \in StreamLinks : f = OpenedPath(e, link)
        \/ f = [e EXCEPT !.settling = TRUE]
    BY <1>1 DEF PathUpdates
  <2> QED
    BY <2>1, ReadIsKept, OpenedIsKept
<1>2. CASE f \in CollectorUpdates(e, mode)
  <2>1. NeedsRadio(e) \in BOOLEAN
    BY DEF NeedsRadio
  <2>2. \/ \E radio \in BOOLEAN : f = WifiRead(e, radio)
        \/ \E reading \in PeerReadings : f = [e EXCEPT !.peers = reading]
        \/ \E reading \in {"none", "clean", "loss", "reset"} : f = TrafficRead(e, reading)
        \/ \E health \in WorkloadHealths : f = [e EXCEPT !.workload = health]
    BY <1>2, <2>1 DEF CollectorUpdates
  <2> QED
    BY <2>2, ReadIsKept
<1>3. CASE f \in ProbeUpdates(e)
  <2>1. e.varies \in BOOLEAN
    BY DEF Kept, Evidence
  <2>2. \E kind \in ProbeKinds :
          \/ f = ProbeBegun(e, kind)
          \/ \E health \in ProbeResults[kind], varies \in BOOLEAN :
               f = ProbeEnded(e, kind, health, varies)
    BY <1>3, <2>1 DEF ProbeUpdates
  <2> QED
    BY <2>2, ProbeIsKept
<1> QED
  BY <1>1, <1>2, <1>3 DEF Updates

-----------------------------------------------------------------------------
(***************************************************************************)
(* The situation: the first rule that applies (Assessment).                *)
(***************************************************************************)
LEMMA FirstOfRules ==
  ASSUME NEW rules, DOMAIN rules = 1 .. 21, rules[21][1]
  PROVE  LET first == CHOOSE k \in DOMAIN rules :
                        rules[k][1] /\ \A j \in 1 .. k - 1 : ~rules[j][1]
         IN /\ first \in 1 .. 21 /\ rules[first][1]
            /\ \A j \in 1 .. first - 1 : ~rules[j][1]
<1> DEFINE applies == {k \in 1 .. 21 : rules[k][1]}
<1>1. PICK k \in applies : \A j \in applies : ~ (j < k)
  <2>1. applies \subseteq Nat /\ applies # {}
    OBVIOUS
  <2> HIDE DEF applies
  <2> QED
    BY <2>1, LeastPlace
<1>2. k \in DOMAIN rules /\ rules[k][1] /\ \A j \in 1 .. k - 1 : ~rules[j][1]
  BY <1>1
<1> QED
  BY <1>2

LEMMA FirstRule ==
  ASSUME NEW e
  PROVE  LET rules == SituationRules(e)
         IN \E i \in 1 .. 21 :
              /\ rules[i][1] /\ \A j \in 1 .. i - 1 : ~rules[j][1]
              /\ Situation(e) = rules[i][2]
<1> DEFINE rules == SituationRules(e)
           first == CHOOSE k \in DOMAIN rules :
                      rules[k][1] /\ \A j \in 1 .. k - 1 : ~rules[j][1]
<1>1. DOMAIN rules = 1 .. 21 /\ rules[21][1]
  BY DEF SituationRules
<1>2. Situation(e) = rules[first][2]
  BY Zenon DEF Situation
<1> HIDE DEF rules
<1>3. first \in 1 .. 21 /\ rules[first][1] /\ \A j \in 1 .. first - 1 : ~rules[j][1]
  BY <1>1, FirstOfRules
<1> HIDE DEF first
<1> QED
  BY <1>2, <1>3 DEF rules

\* What a rule that concludes failure, or none before the last two, has seen.
LEMMA FailureSeen ==
  ASSUME NEW e, Situation(e).health = "failed"
  PROVE  \/ Active(e) /\ e.probes["Gateway"] = "failed"
         \/ /\ Active(e) /\ ~StalePath(e)
            /\ e.probes["Dns"] = "failed" \/ e.probes["Https"] = "failed"
<1> DEFINE rules == SituationRules(e)
<1>1. PICK i \in 1 .. 21 :
        /\ rules[i][1] /\ \A j \in 1 .. i - 1 : ~rules[j][1]
        /\ Situation(e) = rules[i][2]
  BY FirstRule
<1>2. i \in {3, 10, 11, 13, 14}
  BY <1>1 DEF SituationRules, Verdict
<1> HIDE DEF rules
<1>3. CASE i = 3
  <2>1. rules[3][1]
    BY <1>1, <1>3
  <2> QED
    BY <2>1 DEF rules, SituationRules
<1>4. CASE i \in {10, 11, 13, 14}
  <2>1. ~rules[7][1] /\ ~rules[9][1]
    BY <1>1, <1>4
  <2>2. Active(e) /\ ~StalePath(e)
    BY <2>1 DEF rules, SituationRules
  <2>3. rules[10][1] \/ rules[11][1] \/ rules[13][1] \/ rules[14][1]
    BY <1>1, <1>4
  <2>4. e.probes["Dns"] = "failed" \/ e.probes["Https"] = "failed"
    BY <2>3 DEF rules, SituationRules
  <2> QED
    BY <2>2, <2>4
<1> QED
  BY <1>2, <1>3, <1>4

LEMMA SuccessSeen ==
  ASSUME NEW e, Situation(e).health = "ok"
  PROVE  /\ Active(e) /\ ~StalePath(e)
         /\ \A k \in PathKinds : e.probes[k] \notin Pending /\ e.probes[k] # "failed"
         /\ e.probes["Dns"] # "degraded" /\ e.probes["Https"] # "degraded"
         /\ \E k \in PathKinds : e.probes[k] # "unavailable"
         /\ Situation(e).kind = "Ready" <=> OverviewCoverage(e) = "complete"
<1> DEFINE rules == SituationRules(e)
<1>1. PICK i \in 1 .. 21 :
        /\ rules[i][1] /\ \A j \in 1 .. i - 1 : ~rules[j][1]
        /\ Situation(e) = rules[i][2]
  BY FirstRule
<1>2. i \in {20, 21}
  BY <1>1 DEF SituationRules, Verdict
<1> HIDE DEF rules
<1>3. /\ ~rules[3][1] /\ ~rules[7][1] /\ ~rules[8][1] /\ ~rules[9][1] /\ ~rules[11][1]
      /\ ~rules[12][1] /\ ~rules[14][1] /\ ~rules[16][1] /\ ~rules[17][1]
      /\ ~rules[18][1] /\ ~rules[19][1]
  BY <1>1, <1>2
<1>4. /\ Active(e) /\ ~StalePath(e)
      /\ e.probes["Gateway"] # "failed" /\ e.probes["Gateway"] \notin Pending
      /\ e.probes["Dns"] # "failed" /\ e.probes["Dns"] \notin Pending
      /\ e.probes["Https"] # "failed" /\ e.probes["Https"] \notin Pending
      /\ e.probes["Dns"] # "degraded" /\ e.probes["Https"] # "degraded"
      /\ ~\A k \in PathKinds : e.probes[k] = "unavailable"
  BY <1>3 DEF rules, SituationRules
<1>5. Situation(e).kind = "Ready" <=> OverviewCoverage(e) = "complete"
  <2>1. CASE i = 20
    <3>1. rules[20][1] /\ Situation(e) = rules[20][2]
      BY <1>1, <2>1
    <3>2. OverviewCoverage(e) # "complete"
      BY <3>1 DEF rules, SituationRules
    <3>3. Situation(e).kind = "EvidenceGap"
      BY <3>1 DEF rules, SituationRules, Verdict
    <3> QED
      BY <3>2, <3>3
  <2>2. CASE i = 21
    <3>1. ~rules[20][1] /\ Situation(e) = rules[21][2]
      BY <1>1, <2>2
    <3>2. OverviewCoverage(e) = "complete"
      BY <3>1 DEF rules, SituationRules
    <3>3. Situation(e).kind = "Ready"
      BY <3>1 DEF rules, SituationRules, Verdict
    <3> QED
      BY <3>2, <3>3
  <2> QED
    BY <1>2, <2>1, <2>2
<1> QED
  BY <1>4, <1>5 DEF PathKinds

LEMMA ReadySucceeds ==
  ASSUME NEW e, Situation(e).kind = "Ready"
  PROVE  Situation(e).health = "ok"
BY FirstRule DEF SituationRules, Verdict

LEMMA ConclusionsSupported ==
  ASSUME Kept(evidence)
  PROVE  VerdictsSupported
<1> DEFINE e == evidence
           now == Projection(e, "overview")
<1>1. /\ now.progress = Progress(e, "overview") /\ now.situation = Situation(e)
      /\ now.path_status = PathStatus(e, Situation(e))
      /\ now.coverage = OverviewCoverage(e)
  BY DEF Projection, CoverageFor
<1>2. \A k \in PathKinds :
        Active(e) /\ k \notin e.stale /\ e.probes[k] \notin Pending =>
          now.progress[ClaimOf[k]] =
            IF e.probes[k] = "unavailable" THEN "unavailable" ELSE "available"
  BY <1>1 DEF PathKinds, ClaimOf, Progress, ProbeClaim
<1>3. "Gateway" \notin e.stale /\ e.probes["Gateway"] # "degraded"
  BY DEF Kept, Evidence, Sensible
<1>4. ~StalePath(e) => \A k \in PathKinds : k \notin e.stale
  BY <1>3 DEF StalePath, PathKinds
<1>5. ASSUME now.path_status = "failed"
      PROVE  \E k \in PathKinds :
               e.probes[k] = "failed" /\ now.progress[ClaimOf[k]] = "available"
  <2>1. Active(e) /\ Situation(e).health = "failed"
    BY <1>1, <1>5 DEF PathStatus
  <2> QED
    BY <1>2, <1>3, <1>4, <2>1, FailureSeen DEF PathKinds, Pending
<1>6. ASSUME now.path_status = "ok"
      PROVE  /\ \A k \in PathKinds : now.progress[ClaimOf[k]] \in {"available", "unavailable"}
             /\ \E k \in PathKinds : now.progress[ClaimOf[k]] = "available"
             /\ \A k \in PathKinds : e.probes[k] \notin {"failed", "degraded"}
  <2>1. Situation(e).health = "ok"
    BY <1>1, <1>6 DEF PathStatus
  <2> QED
    BY <1>2, <1>3, <1>4, <2>1, SuccessSeen DEF PathKinds
<1>7. now.situation.kind = "Ready" => now.coverage = "complete"
  BY <1>1, SuccessSeen, ReadySucceeds
<1>8. ASSUME now.coverage = "complete",
             NEW c \in {"PathContext", "InterfaceTotals", "RadioLink", "NeighborCache",
                        "GatewayRtt", "DnsReachability", "HttpsReachability",
                        "PublicEgress"}
      PROVE  now.progress[c] \in {"available", "unsupported", "not_collected"}
  <2>1. /\ ~e.settling /\ e.link.route /\ e.link.whole /\ e.counters
        /\ NeedsRadio(e) => e.link.radio
        /\ e.peers.health \notin {"queued", "degraded", "failed", "unavailable"}
        /\ Active(e) =>
             /\ e.stale = {}
             /\ \A k \in ProbeKinds : e.probes[k] \notin Pending /\ e.probes[k] # "unavailable"
    BY <1>1, <1>8 DEF OverviewCoverage
  <2>2. /\ e.peers.health \notin Pending
        /\ e.link.medium \in {"wired", "wifi"}
    BY <2>1 DEF Kept, Evidence, Sensible, CacheReading, LinkEvidence, Pending
  <2>3. RadioClaim(e) \in {"available", "unsupported"}
    BY <2>1, <2>2 DEF RadioClaim, NeedsRadio
  <2>4. CollectorClaim(e.peers.health) = "available"
    BY <2>1, <2>2 DEF CollectorClaim
  <2>5. Active(e) => \A k \in ProbeKinds : ProbeClaim(e, k) = "available"
    BY <2>1 DEF ProbeClaim
  <2> QED
    BY <1>1, <1>8, <2>1, <2>3, <2>4, <2>5 DEF Progress, Scope, ProbeKinds
<1> QED
  BY <1>5, <1>6, <1>7, <1>8 DEF VerdictsSupported

-----------------------------------------------------------------------------
(***************************************************************************)
(* The machine stream (LiveStream).                                        *)
(***************************************************************************)
LEMMA ProjectionSays ==
  ASSUME NEW e, NEW mode
  PROVE  /\ Projection(e, mode).generation = e.generation
         /\ Projection(e, mode).progress = Progress(e, mode)
         /\ Material(e, mode).projection = Projection(e, mode)
BY DEF Projection, Material

\* The last line says what was told last, and that is what is so, save what
\* aged since.
LineIsCurrent ==
  /\ line.sequence = stream.sequence
  /\ line.projection = stream.told.projection
  /\ stream.told.projection.generation = evidence.generation
  /\ \A c \in Claims :
       \/ Progress(evidence, stream.mode)[c] = "stale"
       \/ Progress(evidence, stream.mode)[c] = stream.told.projection.progress[c]

StreamTells ==
  /\ stream = [phase |-> stream.phase, mode |-> stream.mode, bounded |-> stream.bounded,
               sequence |-> stream.sequence, told |-> stream.told, due |-> stream.due,
               updates |-> stream.updates]
  /\ stream.phase = "off" => line = NONE
  /\ stream.phase # "over" => summary = NONE
  /\ stream.phase = "running" /\ line # NONE => LineIsCurrent
  /\ FinalCloses

LEMMA StreamStarts ==
  ASSUME StreamInit
  PROVE  StreamTells /\ Kept(evidence)
<1>1. CASE StreamIdle
  BY <1>1, NewIsKept DEF StreamIdle, NoStream, StreamTells, FinalCloses, ProbePolicies
<1>2. CASE ~StreamIdle
  <2>1. /\ summary = NONE /\ evidence \in Underway
        /\ stream = [NoStream EXCEPT !.phase = "running", !.bounded = TRUE,
                                     !.sequence = 1, !.due = FALSE, !.updates = 1,
                                     !.told = Material(evidence, "overview")]
        /\ line = [kind |-> "checkpoint", sequence |-> 1,
                   projection |-> Projection(evidence, "overview")]
    BY <1>2 DEF StreamInit
  <2>2. Kept(evidence)
    BY <2>1, StreamAssumption DEF Kept
  <2>3. stream = [phase |-> "running", mode |-> "overview", bounded |-> TRUE,
                  sequence |-> 1, told |-> Material(evidence, "overview"),
                  due |-> FALSE, updates |-> 1]
    BY <2>1 DEF NoStream
  <2>4. LineIsCurrent
    <3>1. /\ stream.mode = "overview" /\ stream.sequence = 1
          /\ stream.told = Material(evidence, "overview")
      BY <2>3
    <3>2. /\ line.sequence = 1 /\ line.projection = Projection(evidence, "overview")
      BY <2>1
    <3> QED
      BY <3>1, <3>2, ProjectionSays DEF LineIsCurrent
  <2> QED
    BY <2>1, <2>2, <2>3, <2>4 DEF StreamTells, FinalCloses
<1> QED
  BY <1>1, <1>2

LEMMA ReceiveTells ==
  ASSUME StreamTells, Kept(evidence), Receive
  PROVE  StreamTells' /\ Kept(evidence)'
<1>1. PICK e \in Updates(evidence, stream.mode) : evidence' = e /\ Observe(e)
  BY DEF Receive
<1> DEFINE material == Material(e, stream.mode)
           news == NewsOf(material)
           told == stream'.told
<1>2. Kept(e)
  BY UpdatesAreKept
<1>3. /\ stream' = [stream EXCEPT
                     !.told = material,
                     !.updates = @ + 1,
                     !.sequence = IF news THEN @ + 1 ELSE @,
                     !.due = IF news THEN FALSE ELSE @]
      /\ ~news => line' = line
      /\ news => line'.sequence = stream.sequence + 1
                 /\ line'.projection = material.projection
  BY <1>1 DEF Observe
<1>4. ~news => stream.told = material
  BY DEF NewsOf
<1>5. /\ material.projection.generation = e.generation
      /\ material.projection.progress = Progress(e, stream.mode)
  BY ProjectionSays
<1> HIDE DEF material, news
<1>6. stream' = [phase |-> stream.phase, mode |-> stream.mode, bounded |-> stream.bounded,
                 sequence |-> IF news THEN stream.sequence + 1 ELSE stream.sequence,
                 told |-> material, due |-> IF news THEN FALSE ELSE stream.due,
                 updates |-> stream.updates + 1]
  BY <1>3 DEF StreamTells
<1>7. /\ stream.phase = "running" /\ summary' = NONE
  BY DEF Receive, StreamTells
<1>8. line' # NONE => LineIsCurrent'
  <2>1. CASE news
    BY <1>1, <1>3, <1>5, <1>6, <2>1 DEF LineIsCurrent
  <2>2. CASE ~news
    BY <1>1, <1>3, <1>4, <1>5, <1>6, <1>7, <2>2 DEF LineIsCurrent, StreamTells
  <2> QED
    BY <2>1, <2>2
<1> QED
  BY <1>1, <1>2, <1>6, <1>7, <1>8 DEF StreamTells, FinalCloses

LEMMA AgesTells ==
  ASSUME StreamTells, Kept(evidence), EvidenceAges
  PROVE  StreamTells' /\ Kept(evidence)'
<1>1. PICK kind \in ProbeKinds \ ({"Gateway"} \cup evidence.stale) :
        /\ evidence' = [evidence EXCEPT !.stale = @ \cup {kind}]
        /\ evidence.probes[kind] \notin Pending
  BY DEF EvidenceAges
<1>2. UNCHANGED <<stream, line, summary>> /\ stream.phase = "running"
  BY DEF EvidenceAges
<1>3. Kept(evidence')
  BY <1>1 DEF Kept, Evidence, Sensible
<1>4. /\ evidence'.generation = evidence.generation
      /\ \A c \in Claims :
           \/ Progress(evidence', stream.mode)[c] = "stale"
           \/ Progress(evidence', stream.mode)[c] = Progress(evidence, stream.mode)[c]
  BY <1>1, AgeingOnlyStales, KeptIsHeld, ProgressOfClaims DEF Claims
<1>5. line # NONE => LineIsCurrent'
  BY <1>2, <1>4 DEF StreamTells, LineIsCurrent
<1> QED
  BY <1>2, <1>3, <1>5 DEF StreamTells, FinalCloses

LEMMA EndTells ==
  ASSUME StreamTells, Kept(evidence), EndStream
  PROVE  StreamTells' /\ Kept(evidence)'
<1>1. /\ stream' = [stream EXCEPT !.phase = "over",
                                  !.sequence = IF stream.bounded THEN @ + 1 ELSE @]
      /\ UNCHANGED <<evidence, line>>
      /\ stream.phase = "running"
      /\ summary' # NONE =>
           /\ summary'.sequence = stream.sequence + 1
           /\ summary'.projection = FinalProjection(evidence, stream.mode)
  BY DEF EndStream
<1>2. stream' = [phase |-> "over", mode |-> stream.mode, bounded |-> stream.bounded,
                 sequence |-> IF stream.bounded THEN stream.sequence + 1 ELSE stream.sequence,
                 told |-> stream.told, due |-> stream.due, updates |-> stream.updates]
  BY <1>1 DEF StreamTells
<1>3. ASSUME summary' # NONE, line # NONE
      PROVE  LET last == line.projection
                 end == summary'.projection
             IN /\ summary'.sequence = line.sequence + 1
                /\ end.generation = last.generation
                /\ end.coverage # "collecting" /\ end.situation.kind # "Collecting"
                /\ \A c \in DOMAIN end.progress :
                     \/ end.progress[c] = "stale"
                     \/ IF last.progress[c] = "collecting"
                        THEN end.progress[c] \in {"insufficient", "unavailable"}
                        ELSE end.progress[c] = last.progress[c]
  <2>1. LineIsCurrent
    BY <1>1, <1>3 DEF StreamTells
  <2>2. \A c \in Claims :
          IF Progress(evidence, stream.mode)[c] = "collecting"
          THEN summary'.projection.progress[c] \in {"insufficient", "unavailable"}
          ELSE summary'.projection.progress[c] = Progress(evidence, stream.mode)[c]
    BY <1>1, <1>3, FinalIsClosed
  <2>3. /\ summary'.projection.generation = evidence.generation
        /\ summary'.projection.coverage # "collecting"
        /\ summary'.projection.situation.kind # "Collecting"
        /\ DOMAIN summary'.projection.progress = Claims
    BY <1>1, <1>3, FinalIsClosed
  <2> QED
    BY <1>1, <1>3, <2>1, <2>2, <2>3 DEF LineIsCurrent
<1>4. FinalCloses'
  BY <1>1, <1>3 DEF FinalCloses
<1> QED
  BY <1>1, <1>2, <1>4 DEF StreamTells

LEMMA StreamStep ==
  ASSUME StreamTells, Kept(evidence), StreamNext
  PROVE  StreamTells' /\ Kept(evidence)'
<1>1. CASE StartStream
  <2>1. PICK policy \in ProbePolicies, mode \in Modes, bounded \in BOOLEAN :
          /\ evidence' = NewEvidence(policy)
          /\ stream' = [stream EXCEPT !.phase = "running", !.mode = mode,
                                      !.bounded = bounded]
    BY <1>1 DEF StartStream
  <2>2. stream' = [phase |-> "running", mode |-> mode, bounded |-> bounded,
                   sequence |-> stream.sequence, told |-> stream.told,
                   due |-> stream.due, updates |-> stream.updates]
    BY <2>1 DEF StreamTells
  <2>3. line' = NONE /\ summary' = NONE
    BY <1>1 DEF StartStream, StreamTells
  <2> QED
    BY <2>1, <2>2, <2>3, NewIsKept DEF StreamTells, FinalCloses
<1>2. CASE CheckpointDue
  <2>1. /\ stream' = [stream EXCEPT !.due = TRUE]
        /\ UNCHANGED <<evidence, line, summary>> /\ stream.phase = "running"
    BY <1>2 DEF CheckpointDue
  <2>2. stream' = [phase |-> stream.phase, mode |-> stream.mode, bounded |-> stream.bounded,
                   sequence |-> stream.sequence, told |-> stream.told,
                   due |-> TRUE, updates |-> stream.updates]
    BY <2>1 DEF StreamTells
  <2>3. line # NONE => LineIsCurrent'
    BY <2>1, <2>2 DEF StreamTells, LineIsCurrent
  <2> QED
    BY <2>1, <2>2, <2>3 DEF StreamTells, FinalCloses
<1>3. CASE PrintFails
  <2>1. /\ stream' = [stream EXCEPT !.phase = "failed", !.sequence = @ + 1]
        /\ UNCHANGED <<evidence, line, summary>> /\ stream.phase = "running"
    BY <1>3 DEF PrintFails
  <2>2. stream' = [phase |-> "failed", mode |-> stream.mode, bounded |-> stream.bounded,
                   sequence |-> stream.sequence + 1, told |-> stream.told,
                   due |-> stream.due, updates |-> stream.updates]
    BY <2>1 DEF StreamTells
  <2> QED
    BY <2>1, <2>2 DEF StreamTells, FinalCloses
<1> QED
  BY <1>1, <1>2, <1>3, ReceiveTells, AgesTells, EndTells DEF StreamNext

-----------------------------------------------------------------------------
(***************************************************************************)
(* The plain stream (PlainStream).                                         *)
(***************************************************************************)
PlainShows ==
  /\ said = [situation |-> said.situation, coverage |-> said.coverage,
             progress |-> said.progress, aged |-> said.aged]
  /\ said.aged \in BOOLEAN
  /\ DOMAIN said.progress = Claims
  /\ plain = [phase |-> plain.phase, mode |-> plain.mode, bounded |-> plain.bounded,
              updates |-> plain.updates]
  /\ plain.phase # "over" => summary = NONE
  /\ PlainTells

LEMMA PlainStateSays ==
  ASSUME NEW e, NEW mode
  PROVE  /\ PlainState(e, mode).progress = Progress(e, mode)
         /\ DOMAIN PlainState(e, mode).progress = Claims
BY ProgressOfClaims DEF PlainState

\* What is said first.
SaidShows(e, mode) ==
  LET first == SaidFirst(e, mode)
  IN /\ first = [situation |-> first.situation, coverage |-> first.coverage,
                 progress |-> first.progress, aged |-> first.aged]
     /\ first.aged = FALSE /\ DOMAIN first.progress = Claims
     /\ first.progress = PlainState(e, mode).progress
     /\ first.situation = PlainState(e, mode).situation
     /\ first.coverage = PlainState(e, mode).coverage

LEMMA SaidFirstShows ==
  ASSUME NEW e, NEW mode
  PROVE  SaidShows(e, mode)
BY ProgressOfClaims DEF SaidShows, SaidFirst, PlainState

LEMMA PlainStarts ==
  ASSUME PlainIdle, summary = NONE
  PROVE  PlainShows
<1>1. plain = [phase |-> "off", mode |-> "overview", bounded |-> FALSE, updates |-> 0]
  BY DEF PlainIdle, NoPlain
<1>2. SaidShows(NewEvidence("passive"), "overview")
  BY SaidFirstShows
<1> QED
  <2>1. said = SaidFirst(NewEvidence("passive"), "overview") /\ plain.phase = "off"
    BY <1>1 DEF PlainIdle
  <2>2. PlainTells
    BY <2>1 DEF PlainTells
  <2> QED
    BY <1>1, <1>2, <2>1, <2>2 DEF PlainIdle, PlainShows, SaidShows

LEMMA StartShows ==
  ASSUME PlainShows, Kept(evidence), StartPlain
  PROVE  PlainShows' /\ Kept(evidence)'
<1>1. PICK mode \in Modes, bounded \in BOOLEAN,
           e \in {NewEvidence("passive"), NewEvidence("active")} \cup Underway :
        /\ evidence' = e
        /\ plain' = [plain EXCEPT !.phase = "running", !.mode = mode, !.bounded = bounded]
        /\ said' = SaidFirst(e, mode)
  BY DEF StartPlain
<1>2. Kept(e)
  BY NewIsKept, StreamAssumption DEF Kept, ProbePolicies
<1>3. plain' = [phase |-> "running", mode |-> mode, bounded |-> bounded,
                updates |-> plain.updates]
  BY <1>1 DEF PlainShows
<1>4. summary' = NONE
  BY DEF StartPlain, PlainShows
<1>5. SaidShows(e, mode)
  BY SaidFirstShows
<1>6. /\ plain'.mode = mode /\ plain'.phase = "running"
      /\ said' = SaidFirst(e, mode) /\ evidence' = e
  BY <1>1, <1>3
<1>7. PlainTells'
  BY <1>4, <1>5, <1>6 DEF PlainTells, SaidShows
<1>8. /\ said' = [situation |-> said'.situation, coverage |-> said'.coverage,
                  progress |-> said'.progress, aged |-> said'.aged]
      /\ said'.aged \in BOOLEAN /\ DOMAIN said'.progress = Claims
  BY <1>5, <1>6 DEF SaidShows
<1> QED
  BY <1>2, <1>3, <1>4, <1>6, <1>7, <1>8 DEF PlainShows

LEMMA ReceiveShows ==
  ASSUME PlainShows, Kept(evidence), PlainReceive
  PROVE  PlainShows' /\ Kept(evidence)'
<1>1. PICK e \in Updates(evidence, plain.mode) :
        /\ evidence' = e
        /\ said' = Told(PlainState(evidence, plain.mode), PlainState(e, plain.mode))
  BY DEF PlainReceive
<1>2. Kept(e)
  BY <1>1, UpdatesAreKept
<1>3. plain.phase = "running" /\ summary = NONE /\ summary' = NONE
  BY DEF PlainReceive, PlainShows
<1>4. plain' = [phase |-> plain.phase, mode |-> plain.mode, bounded |-> plain.bounded,
                updates |-> plain.updates + 1]
  <2>1. plain' = [plain EXCEPT !.updates = @ + 1]
    BY DEF PlainReceive
  <2> QED
    BY <2>1 DEF PlainShows
<1> DEFINE before == PlainState(evidence, plain.mode)
           after == PlainState(e, plain.mode)
<1>5. /\ DOMAIN after.progress = Claims /\ DOMAIN before.progress = Claims
  BY PlainStateSays
<1>6. /\ \A c \in Claims : said.progress[c] = before.progress[c] \/ before.progress[c] = "stale"
      /\ ~said.aged => said.situation = before.situation /\ said.coverage = before.coverage
  BY <1>3, <1>5 DEF PlainShows, PlainTells
<1> HIDE DEF before, after
<1>7. /\ said' = [situation |-> said'.situation, coverage |-> said'.coverage,
                  progress |-> said'.progress, aged |-> said'.aged]
      /\ said'.aged \in BOOLEAN
      /\ DOMAIN said'.progress = Claims
  BY <1>1, <1>5 DEF Told, PlainShows, SituationLine, before, after
<1>8. \A c \in Claims : said'.progress[c] = after.progress[c] \/ after.progress[c] = "stale"
  BY <1>1, <1>5, <1>6 DEF Told, ProgressLine, before, after
<1>9. ~said'.aged => said'.situation = after.situation /\ said'.coverage = after.coverage
  BY <1>1, <1>6 DEF Told, SituationLine, before, after
<1>10. PlainTells'
  BY <1>1, <1>3, <1>4, <1>5, <1>8, <1>9 DEF PlainTells, after
<1> QED
  BY <1>1, <1>2, <1>3, <1>4, <1>7, <1>10 DEF PlainShows

LEMMA AgesShows ==
  ASSUME PlainShows, Kept(evidence), PlainAges
  PROVE  PlainShows' /\ Kept(evidence)'
<1>1. PICK kind \in ProbeKinds \ ({"Gateway"} \cup evidence.stale) :
        /\ evidence' = [evidence EXCEPT !.stale = @ \cup {kind}]
        /\ evidence.probes[kind] \notin Pending
  BY DEF PlainAges
<1>2. /\ UNCHANGED <<plain, stream, line, summary>> /\ plain.phase = "running"
      /\ summary = NONE /\ summary' = NONE
  BY DEF PlainAges, PlainShows
<1>3. Kept(evidence')
  BY <1>1 DEF Kept, Evidence, Sensible
<1>4. \A c \in Claims :
        \/ Progress(evidence', plain.mode)[c] = "stale"
        \/ Progress(evidence', plain.mode)[c] = Progress(evidence, plain.mode)[c]
  BY <1>1, AgeingOnlyStales, KeptIsHeld DEF Claims
<1>5. said' = [situation |-> said.situation, coverage |-> said.coverage,
               progress |-> said.progress, aged |-> TRUE]
  <2>1. said' = [said EXCEPT !.aged = TRUE]
    BY DEF PlainAges
  <2> QED
    BY <2>1 DEF PlainShows
<1>6. \A c \in Claims :
        \/ said.progress[c] = Progress(evidence, plain.mode)[c]
        \/ Progress(evidence, plain.mode)[c] = "stale"
  BY <1>2, PlainStateSays DEF PlainShows, PlainTells
<1>7. PlainTells'
  BY <1>2, <1>4, <1>5, <1>6, PlainStateSays DEF PlainTells
<1> QED
  BY <1>2, <1>3, <1>5, <1>7 DEF PlainShows

LEMMA EndShows ==
  ASSUME PlainShows, Kept(evidence), EndPlain
  PROVE  PlainShows' /\ Kept(evidence)'
<1>1. /\ plain' = [plain EXCEPT !.phase = "over"] /\ plain.phase = "running"
      /\ UNCHANGED <<said, evidence, stream, line>>
      /\ summary' # NONE => summary'.projection = FinalProjection(evidence, plain.mode)
  BY DEF EndPlain
<1>2. plain' = [phase |-> "over", mode |-> plain.mode, bounded |-> plain.bounded,
                updates |-> plain.updates]
  BY <1>1 DEF PlainShows
<1>3. summary' # NONE =>
        \A c \in Claims :
          IF Progress(evidence, plain.mode)[c] = "collecting"
          THEN summary'.projection.progress[c] \in {"insufficient", "unavailable"}
          ELSE summary'.projection.progress[c] = Progress(evidence, plain.mode)[c]
  BY <1>1, FinalIsClosed
<1>4. /\ \A c \in Claims :
           \/ said.progress[c] = Progress(evidence, plain.mode)[c]
           \/ Progress(evidence, plain.mode)[c] = "stale"
      /\ LET now == PlainState(evidence, plain.mode)
         IN ~said.aged => said.situation = now.situation /\ said.coverage = now.coverage
  BY <1>1, PlainStateSays DEF PlainShows, PlainTells
<1>5. PlainTells'
  BY <1>1, <1>2, <1>3, <1>4, PlainStateSays DEF PlainTells
<1> QED
  BY <1>1, <1>2, <1>5 DEF PlainShows

-----------------------------------------------------------------------------
(***************************************************************************)
(* One command (Commands).                                                 *)
(***************************************************************************)
ReportInvariant ==
  /\ Kept(evidence)
  /\ IF command = "stream" THEN StreamTells ELSE line = NONE
  /\ IF command = "plain" THEN PlainShows ELSE plain.phase = "off"

LEMMA ReportInit == Init => ReportInvariant
<1> SUFFICES ASSUME Init PROVE ReportInvariant
  OBVIOUS
<1>1. /\ PlainIdle
      /\ IF command = "stream" THEN StreamInit ELSE StreamIdle
  BY DEF Init
<1>2. command # "stream" => Kept(evidence) /\ line = NONE /\ summary = NONE
  BY <1>1, NewIsKept DEF StreamIdle, ProbePolicies
<1>3. command # "plain" => plain.phase = "off"
  BY <1>1 DEF PlainIdle, NoPlain
<1> QED
  BY <1>1, <1>2, <1>3, StreamStarts, PlainStarts DEF ReportInvariant

LEMMA ReportStep == ReportInvariant /\ [Next]_vars => ReportInvariant'
<1> SUFFICES ASSUME ReportInvariant, [Next]_vars
             PROVE  ReportInvariant'
  OBVIOUS
<1>1. CASE Stream
  <2>1. command = "stream" /\ command' = command /\ plain' = plain
    BY <1>1 DEF Stream, plainVars
  <2>2. StreamTells' /\ Kept(evidence)'
    BY <1>1, <2>1, StreamStep DEF Stream, ReportInvariant
  <2> QED
    BY <2>1, <2>2 DEF ReportInvariant
<1>2. CASE Plain
  <2>1. command = "plain" /\ command' = command /\ PlainNext
    BY <1>2 DEF Plain
  <2>2. line' = line
    BY <2>1 DEF PlainNext, StartPlain, PlainReceive, PlainAges, EndPlain
  <2>3. PlainShows' /\ Kept(evidence)'
    BY <2>1, StartShows, ReceiveShows, AgesShows, EndShows DEF PlainNext, ReportInvariant
  <2> QED
    BY <2>1, <2>2, <2>3 DEF ReportInvariant
<1>3. CASE UNCHANGED <<command, streamVars, plainVars>>
  BY <1>3
  DEF streamVars, plainVars, ReportInvariant, StreamTells, LineIsCurrent, FinalCloses,
      PlainShows, PlainTells
<1>4. [Next]_vars => Stream \/ Plain \/ UNCHANGED <<command, streamVars, plainVars>>
  BY DEF Next, vars, Windows, Probe, Host, Ping, Speed, Readiness, Line, Capsules, Screenshot
<1> QED
  BY <1>1, <1>2, <1>3, <1>4

\* The summary of a bounded stream says what its lines said last, save what
\* aged, and closes what they left open (final_projection): nothing material
\* was withheld.
THEOREM StreamSaysItAll == Spec => []FinalCloses
<1>1. ReportInvariant => FinalCloses
  BY DEF ReportInvariant, StreamTells, FinalCloses
<1> QED
  BY <1>1, ReportInit, ReportStep, PTL DEF Spec

\* A reader of the plain lines knows the conclusions, although each line
\* compares only with the moment before its update (format_update_for_mode).
THEOREM PlainSaysItAll == Spec => []PlainTells
<1>1. ReportInvariant => PlainTells
  BY DEF ReportInvariant, PlainShows, PlainTells
<1> QED
  BY <1>1, ReportInit, ReportStep, PTL DEF Spec

\* Situation, coverage and progress, computed by separate code, support each
\* other, whatever has been measured (situation, evidence_coverage,
\* evidence_progress).
THEOREM ConclusionsAgree == Spec => []VerdictsSupported
<1>1. ReportInvariant => VerdictsSupported
  BY ConclusionsSupported DEF ReportInvariant
<1> QED
  BY <1>1, ReportInit, ReportStep, PTL DEF Spec

-----------------------------------------------------------------------------
(***************************************************************************)
(* What is proved of a module holds in any command.                        *)
(***************************************************************************)
\* A command of another kind leaves the files, the child, the windows and what was
\* measured alone.
LEMMA CommandsApart ==
  ASSUME [Next]_vars
  PROVE  /\ [CapsuleNext]_capsuleVars
         /\ [CaptureNext]_captureVars
         /\ [CommandNext]_commandVars
         /\ [WindowsNext]_windowVars
         /\ [PingNext]_ping
         /\ [WorkloadNext]_workload
         /\ command' = command
         /\ \/ command = "speed" /\ SpeedNext
            \/ command # "speed" /\ UNCHANGED speed
            \/ UNCHANGED <<speed, commandVars>>
<1>1. CASE Capsules
  BY <1>1 DEF Capsules, experimentVars
<1>2. CASE Screenshot
  BY <1>2 DEF Screenshot, experimentVars
<1>3. CASE Host
  BY <1>3 DEF Host, experimentVars
<1>4. CASE Speed
  <2>1. (CommandNext \/ UNCHANGED commandVars) /\ UNCHANGED ping
    BY <1>4 DEF Speed, SpeedNext, StartSpeed, SpeedLoad, SpeedBails, SpeedReports
  <2> QED
    BY <1>4, <2>1 DEF Speed
<1>5. CASE Windows
  BY <1>5 DEF Windows, experimentVars
<1>6. CASE Ping
  <2>1. UNCHANGED speed
    BY <1>6 DEF Ping, PingNext, StartPing, PrintReply, PingEnds
  <2> QED
    BY <1>6, <2>1 DEF Ping
<1>7. CASE Readiness
  BY <1>7 DEF Readiness, experimentVars
<1>8. CASE Stream \/ Plain \/ Probe \/ Line \/ UNCHANGED vars
  BY <1>8 DEF Stream, Plain, Probe, Line, vars, experimentVars
<1> QED
  BY <1>1, <1>2, <1>3, <1>4, <1>5, <1>6, <1>7, <1>8 DEF Next

\* However many packers run beside a live log, fail or are killed at any call,
\* and whatever else takes the output path: what `capsule pack` publishes is one
\* whole capsule that `capsule verify` accepts.
THEOREM PacksWhole == Spec => []CapsuleWhole
<1>1. Init => CapsuleInvariant
  BY CapsuleInitially DEF Init
<1>2. CapsuleInvariant /\ [Next]_vars => CapsuleInvariant'
  BY CommandsApart, CapsuleStep
<1> QED
  BY <1>1, <1>2, CapsuleInvariantSuffices, PTL DEF Spec

\* A screenshot's manifest is there only when every frame is, as planned and
\* as it was read back, however it is interrupted or killed and whatever
\* else writes in its directory (run, run_native, write_manifest).
THEOREM ShootsWhole == Spec => []CaptureIsWhole
<1>1. Init => CaptureInvariant
  BY CaptureInitially DEF Init
<1>2. CaptureInvariant /\ [Next]_vars => CaptureInvariant'
  BY CommandsApart, CaptureStep
<1> QED
  BY <1>1, <1>2, CaptureInvariantSuffices, PTL DEF Spec

\* Every host command is drained in its time, and kept waiting after that by its
\* callback only: not at all where it has none, and in the speed experiment for
\* as long as the latency measured beside iperf3 takes (run_bounded_with).
THEOREM HostCommandsReturn == Spec => []CommandReturns
<1>1. Init => CommandInvariant
  BY CommandInitially DEF Init
<1>2. CommandInvariant /\ [Next]_vars => CommandInvariant'
  BY CommandsApart, CommandStep
<1> QED
  BY <1>1, <1>2, CommandInvariantSuffices, PTL DEF Spec

\* What every command that measures keeps; the experiment is alone with iperf3.
MeasurementsInvariant ==
  /\ CommandInvariant /\ PingInvariant /\ WorkloadInvariant
  /\ IF command = "speed" THEN SpeedInvariant ELSE speed = SpeedOff

\* However often, late and in whatever order its replies are printed, a ping's
\* latency is that of its answers; a report of the experiment has one taken before,
\* beside and after a transfer that ended by itself; and traffic is told of the
\* processes that moved it in the second that was sampled, whatever was cut
\* (metrics.rs, LatencyMetrics; speed.rs; net.rs, collect_workload_snapshot).
THEOREM MeasurementsAreHonest == Spec => []MeasurementsHonest
<1>1. Init => MeasurementsInvariant
  BY CommandInitially, PingInitially, WorkloadInitially, SpeedInitially
  DEF Init, MeasurementsInvariant, ExperimentIdle
<1>2. MeasurementsInvariant /\ [Next]_vars => MeasurementsInvariant'
  <2> SUFFICES ASSUME MeasurementsInvariant, [Next]_vars PROVE MeasurementsInvariant'
    OBVIOUS
  <2>1. CommandInvariant' /\ PingInvariant' /\ WorkloadInvariant'
    BY CommandsApart, CommandStep, PingStep, SamplerStep DEF MeasurementsInvariant
  <2>2. CASE command = "speed"
    <3>1. SpeedNext \/ UNCHANGED <<speed, commandVars>>
      BY <2>2, CommandsApart
    <3>2. command' = "speed"
      BY <2>2, CommandsApart
    <3> QED
      BY <2>1, <2>2, <3>1, <3>2, SpeedStep DEF MeasurementsInvariant
  <2>3. CASE command # "speed"
    <3>1. command' # "speed" /\ speed' = speed
      BY <2>3, CommandsApart
    <3>2. speed' = SpeedOff
      BY <2>3, <3>1 DEF MeasurementsInvariant
    <3> QED
      BY <2>1, <3>1, <3>2 DEF MeasurementsInvariant, SpeedOff
  <2> QED
    BY <2>2, <2>3
<1>3. MeasurementsInvariant => MeasurementsHonest
  <2> SUFFICES ASSUME MeasurementsInvariant PROVE MeasurementsHonest
    OBVIOUS
  <2>1. EchoesCounted /\ TrafficAttributed
    BY PingTells, WorkloadTells DEF MeasurementsInvariant
  <2>2. SpeedBracketed
    <3>1. CASE command = "speed"
      BY <3>1, SpeedTells DEF MeasurementsInvariant
    <3>2. CASE command # "speed"
      BY <3>2 DEF MeasurementsInvariant, SpeedOff, SpeedBracketed
    <3> QED
      BY <3>1, <3>2
  <2> QED
    BY <2>1, <2>2 DEF MeasurementsHonest, LatencyHonest
<1> QED
  BY <1>1, <1>2, <1>3, PTL DEF Spec

\* Of the last paths that are over a session keeps every one, whole and in order:
\* from when to when it lasted, and what its own updates add up to, whatever was
\* reset, failed or arrived after its path; and the window that is reported claims of
\* a collector, and blames for what it lacks, what was received of it (model.rs,
\* PathDwell, CompletedPathDwell, latest_completed_path_window).
THEOREM WindowsAreRemembered == Spec => []WindowsRemember
<1>1. Init => WindowsInvariant
  BY WindowsInitially DEF Init
<1>2. WindowsInvariant /\ [Next]_vars => WindowsInvariant'
  BY CommandsApart, WindowsInductive
<1> QED
  BY <1>1, <1>2, WindowsFollow, PTL DEF Spec

-----------------------------------------------------------------------------
(***************************************************************************)
(* What a command line runs (Invocation).                                  *)
(***************************************************************************)
\* InvocationHonoured of one line, and of the options before and after it.
Honours(argv, where, runs) ==
  LET typed(option) == argv.root[option] \/ argv.own[option]
      live == runs.output \in {"tui", "plain", "jsonl"}
      once == runs.output \in {"text", "json"}
  IN /\ typed("jsonl") => runs.output = "jsonl"
     /\ typed("plain") => runs.output = "plain"
     /\ typed("dwell") => runs.bounded /\ live
     /\ typed("interval") =>
          /\ ~(argv.root.interval /\ argv.own.interval)
          /\ \/ live \/ runs.output = "frames"
             \/ /\ once /\ where.terminal # "both" /\ ~argv.json
                /\ argv.subcommand \in {"none", "link", "peers"}
     /\ argv.json => runs.output = "json" /\ runs.subject = argv.subcommand
     /\ (runs.policy = "active") <=>
          argv.active \/ argv.shot.active \/ argv.subcommand \in {"probe", "readiness", "speed"}
     /\ runs.output = "jsonl" /\ runs.policy = "active" => runs.subject = "overview"
     /\ runs.policy = "active" => runs.subject \in {"overview", "probe", "readiness", "speed"}
     /\ where.history => runs.history = "line"
     /\ runs.history # NONE => live /\ runs.subject = "overview"
     /\ live /\ runs.subject = "overview" /\ where.environment = "set" => runs.history # NONE
     /\ where.child => runs.output = "tui" /\ runs.policy = "passive" /\ runs.history = NONE

Options(o) ==
  /\ DOMAIN o = {"interval", "plain", "jsonl", "dwell"}
  /\ o.interval \in BOOLEAN /\ o.plain \in BOOLEAN /\ o.jsonl \in BOOLEAN /\ o.dwell \in BOOLEAN
  /\ o = [interval |-> o.interval, plain |-> o.plain, jsonl |-> o.jsonl, dwell |-> o.dwell]
  /\ ~(o.plain /\ o.jsonl)

LEMMA IntervalOnly ==
  ASSUME NEW o, NEW a,
         o = [interval |-> o.interval, plain |-> o.plain, jsonl |-> o.jsonl,
              dwell |-> o.dwell]
  PROVE  [o EXCEPT !.interval = a] =
           [interval |-> a, plain |-> o.plain, jsonl |-> o.jsonl, dwell |-> o.dwell]
OBVIOUS

\* What a line is made of.
LEMMA LineParts ==
  ASSUME NEW argv \in Lines
  PROVE  /\ argv.subcommand \in Subcommands /\ argv.json \in BOOLEAN /\ argv.active \in BOOLEAN
         /\ argv.json => argv.subcommand \in WithJson
         /\ Options(argv.root) /\ Options(argv.own)
         /\ argv.subcommand \notin {"link", "peers", "screenshot"} => argv.own = NoOptions
         /\ argv.subcommand = "screenshot" =>
              /\ ~argv.own.plain /\ ~argv.own.jsonl /\ ~argv.own.dwell
              /\ argv.shot.view \in Modes /\ argv.shot.active \in BOOLEAN
         /\ argv.subcommand # "screenshot" => argv.shot = NoShot
<1>1. PICK subcommand \in Subcommands :
        argv \in [subcommand : {subcommand},
                  json : IF subcommand \in WithJson THEN BOOLEAN ELSE {FALSE},
                  root : LiveOptions, own : OwnOptions(subcommand), active : BOOLEAN,
                  shot : IF subcommand = "screenshot" THEN ShotOptions ELSE {NoShot}]
  BY DEF Lines
<1>2. \A o \in LiveOptions : Options(o)
  BY DEF LiveOptions, Options
<1> DEFINE timed == [interval |-> TRUE, plain |-> FALSE, jsonl |-> FALSE, dwell |-> FALSE]
<1>a. [NoOptions EXCEPT !.interval = TRUE] = timed
  <2>1. /\ NoOptions = [interval |-> NoOptions.interval, plain |-> NoOptions.plain,
                        jsonl |-> NoOptions.jsonl, dwell |-> NoOptions.dwell]
        /\ NoOptions.plain = FALSE /\ NoOptions.jsonl = FALSE /\ NoOptions.dwell = FALSE
    BY DEF NoOptions
  <2>2. [NoOptions EXCEPT !.interval = TRUE] =
          [interval |-> TRUE, plain |-> NoOptions.plain,
           jsonl |-> NoOptions.jsonl, dwell |-> NoOptions.dwell]
    BY <2>1, IntervalOnly, Zenon
  <2> QED BY <2>1, <2>2
<1>b. Options(NoOptions) /\ ~NoOptions.plain /\ ~NoOptions.jsonl /\ ~NoOptions.dwell
  BY DEF NoOptions, Options
<1>c. Options(timed) /\ ~timed.plain /\ ~timed.jsonl /\ ~timed.dwell
  <2>1. /\ timed.interval = TRUE /\ timed.plain = FALSE /\ timed.jsonl = FALSE
        /\ timed.dwell = FALSE /\ DOMAIN timed = {"interval", "plain", "jsonl", "dwell"}
    OBVIOUS
  <2> QED BY <2>1 DEF Options
<1>3. \A o \in {NoOptions, [NoOptions EXCEPT !.interval = TRUE]} :
        Options(o) /\ ~o.plain /\ ~o.jsonl /\ ~o.dwell
  <2> HIDE DEF timed
  <2> QED BY <1>a, <1>b, <1>c
<1>4. /\ argv.subcommand = subcommand /\ argv.active \in BOOLEAN
      /\ argv.json \in IF subcommand \in WithJson THEN BOOLEAN ELSE {FALSE}
      /\ argv.root \in LiveOptions /\ argv.own \in OwnOptions(subcommand)
      /\ argv.shot \in IF subcommand = "screenshot" THEN ShotOptions ELSE {NoShot}
  BY <1>1
<1>5. /\ subcommand \in {"link", "peers"} => argv.own \in LiveOptions
      /\ subcommand = "screenshot" => argv.own \in {NoOptions, [NoOptions EXCEPT !.interval = TRUE]}
      /\ subcommand \notin {"link", "peers", "screenshot"} => argv.own = NoOptions
  BY <1>4 DEF OwnOptions
<1>6. subcommand = "screenshot" => argv.shot.view \in Modes /\ argv.shot.active \in BOOLEAN
  BY <1>4 DEF ShotOptions
<1>7. Options(argv.own)
  BY <1>2, <1>3, <1>5
<1>8. subcommand = "screenshot" => ~argv.own.plain /\ ~argv.own.jsonl /\ ~argv.own.dwell
  BY <1>3, <1>5
<1>9. argv.json \in BOOLEAN /\ (argv.json => argv.subcommand \in WithJson)
  BY <1>4
<1> QED
  BY <1>2, <1>4, <1>5, <1>6, <1>7, <1>8, <1>9

LEMMA OptionsMerge ==
  ASSUME NEW root, NEW own, Options(root), Options(own)
  PROVE  /\ Merged(root, own).interval = (root.interval \/ own.interval)
         /\ Merged(root, own).plain = (root.plain \/ own.plain)
         /\ Merged(root, own).jsonl = (root.jsonl \/ own.jsonl)
         /\ Merged(root, own).dwell = (root.dwell \/ own.dwell)
         /\ own = NoOptions => Merged(root, own) = root
         /\ Merged(root, own) = NoOptions =>
              /\ ~root.interval /\ ~own.interval /\ ~root.plain /\ ~own.plain
              /\ ~root.jsonl /\ ~own.jsonl /\ ~root.dwell /\ ~own.dwell
<1>1. /\ Merged(root, own).interval = (root.interval \/ own.interval)
      /\ Merged(root, own).plain = (root.plain \/ own.plain)
      /\ Merged(root, own).jsonl = (root.jsonl \/ own.jsonl)
      /\ Merged(root, own).dwell = (root.dwell \/ own.dwell)
  BY DEF Options, Merged
<1>2. /\ ~NoOptions.interval /\ ~NoOptions.plain /\ ~NoOptions.jsonl /\ ~NoOptions.dwell
  BY DEF NoOptions
<1>3. ASSUME own = NoOptions PROVE Merged(root, own) = root
  <2>1. Merged(root, own) = [interval |-> root.interval, plain |-> root.plain,
                             jsonl |-> root.jsonl, dwell |-> root.dwell]
    BY <1>2, <1>3 DEF Options, Merged
  <2> QED
    BY <2>1 DEF Options
<1>4. ASSUME Merged(root, own) = NoOptions
      PROVE  /\ ~root.interval /\ ~own.interval /\ ~root.plain /\ ~own.plain
             /\ ~root.jsonl /\ ~own.jsonl /\ ~root.dwell /\ ~own.dwell
  BY <1>1, <1>2, <1>4
<1> QED
  BY <1>1, <1>3, <1>4

\* The root options of a command that has none of its own were not typed.
LEMMA NothingTyped ==
  ASSUME NEW root, root = NoOptions
  PROVE  ~root.interval /\ ~root.plain /\ ~root.jsonl /\ ~root.dwell
BY DEF NoOptions

LEMMA RunsFields ==
  ASSUME NEW s, NEW o, NEW p, NEW b, NEW h
  PROVE  LET r == Runs(s, o, p, b, h)
         IN r.subject = s /\ r.output = o /\ r.policy = p /\ r.bounded = b /\ r.history = h
BY DEF Runs

\* The output is one of four, by what was typed and the terminal.
LEMMA OutputChosen ==
  ASSUME NEW tty, NEW live,
         live.plain \in BOOLEAN, live.jsonl \in BOOLEAN, live.dwell \in BOOLEAN
  PROVE  LET output == LiveOutput(tty, live)
         IN /\ output \in {"jsonl", "plain", "tui", "once"}
            /\ live.jsonl => output = "jsonl"
            /\ live.plain /\ ~live.jsonl => output = "plain"
            /\ output = "once" => tty # "both" /\ ~live.dwell /\ ~live.plain /\ ~live.jsonl
            /\ tty = "both" /\ ~live.plain /\ ~live.jsonl => output = "tui"
            /\ output = "jsonl" => live.jsonl
BY DEF LiveOutput

LEMMA HistoryChosen ==
  ASSUME NEW where \in Surroundings, NEW live \in BOOLEAN
  PROVE  LET history == DefaultHistory(where, live)
         IN /\ where.history => history = "line"
            /\ live /\ where.environment = "set" => history # NONE
            /\ ~where.history /\ where.environment # "set" => history = NONE
            /\ where.history \in BOOLEAN /\ where.child \in BOOLEAN
            /\ ~live /\ ~where.history => history = NONE
<1>1. where.history \in BOOLEAN /\ where.child \in BOOLEAN
  BY DEF Surroundings
<1>2. NONE # "line" /\ NONE # "environment"
  BY InvocationAssumption
<1> QED
  BY <1>1, <1>2 DEF DefaultHistory

LEMMA PlainLineHonoured ==
  ASSUME NEW argv \in Lines, NEW where \in Surroundings, ~Refused(argv, where),
         argv.subcommand = "none"
  PROVE  Honours(argv, where, Dispatched(argv, where))
<1> DEFINE live == Merged(argv.root, argv.own)
           output == LiveOutput(where.terminal, live)
           typedAlone == LiveOutput(where.terminal, argv.root)
           policy == IF argv.active THEN "active" ELSE "passive"
           history == DefaultHistory(where, TRUE)
           runs == Dispatched(argv, where)
<1>1. /\ argv.json \in BOOLEAN /\ argv.active \in BOOLEAN /\ ~argv.json
      /\ Options(argv.root) /\ Options(argv.own) /\ argv.own = NoOptions /\ argv.shot = NoShot
  BY LineParts DEF WithJson, OneShots
<1>2. /\ ~argv.own.interval /\ ~argv.own.plain /\ ~argv.own.jsonl /\ ~argv.own.dwell
      /\ ~argv.shot.active
  BY <1>1 DEF NoOptions, NoShot
<1>3. live = argv.root
  BY <1>1, OptionsMerge
<1>4. /\ ~ChildRefused(argv, where)
      /\ typedAlone = "once" => DefaultHistory(where, FALSE) = NONE
  <2>1. typedAlone = "once" => ~(typedAlone # "once")
    OBVIOUS
  <2>2. typedAlone = "once" => DefaultHistory(where, LiveOutput(where.terminal, argv.root) # "once") = NONE
    BY DEF Refused
  <2>3. typedAlone = "once" => (LiveOutput(where.terminal, argv.root) # "once") = FALSE
    OBVIOUS
  <2>4. ~ChildRefused(argv, where)
    BY DEF Refused
  <2> QED BY <2>2, <2>3, <2>4
<1>5. runs = IF output = "once"
             THEN Runs(IF argv.active THEN "probe" ELSE "snapshot", "text", policy, FALSE, NONE)
             ELSE Runs("overview", output, policy, live.dwell, history)
  BY DEF Dispatched
<1>6. /\ argv.root.plain \in BOOLEAN /\ argv.root.jsonl \in BOOLEAN
      /\ argv.root.dwell \in BOOLEAN /\ argv.root.interval \in BOOLEAN
      /\ ~(argv.root.plain /\ argv.root.jsonl)
  BY <1>1 DEF Options
<1>7. /\ output \in {"jsonl", "plain", "tui", "once"}
      /\ argv.root.jsonl => output = "jsonl"
      /\ argv.root.plain => output = "plain"
      /\ output = "once" => where.terminal # "both" /\ ~argv.root.dwell
      /\ where.terminal = "both" /\ ~argv.root.plain /\ ~argv.root.jsonl => output = "tui"
      /\ output = typedAlone
  BY <1>3, <1>6, OutputChosen
<1>8. /\ where.history => history = "line"
      /\ where.environment = "set" => history # NONE
      /\ ~where.history /\ where.environment # "set" => history = NONE
      /\ output = "once" => ~where.history
      /\ where.history \in BOOLEAN /\ where.child \in BOOLEAN
  <2>1. where.history => DefaultHistory(where, FALSE) = "line"
    BY HistoryChosen
  <2> QED
    BY <1>4, <1>7, <2>1, HistoryChosen, InvocationAssumption
<1>9. where.child => /\ where.terminal = "both" /\ ~argv.active /\ ~where.history
                     /\ where.environment # "set" /\ ~argv.root.plain /\ ~argv.root.jsonl
  BY <1>4 DEF ChildRefused
<1> HIDE DEF live, output, typedAlone, history, runs
<1>10. CASE output = "once"
  <2> DEFINE what == IF argv.active THEN "probe" ELSE "snapshot"
  <2>0. runs = Runs(what, "text", policy, FALSE, NONE)
    BY <1>5, <1>10
  <2>1. /\ runs.subject = what /\ runs.output = "text" /\ runs.policy = policy
        /\ runs.history = NONE
    <3> DEFINE once == Runs(what, "text", policy, FALSE, NONE)
    <3>1. /\ once.subject = what /\ once.output = "text" /\ once.policy = policy
          /\ once.history = NONE
      BY DEF Runs
    <3> QED BY <2>0, <3>1
  <2>a. runs.policy = "active" <=>
          argv.active \/ argv.shot.active \/ argv.subcommand \in {"probe", "readiness", "speed"}
    BY <1>1, <1>2, <2>1
  <2>b. runs.policy = "active" => runs.subject \in {"overview", "probe", "readiness", "speed"}
    BY <1>1, <2>1
  <2>c. ~argv.root.jsonl /\ ~argv.own.jsonl /\ ~argv.root.plain /\ ~argv.own.plain
        /\ ~argv.root.dwell /\ ~argv.own.dwell /\ ~where.history /\ ~where.child
    BY <1>2, <1>7, <1>8, <1>9, <1>10
  <2>d. argv.root.interval \/ argv.own.interval =>
          /\ ~(argv.root.interval /\ argv.own.interval)
          /\ runs.output \in {"text", "json"} /\ where.terminal # "both" /\ ~argv.json
          /\ argv.subcommand \in {"none", "link", "peers"}
    BY <1>1, <1>2, <1>7, <1>10, <2>1
  <2>e. runs.output \notin {"tui", "plain", "jsonl"} /\ runs.history = NONE /\ ~argv.json
    BY <1>1, <2>1
  <2>2. Honours(argv, where, runs)
    BY <2>a, <2>b, <2>c, <2>d, <2>e DEF Honours
  <2> QED BY <2>2 DEF runs
<1>11. CASE output # "once"
  <2>1. /\ runs.subject = "overview" /\ runs.output = output /\ runs.policy = policy
        /\ runs.bounded = argv.root.dwell /\ runs.history = history
    BY <1>3, <1>5, <1>11, RunsFields
  <2>2. Honours(argv, where, runs)
    BY <1>1, <1>2, <1>6, <1>7, <1>8, <1>9, <1>11, <2>1 DEF Honours
  <2> QED BY <2>2 DEF runs
<1> QED BY <1>10, <1>11

\* A line with a subcommand and no live view: what is left to honour.
LEMMA CommandLineHonoured ==
  ASSUME NEW argv \in Lines, NEW where \in Surroundings, ~Refused(argv, where),
         argv.subcommand \in {"probe", "readiness", "speed", "snapshot", "review", "history",
                             "capsule"}
  PROVE  Honours(argv, where, Dispatched(argv, where))
<1> DEFINE runs == Dispatched(argv, where)
           asks == argv.subcommand \in {"probe", "readiness", "speed"}
           policy == IF asks THEN "active" ELSE "passive"
           document == IF argv.json THEN "json" ELSE "text"
<1>1. /\ argv.json \in BOOLEAN /\ argv.active \in BOOLEAN
      /\ argv.own = NoOptions /\ argv.shot = NoShot
  BY LineParts
<1>2. argv.root = NoOptions /\ ~ChildRefused(argv, where) /\ ~argv.active /\ ~where.history
  BY DEF Refused
<1>3. /\ ~argv.root.interval /\ ~argv.root.plain /\ ~argv.root.jsonl /\ ~argv.root.dwell
      /\ ~argv.own.interval /\ ~argv.own.plain /\ ~argv.own.jsonl /\ ~argv.own.dwell
      /\ ~argv.shot.active /\ ~where.child
  BY <1>1, <1>2, NothingTyped DEF NoShot, ChildRefused
<1>4. runs = Runs(argv.subcommand, document, policy, FALSE, NONE)
  BY DEF Dispatched
<1>5. /\ runs.subject = argv.subcommand /\ runs.output = document /\ runs.policy = policy
      /\ runs.history = NONE
  <2> DEFINE once == Runs(argv.subcommand, document, policy, FALSE, NONE)
  <2>1. /\ once.subject = argv.subcommand /\ once.output = document /\ once.policy = policy
        /\ once.history = NONE
    BY DEF Runs
  <2> QED BY <1>4, <2>1
<1> HIDE DEF runs
<1>6. runs.policy = "active" <=>
        argv.active \/ argv.shot.active \/ argv.subcommand \in {"probe", "readiness", "speed"}
  BY <1>2, <1>3, <1>5
<1>7. runs.policy = "active" => runs.subject \in {"overview", "probe", "readiness", "speed"}
  BY <1>5
<1>8. runs.output \in {"text", "json"} /\ (argv.json => runs.output = "json")
  BY <1>1, <1>5
<1>9. runs.output \notin {"tui", "plain", "jsonl"}
  BY <1>8
<1>10. Honours(argv, where, runs)
  BY <1>2, <1>3, <1>5, <1>6, <1>7, <1>8, <1>9 DEF Honours
<1> QED BY <1>10 DEF runs

LEMMA ScreenshotLineHonoured ==
  ASSUME NEW argv \in Lines, NEW where \in Surroundings, ~Refused(argv, where),
         argv.subcommand = "screenshot"
  PROVE  Honours(argv, where, Dispatched(argv, where))
<1> DEFINE runs == Dispatched(argv, where)
           policy == IF argv.shot.active THEN "active" ELSE "passive"
<1>1. /\ argv.json \in BOOLEAN /\ ~argv.json /\ argv.active \in BOOLEAN
      /\ ~argv.own.plain /\ ~argv.own.jsonl /\ ~argv.own.dwell
      /\ argv.shot.active \in BOOLEAN
  BY LineParts DEF WithJson, OneShots
<1>2. ~ScreenshotRefused(argv) /\ ~ChildRefused(argv, where) /\ ~argv.active /\ ~where.history
  BY DEF Refused
<1>3. /\ ~argv.root.plain /\ ~argv.root.jsonl /\ ~argv.root.dwell
      /\ ~(argv.root.interval /\ argv.own.interval)
      /\ argv.shot.active => argv.shot.view = "overview"
      /\ ~where.child
  BY <1>2 DEF ScreenshotRefused, ChildRefused
<1>4. runs = Runs(argv.shot.view, "frames", policy, TRUE, NONE)
  BY DEF Dispatched
<1>5. /\ runs.subject = argv.shot.view /\ runs.output = "frames" /\ runs.policy = policy
      /\ runs.history = NONE
  <2> DEFINE frames == Runs(argv.shot.view, "frames", policy, TRUE, NONE)
  <2>1. /\ frames.subject = argv.shot.view /\ frames.output = "frames"
        /\ frames.policy = policy /\ frames.history = NONE
    BY DEF Runs
  <2> QED BY <1>4, <2>1
<1> HIDE DEF runs
<1>6. runs.policy = "active" <=>
        argv.active \/ argv.shot.active \/ argv.subcommand \in {"probe", "readiness", "speed"}
  BY <1>1, <1>2, <1>5
<1>7. runs.policy = "active" => runs.subject \in {"overview", "probe", "readiness", "speed"}
  BY <1>1, <1>3, <1>5
<1>8. runs.output \notin {"tui", "plain", "jsonl", "text", "json"}
  BY <1>5
<1>9. Honours(argv, where, runs)
  BY <1>1, <1>2, <1>3, <1>5, <1>6, <1>7, <1>8 DEF Honours
<1> QED BY <1>9 DEF runs

LEMMA ViewLineHonoured ==
  ASSUME NEW argv \in Lines, NEW where \in Surroundings, ~Refused(argv, where),
         argv.subcommand \in {"link", "peers"}
  PROVE  Honours(argv, where, Dispatched(argv, where))
<1> DEFINE live == Merged(argv.root, argv.own)
           output == LiveOutput(where.terminal, live)
           document == IF argv.json THEN "json" ELSE "text"
           runs == Dispatched(argv, where)
<1>1. /\ argv.json \in BOOLEAN /\ argv.active \in BOOLEAN /\ argv.shot = NoShot
      /\ Options(argv.root) /\ Options(argv.own)
  BY LineParts
<1>2. /\ ~MergeRefused(argv.root, argv.own) /\ (argv.json => live = NoOptions)
      /\ ~ChildRefused(argv, where) /\ ~argv.active /\ ~where.history
  BY DEF Refused
<1>3. ~argv.shot.active
  BY <1>1 DEF NoShot
<1>4. /\ argv.root.plain \in BOOLEAN /\ argv.root.jsonl \in BOOLEAN
      /\ argv.root.dwell \in BOOLEAN /\ argv.own.plain \in BOOLEAN
      /\ argv.own.jsonl \in BOOLEAN /\ argv.own.dwell \in BOOLEAN
  BY <1>1 DEF Options
<1>5. /\ live.plain = (argv.root.plain \/ argv.own.plain)
      /\ live.jsonl = (argv.root.jsonl \/ argv.own.jsonl)
      /\ live.dwell = (argv.root.dwell \/ argv.own.dwell)
  BY <1>1, OptionsMerge
<1>6. argv.json =>
        /\ ~argv.root.interval /\ ~argv.own.interval /\ ~argv.root.plain /\ ~argv.own.plain
        /\ ~argv.root.jsonl /\ ~argv.own.jsonl /\ ~argv.root.dwell /\ ~argv.own.dwell
  BY <1>1, <1>2, OptionsMerge
<1>7. /\ ~(argv.root.interval /\ argv.own.interval)
      /\ ~((argv.root.plain \/ argv.own.plain) /\ (argv.root.jsonl \/ argv.own.jsonl))
  BY <1>2 DEF MergeRefused
<1>8. where.child =>
        /\ where.terminal = "both" /\ ~argv.json
        /\ ~argv.root.plain /\ ~argv.root.jsonl /\ ~argv.own.plain /\ ~argv.own.jsonl
  BY <1>2 DEF ChildRefused
<1>9. live.plain \in BOOLEAN /\ live.jsonl \in BOOLEAN /\ live.dwell \in BOOLEAN
  BY <1>4, <1>5
<1> HIDE DEF live
<1>10. /\ output \in {"jsonl", "plain", "tui", "once"}
       /\ live.jsonl => output = "jsonl"
       /\ live.plain /\ ~live.jsonl => output = "plain"
       /\ output = "once" => where.terminal # "both" /\ ~live.dwell /\ ~live.plain /\ ~live.jsonl
       /\ where.terminal = "both" /\ ~live.plain /\ ~live.jsonl => output = "tui"
  BY <1>9, OutputChosen
<1>11. CASE argv.json \/ output = "once"
  <2>1. runs = Runs(argv.subcommand, document, "passive", FALSE, NONE)
    BY <1>11 DEF Dispatched, live
  <2>2. /\ runs.subject = argv.subcommand /\ runs.output = document
        /\ runs.policy = "passive" /\ runs.history = NONE
    <3> DEFINE once == Runs(argv.subcommand, document, "passive", FALSE, NONE)
    <3>1. /\ once.subject = argv.subcommand /\ once.output = document
          /\ once.policy = "passive" /\ once.history = NONE
      BY DEF Runs
    <3> QED BY <2>1, <3>1
  <2> HIDE DEF output, runs
  <2>3. /\ ~argv.root.plain /\ ~argv.own.plain /\ ~argv.root.jsonl /\ ~argv.own.jsonl
        /\ ~argv.root.dwell /\ ~argv.own.dwell /\ ~where.child
        /\ (argv.root.interval \/ argv.own.interval) => where.terminal # "both" /\ ~argv.json
    BY <1>4, <1>5, <1>6, <1>8, <1>10, <1>11
  <2>4. runs.output \in {"text", "json"} /\ (argv.json => runs.output = "json")
    BY <1>1, <2>2
  <2>5. runs.output \notin {"tui", "plain", "jsonl"}
    BY <2>4
  <2>6. Honours(argv, where, runs)
    BY <1>2, <1>3, <1>7, <2>2, <2>3, <2>4, <2>5 DEF Honours
  <2> QED BY <2>6 DEF runs
<1>12. CASE ~argv.json /\ output # "once"
  <2>1. runs = Runs(argv.subcommand, output, "passive", live.dwell, NONE)
    BY <1>12 DEF Dispatched, live
  <2> HIDE DEF output, runs
  <2>2. /\ runs.subject = argv.subcommand /\ runs.output = output
        /\ runs.policy = "passive" /\ runs.bounded = live.dwell /\ runs.history = NONE
    BY <2>1, RunsFields
  <2>3. /\ output \in {"jsonl", "plain", "tui"}
        /\ argv.root.jsonl \/ argv.own.jsonl => output = "jsonl"
        /\ argv.root.plain \/ argv.own.plain => output = "plain"
        /\ argv.root.dwell \/ argv.own.dwell => live.dwell
        /\ where.child => output = "tui"
    BY <1>4, <1>5, <1>7, <1>8, <1>10, <1>12
  <2>4. Honours(argv, where, runs)
    BY <1>2, <1>3, <1>7, <1>12, <2>2, <2>3 DEF Honours
  <2> QED BY <2>4 DEF runs
<1> QED BY <1>11, <1>12

LEMMA LineHonoured ==
  ASSUME NEW argv \in Lines, NEW where \in Surroundings, ~Refused(argv, where)
  PROVE  Honours(argv, where, Dispatched(argv, where))
<1>1. argv.subcommand \in Subcommands
  BY LineParts
<1> QED
  BY <1>1, PlainLineHonoured, CommandLineHonoured, ScreenshotLineHonoured, ViewLineHonoured
  DEF Subcommands

\* What has been typed is a line somewhere, and what runs is what it asks for.
LineRuns ==
  \/ invocation = NotTyped
  \/ \E argv \in Lines, where \in Surroundings :
       /\ invocation = [typed |-> [argv |-> argv, where |-> where], runs |-> invocation.runs]
       /\ \/ invocation.runs = NONE
          \/ Honours(argv, where, invocation.runs)

LEMMA TypeLineRuns == ASSUME TypeLine PROVE LineRuns'
<1>1. PICK argv \in Lines, where \in Surroundings :
        invocation' = [typed |-> [argv |-> argv, where |-> where],
                       runs |-> IF Refused(argv, where) THEN NONE
                                ELSE Dispatched(argv, where)]
  BY DEF TypeLine
<1>2. invocation'.runs = IF Refused(argv, where) THEN NONE ELSE Dispatched(argv, where)
  BY <1>1
<1>3. invocation'.runs = NONE \/ Honours(argv, where, invocation'.runs)
  BY <1>2, LineHonoured
<1>4. invocation' = [typed |-> [argv |-> argv, where |-> where], runs |-> invocation'.runs]
  BY <1>1, <1>2
<1> QED BY <1>3, <1>4 DEF LineRuns

LEMMA LineRunsHonoured == ASSUME LineRuns PROVE InvocationHonoured
<1>1. CASE invocation = NotTyped
  BY <1>1 DEF NotTyped, InvocationHonoured
<1>2. ASSUME NEW argv \in Lines, NEW where \in Surroundings,
             invocation = [typed |-> [argv |-> argv, where |-> where],
                           runs |-> invocation.runs],
             Honours(argv, where, invocation.runs)
      PROVE  InvocationHonoured
  <2>1. invocation.typed.argv = argv /\ invocation.typed.where = where
    BY <1>2
  <2> QED BY <1>2, <2>1 DEF Honours, InvocationHonoured
<1> QED BY <1>1, <1>2 DEF LineRuns, InvocationHonoured

\* What a command line runs is what it says, whatever line is typed wherever:
\* every option shapes the run or is refused, and probes are sent and a history
\* opened only where the line asks for them (InvocationHonoured).
THEOREM LinesAreHonoured == Spec => []InvocationHonoured
<1>1. Init => LineRuns
  BY DEF Init, InvocationIdle, LineRuns
<1>2. LineRuns /\ [Next]_vars => LineRuns'
  <2>1. ASSUME LineRuns, UNCHANGED invocation PROVE LineRuns'
    BY <2>1 DEF LineRuns
  <2>2. ASSUME LineRuns, Next PROVE LineRuns'
    BY <2>1, <2>2, TypeLineRuns
    DEF Next, Stream, Plain, Windows, Probe, Host, Ping, Speed, Readiness, Line, Capsules,
        Screenshot
  <2> QED BY <2>1, <2>2 DEF vars
<1>3. LineRuns => InvocationHonoured
  BY LineRunsHonoured
<1> QED BY <1>1, <1>2, <1>3, PTL DEF Spec

-----------------------------------------------------------------------------
(***************************************************************************)
(* The reports that are taken once (OneShot).                              *)
(***************************************************************************)
LEMMA EvidenceUpdated ==
  ASSUME NEW p, NEW a, NEW g, NEW l, NEW s, NEW c, NEW t, NEW n, NEW k, NEW o, NEW v,
         NEW g2, NEW l2, NEW s2, NEW c2, NEW t2, NEW n2, NEW k2, NEW o2, NEW v2
  PROVE  LET e == [policy |-> p, paused |-> a, generation |-> g, settling |-> a, link |-> l,
                   settled |-> s, dwelt |-> {}, counters |-> c, rate |-> t, peers |-> n,
                   workload |-> "queued", probes |-> k, stale |-> {}, outcomes |-> o,
                   varies |-> v]
             u == [e EXCEPT !.generation = g2, !.link = l2, !.settled = s2, !.counters = c2,
                            !.rate = t2, !.peers = n2, !.probes = k2, !.outcomes = o2,
                            !.varies = v2]
         IN /\ u.policy = p /\ u.paused = a /\ u.generation = g2 /\ u.settling = a
            /\ u.link = l2 /\ u.settled = s2 /\ u.dwelt = {} /\ u.counters = c2
            /\ u.rate = t2 /\ u.peers = n2 /\ u.probes = k2 /\ u.stale = {}
            /\ u.outcomes = o2 /\ u.varies = v2
OBVIOUS

\* Evidence of a live session that is the report's.
Alike(e, r) ==
  /\ e.policy = Policy(r) /\ e.paused = FALSE /\ e.generation = 1
  /\ e.settling = FALSE /\ e.link = r.link /\ e.settled = TRUE /\ e.dwelt = {}
  /\ e.counters = r.counters /\ e.rate = (IF r.counters THEN "clean" ELSE "none")
  /\ e.peers = r.peers
  /\ e.probes = IF r.subject = "diagnosis" THEN r.results ELSE FreshProbes(Policy(r))
  /\ e.stale = {} /\ e.outcomes = [i \in 1 .. MinSamples |-> "reply"]
  /\ e.varies = (r.results["Gateway"] = "degraded")

LEMMA AsLiveSays ==
  ASSUME NEW r
  PROVE  Alike(AsLive(r), r)
<1> DEFINE probes == IF r.subject = "diagnosis" THEN r.results ELSE FreshProbes(Policy(r))
           rate == IF r.counters THEN "clean" ELSE "none"
           outcomes == [i \in 1 .. MinSamples |-> "reply"]
           varies == r.results["Gateway"] = "degraded"
           fresh == NewEvidence(Policy(r))
<1>1. fresh.probes = FreshProbes(Policy(r))
  BY DEF NewEvidence
<1>2. AsLive(r) =
        [fresh EXCEPT
           !.generation = 1, !.link = r.link, !.settled = TRUE,
           !.counters = r.counters, !.rate = rate, !.peers = r.peers,
           !.probes = IF r.subject = "diagnosis" THEN r.results ELSE fresh.probes,
           !.outcomes = outcomes, !.varies = varies]
  BY Zenon DEF AsLive
<1>3. AsLive(r) =
        [fresh EXCEPT
           !.generation = 1, !.link = r.link, !.settled = TRUE,
           !.counters = r.counters, !.rate = rate, !.peers = r.peers,
           !.probes = probes, !.outcomes = outcomes, !.varies = varies]
  BY <1>1, <1>2, Zenon
<1> DEFINE P(e) ==
             /\ e.policy = Policy(r) /\ e.paused = FALSE /\ e.generation = 1
             /\ e.settling = FALSE /\ e.link = r.link /\ e.settled = TRUE /\ e.dwelt = {}
             /\ e.counters = r.counters /\ e.rate = rate /\ e.peers = r.peers
             /\ e.probes = probes /\ e.stale = {} /\ e.outcomes = outcomes /\ e.varies = varies
<1>4. P([fresh EXCEPT
           !.generation = 1, !.link = r.link, !.settled = TRUE,
           !.counters = r.counters, !.rate = rate, !.peers = r.peers,
           !.probes = probes, !.outcomes = outcomes, !.varies = varies])
  <2> HIDE DEF probes, rate, outcomes, varies
  <2> QED
    BY EvidenceUpdated, SMTT(40) DEF NewEvidence
<1> HIDE DEF fresh
<1>5. P(AsLive(r))
  BY <1>3, <1>4, Zenon
<1> QED
  BY <1>5, Zenon DEF Alike

\* A report of evidence the host may have.
Reported(r) ==
  /\ r.subject \in Subjects
  /\ r.link.route \in BOOLEAN /\ r.link.whole \in BOOLEAN /\ r.link.radio \in BOOLEAN
  /\ r.link.medium \in {"none", "wired", "wifi"}
  /\ r.link.route => r.link.medium # "none"
  /\ r.link.radio => r.link.medium = "wifi" /\ r.subject # "peers"
  /\ r.counters \in BOOLEAN /\ r.filtered \in BOOLEAN
  /\ r.counters => r.link.route /\ r.subject # "peers"
  /\ r.filtered => r.link.route
  /\ r.subject # "link" => r.peers.health \in Health \ Pending
  /\ r.peers.failed \in BOOLEAN
  /\ \A k \in ProbeKinds :
       IF r.subject = "diagnosis" THEN r.results[k] \in Health \ Pending
       ELSE r.results[k] = "none"

LEMMA LastCoverage ==
  ASSUME NEW e, NEW mode
  PROVE  FinalProjection(e, mode).coverage =
           IF CoverageFor(e, mode) # "collecting" THEN CoverageFor(e, mode)
           ELSE IF \E c \in Claims : Progress(e, mode)[c] = "available" THEN "partial"
           ELSE "unavailable"
<1> DEFINE now == Projection(e, mode)
           progress == [c \in DOMAIN now.progress |-> Closed(e, mode, now.progress[c], c)]
           gap == now.situation.kind = "Collecting"
           coverage == IF now.coverage # "collecting" THEN now.coverage
                       ELSE IF \E c \in DOMAIN progress : progress[c] = "available"
                       THEN "partial" ELSE "unavailable"
           situation == IF gap THEN Verdict("unavailable", "EvidenceGap") ELSE now.situation
           status == IF gap THEN "unavailable" ELSE now.path_status
<1>1. /\ now = [generation |-> now.generation, situation |-> now.situation,
                path_status |-> now.path_status, coverage |-> now.coverage,
                progress |-> now.progress]
      /\ now.coverage = CoverageFor(e, mode) /\ now.progress = Progress(e, mode)
  BY DEF Projection
<1>2. FinalProjection(e, mode) =
        [now EXCEPT !.progress = progress, !.coverage = coverage,
                    !.situation = situation, !.path_status = status]
  BY Zenon DEF FinalProjection
<1>3. DOMAIN progress = Claims
  BY <1>1, ProgressOfClaims
<1>4. \A c \in Claims : progress[c] = "available" <=> Progress(e, mode)[c] = "available"
  BY <1>1, <1>3 DEF Closed
<1>5. coverage = IF CoverageFor(e, mode) # "collecting" THEN CoverageFor(e, mode)
                 ELSE IF \E c \in Claims : Progress(e, mode)[c] = "available" THEN "partial"
                 ELSE "unavailable"
  <2> HIDE DEF progress, now
  <2> QED BY <1>1, <1>3, <1>4
<1> HIDE DEF now, progress, gap, coverage, situation, status
<1>6. FinalProjection(e, mode).coverage = coverage
  BY <1>1, <1>2
<1> QED BY <1>5, <1>6

LEMMA PassiveAlike ==
  ASSUME NEW e, NEW r, Reported(r), Alike(e, r)
  PROVE  /\ Active(e) <=> r.subject = "diagnosis"
         /\ NeedsRadio(e) <=> r.link.medium = "wifi"
         /\ r.subject = "diagnosis" => \A k \in ProbeKinds : e.probes[k] = r.results[k]
BY DEF Alike, Active, NeedsRadio, Policy

LEMMA SnapshotCovered ==
  ASSUME NEW e, NEW r, Reported(r), Alike(e, r), r.subject = "snapshot"
  PROVE  /\ OverviewCoverage(e) # "collecting"
         /\ PassiveCoverage(r) = OverviewCoverage(e)
            \/ (~r.filtered /\ PassiveCoverage(r) = "partial")
<1>1. r.peers.health \in {"ok", "degraded", "failed", "unavailable"}
  BY DEF Reported, Health, Pending
<1>2. ~Active(e) /\ (NeedsRadio(e) <=> r.link.medium = "wifi")
  BY PassiveAlike
<1>3. /\ e.settling = FALSE /\ e.link = r.link /\ e.counters = r.counters
      /\ e.peers = r.peers
  BY DEF Alike
<1>4. OverviewCoverage(e) =
        IF ~r.link.route /\ ~r.link.radio /\ r.peers.health = "unavailable" THEN "unavailable"
        ELSE IF \/ r.peers.health \in {"degraded", "failed", "unavailable"}
                \/ r.peers.failed
                \/ ~r.link.route \/ ~r.link.whole \/ ~r.counters
                \/ r.link.medium = "wifi" /\ ~r.link.radio
        THEN "partial" ELSE "complete"
  BY <1>1, <1>2, <1>3 DEF OverviewCoverage
<1>5. PassiveLinkCoverage(r) =
        IF ~r.link.route /\ ~r.link.radio THEN "unavailable"
        ELSE IF \/ ~r.link.route \/ ~r.link.whole \/ ~r.counters
                \/ r.link.medium = "wifi" /\ ~r.link.radio
        THEN "partial" ELSE "complete"
  BY DEF PassiveLinkCoverage, LinkIncomplete, RadioMissing
<1>6. PassivePeerCoverage(r) =
        IF r.peers.health = "unavailable" THEN "unavailable"
        ELSE IF r.peers.health \in {"degraded", "failed"} \/ r.peers.failed \/ ~r.filtered
        THEN "partial" ELSE "complete"
  BY DEF PassivePeerCoverage
<1>7. PassiveCoverage(r) =
        IF PassiveLinkCoverage(r) = "unavailable" /\ PassivePeerCoverage(r) = "unavailable"
        THEN "unavailable"
        ELSE IF PassiveLinkCoverage(r) = "complete" /\ PassivePeerCoverage(r) = "complete"
        THEN "complete" ELSE "partial"
  BY DEF PassiveCoverage
<1> QED
  BY <1>1, <1>4, <1>5, <1>6, <1>7 DEF Reported

LEMMA ReachesAvailable ==
  ASSUME NEW states, states \subseteq {"available", "unavailable", "collecting"},
         "collecting" \notin states, "available" \in states
  PROVE  /\ ~(states \subseteq {"unavailable", "stale"})
         /\ states # {"available"} <=> "unavailable" \in states
<1>1. ASSUME "unavailable" \notin states PROVE states = {"available"}
  BY <1>1
<1>2. ASSUME states = {"available"} PROVE "unavailable" \notin states
  BY <1>2
<1>3. ~(states \subseteq {"unavailable", "stale"})
  OBVIOUS
<1> QED BY <1>1, <1>2, <1>3

LEMMA LinkCovered ==
  ASSUME NEW e, NEW r, Reported(r), Alike(e, r), r.subject = "link"
  PROVE  \/ PassiveLinkCoverage(r) = FinalProjection(e, "link").coverage
         \/ ~r.link.whole /\ PassiveLinkCoverage(r) = "partial"
<1> DEFINE progress == Progress(e, "link")
           states == {progress[c] : c \in DOMAIN progress} \ {"not_collected", "unsupported"}
<1>1. /\ e.settling = FALSE /\ e.link = r.link /\ e.counters = r.counters
      /\ e.settled = TRUE /\ (e.rate # "none" <=> r.counters) /\ ~Active(e)
  <2>1. e.rate # "none" <=> r.counters
    BY DEF Alike, Reported
  <2> QED BY <2>1, PassiveAlike DEF Alike
<1>2. /\ progress["PathContext"] = IF ~r.link.route THEN "collecting" ELSE "available"
      /\ progress["InterfaceTotals"] = IF r.counters THEN "available" ELSE "collecting"
      /\ progress["InterfaceRate"] = IF r.counters THEN "available" ELSE "collecting"
      /\ progress["RadioLink"] = RadioClaim(e)
      /\ \A c \in Claims \ {"PathContext", "InterfaceTotals", "InterfaceRate", "RadioLink"} :
           progress[c] = "not_collected"
  BY <1>1 DEF Progress, Scope, Claims
<1>3. RadioClaim(e) =
        IF r.link.medium = "none" THEN "collecting"
        ELSE IF r.link.medium = "wired" THEN "unsupported"
        ELSE IF r.link.radio THEN "available" ELSE "unavailable"
  BY <1>1 DEF RadioClaim, NeedsRadio, Reported
<1>4. DOMAIN progress = Claims
  BY ProgressOfClaims
<1> DEFINE coverage == CoverageFor(e, "link")
<1>5. coverage = IF "collecting" \in states THEN "collecting"
                 ELSE IF states \subseteq {"unavailable", "stale"} THEN "unavailable"
                 ELSE IF states # {"available"} THEN "partial"
                 ELSE "complete"
  BY DEF CoverageFor
<1> HIDE DEF progress, coverage
<1>6. states \subseteq {"available", "unavailable", "collecting"}
  BY <1>2, <1>3, <1>4
<1>7. /\ "collecting" \in states <=> (~r.link.route \/ ~r.counters \/ r.link.medium = "none")
      /\ "available" \in states <=> (r.link.route \/ r.counters \/ r.link.radio)
      /\ "unavailable" \in states <=> (r.link.medium = "wifi" /\ ~r.link.radio)
  <2>1. \A c \in Claims : progress[c] \in states \cup {"not_collected", "unsupported"}
    BY <1>4
  <2>2. \A x \in states : \E c \in Claims : x = progress[c]
    BY <1>4
  <2>3. {"PathContext", "InterfaceTotals", "InterfaceRate", "RadioLink"} \subseteq Claims
    BY DEF Claims
  <2> HIDE DEF states
  <2>a. "collecting" \in states <=> (~r.link.route \/ ~r.counters \/ r.link.medium = "none")
    BY <1>2, <1>3, <2>1, <2>2, <2>3 DEF Reported
  <2>b. "available" \in states <=> (r.link.route \/ r.counters \/ r.link.radio)
    BY <1>2, <1>3, <2>1, <2>2, <2>3 DEF Reported
  <2>c. "unavailable" \in states <=> (r.link.medium = "wifi" /\ ~r.link.radio)
    BY <1>2, <1>3, <2>1, <2>2, <2>3 DEF Reported
  <2> QED BY <2>a, <2>b, <2>c
<1>8. (\E c \in Claims : progress[c] = "available") <=> (r.link.route \/ r.counters \/ r.link.radio)
  BY <1>4, <1>7
<1> DEFINE last == FinalProjection(e, "link").coverage
<1>9. last = IF coverage # "collecting" THEN coverage
             ELSE IF r.link.route \/ r.counters \/ r.link.radio THEN "partial"
             ELSE "unavailable"
  BY <1>8, LastCoverage DEF progress, coverage
<1>10. PassiveLinkCoverage(r) =
        IF ~r.link.route /\ ~r.link.radio THEN "unavailable"
        ELSE IF \/ ~r.link.route \/ ~r.link.whole \/ ~r.counters
                \/ r.link.medium = "wifi" /\ ~r.link.radio
        THEN "partial" ELSE "complete"
  BY DEF PassiveLinkCoverage, LinkIncomplete, RadioMissing
<1> HIDE DEF states, last
<1>11. CASE "collecting" \in states
  BY <1>5, <1>7, <1>9, <1>10, <1>11 DEF Reported, last
<1>12. CASE "collecting" \notin states
  <2>1. r.link.route /\ r.counters /\ r.link.medium \in {"wired", "wifi"}
    BY <1>7, <1>12 DEF Reported
  <2>2. /\ ~(states \subseteq {"unavailable", "stale"})
        /\ states # {"available"} <=> "unavailable" \in states
    BY <1>6, <1>7, <1>12, <2>1, ReachesAvailable
  <2> QED BY <1>5, <1>7, <1>9, <1>10, <1>12, <2>1, <2>2 DEF Reported, last
<1> QED BY <1>11, <1>12

LEMMA PeersCovered ==
  ASSUME NEW e, NEW r, Reported(r), Alike(e, r), r.subject = "peers"
  PROVE  LET coverage == PassivePeerCoverage(r)
             last == FinalProjection(e, "peers").coverage
         IN IF coverage = "unavailable" /\ r.link.route THEN last = "partial"
            ELSE \/ coverage = last
                 \/ /\ ~r.filtered \/ r.peers.failed \/ r.peers.health = "degraded"
                    /\ coverage = "partial"
<1> DEFINE progress == Progress(e, "peers")
           states == {progress[c] : c \in DOMAIN progress} \ {"not_collected", "unsupported"}
           cache == CollectorClaim(r.peers.health)
<1>0. r.peers.health \in {"ok", "degraded", "failed", "unavailable"}
  BY DEF Reported, Health, Pending
<1>1. e.settling = FALSE /\ e.link = r.link /\ e.peers = r.peers /\ ~Active(e)
  BY PassiveAlike DEF Alike
<1>2. /\ progress["PathContext"] = IF ~r.link.route THEN "collecting" ELSE "available"
      /\ progress["NeighborCache"] = cache
      /\ \A c \in Claims \ {"PathContext", "NeighborCache"} : progress[c] = "not_collected"
  BY <1>1 DEF Progress, Scope, Claims
<1>3. cache = IF r.peers.health \in {"unavailable", "failed"} THEN "unavailable" ELSE "available"
  BY <1>0 DEF CollectorClaim, Pending
<1>4. DOMAIN progress = Claims
  BY ProgressOfClaims
<1> DEFINE covers == CoverageFor(e, "peers")
<1>5. covers = IF "collecting" \in states THEN "collecting"
               ELSE IF states \subseteq {"unavailable", "stale"} THEN "unavailable"
               ELSE IF states # {"available"} THEN "partial"
               ELSE "complete"
  BY DEF CoverageFor
<1> HIDE DEF progress, covers, cache
<1>6. states \subseteq {"available", "unavailable", "collecting"}
  BY <1>2, <1>3, <1>4
<1>7. /\ "collecting" \in states <=> ~r.link.route
      /\ "available" \in states <=> (r.link.route \/ cache = "available")
      /\ "unavailable" \in states <=> cache = "unavailable"
  <2>1. \A c \in Claims : progress[c] \in states \cup {"not_collected", "unsupported"}
    BY <1>4
  <2>2. \A x \in states : \E c \in Claims : x = progress[c]
    BY <1>4
  <2>3. {"PathContext", "NeighborCache"} \subseteq Claims
    BY DEF Claims
  <2> HIDE DEF states
  <2> QED BY <1>2, <1>3, <2>1, <2>2, <2>3 DEF Reported
<1>8. (\E c \in Claims : progress[c] = "available") <=> (r.link.route \/ cache = "available")
  BY <1>4, <1>7
<1> DEFINE last == FinalProjection(e, "peers").coverage
<1>9. last = IF covers # "collecting" THEN covers
             ELSE IF r.link.route \/ cache = "available" THEN "partial"
             ELSE "unavailable"
  BY <1>8, LastCoverage DEF progress, covers
<1>10. PassivePeerCoverage(r) =
        IF r.peers.health = "unavailable" THEN "unavailable"
        ELSE IF r.peers.health \in {"degraded", "failed"} \/ r.peers.failed \/ ~r.filtered
        THEN "partial" ELSE "complete"
  BY DEF PassivePeerCoverage
<1> HIDE DEF states, last
<1>11. CASE "collecting" \in states
  BY <1>0, <1>3, <1>5, <1>7, <1>9, <1>10, <1>11 DEF Reported, last
<1>12. CASE "collecting" \notin states
  <2>1. r.link.route
    BY <1>7, <1>12 DEF Reported
  <2>2. /\ ~(states \subseteq {"unavailable", "stale"})
        /\ states # {"available"} <=> "unavailable" \in states
    BY <1>6, <1>7, <1>12, <2>1, ReachesAvailable
  <2> QED BY <1>0, <1>3, <1>5, <1>7, <1>9, <1>10, <1>12, <2>1, <2>2 DEF Reported, last
<1> QED BY <1>11, <1>12

LEMMA DiagnosisCovered ==
  ASSUME NEW e, NEW r, Reported(r), Alike(e, r), r.subject = "diagnosis"
  PROVE  /\ OverviewCoverage(e) # "collecting"
         /\ IF SnapshotCoverage(r) = "unavailable" /\ r.link.route
            THEN OverviewCoverage(e) = "partial"
            ELSE SnapshotCoverage(r) = OverviewCoverage(e)
<1> DEFINE probes == {r.results[k] : k \in ProbeKinds}
           none == \A k \in ProbeKinds : r.results[k] = "unavailable"
           some == \E k \in ProbeKinds : r.results[k] = "unavailable"
<1>1. /\ r.peers.health \in {"ok", "degraded", "failed", "unavailable"}
      /\ \A k \in ProbeKinds : r.results[k] \notin Pending
  BY DEF Reported, Health, Pending
<1>2. /\ Active(e) /\ (NeedsRadio(e) <=> r.link.medium = "wifi")
      /\ \A k \in ProbeKinds : e.probes[k] = r.results[k]
  BY PassiveAlike
<1>3. /\ e.settling = FALSE /\ e.link = r.link /\ e.counters = r.counters
      /\ e.peers = r.peers /\ e.stale = {}
  BY DEF Alike
<1>4. OverviewCoverage(e) =
        IF ~r.link.route /\ ~r.link.radio /\ r.peers.health = "unavailable" /\ none
        THEN "unavailable"
        ELSE IF \/ some \/ r.peers.health \in {"degraded", "failed", "unavailable"}
                \/ r.peers.failed
                \/ ~r.link.route \/ ~r.link.whole \/ ~r.counters
                \/ r.link.medium = "wifi" /\ ~r.link.radio
        THEN "partial" ELSE "complete"
  BY <1>1, <1>2, <1>3 DEF OverviewCoverage
<1>5. (probes = {"unavailable"} <=> none) /\ ("unavailable" \in probes <=> some) /\ (none => some)
  BY DEF ProbeKinds
<1>6. SnapshotCoverage(r) =
        IF /\ none /\ r.peers.health = "unavailable"
           /\ r.link.medium # "wifi" \/ ~r.link.radio
        THEN "unavailable"
        ELSE IF \/ some \/ r.peers.health \in {"degraded", "failed", "unavailable"}
                \/ r.peers.failed
                \/ r.link.medium = "wifi" /\ ~r.link.radio
                \/ ~r.link.route \/ ~r.link.whole \/ ~r.counters
        THEN "partial" ELSE "complete"
  <2>1. SnapshotCoverage(r) =
        IF /\ probes = {"unavailable"} /\ r.peers.health = "unavailable"
           /\ r.link.medium # "wifi" \/ RadioMissing(r)
        THEN "unavailable"
        ELSE IF \/ "unavailable" \in probes
                \/ r.peers.health \in {"degraded", "failed", "unavailable"}
                \/ r.peers.failed
                \/ RadioMissing(r) \/ LinkIncomplete(r)
        THEN "partial" ELSE "complete"
    BY Zenon DEF SnapshotCoverage
  <2> HIDE DEF probes, none, some
  <2> QED BY <1>5, <2>1 DEF RadioMissing, LinkIncomplete
<1> HIDE DEF probes, none, some
<1> QED
  BY <1>4, <1>5, <1>6 DEF Reported

\* A window of replies only is degraded where their times vary too much.
LEMMA AllReplied ==
  ASSUME NEW e, NEW r, Alike(e, r)
  PROVE  GatewayDegraded(e) <=> r.results["Gateway"] = "degraded"
<1>1. /\ MinSamples \in Nat \ {0} /\ Window \in Nat /\ MinSamples <= Window
  BY WindowAssumption
<1> DEFINE all == [i \in 1 .. MinSamples |-> "reply"]
<1>2. e.outcomes = all /\ (e.varies <=> r.results["Gateway"] = "degraded")
  BY DEF Alike
<1>3. all \in Seq({"reply"}) /\ Len(all) = MinSamples
  BY <1>1
<1>4. Assessed(e) = SubSeq(all, 1, MinSamples)
  BY <1>1, <1>2, <1>3 DEF Assessed
<1>5. SubSeq(all, 1, MinSamples) = all
  BY <1>1, <1>3
<1>6. Assessed(e) = all /\ Len(Assessed(e)) = MinSamples
  BY <1>3, <1>4, <1>5
<1>7. {i \in DOMAIN Assessed(e) : Assessed(e)[i] = "reply"} = 1 .. MinSamples
  BY <1>1, <1>6
<1>8. Cardinality(1 .. MinSamples) = MinSamples
  BY <1>1, FS_Interval
<1>9. Replies(e) = MinSamples
  BY <1>7, <1>8 DEF Replies
<1>10. Losses(e) = 0
  BY <1>1, <1>6, <1>9 DEF Losses
<1> QED
  BY <1>1, <1>2, <1>6, <1>9, <1>10 DEF GatewayDegraded

LEMMA DiagnosisConcludes ==
  ASSUME NEW e, NEW r, Reported(r), Alike(e, r), r.subject = "diagnosis"
  PROVE  /\ PathStatus(e, Situation(e)) = SnapshotStatus(r.results)
         /\ InteractiveUse(r) = "degraded" <=>
              SnapshotStatus(r.results) \in {"failed", "degraded"}
         /\ InteractiveUse(r) = "ready" => Situation(e).kind \in {"Ready", "EvidenceGap"}
<1> DEFINE g == r.results["Gateway"]
           d == r.results["Dns"]
           h == r.results["Https"]
           path == {r.results[k] : k \in PathKinds}
           rules == SituationRules(e)
<1>1. /\ {g, d, h} \subseteq {"ok", "degraded", "failed", "unavailable"}
      /\ e.probes["Gateway"] = g /\ e.probes["Dns"] = d /\ e.probes["Https"] = h
      /\ path = {g, d, h} /\ Active(e)
  <2>1. path = {g, d, h}
    BY DEF PathKinds
  <2>2. \A k \in {"Gateway", "Dns", "Https"} : k \in ProbeKinds
    BY DEF ProbeKinds
  <2>3. /\ {g, d, h} \subseteq {"ok", "degraded", "failed", "unavailable"}
    BY <2>2 DEF Reported, Health, Pending
  <2>4. e.probes["Gateway"] = g /\ e.probes["Dns"] = d /\ e.probes["Https"] = h /\ Active(e)
    BY <2>2, PassiveAlike
  <2> QED BY <2>1, <2>3, <2>4
<1>2. /\ e.paused = FALSE /\ e.settling = FALSE /\ e.rate # "loss" /\ ~StalePath(e)
      /\ GatewayDegraded(e) <=> g = "degraded"
  BY AllReplied DEF Alike, StalePath
<1>3. /\ ~rules[1][1] /\ ~rules[2][1] /\ ~rules[4][1] /\ ~rules[5][1] /\ ~rules[6][1]
      /\ ~rules[7][1] /\ ~rules[8][1] /\ ~rules[9][1] /\ ~rules[12][1] /\ ~rules[18][1]
  BY <1>1, <1>2 DEF SituationRules, Pending
<1>4. /\ rules[3][1] <=> g = "failed"
      /\ rules[10][1] <=> g = "unavailable" /\ (d = "failed" \/ h = "failed")
      /\ rules[11][1] <=> d = "failed"
      /\ rules[13][1] <=> d = "unavailable" /\ h = "failed"
      /\ rules[14][1] <=> h = "failed"
  BY <1>1 DEF SituationRules
<1>5. /\ rules[15][1] <=> g = "degraded"
      /\ rules[16][1] <=> d = "degraded"
      /\ rules[17][1] <=> h = "degraded"
      /\ rules[19][1] <=> g = "unavailable" /\ d = "unavailable" /\ h = "unavailable"
  BY <1>1, <1>2 DEF SituationRules, PathKinds
<1>6. /\ \A i \in {3, 10, 11, 13, 14} : rules[i][2].health = "failed"
      /\ \A i \in {15, 16, 17} : rules[i][2].health = "degraded"
      /\ rules[19][2].health = "unavailable"
      /\ \A i \in {20, 21} : /\ rules[i][2].health = "ok"
                             /\ rules[i][2].kind \in {"Ready", "EvidenceGap"}
  BY DEF SituationRules, Verdict
<1>7. PICK i \in 1 .. 21 :
        /\ rules[i][1] /\ \A j \in 1 .. i - 1 : ~rules[j][1]
        /\ Situation(e) = rules[i][2]
  BY FirstRule
<1>8. SnapshotStatus(r.results) =
        IF "failed" \in {g, d, h} THEN "failed"
        ELSE IF "degraded" \in {g, d, h} THEN "degraded"
        ELSE IF g = "unavailable" /\ d = "unavailable" /\ h = "unavailable" THEN "unavailable"
        ELSE "ok"
  <2>1. SnapshotStatus(r.results) =
          CASE "failed" \in path -> "failed"
            [] "failed" \notin path /\ "degraded" \in path -> "degraded"
            [] path = {"unavailable"} -> "unavailable"
            [] OTHER -> "ok"
    BY DEF SnapshotStatus
  <2> HIDE DEF path, g, d, h
  <2>2. path = {"unavailable"} <=> g = "unavailable" /\ d = "unavailable" /\ h = "unavailable"
    BY <1>1
  <2> QED BY <1>1, <2>1, <2>2
<1> HIDE DEF rules
<1>9. i \in {3, 10, 11, 13, 14, 15, 16, 17, 19, 20, 21}
  BY <1>3, <1>7
<1>a. PathStatus(e, Situation(e)) =
        IF Situation(e).health \in {"ok", "degraded", "failed"} THEN Situation(e).health
        ELSE "unavailable"
  BY <1>1 DEF PathStatus
<1>b. /\ InteractiveUse(r) = "degraded" <=>
           "failed" \in {g, d, h} \/ "degraded" \in {g, d, h}
      /\ InteractiveUse(r) = "ready" => g = "ok" /\ d = "ok" /\ h = "ok"
  <2>1. InteractiveUse(r) =
          IF path \cap {"failed", "degraded"} # {} THEN "degraded"
          ELSE IF ~r.link.route \/ ~r.link.whole \/ path # {"ok"} THEN "insufficient"
          ELSE "ready"
    BY Zenon DEF InteractiveUse
  <2> HIDE DEF path, g, d, h
  <2>2. path \cap {"failed", "degraded"} # {} <=> "failed" \in {g, d, h} \/ "degraded" \in {g, d, h}
    BY <1>1
  <2>3. path = {"ok"} => g = "ok" /\ d = "ok" /\ h = "ok"
    BY <1>1
  <2> QED BY <2>1, <2>2, <2>3
<1>10. CASE "failed" \in {g, d, h}
  <2>1. rules[3][1] \/ rules[11][1] \/ rules[14][1]
    BY <1>4, <1>10
  <2>2. i <= 14
    BY <1>7, <2>1
  <2>3. i \in {3, 10, 11, 13, 14}
    BY <1>9, <2>2
  <2> QED BY <1>a, <1>b, <1>6, <1>7, <1>8, <1>10, <2>3
<1>11. CASE "failed" \notin {g, d, h} /\ "degraded" \in {g, d, h}
  <2>1. rules[15][1] \/ rules[16][1] \/ rules[17][1]
    BY <1>5, <1>11
  <2>2. i <= 17
    BY <1>7, <2>1
  <2>3. i \notin {3, 10, 11, 13, 14}
    BY <1>4, <1>7, <1>11
  <2>4. i \in {15, 16, 17}
    BY <1>9, <2>2, <2>3
  <2> QED BY <1>a, <1>b, <1>6, <1>7, <1>8, <1>11, <2>4
<1>12. CASE g = "unavailable" /\ d = "unavailable" /\ h = "unavailable"
  <2>1. rules[19][1]
    BY <1>5, <1>12
  <2>2. i <= 19
    BY <1>7, <2>1
  <2>3. i \notin {3, 10, 11, 13, 14, 15, 16, 17}
    BY <1>4, <1>5, <1>7, <1>12
  <2>4. i = 19
    BY <1>9, <2>2, <2>3
  <2> QED BY <1>a, <1>b, <1>6, <1>7, <1>8, <1>12, <2>4
<1>13. CASE /\ "failed" \notin {g, d, h} /\ "degraded" \notin {g, d, h}
            /\ ~(g = "unavailable" /\ d = "unavailable" /\ h = "unavailable")
  <2>1. i \in {20, 21}
    BY <1>4, <1>5, <1>7, <1>9, <1>13
  <2> QED BY <1>a, <1>b, <1>6, <1>7, <1>8, <1>13, <2>1
<1> QED BY <1>10, <1>11, <1>12, <1>13

\* The coverage of any report, as VerdictsAgree states it.
LEMMA CoverageAgrees ==
  ASSUME NEW r, Reported(r)
  PROVE  LET strict == CASE r.subject = "snapshot" -> ~r.filtered
                         [] r.subject = "peers" ->
                              ~r.filtered \/ r.peers.failed \/ r.peers.health = "degraded"
                         [] r.subject = "link" -> ~r.link.whole
                         [] OTHER -> FALSE
         IN IF r.subject \in {"diagnosis", "peers"} /\ Coverage(r) = "unavailable" /\ r.link.route
            THEN LiveCoverage(r) = "partial"
            ELSE Coverage(r) = LiveCoverage(r) \/ (strict /\ Coverage(r) = "partial")
<1> DEFINE e == AsLive(r)
<1>1. Alike(e, r)
  BY AsLiveSays
<1>2. LiveCoverage(r) = FinalProjection(e, LiveMode(r)).coverage
  BY DEF LiveCoverage
<1>3. CoverageFor(e, "overview") = OverviewCoverage(e)
  BY DEF CoverageFor
<1> HIDE DEF e
<1>4. CASE r.subject = "snapshot"
  <2>1. LiveMode(r) = "overview" /\ Coverage(r) = PassiveCoverage(r)
    BY <1>4 DEF LiveMode, Coverage
  <2>2. LiveCoverage(r) = OverviewCoverage(e)
    BY <1>1, <1>2, <1>3, <1>4, <2>1, LastCoverage, SnapshotCovered
  <2> QED BY <1>1, <1>4, <2>1, <2>2, SnapshotCovered
<1>5. CASE r.subject = "diagnosis"
  <2>1. LiveMode(r) = "overview" /\ Coverage(r) = SnapshotCoverage(r)
    BY <1>5 DEF LiveMode, Coverage
  <2>2. LiveCoverage(r) = OverviewCoverage(e)
    BY <1>1, <1>2, <1>3, <1>5, <2>1, LastCoverage, DiagnosisCovered
  <2> QED BY <1>1, <1>5, <2>1, <2>2, DiagnosisCovered
<1>6. CASE r.subject = "link"
  <2>1. LiveMode(r) = "link" /\ Coverage(r) = PassiveLinkCoverage(r)
    BY <1>6 DEF LiveMode, Coverage
  <2> QED BY <1>1, <1>2, <1>6, <2>1, LinkCovered
<1>7. CASE r.subject = "peers"
  <2>1. LiveMode(r) = "peers" /\ Coverage(r) = PassivePeerCoverage(r)
    BY <1>7 DEF LiveMode, Coverage
  <2> QED BY <1>1, <1>2, <1>7, <2>1, PeersCovered
<1> QED BY <1>4, <1>5, <1>6, <1>7 DEF Reported, Subjects

\* Text and document.
LEMMA TextAgrees ==
  ASSUME NEW r, Reported(r)
  PROVE  /\ Text(r).status = Document(r).status /\ Text(r).coverage = Document(r).coverage
         /\ Text(r).shows = Document(r).evidence
              \ (IF r.subject = "diagnosis" THEN {"radio", "counters"} ELSE {})
         /\ Document(r).status = Status(r) /\ Document(r).coverage = Coverage(r)
         /\ Document(r).evidence = Holds(r)
<1>1. /\ Document(r).status = Status(r) /\ Document(r).coverage = Coverage(r)
      /\ Document(r).evidence = Holds(r)
  BY DEF Document
<1>2. Holds(r) \subseteq {"path", "radio", "counters", "neighbors"} \cup ProbeKinds
  BY DEF Holds
<1>3. r.subject # "diagnosis" => Holds(r) \cap ProbeKinds = {}
  <2>1. {"path", "radio", "counters", "neighbors"} \cap ProbeKinds = {}
    BY DEF ProbeKinds
  <2>2. r.subject # "diagnosis" =>
          {k \in ProbeKinds : r.results[k] \notin {"none", "unavailable"}} = {}
    BY DEF Reported
  <2> QED BY <2>1, <2>2 DEF Holds
<1>4. /\ r.subject = "link" => "neighbors" \notin Holds(r)
      /\ r.subject = "peers" => "radio" \notin Holds(r) /\ "counters" \notin Holds(r)
  BY DEF Holds, Reads, ProbeKinds, Reported
<1>5. {"radio", "counters"} \cap ProbeKinds = {}
  BY DEF ProbeKinds
<1> DEFINE held == Holds(r)
<1>6. CASE r.subject = "snapshot"
  <2>1. Text(r) = SnapshotText(r) /\ Coverage(r) = PassiveCoverage(r) /\ Status(r) = "untested"
    BY <1>6 DEF Text, Coverage, Status
  <2>2. Text(r).shows = held \cap {"path", "radio", "neighbors", "counters"}
        /\ Text(r).status = "untested" /\ Text(r).coverage = PassiveCoverage(r)
    BY <2>1 DEF SnapshotText
  <2> HIDE DEF held
  <2>3. held \cap {"path", "radio", "neighbors", "counters"} = held
    BY <1>2, <1>3, <1>6 DEF held
  <2> QED BY <1>1, <1>6, <2>1, <2>2, <2>3 DEF held
<1>7. CASE r.subject = "diagnosis"
  <2>1. Text(r) = ProbeText(r) /\ Coverage(r) = SnapshotCoverage(r)
        /\ Status(r) = SnapshotStatus(r.results)
    BY <1>7 DEF Text, Coverage, Status
  <2>2. Text(r).shows = held \cap ({"path", "neighbors"} \cup ProbeKinds)
        /\ Text(r).status = SnapshotStatus(r.results) /\ Text(r).coverage = SnapshotCoverage(r)
    BY <2>1 DEF ProbeText
  <2> HIDE DEF held
  <2>3. held \cap ({"path", "neighbors"} \cup ProbeKinds) = held \ {"radio", "counters"}
    BY <1>2, <1>5 DEF held
  <2> QED BY <1>1, <1>7, <2>1, <2>2, <2>3 DEF held
<1>8. CASE r.subject = "link"
  <2>1. Text(r) = LinkText(r) /\ Coverage(r) = PassiveLinkCoverage(r) /\ Status(r) = "untested"
    BY <1>8 DEF Text, Coverage, Status
  <2>2. Text(r).shows = held \cap {"path", "radio", "counters"}
        /\ Text(r).status = "untested" /\ Text(r).coverage = PassiveLinkCoverage(r)
    BY <2>1 DEF LinkText
  <2> HIDE DEF held
  <2>3. held \cap {"path", "radio", "counters"} = held
    BY <1>2, <1>3, <1>4, <1>8 DEF held
  <2> QED BY <1>1, <1>8, <2>1, <2>2, <2>3 DEF held
<1>9. CASE r.subject = "peers"
  <2>1. Text(r) = PeersText(r) /\ Coverage(r) = PassivePeerCoverage(r) /\ Status(r) = "untested"
    BY <1>9 DEF Text, Coverage, Status
  <2>2. Text(r).shows = held \cap {"path", "neighbors"}
        /\ Text(r).status = "untested" /\ Text(r).coverage = PassivePeerCoverage(r)
    BY <2>1 DEF PeersText
  <2> HIDE DEF held
  <2>3. held \cap {"path", "neighbors"} = held
    BY <1>2, <1>3, <1>4, <1>9 DEF held
  <2> QED BY <1>1, <1>9, <2>1, <2>2, <2>3 DEF held
<1> QED BY <1>1, <1>6, <1>7, <1>8, <1>9 DEF Reported, Subjects

\* A complete report holds what its subject reads.
LEMMA CompleteHolds ==
  ASSUME NEW r, Reported(r), Coverage(r) = "complete"
  PROVE  (Reads(r.subject) \ (IF NeedsRadio(AsLive(r)) THEN {} ELSE {"radio"}))
           \cup (IF Active(AsLive(r)) THEN ProbeKinds ELSE {}) \subseteq Holds(r)
<1>1. /\ NeedsRadio(AsLive(r)) <=> r.link.medium = "wifi"
      /\ Active(AsLive(r)) <=> r.subject = "diagnosis"
  BY AsLiveSays, PassiveAlike
<1>2. /\ r.subject # "peers" => r.counters /\ (r.link.medium = "wifi" => r.link.radio)
      /\ r.subject # "link" => r.peers.health # "unavailable"
      /\ r.subject = "diagnosis" =>
           \A k \in ProbeKinds : r.results[k] \notin {"none", "unavailable"}
  <2>1. CASE r.subject = "snapshot"
    BY <2>1 DEF Coverage, PassiveCoverage, PassiveLinkCoverage, PassivePeerCoverage,
                LinkIncomplete, RadioMissing
  <2>2. CASE r.subject = "link"
    BY <2>2 DEF Coverage, PassiveLinkCoverage, LinkIncomplete, RadioMissing
  <2>3. CASE r.subject = "peers"
    BY <2>3 DEF Coverage, PassivePeerCoverage
  <2>4. CASE r.subject = "diagnosis"
    <3>1. SnapshotCoverage(r) = "complete"
      BY <2>4 DEF Coverage
    <3>2. /\ "unavailable" \notin {r.results[k] : k \in ProbeKinds}
          /\ r.peers.health # "unavailable" /\ ~RadioMissing(r) /\ ~LinkIncomplete(r)
      BY <3>1 DEF SnapshotCoverage
    <3>3. \A k \in ProbeKinds : r.results[k] \notin {"none", "unavailable"}
      BY <2>4, <3>2 DEF Reported, Health
    <3> QED BY <2>4, <3>2, <3>3 DEF RadioMissing, LinkIncomplete
  <2> QED BY <2>1, <2>2, <2>3, <2>4 DEF Reported, Subjects
<1>3. Reads(r.subject) = CASE r.subject = "link" -> {"radio", "counters"}
                           [] r.subject = "peers" -> {"neighbors"}
                           [] OTHER -> {"radio", "counters", "neighbors"}
  BY DEF Reads
<1>4. /\ "counters" \in Reads(r.subject) => "counters" \in Holds(r)
      /\ "neighbors" \in Reads(r.subject) => "neighbors" \in Holds(r)
      /\ "radio" \in Reads(r.subject) /\ r.link.medium = "wifi" => "radio" \in Holds(r)
  BY <1>2, <1>3 DEF Holds
<1>5. r.subject = "diagnosis" => ProbeKinds \subseteq Holds(r)
  BY <1>2 DEF Holds
<1>6. Reads(r.subject) \subseteq {"radio", "counters", "neighbors"}
  BY <1>3
<1> QED BY <1>1, <1>4, <1>5, <1>6

\* What stands in a report for each probe: its result, if it was taken in time.
Collected(r, ended) ==
  /\ r.answered \subseteq ProbeKinds
  /\ \A k \in ProbeKinds :
       IF k \in r.answered
       THEN r.results[k] = ended[k] /\ ended[k] \in Health \ Pending
       ELSE r.results[k] = IF r.subject = "diagnosis" THEN Missing(k) ELSE "none"

LEMMA ExitTells ==
  ASSUME NEW r, NEW ended, Reported(r), Collected(r, ended)
  PROVE  /\ ExitStatus(r) = 2 <=>
              \/ r.subject = "diagnosis" /\ Status(r) = "unavailable"
              \/ r.subject = "peers" /\ Coverage(r) = "unavailable"
         /\ r.subject = "diagnosis" /\ ExitStatus(r) = 0 =>
              /\ PathKinds \subseteq r.answered
              /\ \A k \in PathKinds : ended[k] \in {"ok", "degraded", "unavailable"}
<1>1. ExitStatus(r) = IF r.subject = "diagnosis" /\ Status(r) = "failed" THEN 1
                      ELSE IF \/ r.subject = "diagnosis" /\ Status(r) = "unavailable"
                              \/ r.subject = "peers" /\ r.peers.health = "unavailable"
                      THEN 2 ELSE 0
  BY DEF ExitStatus
<1>2. r.subject = "peers" => (Coverage(r) = "unavailable" <=> r.peers.health = "unavailable")
  BY DEF Coverage, PassivePeerCoverage
<1>3. ASSUME r.subject = "diagnosis", ExitStatus(r) = 0
      PROVE  /\ PathKinds \subseteq r.answered
             /\ \A k \in PathKinds : ended[k] \in {"ok", "degraded", "unavailable"}
  <2>1. SnapshotStatus(r.results) # "failed"
    BY <1>1, <1>3 DEF Status
  <2>2. "failed" \notin {r.results[k] : k \in PathKinds}
    BY <2>1 DEF SnapshotStatus
  <2>3. \A k \in PathKinds : r.results[k] # "failed"
    BY <2>2
  <2>4. PathKinds \subseteq ProbeKinds
    BY DEF PathKinds, ProbeKinds
  <2>5. \A k \in PathKinds : k \in r.answered /\ ended[k] \in Health \ Pending /\ ended[k] # "failed"
    BY <1>3, <2>3, <2>4 DEF Collected, Missing
  <2> QED BY <2>5 DEF Health, Pending
<1> QED BY <1>1, <1>2, <1>3

LEMMA ReportsAgree ==
  ASSUME shot.phase = "reported" => Reported(shot) /\ Collected(shot, probing)
  PROVE  VerdictsAgree
<1> SUFFICES ASSUME shot.phase = "reported" PROVE VerdictsAgree
  BY DEF VerdictsAgree
<1> DEFINE live == AsLive(shot)
<1>1. Reported(shot) /\ Collected(shot, probing)
  OBVIOUS
<1>2. Alike(live, shot)
  BY AsLiveSays
<1>3. shot.subject = "diagnosis" =>
        /\ Status(shot) = PathStatus(live, Situation(live))
        /\ InteractiveUse(shot) = "degraded" <=> Status(shot) \in {"failed", "degraded"}
        /\ InteractiveUse(shot) = "ready" => Situation(live).kind \in {"Ready", "EvidenceGap"}
  <2> HIDE DEF live
  <2> QED BY <1>1, <1>2, DiagnosisConcludes DEF Status
<1> QED
  BY <1>1, <1>3, CoverageAgrees, TextAgrees, CompleteHolds, ExitTells DEF VerdictsAgree

\* A report is put together from what its host may have, and from results as
\* they were sent.
ShotInvariant ==
  /\ shot = [phase |-> shot.phase, subject |-> shot.subject, now |-> shot.now,
             link |-> shot.link, counters |-> shot.counters, filtered |-> shot.filtered,
             peers |-> shot.peers, results |-> shot.results, answered |-> shot.answered]
  /\ shot.subject \in Subjects
  /\ shot.link \in LinkEvidence /\ (shot.link.route => shot.link.medium # "none")
  /\ DOMAIN shot.results = ProbeKinds /\ DOMAIN probing = ProbeKinds
  /\ inbox \in Seq({k \in ProbeKinds : probing[k] \in Health \ Pending})
  /\ probing["PublicIp"] \notin {"degraded", "failed"}
  /\ shot.phase \in {"off", "probing", "joining", "reported"}
  /\ shot.phase = "off" => shot.subject = "snapshot" /\ inbox = <<>>
  /\ shot.subject # "diagnosis" => shot.answered = {}
  /\ shot.phase = "probing" => shot.subject = "diagnosis"
  /\ IF shot.phase = "probing"
     THEN /\ shot.answered \subseteq ProbeKinds
          /\ \A k \in shot.answered :
               shot.results[k] = probing[k] /\ probing[k] \in Health \ Pending
     ELSE Collected(shot, probing)
  /\ shot.phase # "reported" =>
       ~shot.counters /\ ~shot.filtered /\ shot.peers = [health |-> "queued", failed |-> FALSE]
  /\ shot.phase = "reported" => Reported(shot)

LEMMA ShotInitially == ShotInit => ShotInvariant
<1> SUFFICES ASSUME ShotInit PROVE ShotInvariant
  OBVIOUS
<1> DEFINE none == [k \in ProbeKinds |-> "none"]
<1>1. /\ shot.phase = "off" /\ shot.subject = "snapshot" /\ shot.link = NoLink
      /\ shot.counters = FALSE /\ shot.filtered = FALSE
      /\ shot.peers = [health |-> "queued", failed |-> FALSE]
      /\ shot.results = none /\ shot.answered = {}
      /\ probing = none /\ inbox = <<>>
  BY DEF ShotInit
<1>2. shot = [phase |-> shot.phase, subject |-> shot.subject, now |-> shot.now,
             link |-> shot.link, counters |-> shot.counters, filtered |-> shot.filtered,
             peers |-> shot.peers, results |-> shot.results, answered |-> shot.answered]
  BY DEF ShotInit
<1>3. NoLink \in LinkEvidence /\ ~NoLink.route
  BY DEF NoLink, LinkEvidence
<1>4. Collected(shot, probing)
  BY <1>1 DEF Collected
<1>5. probing["PublicIp"] = "none"
  BY <1>1 DEF ProbeKinds
<1> QED
  BY <1>1, <1>2, <1>3, <1>4, <1>5 DEF ShotInvariant, Subjects

LEMMA ShotKeeps ==
  ASSUME ShotInvariant, UNCHANGED shotVars
  PROVE  ShotInvariant'
BY DEF shotVars, ShotInvariant, Collected, Reported

LEMMA StartKeeps ==
  ASSUME ShotInvariant, StartShot
  PROVE  ShotInvariant'
<1>1. PICK link \in ShotLinks, what \in Subjects :
        /\ shot' = [shot EXCEPT !.phase = IF what = "diagnosis" THEN "probing" ELSE "joining",
                                !.subject = what, !.link = link]
        /\ probing' = IF what = "diagnosis" THEN [k \in ProbeKinds |-> "running"] ELSE probing
  BY DEF StartShot
<1>2. /\ shot.phase = "off" /\ inbox' = inbox
      /\ link \in LinkEvidence /\ (link.route => link.medium # "none")
  BY ShotAssumption DEF StartShot
<1>3. /\ shot' = [phase |-> shot'.phase, subject |-> shot'.subject, now |-> shot'.now,
                  link |-> shot'.link, counters |-> shot'.counters,
                  filtered |-> shot'.filtered, peers |-> shot'.peers,
                  results |-> shot'.results, answered |-> shot'.answered]
      /\ shot'.phase = IF what = "diagnosis" THEN "probing" ELSE "joining"
      /\ shot'.subject = what /\ shot'.link = link /\ shot'.counters = shot.counters
      /\ shot'.filtered = shot.filtered /\ shot'.peers = shot.peers
      /\ shot'.results = shot.results /\ shot'.answered = shot.answered
  BY <1>1 DEF ShotInvariant
<1>4. shot.answered = {} /\ \A k \in ProbeKinds : shot.results[k] = "none"
  BY <1>2 DEF ShotInvariant, Collected
<1>5. DOMAIN probing' = ProbeKinds
  BY <1>1 DEF ShotInvariant
<1>6. inbox' = <<>>
  BY <1>2 DEF ShotInvariant
<1>7. shot'.phase = "joining" => Collected(shot', probing')
  BY <1>3, <1>4 DEF Collected
<1>8. probing'["PublicIp"] \notin {"degraded", "failed"}
  BY <1>1 DEF ShotInvariant, ProbeKinds
<1> QED
  BY <1>2, <1>3, <1>4, <1>5, <1>6, <1>7, <1>8 DEF ShotInvariant

LEMMA AnswerKeeps ==
  ASSUME ShotInvariant, NEW kind \in ProbeKinds, ProbeAnswers(kind) \/ ProbeDies(kind)
  PROVE  ShotInvariant'
<1> DEFINE done == {k \in ProbeKinds : probing[k] \in Health \ Pending}
<1>1. /\ probing[kind] = "running" /\ shot.phase = "probing" /\ shot' = shot
      /\ "running" \notin Health \ Pending
  BY DEF ProbeAnswers, ProbeDies, Pending
<1>2. PICK health : probing' = [probing EXCEPT ![kind] = health]
                    /\ (kind = "PublicIp" => health \notin {"degraded", "failed"})
                    /\ \/ health \in Health \ Pending /\ inbox' = Append(inbox, kind)
                       \/ inbox' = inbox
  <2>1. CASE ProbeDies(kind)
    BY <2>1 DEF ProbeDies
  <2>2. CASE ProbeAnswers(kind)
    <3>1. /\ ShotResults[kind] \subseteq Health \ Pending
          /\ "unavailable" \in Health \ Pending
          /\ kind = "PublicIp" => ShotResults[kind] \subseteq {"ok", "unavailable"}
      BY ShotAssumption DEF Health, Pending
    <3> QED BY <2>2, <3>1 DEF ProbeAnswers
  <2> QED BY <2>1, <2>2
<1>3. /\ DOMAIN probing' = ProbeKinds /\ probing'[kind] = health
      /\ \A k \in ProbeKinds \ {kind} : probing'[k] = probing[k]
  BY <1>2 DEF ShotInvariant
<1>4. done \subseteq done' /\ (health \in Health \ Pending => kind \in done')
  BY <1>1, <1>3
<1>5. inbox' \in Seq(done')
  <2>1. inbox \in Seq(done)
    BY DEF ShotInvariant
  <2> HIDE DEF done
  <2>2. inbox \in Seq(done')
    BY <1>4, <2>1
  <2> QED BY <1>2, <1>4, <2>2
<1>6. kind \notin shot.answered
  BY <1>1 DEF ShotInvariant
<1>7. \A k \in shot.answered : shot'.results[k] = probing'[k] /\ probing'[k] \in Health \ Pending
  BY <1>1, <1>3, <1>6 DEF ShotInvariant
<1>8. probing'["PublicIp"] \notin {"degraded", "failed"}
  BY <1>2, <1>3 DEF ShotInvariant, ProbeKinds
<1> QED
  BY <1>1, <1>3, <1>5, <1>7, <1>8 DEF ShotInvariant

LEMMA TakeKeeps ==
  ASSUME ShotInvariant, TakeResult
  PROVE  ShotInvariant'
<1> DEFINE kind == Head(inbox)
<1>1. /\ shot.phase = "probing" /\ inbox # <<>> /\ probing' = probing /\ inbox' = Tail(inbox)
      /\ shot' = [shot EXCEPT !.results[kind] = probing[kind],
                              !.answered = @ \cup {kind}]
  BY DEF TakeResult
<1>2. /\ kind \in ProbeKinds /\ probing[kind] \in Health \ Pending
      /\ inbox' \in Seq({k \in ProbeKinds : probing'[k] \in Health \ Pending})
  <2> DEFINE done == {k \in ProbeKinds : probing[k] \in Health \ Pending}
  <2>1. inbox \in Seq(done)
    BY DEF ShotInvariant
  <2> HIDE DEF done
  <2>2. kind \in done /\ Tail(inbox) \in Seq(done)
    BY <1>1, <2>1
  <2> QED BY <1>1, <2>2 DEF done
<1> HIDE DEF kind
<1>3. /\ shot' = [phase |-> shot'.phase, subject |-> shot'.subject, now |-> shot'.now,
                  link |-> shot'.link, counters |-> shot'.counters,
                  filtered |-> shot'.filtered, peers |-> shot'.peers,
                  results |-> shot'.results, answered |-> shot'.answered]
      /\ shot'.phase = shot.phase
      /\ shot'.subject = shot.subject /\ shot'.link = shot.link
      /\ shot'.counters = shot.counters
      /\ shot'.filtered = shot.filtered /\ shot'.peers = shot.peers
      /\ shot'.results = [shot.results EXCEPT ![kind] = probing[kind]]
      /\ shot'.answered = shot.answered \cup {kind}
  BY <1>1 DEF ShotInvariant
<1>4. /\ DOMAIN shot'.results = ProbeKinds /\ shot'.results[kind] = probing[kind]
      /\ \A k \in ProbeKinds \ {kind} : shot'.results[k] = shot.results[k]
  BY <1>2, <1>3 DEF ShotInvariant
<1>5. /\ shot'.answered \subseteq ProbeKinds
      /\ \A k \in shot'.answered : shot'.results[k] = probing'[k]
                                 /\ probing'[k] \in Health \ Pending
  BY <1>1, <1>2, <1>3, <1>4 DEF ShotInvariant
<1> QED
  BY <1>1, <1>2, <1>3, <1>4, <1>5 DEF ShotInvariant

LEMMA StopKeeps ==
  ASSUME ShotInvariant, StopTaking \/ ShotClock
  PROVE  ShotInvariant'
<1>1. CASE ShotClock
  <2>1. /\ shot.phase = "probing" /\ shot' = [shot EXCEPT !.now = @ + 1]
        /\ probing' = probing /\ inbox' = inbox
    BY <1>1 DEF ShotClock
  <2>2. /\ shot' = [phase |-> shot'.phase, subject |-> shot'.subject, now |-> shot'.now,
                    link |-> shot'.link, counters |-> shot'.counters,
                    filtered |-> shot'.filtered, peers |-> shot'.peers,
                    results |-> shot'.results, answered |-> shot'.answered]
        /\ shot'.phase = shot.phase
        /\ shot'.subject = shot.subject /\ shot'.link = shot.link
        /\ shot'.counters = shot.counters
        /\ shot'.filtered = shot.filtered /\ shot'.peers = shot.peers
        /\ shot'.results = shot.results /\ shot'.answered = shot.answered
    BY <2>1 DEF ShotInvariant
  <2> QED BY <2>1, <2>2 DEF ShotInvariant
<1>2. CASE StopTaking
  <2> DEFINE results == [k \in ProbeKinds |-> IF k \in shot.answered THEN shot.results[k]
                                              ELSE Missing(k)]
  <2>1. /\ shot.phase = "probing" /\ probing' = probing /\ inbox' = inbox
        /\ shot' = [shot EXCEPT !.phase = "joining", !.results = results]
    BY <1>2 DEF StopTaking
  <2>2. DOMAIN results = ProbeKinds
        /\ \A k \in ProbeKinds : results[k] = IF k \in shot.answered THEN shot.results[k]
                                               ELSE Missing(k)
    OBVIOUS
  <2> HIDE DEF results
  <2>3. /\ shot' = [phase |-> shot'.phase, subject |-> shot'.subject, now |-> shot'.now,
                    link |-> shot'.link, counters |-> shot'.counters,
                    filtered |-> shot'.filtered, peers |-> shot'.peers,
                    results |-> shot'.results, answered |-> shot'.answered]
        /\ shot'.phase = "joining"
        /\ shot'.subject = shot.subject /\ shot'.link = shot.link
        /\ shot'.counters = shot.counters
        /\ shot'.filtered = shot.filtered /\ shot'.peers = shot.peers
        /\ shot'.results = results /\ shot'.answered = shot.answered
    BY <2>1 DEF ShotInvariant
  <2>4. Collected(shot', probing')
    BY <2>1, <2>2, <2>3 DEF ShotInvariant, Collected
  <2> QED BY <2>1, <2>2, <2>3, <2>4 DEF ShotInvariant
<1> QED BY <1>1, <1>2

\* A link with its radio read.
LEMMA RadioRead ==
  ASSUME NEW l \in LinkEvidence, NEW radio
  PROVE  LET read == [l EXCEPT !.radio = radio]
         IN /\ read = [route |-> l.route, whole |-> l.whole, medium |-> l.medium, radio |-> radio]
            /\ read.route = l.route /\ read.whole = l.whole /\ read.medium = l.medium
            /\ read.radio = radio
BY DEF LinkEvidence

LEMMA ReportKeeps ==
  ASSUME ShotInvariant, Report
  PROVE  ShotInvariant'
<1> DEFINE Reading(part, results) ==
             IF part \in Reads(shot.subject) THEN results ELSE {FALSE}
<1>1. PICK radio \in Reading("radio", RadioReading(shot.link)),
           counted \in Reading("counters", CountersReading(shot.link)),
           filtered \in Reading("neighbors", {FALSE, shot.link.route}),
           peers \in IF "neighbors" \in Reads(shot.subject) THEN ShotPeers ELSE {shot.peers} :
        shot' = [shot EXCEPT !.phase = "reported", !.link.radio = radio,
                             !.counters = counted, !.filtered = filtered, !.peers = peers]
  BY DEF Report
<1>2. shot.phase = "joining" /\ probing' = probing /\ inbox' = <<>>
  BY DEF Report
<1> DEFINE link == [shot.link EXCEPT !.radio = radio]
<1>3. /\ shot' = [phase |-> shot'.phase, subject |-> shot'.subject, now |-> shot'.now,
                  link |-> shot'.link, counters |-> shot'.counters,
                  filtered |-> shot'.filtered, peers |-> shot'.peers,
                  results |-> shot'.results, answered |-> shot'.answered]
      /\ shot'.phase = "reported"
      /\ shot'.subject = shot.subject /\ shot'.link = link
      /\ shot'.counters = counted /\ shot'.filtered = filtered /\ shot'.peers = peers
      /\ shot'.results = shot.results /\ shot'.answered = shot.answered
  BY <1>1 DEF ShotInvariant
<1>4. /\ link = [route |-> shot.link.route, whole |-> shot.link.whole,
                 medium |-> shot.link.medium, radio |-> radio]
      /\ link.route = shot.link.route /\ link.whole = shot.link.whole
      /\ link.medium = shot.link.medium /\ link.radio = radio
  BY RadioRead DEF ShotInvariant
<1>5. /\ shot.link.route \in BOOLEAN /\ shot.link.whole \in BOOLEAN
      /\ shot.link.medium \in {"none", "wired", "wifi"}
      /\ shot.link.route => shot.link.medium # "none"
      /\ shot.subject \in Subjects
  BY DEF ShotInvariant, LinkEvidence
<1>6. /\ radio \in BOOLEAN
      /\ radio => shot.link.medium = "wifi" /\ shot.subject # "peers"
      /\ counted \in BOOLEAN
      /\ counted => shot.link.route /\ shot.subject # "peers"
      /\ filtered \in BOOLEAN /\ (filtered => shot.link.route)
  <2>a. radio \in BOOLEAN /\ (radio => shot.link.medium = "wifi" /\ shot.subject # "peers")
    BY <1>5 DEF Reads, RadioReading
  <2>b. counted \in BOOLEAN /\ (counted => shot.link.route /\ shot.subject # "peers")
    BY <1>5 DEF Reads, CountersReading
  <2>c. filtered \in BOOLEAN /\ (filtered => shot.link.route)
    BY <1>5
  <2> QED BY <2>a, <2>b, <2>c
<1>7. /\ shot.subject # "link" => peers.health \in Health \ Pending
      /\ peers.failed \in BOOLEAN
  <2>1. "neighbors" \in Reads(shot.subject) <=> shot.subject # "link"
    BY <1>5 DEF Reads, Subjects
  <2>2. CASE shot.subject = "link"
    <3>1. peers = [health |-> "queued", failed |-> FALSE]
      BY <1>2, <2>1, <2>2 DEF ShotInvariant
    <3>2. [health |-> "queued", failed |-> FALSE].failed \in BOOLEAN
      OBVIOUS
    <3> QED BY <2>2, <3>1, <3>2
  <2>3. CASE shot.subject # "link"
    <3>1. peers \in [health : Health \ Pending, failed : BOOLEAN]
      BY <2>1, <2>3, ShotAssumption
    <3> QED BY <3>1
  <2> QED BY <2>2, <2>3
<1>8. Collected(shot, probing)
  BY <1>2 DEF ShotInvariant
<1>9. \A k \in ProbeKinds : IF shot.subject = "diagnosis" THEN shot.results[k] \in Health \ Pending
                           ELSE shot.results[k] = "none"
  BY <1>5, <1>8 DEF ShotInvariant, Collected, Missing, Health, Pending
<1>10. Reported(shot')
  <2> HIDE DEF link
  <2>1. shot'.peers.health = peers.health /\ shot'.peers.failed = peers.failed
    BY <1>3
  <2>2. shot'.link.route = shot.link.route /\ shot'.link.whole = shot.link.whole
        /\ shot'.link.medium = shot.link.medium /\ shot'.link.radio = radio
    BY <1>3, <1>4
  <2> QED BY <1>3, <1>5, <1>6, <1>7, <1>9, <2>1, <2>2 DEF Reported
<1>11. Collected(shot', probing')
  BY <1>2, <1>3, <1>8 DEF Collected
<1>12. shot'.link \in LinkEvidence /\ (shot'.link.route => shot'.link.medium # "none")
  <2> HIDE DEF link
  <2> QED BY <1>3, <1>4, <1>5, <1>6 DEF LinkEvidence
<1>13. inbox' \in Seq({k \in ProbeKinds : probing'[k] \in Health \ Pending})
  BY <1>2
<1> QED
  BY <1>2, <1>3, <1>10, <1>11, <1>12, <1>13 DEF ShotInvariant

LEMMA ShotStep == ShotInvariant /\ [ShotNext]_shotVars => ShotInvariant'
BY ShotKeeps, StartKeeps, AnswerKeeps, TakeKeeps, StopKeeps, ReportKeeps DEF ShotNext

\* One set of facts, one verdict: whatever the host has and whenever its probes
\* answer, a report concludes what a live session would from the same evidence,
\* its text, document and exit status say one thing, and it exits with success
\* only if every probe of the path answered in time (VerdictsAgree).
THEOREM ReportsAreConsistent == Spec => []VerdictsAgree
<1>1. Init => ShotInvariant
  BY ShotInitially DEF Init
<1>2. ShotInvariant /\ [Next]_vars => ShotInvariant'
  <2>1. [Next]_vars => [ShotNext]_shotVars
    BY DEF Next, vars, Stream, Plain, Windows, Probe, Host, Ping, Speed, Readiness, Line,
           Capsules, Screenshot
  <2> QED BY <2>1, ShotStep
<1>3. ShotInvariant => VerdictsAgree
  BY ReportsAgree DEF ShotInvariant
<1> QED
  BY <1>1, <1>2, <1>3, PTL DEF Spec

-----------------------------------------------------------------------------
(***************************************************************************)
(* What the dashboard says of the evidence (Diagnosis, Panels).            *)
(***************************************************************************)
\* What a situation has seen, by its kind.
KindSeen(e, verdict) ==
  LET kind == verdict.kind
      settled(k) == e.probes[k] \notin Pending \cup {"failed"}
  IN /\ verdict.health # "untested"
     /\ kind = "GatewayFailure" => e.probes["Gateway"] = "failed"
     /\ kind = "DnsFailure" => e.probes["Dns"] = "failed"
     /\ kind = "HttpsFailure" =>
          /\ e.probes["Https"] = "failed" /\ ~StalePath(e)
          /\ settled("Gateway") /\ settled("Dns")
          /\ e.probes["Gateway"] # "unavailable" /\ e.probes["Dns"] # "unavailable"
     /\ kind = "SlowDns" => e.probes["Dns"] = "degraded"
     /\ kind = "SlowHttps" =>
          /\ e.probes["Https"] = "degraded" /\ ~StalePath(e)
          /\ settled("Gateway") /\ settled("Dns")
     /\ kind = "UnlocalizedFailure" =>
          e.probes["Gateway"] = "unavailable" \/ e.probes["Dns"] = "unavailable"
     /\ kind = "StalePathEvidence" => StalePath(e)
     /\ kind = "Collecting" /\ Active(e) => \E k \in PathKinds : e.probes[k] \in Pending
     /\ kind = "InterfaceLoss" => e.rate = "loss"
     /\ kind = "GatewayLoss" => GatewayDegraded(e) /\ Losses(e) > 0
     /\ kind = "GatewayVariation" => GatewayDegraded(e)
     /\ kind = "PassiveObservation" => ~Active(e) /\ e.link.route
     /\ kind = "EvidenceGap" => verdict.health \in {"ok", "unavailable"}

LEMMA KindsSeen ==
  ASSUME NEW e, NEW verdict, verdict = Situation(e)
  PROVE  KindSeen(e, verdict)
<1> DEFINE rules == SituationRules(e)
<1>1. PICK i \in 1 .. 21 :
        /\ rules[i][1] /\ \A j \in 1 .. i - 1 : ~rules[j][1]
        /\ verdict = rules[i][2]
  BY FirstRule
<1>2. verdict.kind =
        CASE i = 1 -> "Paused" [] i = 2 -> "PathTransition" [] i = 3 -> "GatewayFailure"
          [] i = 4 -> "InterfaceLoss" [] i \in {5, 8, 12, 18} -> "Collecting"
          [] i \in {6, 19, 20} -> "EvidenceGap" [] i = 7 -> "PassiveObservation"
          [] i = 9 -> "StalePathEvidence" [] i \in {10, 13} -> "UnlocalizedFailure"
          [] i = 11 -> "DnsFailure" [] i = 14 -> "HttpsFailure"
          [] i = 15 -> (IF Losses(e) > 0 THEN "GatewayLoss" ELSE "GatewayVariation")
          [] i = 16 -> "SlowDns" [] i = 17 -> "SlowHttps" [] i = 21 -> "Ready"
  BY <1>1 DEF SituationRules, Verdict
<1>3. verdict.health \in {"unavailable", "running", "failed", "degraded", "ok"}
      /\ (i \in {6, 19, 20} => verdict.health \in {"ok", "unavailable"})
  BY <1>1 DEF SituationRules, Verdict
<1> DEFINE Rule(k) == rules[k][1]
<1>4. /\ Rule(3) <=> Active(e) /\ e.probes["Gateway"] = "failed"
      /\ Rule(4) <=> e.rate = "loss"
      /\ Rule(5) <=> ~Active(e) /\ e.generation = 0 /\ ~e.link.route
      /\ Rule(6) <=> ~Active(e) /\ ~e.link.route
      /\ Rule(7) <=> ~Active(e)
      /\ Rule(8) <=> e.probes["Gateway"] \in Pending
      /\ Rule(9) <=> StalePath(e)
      /\ Rule(10) <=> e.probes["Gateway"] = "unavailable"
                      /\ "failed" \in {e.probes["Dns"], e.probes["Https"]}
      /\ Rule(11) <=> e.probes["Dns"] = "failed"
      /\ Rule(12) <=> e.probes["Dns"] \in Pending
      /\ Rule(13) <=> e.probes["Dns"] = "unavailable" /\ e.probes["Https"] = "failed"
      /\ Rule(14) <=> e.probes["Https"] = "failed"
      /\ Rule(15) <=> GatewayDegraded(e)
      /\ Rule(16) <=> e.probes["Dns"] = "degraded"
      /\ Rule(17) <=> e.probes["Https"] = "degraded"
      /\ Rule(18) <=> e.probes["Https"] \in Pending
  BY DEF SituationRules
<1>5. Rule(i) /\ \A j \in 1 .. i - 1 : ~Rule(j)
  BY <1>1
<1> HIDE DEF rules, Rule
<1>6. CASE i \in {1, 2, 21}
  <2>1. verdict.kind \in {"Paused", "PathTransition", "Ready"}
    BY <1>2, <1>6
  <2> QED BY <1>3, <2>1 DEF KindSeen
<1>7. CASE i \in {3, 4, 9, 11, 16}
  <2>1. \/ verdict.kind = "GatewayFailure" /\ e.probes["Gateway"] = "failed"
        \/ verdict.kind = "InterfaceLoss" /\ e.rate = "loss"
        \/ verdict.kind = "StalePathEvidence" /\ StalePath(e)
        \/ verdict.kind = "DnsFailure" /\ e.probes["Dns"] = "failed"
        \/ verdict.kind = "SlowDns" /\ e.probes["Dns"] = "degraded"
    BY <1>2, <1>4, <1>5, <1>7
  <2> QED BY <1>3, <2>1 DEF KindSeen
<1>8. CASE i \in {6, 19, 20}
  <2>1. verdict.kind = "EvidenceGap" /\ verdict.health \in {"ok", "unavailable"}
    BY <1>2, <1>3, <1>8
  <2> QED BY <2>1 DEF KindSeen
<1>9. CASE i \in {5, 8, 12, 18}
  <2>1. i = 5 => ~Active(e)
    BY <1>4, <1>5
  <2>2. i # 5 => \E k \in PathKinds : e.probes[k] \in Pending
    BY <1>4, <1>5, <1>9 DEF PathKinds
  <2>3. verdict.kind = "Collecting"
    BY <1>2, <1>9
  <2> QED BY <1>3, <2>1, <2>2, <2>3 DEF KindSeen
<1> USE <1>2, <1>3, <1>4, <1>5
<1>10. CASE i = 7
  BY <1>10 DEF KindSeen
<1>11. CASE i = 10
  BY <1>11 DEF KindSeen
<1>12. CASE i = 13
  BY <1>12 DEF KindSeen
<1>13. CASE i = 14
  <2>1. ~Rule(3) /\ ~Rule(7) /\ ~Rule(8) /\ ~Rule(9) /\ ~Rule(10) /\ ~Rule(11)
        /\ ~Rule(12) /\ ~Rule(13) /\ Rule(14)
    BY <1>13
  <2> QED BY <1>13, <2>1 DEF KindSeen
<1>14. CASE i = 15
  BY <1>14 DEF KindSeen
<1>15. CASE i = 17
  <2>1. ~Rule(3) /\ ~Rule(7) /\ ~Rule(8) /\ ~Rule(9) /\ ~Rule(11) /\ ~Rule(12) /\ Rule(17)
    BY <1>15
  <2> QED BY <1>15, <2>1 DEF KindSeen
<1> QED
  BY <1>1, <1>6, <1>7, <1>8, <1>9, <1>10, <1>11, <1>12, <1>13, <1>14, <1>15

\* Evidence a session or a report may hold, as far as the sentences depend on it.
Tellable(e) ==
  /\ e.link.route \in BOOLEAN
  /\ e.outcomes \in Seq({"reply", "lost"})
  /\ "Gateway" \notin e.stale
  /\ \A k \in ProbeKinds : e.probes[k] \in Health
  /\ e.probes["PublicIp"] \notin {"degraded", "failed"}

LEMMA RepliesCounted ==
  ASSUME NEW e, e.outcomes \in Seq({"reply", "lost"})
  PROVE  /\ Len(Assessed(e)) \in Nat /\ Replies(e) \in Nat
         /\ Replies(e) <= Len(Assessed(e))
         /\ e.outcomes = <<>> => Assessed(e) = <<>>
<1> DEFINE n == Len(e.outcomes)
           first == IF n > Window THEN n - Window + 1 ELSE 1
           places == {i \in DOMAIN Assessed(e) : Assessed(e)[i] = "reply"}
<1>1. n \in Nat /\ first \in 1 .. (n + 1)
  BY WindowAssumption
<1>2. Assessed(e) = SubSeq(e.outcomes, first, n)
  BY DEF Assessed
<1>3. Assessed(e) \in Seq({"reply", "lost"})
  <2>1. first \in Int /\ n \in Int /\ \A i \in first .. n : e.outcomes[i] \in {"reply", "lost"}
    BY <1>1
  <2> HIDE DEF first, n
  <2> QED BY <1>2, <2>1, SubSeqProperties
<1>4. /\ Len(Assessed(e)) \in Nat /\ DOMAIN Assessed(e) = 1 .. Len(Assessed(e))
  BY <1>3
<1>5. e.outcomes = <<>> => Assessed(e) = <<>>
  <2>1. e.outcomes = <<>> => n = 0 /\ first = 1
    BY WindowAssumption
  <2> HIDE DEF first, n
  <2> QED BY <1>2, <2>1, SubSeqEmpty
<1> DEFINE count == Len(Assessed(e))
<1>6. Replies(e) = Cardinality(places) /\ places \subseteq 1 .. count
  BY <1>4 DEF Replies
<1>7. count \in Nat
  BY <1>4
<1> HIDE DEF places, count, n, first
<1>8. IsFiniteSet(1 .. count) /\ Cardinality(1 .. count) = count
  BY <1>7, FS_Interval
<1>9. /\ IsFiniteSet(places) /\ Cardinality(places) <= count
  BY <1>6, <1>8, FS_Subset
<1>10. Cardinality(places) \in Nat
  BY <1>9, FS_CardinalityType
<1> QED
  BY <1>5, <1>6, <1>7, <1>9, <1>10 DEF count

LEMMA AllSettled ==
  ASSUME NEW e, \A k \in PathKinds : e.probes[k] \notin Pending
  PROVE  Settled(e) = 3
<1>1. {k \in PathKinds : e.probes[k] \notin Pending} = ({} \cup {"Gateway"} \cup {"Dns"}) \cup {"Https"}
  BY DEF PathKinds
<1>2. IsFiniteSet({}) /\ Cardinality({}) = 0
  BY FS_EmptySet
<1>3. IsFiniteSet({} \cup {"Gateway"}) /\ Cardinality({} \cup {"Gateway"}) = 1
  BY <1>2, FS_AddElement
<1>4. /\ IsFiniteSet(({} \cup {"Gateway"}) \cup {"Dns"})
      /\ Cardinality(({} \cup {"Gateway"}) \cup {"Dns"}) = 2
  BY <1>3, FS_AddElement
<1>5. Cardinality((({} \cup {"Gateway"}) \cup {"Dns"}) \cup {"Https"}) = 3
  BY <1>4, FS_AddElement
<1> QED
  BY <1>1, <1>5 DEF Settled

\* The lines about the coverage.
LEMMA CoverageLineSays ==
  ASSUME NEW e
  PROVE  LET told == CoverageLine(e)
         IN /\ told.coverage = OverviewCoverage(e)
            /\ told.cache = CacheWord(e) /\ told.radio = RadioWord(e)
            /\ Active(e) => told.core = Settled(e) /\ told.public = PublicWord(e)
            /\ {"coverage", "cache", "radio"} \subseteq DOMAIN told
<1>1. CASE Active(e)
  BY <1>1 DEF CoverageLine
<1>2. CASE ~Active(e)
  BY <1>2 DEF CoverageLine
<1> QED BY <1>1, <1>2

LEMMA CompleteSays ==
  ASSUME NEW e, Tellable(e), OverviewCoverage(e) = "complete"
  PROVE  /\ CacheWord(e) = "listed" /\ RadioWord(e) # "unavailable" /\ e.link.route
         /\ Active(e) => Settled(e) = 3 /\ PublicWord(e) = "aged" /\ e.stale = {}
                         /\ \A k \in ProbeKinds : e.probes[k] \notin Pending \cup {"unavailable"}
<1>1. /\ ~e.settling /\ e.link.route /\ ~e.peers.failed
      /\ NeedsRadio(e) => e.link.radio
      /\ e.peers.health \notin {"queued", "degraded", "failed", "unavailable"}
      /\ Active(e) =>
           /\ e.stale = {}
           /\ \A k \in ProbeKinds : e.probes[k] \notin Pending \cup {"unavailable"}
  BY DEF OverviewCoverage
<1>2. CacheWord(e) = "listed" /\ RadioWord(e) # "unavailable"
  BY <1>1 DEF CacheWord, RadioWord
<1>3. Active(e) => Settled(e) = 3
  BY <1>1, AllSettled DEF PathKinds, ProbeKinds
<1>4. Active(e) => PublicWord(e) = "aged"
  <2>1. e.probes["PublicIp"] \in {"queued", "running", "ok", "unavailable"}
    BY DEF Tellable, Health, Pending, ProbeKinds
  <2>2. Active(e) => e.probes["PublicIp"] = "ok"
    BY <1>1, <2>1 DEF ProbeKinds, Pending
  <2> QED BY <2>2 DEF PublicWord, Pending
<1> QED
  BY <1>1, <1>2, <1>3, <1>4

\* Where there is no room for the coverage, a gap is named.
LEMMA CompactNames ==
  ASSUME NEW e, NEW width \in Widths
  PROVE  LET parts == CompactCoverage(e, width)
         IN /\ \/ "coverage" \in parts
               \/ "variation" \in parts
               \/ "rate" \in parts /\ e.counters /\ e.rate = "none"
            /\ "coverage" \in parts \/ "cache" \in parts
<1> DEFINE varied == Insufficient(e) # NONE
           rated == e.counters /\ e.rate = "none"
<1>1. CASE Active(e) /\ varied
  <2>1. width \in {"narrow", "medium", "wide"}
    BY DEF Widths
  <2> HIDE DEF varied
  <2> DEFINE V == varied
  <2> QED BY <1>1, <2>1 DEF CompactCoverage, varied
<1>2. CASE Active(e) /\ ~varied
  BY <1>2 DEF CompactCoverage
<1>3. CASE ~Active(e) /\ rated /\ width = "narrow"
  BY <1>3 DEF CompactCoverage
<1>4. CASE ~Active(e) /\ ~(rated /\ width = "narrow")
  BY <1>4 DEF CompactCoverage
<1> QED BY <1>1, <1>2, <1>3, <1>4

\* The next-hop line and the title of its chart.
LEMMA HopSays ==
  ASSUME NEW e, e.outcomes \in Seq({"reply", "lost"})
  PROVE  LET hop == NextHop(e)
         IN /\ hop.says = "distribution" => hop.replies >= 2 /\ hop.attempts >= MinSamples
            /\ hop.says = "waiting" => Assessed(e) = <<>>
            /\ ChartTitle(e).says = "loss" => ChartTitle(e).lost > 0 \/ MinSamples < 2
<1> DEFINE hop == NextHop(e)
           n == Len(Assessed(e))
<1>1. /\ n \in Nat /\ Replies(e) \in Nat /\ Replies(e) <= n /\ MinSamples \in Nat \ {0}
      /\ e.outcomes = <<>> => Assessed(e) = <<>>
      /\ Assessed(e) = <<>> => n = 0
  BY RepliesCounted, WindowAssumption
<1>2. VariationClaim(e) = "available" <=>
        Assessed(e) # <<>> /\ n >= MinSamples /\ Replies(e) >= 2
  BY <1>1 DEF VariationClaim
<1>3. /\ hop.says = "distribution" =>
           VariationClaim(e) = "available" /\ hop.replies = Replies(e) /\ hop.attempts = n
      /\ hop.says = "latest" => VariationClaim(e) # "available"
      /\ hop.says = "waiting" => e.outcomes = <<>>
      /\ hop.says # "loss"
  <2>1. CASE ~Active(e)
    BY <2>1 DEF NextHop
  <2>2. CASE Active(e) /\ VariationClaim(e) = "available"
    BY <2>2 DEF NextHop
  <2>3. CASE Active(e) /\ VariationClaim(e) # "available" /\ e.outcomes # <<>>
    BY <2>3 DEF NextHop
  <2>4. CASE Active(e) /\ VariationClaim(e) # "available" /\ e.outcomes = <<>>
    BY <2>4 DEF NextHop
  <2> QED BY <2>1, <2>2, <2>3, <2>4
<1> HIDE DEF hop
<1>4. ASSUME ChartTitle(e).says = "loss"
      PROVE  ChartTitle(e).lost > 0 \/ MinSamples < 2
  <2>1. hop.says = "latest" /\ n >= MinSamples
    BY <1>3, <1>4 DEF ChartTitle, hop
  <2>2. ChartTitle(e).lost = n - Replies(e)
    BY <2>1 DEF ChartTitle, Losses, hop
  <2>3. Replies(e) < 2
    BY <1>1, <1>2, <1>3, <2>1
  <2> QED BY <1>1, <2>1, <2>2, <2>3
<1> QED
  BY <1>1, <1>2, <1>3, <1>4 DEF hop

\* What each sentence asserts.
LEMMA SummaryParts ==
  ASSUME NEW a, NEW b, NEW c, NEW d, NEW f, NEW g, NEW h, NEW i, NEW j, NEW k
  PROVE  LET s == [failed |-> a, slow |-> b, responded |-> c, pending |-> d, stale |-> f,
                   path |-> g, route |-> h, counters |-> i, lost |-> j, spread |-> k]
         IN /\ s.failed = a /\ s.slow = b /\ s.responded = c /\ s.pending = d /\ s.stale = f
            /\ s.path = g /\ s.route = h /\ s.counters = i /\ s.lost = j /\ s.spread = k
OBVIOUS

LEMMA ActionParts ==
  ASSUME NEW a, NEW b, NEW c, NEW d
  PROVE  LET s == [passed |-> a, missing |-> b, usable |-> c, enable |-> d]
         IN s.passed = a /\ s.missing = b /\ s.usable = c /\ s.enable = d
OBVIOUS

LEMMA SummarySays ==
  ASSUME NEW e, NEW verdict
  PROVE  LET kind == verdict.kind
             told == Summary(e, verdict)
         IN /\ told.failed =
                 IF kind \in {"GatewayFailure", "DnsFailure", "HttpsFailure"}
                 THEN {Subject[kind]} ELSE {}
            /\ told.slow = IF kind \in {"SlowDns", "SlowHttps"} THEN {Subject[kind]} ELSE {}
            /\ told.responded = IF kind = "Ready" THEN PathKinds ELSE {}
            /\ told.pending =
                 IF kind = "Collecting" THEN {k \in PathKinds : e.probes[k] \in Pending} ELSE {}
            /\ told.stale = IF kind = "StalePathEvidence" THEN {"Dns", "Https"} ELSE {}
            /\ told.path = (kind = "EvidenceGap" /\ verdict.health # "unavailable")
            /\ told.route = (kind = "PassiveObservation")
            /\ told.counters = (kind = "InterfaceLoss")
            /\ told.lost = IF kind = "GatewayLoss" THEN Losses(e) ELSE NONE
            /\ told.spread = IF kind = "GatewayVariation" THEN Replies(e) ELSE NONE
BY SummaryParts, Zenon DEF Summary

LEMMA ActionSays ==
  ASSUME NEW verdict
  PROVE  LET kind == verdict.kind
             action == Action(verdict)
         IN /\ action.passed =
                 IF kind \in {"HttpsFailure", "SlowHttps"} THEN {"Gateway", "Dns"} ELSE {}
            /\ action.missing = IF kind = "UnlocalizedFailure" THEN {"Gateway", "Dns"} ELSE {}
            /\ action.usable = (kind = "EvidenceGap" /\ verdict.health # "unavailable")
            /\ action.enable = (kind = "PassiveObservation")
BY ActionParts, Zenon DEF Action

\* The evidence bears out every sentence (overview_diagnosis and the lines
\* beside it).
LEMMA TellsBacked ==
  ASSUME NEW e, Tellable(e)
  PROVE  Backed(e)
<1> DEFINE verdict == Situation(e)
           kind == verdict.kind
           told == Summary(e, verdict)
           action == Action(verdict)
           coverage == CoverageLine(e)
           hop == NextHop(e)
           With(healths) == {k \in PathKinds : e.probes[k] \in healths}
           answered == With({"ok", "degraded"}) \ e.stale
           excused == IF told.slow = {"Https"} THEN With({"unavailable"}) ELSE {}
<1>1. KindSeen(e, verdict)
  BY KindsSeen
<1>2. /\ \A k \in PathKinds : e.probes[k] \in {"queued", "running", "ok", "degraded", "failed", "unavailable"}
      /\ Pending = {"queued", "running"}
      /\ PathKinds = {"Gateway", "Dns", "Https"}
      /\ ~StalePath(e) => \A k \in PathKinds : k \notin e.stale
  BY DEF Tellable, Health, Pending, PathKinds, ProbeKinds, StalePath
<1>3. /\ verdict.health = "ok" =>
           /\ Active(e) /\ ~StalePath(e)
           /\ \A k \in PathKinds : e.probes[k] \notin {"queued", "running", "failed"}
           /\ \E k \in PathKinds : e.probes[k] # "unavailable"
      /\ kind = "Ready" => verdict.health = "ok" /\ OverviewCoverage(e) = "complete"
  BY <1>2, SuccessSeen, ReadySucceeds
<1>4. /\ kind = "GatewayFailure" => told.failed = {"Gateway"}
      /\ kind = "DnsFailure" => told.failed = {"Dns"}
      /\ kind = "HttpsFailure" => told.failed = {"Https"}
      /\ kind \notin {"GatewayFailure", "DnsFailure", "HttpsFailure"} => told.failed = {}
      /\ kind = "SlowDns" => told.slow = {"Dns"}
      /\ kind = "SlowHttps" => told.slow = {"Https"}
      /\ kind \notin {"SlowDns", "SlowHttps"} => told.slow = {}
  <2>1. /\ Subject["GatewayFailure"] = "Gateway" /\ Subject["DnsFailure"] = "Dns"
        /\ Subject["HttpsFailure"] = "Https" /\ Subject["SlowDns"] = "Dns"
        /\ Subject["SlowHttps"] = "Https"
    BY DEF Subject
  <2>2. /\ told.failed = IF kind \in {"GatewayFailure", "DnsFailure", "HttpsFailure"}
                         THEN {Subject[kind]} ELSE {}
        /\ told.slow = IF kind \in {"SlowDns", "SlowHttps"} THEN {Subject[kind]} ELSE {}
    BY SummarySays, Zenon
  <2> HIDE DEF verdict, told
  <2> QED BY <2>1, <2>2
<1>5. /\ told.responded = IF kind = "Ready" THEN PathKinds ELSE {}
      /\ told.pending =
           IF kind = "Collecting" THEN {k \in PathKinds : e.probes[k] \in Pending} ELSE {}
      /\ told.stale = IF kind = "StalePathEvidence" THEN {"Dns", "Https"} ELSE {}
      /\ told.path = (kind = "EvidenceGap" /\ verdict.health # "unavailable")
      /\ told.route = (kind = "PassiveObservation")
      /\ told.counters = (kind = "InterfaceLoss")
      /\ told.lost = IF kind = "GatewayLoss" THEN Losses(e) ELSE NONE
      /\ told.spread = IF kind = "GatewayVariation" THEN Replies(e) ELSE NONE
  BY SummarySays, Zenon
<1>6. /\ action.passed = IF kind \in {"HttpsFailure", "SlowHttps"} THEN {"Gateway", "Dns"} ELSE {}
      /\ action.missing = IF kind = "UnlocalizedFailure" THEN {"Gateway", "Dns"} ELSE {}
      /\ action.usable = (kind = "EvidenceGap" /\ verdict.health # "unavailable")
      /\ action.enable = (kind = "PassiveObservation")
  BY ActionSays, Zenon
<1>7. /\ coverage.coverage = OverviewCoverage(e)
      /\ coverage.cache = CacheWord(e) /\ coverage.radio = RadioWord(e)
      /\ Active(e) => coverage.core = Settled(e) /\ coverage.public = PublicWord(e)
  BY CoverageLineSays
<1>8. StatusLabel(verdict) = "untested" => kind = "PassiveObservation"
  BY <1>1 DEF StatusLabel, KindSeen
<1> HIDE DEF verdict, told, action, coverage
<1>9. told.failed \subseteq With({"failed"}) /\ told.slow \subseteq With({"degraded"})
  BY <1>1, <1>2, <1>4 DEF KindSeen
<1>10. action.passed \subseteq answered \cup excused
  <2>1. CASE kind = "HttpsFailure"
    BY <1>1, <1>2, <1>6, <2>1 DEF KindSeen
  <2>2. CASE kind = "SlowHttps"
    BY <1>1, <1>2, <1>4, <1>6, <2>2 DEF KindSeen
  <2> QED BY <1>6, <2>1, <2>2
<1>11. told.responded \subseteq answered
  <2>1. ASSUME kind = "Ready"
        PROVE  \A k \in PathKinds : e.probes[k] \in {"ok", "degraded"} /\ k \notin e.stale
    BY <1>2, <1>3, <2>1, CompleteSays DEF ProbeKinds
  <2> QED BY <1>5, <2>1
<1>12. action.missing # {} => action.missing \cap With({"unavailable"}) # {}
  BY <1>1, <1>2, <1>6 DEF KindSeen
<1>13. /\ action.usable => told.path /\ With({"failed"}) = {} /\ answered # {}
       /\ told.path => action.usable
  <2>1. ASSUME kind = "EvidenceGap", verdict.health # "unavailable"
        PROVE  With({"failed"}) = {} /\ answered # {}
    <3>1. verdict.health = "ok"
      BY <1>1, <2>1 DEF KindSeen
    <3> QED BY <1>2, <1>3, <3>1
  <2> QED BY <1>5, <1>6, <2>1
<1>14. told.stale # {} => told.stale \cap e.stale # {}
  BY <1>1, <1>5 DEF KindSeen, StalePath
<1>15. kind = "Collecting" /\ Active(e) => told.pending # {}
  BY <1>1, <1>5 DEF KindSeen
<1>16. told.counters => InterfaceLine(e, "overview") = [rate |-> "available", errors |-> TRUE]
  <2>1. ASSUME told.counters PROVE e.rate = "loss"
    BY <1>1, <1>5, <2>1 DEF KindSeen
  <2>2. ASSUME e.rate = "loss"
        PROVE  InterfaceLine(e, "overview") = [rate |-> "available", errors |-> TRUE]
    <3>1. InterfaceLine(e, "overview") = [rate |-> "available", errors |-> e.rate = "loss"]
      BY <2>2 DEF InterfaceLine
    <3>2. (e.rate = "loss") = TRUE
      BY <2>2
    <3> QED BY <3>1, <3>2, Zenon
  <2> QED BY <2>1, <2>2
<1>17. /\ Len(Assessed(e)) \in Nat /\ Replies(e) \in Nat
  BY RepliesCounted DEF Tellable
<1>18. told.lost # NONE => told.lost > 0 /\ Len(Assessed(e)) >= MinSamples
  BY <1>1, <1>5 DEF KindSeen, GatewayDegraded
<1>19. told.spread # NONE => told.spread > 0
  BY <1>1, <1>5 DEF KindSeen, GatewayDegraded
<1>20. StatusLabel(verdict) = "untested" \/ told.route \/ action.enable =>
         ~Active(e) /\ e.link.route
  BY <1>1, <1>5, <1>6, <1>8 DEF KindSeen
<1>21. coverage.coverage = "complete" =>
         /\ coverage.cache = "listed" /\ coverage.radio # "unavailable" /\ e.link.route
         /\ Active(e) => coverage.core = 3 /\ coverage.public = "aged"
  BY <1>7, CompleteSays
<1>22. coverage.coverage = "unavailable" =>
         coverage.radio # "observed" /\ coverage.cache = "partial"
  <2>1. OverviewCoverage(e) = "unavailable" => ~e.link.radio /\ e.peers.health = "unavailable"
    BY DEF OverviewCoverage
  <2> QED BY <1>7, <2>1 DEF CacheWord, RadioWord
<1>23. \A width \in Widths :
         LET parts == CompactCoverage(e, width)
         IN \/ "coverage" \in parts \/ coverage.coverage = "complete"
            \/ "variation" \in parts
            \/ "rate" \in parts /\ e.counters /\ e.rate = "none"
  BY CompactNames
<1>24. /\ hop.says = "distribution" => hop.replies >= 2 /\ hop.attempts >= MinSamples
       /\ hop.says = "waiting" => Assessed(e) = <<>>
       /\ ChartTitle(e).says = "loss" => ChartTitle(e).lost > 0 \/ MinSamples < 2
  BY HopSays DEF Tellable
<1> HIDE DEF hop, answered, excused, With
<1>25. told.responded \cup action.passed \subseteq answered \cup excused
  BY <1>10, <1>11
<1> QED
  BY <1>9, <1>12, <1>13, <1>14, <1>15, <1>16, <1>18, <1>19, <1>20, <1>21, <1>22, <1>23,
     <1>24, <1>25, Zenon DEF Backed, verdict, told, action, coverage, hop, answered, excused, With

\* The states under which a claim is listed.
StatesOf(groups, label) == {under.state : under \in {u \in groups : label \in u.labels}}

\* A claim of the dwell is listed once, under its state.
LEMMA DwellSays ==
  ASSUME NEW e, NEW label \in DOMAIN DwellLabels,
         Progress(e, "overview")[DwellLabels[label]] \in
           {"available", "insufficient", "collecting", "stale", "unavailable",
            "unsupported", "not_collected"}
  PROVE  LET Under == StatesOf(DwellProgress(e), label)
             now == Progress(e, "overview")[DwellLabels[label]]
         IN Under = {now} /\ Cardinality(Under) = 1
<1> DEFINE progress == Progress(e, "overview")
           now == progress[DwellLabels[label]]
           states == <<"available", "insufficient", "collecting", "stale", "unavailable",
                       "unsupported", "not_collected">>
           labels == [i \in DOMAIN states |->
                        {l \in DOMAIN DwellLabels : progress[DwellLabels[l]] = states[i]}]
           Under == StatesOf(DwellProgress(e), label)
<1>1. \E i \in DOMAIN states : states[i] = now
  <2>1. DOMAIN states = 1 .. 7
    OBVIOUS
  <2>2. /\ states[1] = "available" /\ states[2] = "insufficient" /\ states[3] = "collecting"
        /\ states[4] = "stale" /\ states[5] = "unavailable" /\ states[6] = "unsupported"
        /\ states[7] = "not_collected"
    OBVIOUS
  <2>3. now \in {states[1], states[2], states[3], states[4], states[5], states[6], states[7]}
    BY <2>2
  <2> HIDE DEF states, now
  <2> QED BY <2>1, <2>3
<1> HIDE DEF states, progress
<1>2. \A i \in DOMAIN states : label \in labels[i] <=> states[i] = now
  OBVIOUS
<1>3. DwellProgress(e) =
        {[state |-> states[i], labels |-> labels[i]] : i \in {j \in DOMAIN states : labels[j] # {}}}
  BY Zenon DEF DwellProgress, states, progress
<1> HIDE DEF labels, now
<1> DEFINE Group(i) == [state |-> states[i], labels |-> labels[i]]
           under == {u \in DwellProgress(e) : label \in u.labels}
<1>4. DwellProgress(e) = {Group(i) : i \in {j \in DOMAIN states : labels[j] # {}}}
  BY <1>3, Zenon
<1>5. \A i : Group(i).state = states[i] /\ Group(i).labels = labels[i]
  OBVIOUS
<1> HIDE DEF Group
<1>6. \A u \in under : u.state = now
  BY <1>2, <1>4, <1>5
<1>7. \E u \in under : u.state = now
  <2>1. PICK i \in DOMAIN states : states[i] = now
    BY <1>1
  <2>2. label \in labels[i]
    BY <1>2, <2>1
  <2>3. Group(i) \in under /\ Group(i).state = now
    BY <1>4, <1>5, <2>1, <2>2
  <2> QED BY <2>3
<1>8. {u.state : u \in under} = {now}
  <2> HIDE DEF under
  <2> QED BY <1>6, <1>7
<1>9. Under = {now}
  BY <1>8, Zenon DEF StatesOf, under
<1>10. Cardinality({now}) = 1
  BY FS_Singleton
<1> QED BY <1>9, <1>10 DEF now, progress

LEMMA CompactParts ==
  ASSUME NEW a, NEW b, NEW c
  PROVE  LET s == [route |-> a, passed |-> b, works |-> c]
         IN s.passed = b /\ s.works = c
OBVIOUS

\* What the collectors of the dwell have come to.
LEMMA DwellClaims ==
  ASSUME NEW e, Kept(e)
  PROVE  LET progress == Progress(e, "overview")
         IN /\ progress["InterfaceTotals"] = IF e.counters THEN "available" ELSE "collecting"
            /\ progress["InterfaceRate"] = IF e.rate # "none" THEN "available"
                                           ELSE IF e.counters THEN "insufficient"
                                           ELSE "collecting"
            /\ progress["RadioLink"] = RadioClaim(e)
            /\ progress["RadioLink"] \in {"collecting", "unsupported", "available", "unavailable"}
            /\ progress["RadioLink"] = "available" <=> NeedsRadio(e) /\ e.link.radio
            /\ progress["NeighborCache"] = CollectorClaim(e.peers.health)
            /\ progress["WorkloadAttribution"] = CollectorClaim(e.workload)
<1>1. e.link.medium \in {"none", "wired", "wifi"}
  BY DEF Kept, Evidence, LinkEvidence
<1>2. /\ RadioClaim(e) \in {"collecting", "unsupported", "available", "unavailable"}
      /\ RadioClaim(e) = "available" <=> NeedsRadio(e) /\ e.link.radio
  BY <1>1 DEF RadioClaim, NeedsRadio
<1> QED
  BY <1>2 DEF Progress, Scope

\* Under each label the dwell has the claim of its collector.
LEMMA DwellListed ==
  ASSUME NEW e, Kept(e), NEW label \in DOMAIN DwellLabels
  PROVE  /\ StatesOf(DwellProgress(e), label) = {Progress(e, "overview")[DwellLabels[label]]}
         /\ Cardinality(StatesOf(DwellProgress(e), label)) = 1
<1> DEFINE progress == Progress(e, "overview")
<1>1. \A health : CollectorClaim(health) \in {"collecting", "unavailable", "available"}
  BY DEF CollectorClaim
<1>2. progress[DwellLabels[label]] \in
        {"available", "insufficient", "collecting", "stale", "unavailable", "unsupported",
         "not_collected"}
  <2>1. /\ progress["InterfaceTotals"] \in {"available", "collecting"}
        /\ progress["InterfaceRate"] \in {"available", "insufficient", "collecting"}
        /\ progress["RadioLink"] \in {"collecting", "unsupported", "available", "unavailable"}
        /\ progress["NeighborCache"] \in {"collecting", "unavailable", "available"}
        /\ progress["WorkloadAttribution"] \in {"collecting", "unavailable", "available"}
    BY <1>1, DwellClaims
  <2>2. DwellLabels[label] \in {"InterfaceTotals", "InterfaceRate", "RadioLink",
                                "WorkloadAttribution", "NeighborCache"}
    BY DEF DwellLabels
  <2> HIDE DEF progress
  <2> QED BY <2>1, <2>2
<1> QED
  BY <1>2, DwellSays

\* A session's link view that is complete misses nothing.
LEMMA LinkWhole ==
  ASSUME NEW e, CoverageFor(e, "link") = "complete"
  PROVE  e.counters /\ e.rate # "none" /\ (NeedsRadio(e) => e.link.radio)
<1> DEFINE progress == Progress(e, "link")
           states == {progress[c] : c \in DOMAIN progress} \ {"not_collected", "unsupported"}
<1>1. states = {"available"}
  <2> HIDE DEF progress
  <2>1. CoverageFor(e, "link") =
          IF "collecting" \in states THEN "collecting"
          ELSE IF states \subseteq {"unavailable", "stale"} THEN "unavailable"
          ELSE IF states # {"available"} THEN "partial"
          ELSE "complete"
    BY DEF CoverageFor, progress
  <2> HIDE DEF states
  <2> QED BY <2>1
<1>2. /\ progress["InterfaceTotals"] = IF e.counters THEN "available" ELSE "collecting"
      /\ progress["InterfaceRate"] = IF e.rate # "none" THEN "available"
                                     ELSE IF e.counters THEN "insufficient"
                                     ELSE "collecting"
      /\ progress["RadioLink"] = RadioClaim(e)
  BY DEF Progress, Scope
<1>3. DOMAIN progress = Claims
  BY ProgressOfClaims
<1> HIDE DEF progress
<1>4. \A c \in Claims : progress[c] \in {"available", "not_collected", "unsupported"}
  BY <1>1, <1>3
<1>5. NeedsRadio(e) /\ ~e.link.radio => RadioClaim(e) \in {"unavailable", "collecting"}
  BY DEF RadioClaim, NeedsRadio
<1> QED
  BY <1>2, <1>4, <1>5 DEF Claims

\* What the lines say of one thing agrees, whoever reads it from the App (ui.rs,
\* the header, the probe rows, the dwell and the panels of the overview).
LEMMA LinesSayTheSame ==
  ASSUME NEW e, Kept(e)
  PROVE  LinesAgree(e)
<1> DEFINE verdict == Situation(e)
           rows == [k \in ProbeKinds |-> ProbeRow(e, k)]
           header == HeaderStatus(e, "overview")
           Under(label) == StatesOf(DwellProgress(e), label)
           compact == CompactSummary(e, verdict)
           coverage == OverviewCoverage(e)
           progress == Progress(e, "overview")
<1>1. /\ e.counters \in BOOLEAN /\ e.link.route \in BOOLEAN /\ e.settling \in BOOLEAN
      /\ e.peers.failed \in BOOLEAN /\ e.link.radio \in BOOLEAN
      /\ \/ e.peers.health = "queued"
         \/ e.peers.health \in {"ok", "degraded", "unavailable"}
            /\ (e.peers.health = "ok" => ~e.peers.failed)
      /\ e.workload \in {"queued", "ok", "unavailable"}
      /\ \A k \in e.stale : e.probes[k] \notin Pending
  BY DEF Kept, Evidence, Sensible, LinkEvidence, CacheReading
<1>2. \A k \in ProbeKinds :
        /\ rows[k].health = e.probes[k]
        /\ rows[k].age = IF e.probes[k] \in Pending THEN "pending" ELSE "aged"
  BY DEF ProbeRow
<1>3. /\ header = IF Active(e) THEN verdict.health ELSE "passive"
      /\ HeaderStatus(e, "link") = IF e.link.route THEN "observed" ELSE "discovering"
      /\ HeaderStatus(e, "peers") = e.peers.health
  BY DEF HeaderStatus
<1>4. /\ compact.passed <=> verdict.kind = "Ready"
      /\ compact.works <=> verdict.kind = "EvidenceGap" /\ verdict.health = "ok"
  <2> DEFINE a == verdict.kind = "PassiveObservation"
             b == verdict.kind = "Ready"
             c == verdict.kind = "EvidenceGap" /\ verdict.health = "ok"
  <2>1. compact.passed = b /\ compact.works = c
    BY CompactParts, Zenon DEF CompactSummary
  <2> QED BY <2>1, Zenon
<1>5. KindSeen(e, verdict)
  BY KindsSeen
<1>6. verdict.health = "ok" =>
        /\ \A k \in PathKinds : e.probes[k] \notin Pending /\ e.probes[k] # "failed"
        /\ verdict.kind = "Ready" <=> coverage = "complete"
  BY SuccessSeen
<1>7. verdict.kind = "Ready" => verdict.health = "ok"
  BY ReadySucceeds
<1>8. coverage = "complete" =>
        /\ ~e.settling /\ e.link.route /\ e.counters /\ ~e.peers.failed
        /\ NeedsRadio(e) => e.link.radio
        /\ e.peers.health \notin {"queued", "degraded", "failed", "unavailable"}
        /\ Active(e) => \A k \in ProbeKinds : e.probes[k] \notin Pending
  BY DEF OverviewCoverage
<1>9. /\ TelemetryLine(e).radio = "observed" <=> e.link.radio
      /\ TelemetryLine(e).traffic = "rate" <=> e.rate # "none"
      /\ LinkTelemetry(e).totals = "counted" <=> e.counters
  BY DEF TelemetryLine, LinkTelemetry
<1>10. /\ SourceWord(e) = IF e.peers.health \in {"queued", "unavailable"} THEN "pending" ELSE "listed"
       /\ CacheCompleteness(e) = IF e.peers.failed THEN "partial" ELSE e.peers.health
  BY DEF SourceWord, CacheCompleteness
<1>11. \A label \in {"totals", "rate", "radio", "workload", "cache"} :
         /\ Under(label) = {progress[DwellLabels[label]]}
         /\ Cardinality(Under(label)) = 1
  BY DwellListed DEF DwellLabels
<1>12. /\ Under("rate") = {progress["InterfaceRate"]}
       /\ Under("radio") = {progress["RadioLink"]}
       /\ Under("workload") = {progress["WorkloadAttribution"]}
       /\ Under("cache") = {progress["NeighborCache"]}
  BY <1>11 DEF DwellLabels
<1>13. /\ progress["InterfaceRate"] = "available" <=> e.rate # "none"
       /\ progress["RadioLink"] = "available" <=> NeedsRadio(e) /\ e.link.radio
       /\ progress["NeighborCache"] = CollectorClaim(e.peers.health)
       /\ progress["WorkloadAttribution"] = CollectorClaim(e.workload)
  BY DwellClaims
<1>14. Active(e) => \A k \in ProbeKinds : progress[ClaimOf[k]] = ProbeClaim(e, k)
  BY DEF Progress, ProbeKinds, ClaimOf
<1>15. progress.PathContext = IF e.settling \/ ~e.link.route THEN "collecting" ELSE "available"
  BY DEF Progress
<1> HIDE DEF verdict, rows, header, Under, compact, coverage, progress
<1>16. /\ header \in {"passive", StatusLabel(verdict)}
       /\ header = "ok" => \A k \in PathKinds : rows[k].health # "failed" /\ rows[k].age = "aged"
  <2>1. Active(e) => StatusLabel(verdict) = verdict.health
    BY <1>5 DEF KindSeen, StatusLabel
  <2>2. PathKinds \subseteq ProbeKinds
    BY DEF PathKinds, ProbeKinds
  <2> QED BY <1>2, <1>3, <1>6, <2>1, <2>2
<1>17. Active(e) => \A k \in ProbeKinds :
         rows[k].age = "pending" <=> progress[ClaimOf[k]] = "collecting"
  BY <1>1, <1>2, <1>14 DEF ProbeClaim
<1>18. /\ HeaderStatus(e, "peers") = "ok" => CacheCompleteness(e) = "ok"
       /\ HeaderStatus(e, "link") = "discovering" => progress.PathContext = "collecting"
       /\ HeaderStatus(e, "link") = "observed" => progress.PathContext = "available" \/ e.settling
       /\ SourceWord(e) = "pending" => CacheCompleteness(e) \in {"queued", "partial", "unavailable"}
  BY <1>1, <1>3, <1>10, <1>15
<1>19. coverage = "complete" =>
         /\ Active(e) => \A k \in ProbeKinds : rows[k].age = "aged"
         /\ SourceWord(e) = "listed" /\ CacheCompleteness(e) = "ok"
         /\ LinkTelemetry(e).totals = "counted"
         /\ NeedsRadio(e) => TelemetryLine(e).radio = "observed"
  BY <1>1, <1>2, <1>8, <1>9, <1>10
<1>20. CoverageFor(e, "link") = "complete" =>
         /\ LinkTelemetry(e).totals = "counted" /\ TelemetryLine(e).traffic = "rate"
         /\ NeedsRadio(e) => TelemetryLine(e).radio = "observed"
  BY <1>9, LinkWhole
<1>21. \A label \in DOMAIN DwellLabels : Cardinality(Under(label)) = 1
  BY <1>11 DEF DwellLabels
<1>22. /\ "available" \in Under("rate") <=> TelemetryLine(e).traffic = "rate"
       /\ "available" \in Under("radio") <=> TelemetryLine(e).radio = "observed" /\ NeedsRadio(e)
       /\ "available" \in Under("cache") <=> SourceWord(e) = "listed"
  BY <1>1, <1>9, <1>10, <1>12, <1>13 DEF CollectorClaim, Pending
<1>23. /\ "collecting" \in Under("workload") <=> WorkloadLine(e) = "sampling"
       /\ "available" \in Under("workload") <=> WorkloadLine(e) = "sampled"
  BY <1>1, <1>12, <1>13 DEF CollectorClaim, Pending, WorkloadLine
<1>24. /\ compact.passed => coverage = "complete"
       /\ compact.works => coverage # "complete" /\ \A k \in PathKinds : rows[k].health # "failed"
  <2>1. PathKinds \subseteq ProbeKinds
    BY DEF PathKinds, ProbeKinds
  <2> QED BY <1>2, <1>4, <1>6, <1>7, <2>1
<1> QED
  BY <1>16, <1>17, <1>18, <1>19, <1>20, <1>21, <1>22, <1>23, <1>24, Zenon
  DEF LinesAgree, verdict, rows, header, Under, StatesOf, compact, coverage, progress

Words ==
  {"status", "path", "coverage", "action", "context", "hop", "workload", "configuration",
   "telemetry", "policy", "interface", "resolvers", "sources", "scope", "anchor", "place"}
    \cup ProbeKinds

\* The lines of a list, whether they fit or not.
Listed(lines) == {lines[i] : i \in DOMAIN lines}

LEMMA Joined ==
  ASSUME NEW s \in Seq(Words), NEW t \in Seq(Words), NEW room \in Nat
  PROVE  /\ s \o t \in Seq(Words) /\ Len(s \o t) = Len(s) + Len(t)
         /\ Listed(s \o t) = Listed(s) \cup Listed(t)
         /\ Fitting(s, room) \subseteq Fitting(s \o t, room)
         /\ Fitting(s, room) \subseteq Listed(s)
         /\ Len(s) <= room => Fitting(s, room) = Listed(s)
<1>1. /\ s \o t \in Seq(Words) /\ Len(s \o t) = Len(s) + Len(t)
      /\ \A i \in 1 .. Len(s) + Len(t) :
           (s \o t)[i] = IF i <= Len(s) THEN s[i] ELSE t[i - Len(s)]
  BY ConcatProperties
<1>2. /\ DOMAIN s = 1 .. Len(s) /\ DOMAIN t = 1 .. Len(t)
      /\ DOMAIN (s \o t) = 1 .. Len(s) + Len(t)
      /\ Len(s) \in Nat /\ Len(t) \in Nat
  BY <1>1
<1> DEFINE whole == s \o t
<1>3. \A i \in 1 .. Len(s) : i \in 1 .. Len(s) + Len(t) /\ whole[i] = s[i]
  BY <1>1, <1>2
<1>4. \A i \in 1 .. Len(t) : Len(s) + i \in 1 .. Len(s) + Len(t) /\ whole[Len(s) + i] = t[i]
  BY <1>1, <1>2
<1>5. \A i \in 1 .. Len(s) + Len(t) :
        \/ i \in 1 .. Len(s) /\ whole[i] = s[i]
        \/ i - Len(s) \in 1 .. Len(t) /\ whole[i] = t[i - Len(s)]
  BY <1>1, <1>2
<1>6. DOMAIN whole = 1 .. Len(s) + Len(t)
  BY <1>2
<1> HIDE DEF whole
<1>7. Listed(whole) \subseteq Listed(s) \cup Listed(t)
  BY <1>2, <1>5, <1>6 DEF Listed
<1>8. Listed(s) \subseteq Listed(whole)
  BY <1>2, <1>3, <1>6 DEF Listed
<1>9. Listed(t) \subseteq Listed(whole)
  BY <1>2, <1>4, <1>6 DEF Listed
<1>10. Fitting(s, room) \subseteq Fitting(whole, room)
  BY <1>2, <1>3, <1>6 DEF Fitting
<1>11. Fitting(s, room) \subseteq Listed(s)
  BY DEF Fitting, Listed
<1>12. Len(s) <= room => Fitting(s, room) = Listed(s)
  BY <1>2 DEF Fitting, Listed
<1> QED
  BY <1>1, <1>7, <1>8, <1>9, <1>10, <1>11, <1>12 DEF whole

LEMMA OneListed ==
  ASSUME NEW a \in Words
  PROVE  <<a>> \in Seq(Words) /\ Len(<<a>>) = 1 /\ Listed(<<a>>) = {a}
<1> DEFINE s == <<a>>
<1>1. DOMAIN s = 1 .. 1 /\ s[1] = a /\ s \in Seq(Words) /\ Len(s) = 1
  OBVIOUS
<1> HIDE DEF s
<1>2. Listed(s) = {a}
  BY <1>1 DEF Listed
<1> QED BY <1>1, <1>2 DEF s

LEMMA FourListed ==
  ASSUME NEW a \in Words, NEW b \in Words, NEW c \in Words, NEW d \in Words
  PROVE  /\ <<a, b, c, d>> \in Seq(Words) /\ Len(<<a, b, c, d>>) = 4
         /\ Listed(<<a, b, c, d>>) = {a, b, c, d}
<1> DEFINE s == <<a, b, c, d>>
<1>1. /\ DOMAIN s = 1 .. 4 /\ s[1] = a /\ s[2] = b /\ s[3] = c /\ s[4] = d
      /\ s \in Seq(Words) /\ Len(s) = 4
  OBVIOUS
<1> HIDE DEF s
<1>2. Listed(s) = {a, b, c, d}
  BY <1>1 DEF Listed
<1> QED BY <1>1, <1>2 DEF s

LEMMA NoLines == <<>> \in Seq(Words) /\ Len(<<>>) = 0 /\ Listed(<<>>) = {}
BY DEF Listed

\* A compact terminal.
LEMMA CompactShows ==
  ASSUME NEW look \in Looks, NEW room \in Nat, room = look.screen.rows - 6, room >= 4
  PROVE  LET lines == CompactLines(look)
         IN /\ {"status", "path", "coverage", "action"} \subseteq lines
            /\ room >= 12 /\ look.salient => "context" \in lines
            /\ room >= 12 /\ look.active => ProbeKinds \cup {"hop"} \subseteq lines
            /\ ~look.active => ProbeKinds \cap lines = {}
<1> DEFINE first == <<"status", "path", "coverage", "action">>
           context == IF look.salient /\ 4 < room THEN <<"context">> ELSE <<>>
           work == IF look.active THEN <<"hop">> ELSE <<"workload">>
           config == <<"configuration">>
           probes == IF look.active THEN ProbeRows ELSE <<>>
           radio == <<"telemetry">>
           upto2 == first \o context
           upto3 == upto2 \o work
           upto4 == upto3 \o config
           upto5 == upto4 \o probes
           all == upto5 \o radio
<1>0. {"status", "path", "coverage", "action", "context", "hop", "workload", "configuration",
       "telemetry", "Gateway", "Dns", "Https", "PublicIp"} \subseteq Words
  BY DEF Words, ProbeKinds
<1>1. /\ first \in Seq(Words) /\ Len(first) = 4
      /\ Listed(first) = {"status", "path", "coverage", "action"}
  BY <1>0, FourListed
<1>2. /\ context \in Seq(Words) /\ Len(context) <= 1 /\ Len(context) \in Nat
      /\ Listed(context) = IF look.salient /\ 4 < room THEN {"context"} ELSE {}
  <2>1. CASE look.salient /\ 4 < room
    <3>1. context = <<"context">>
      BY <2>1
    <3>2. /\ <<"context">> \in Seq(Words) /\ Len(<<"context">>) = 1
          /\ Listed(<<"context">>) = {"context"}
      BY <1>0, OneListed
    <3> HIDE DEF context
    <3>3. context \in Seq(Words) /\ Len(context) = 1 /\ Listed(context) = {"context"}
      BY <3>1, <3>2, Zenon
    <3> QED BY <2>1, <3>3
  <2>2. CASE ~(look.salient /\ 4 < room)
    <3>1. context = <<>>
      BY <2>2
    <3> HIDE DEF context
    <3>2. context \in Seq(Words) /\ Len(context) = 0 /\ Listed(context) = {}
      BY <3>1, NoLines, Zenon
    <3> QED BY <2>2, <3>2
  <2> QED BY <2>1, <2>2
<1>3. /\ work \in Seq(Words) /\ Len(work) = 1
      /\ Listed(work) = IF look.active THEN {"hop"} ELSE {"workload"}
  BY <1>0, OneListed
<1>4. config \in Seq(Words) /\ Len(config) = 1 /\ Listed(config) = {"configuration"}
  BY <1>0, OneListed
<1>5. /\ probes \in Seq(Words) /\ Len(probes) <= 4 /\ Len(probes) \in Nat
      /\ Listed(probes) = IF look.active THEN ProbeKinds ELSE {}
  <2>1. ProbeRows \in Seq(Words) /\ Len(ProbeRows) = 4 /\ Listed(ProbeRows) = ProbeKinds
    BY <1>0, FourListed DEF ProbeRows, ProbeKinds
  <2>2. CASE look.active
    <3>1. probes = ProbeRows
      BY <2>2
    <3> HIDE DEF probes
    <3>2. probes \in Seq(Words) /\ Len(probes) = 4 /\ Listed(probes) = ProbeKinds
      BY <2>1, <3>1, Zenon
    <3> QED BY <2>2, <3>2
  <2>3. CASE ~look.active
    <3>1. probes = <<>>
      BY <2>3
    <3> HIDE DEF probes
    <3>2. probes \in Seq(Words) /\ Len(probes) = 0 /\ Listed(probes) = {}
      BY <3>1, NoLines, Zenon
    <3> QED BY <2>3, <3>2
  <2> QED BY <2>2, <2>3
<1>6. radio \in Seq(Words) /\ Len(radio) = 1 /\ Listed(radio) = {"telemetry"}
  BY <1>0, OneListed
<1>7. CompactLines(look) = Fitting(all, room)
  BY Zenon DEF CompactLines
<1> HIDE DEF first, context, work, config, probes, radio
<1>8. /\ upto2 \in Seq(Words) /\ Len(upto2) = Len(first) + Len(context)
      /\ Listed(upto2) = Listed(first) \cup Listed(context)
      /\ Fitting(first, room) \subseteq Fitting(upto2, room)
      /\ Fitting(first, room) = Listed(first)
  <2>1. /\ upto2 \in Seq(Words) /\ Len(upto2) = Len(first) + Len(context)
        /\ Listed(upto2) = Listed(first) \cup Listed(context)
        /\ Fitting(first, room) \subseteq Fitting(upto2, room)
        /\ Len(first) <= room => Fitting(first, room) = Listed(first)
    BY <1>1, <1>2, Joined, ZenonT(40)
  <2> HIDE DEF upto2
  <2> QED BY <1>1, <2>1
<1> HIDE DEF upto2
<1>9. /\ upto3 \in Seq(Words) /\ Len(upto3) = Len(upto2) + 1
      /\ Listed(upto3) = Listed(upto2) \cup Listed(work)
      /\ Fitting(upto2, room) \subseteq Fitting(upto3, room)
  BY <1>3, <1>8, Joined
<1> HIDE DEF upto3
<1>10. /\ upto4 \in Seq(Words) /\ Len(upto4) = Len(upto3) + 1
       /\ Listed(upto4) = Listed(upto3) \cup Listed(config)
       /\ Fitting(upto3, room) \subseteq Fitting(upto4, room)
  BY <1>4, <1>9, Joined
<1> HIDE DEF upto4
<1>11. /\ upto5 \in Seq(Words) /\ Len(upto5) = Len(upto4) + Len(probes)
       /\ Listed(upto5) = Listed(upto4) \cup Listed(probes)
       /\ Fitting(upto4, room) \subseteq Fitting(upto5, room)
  BY <1>5, <1>10, Joined
<1> HIDE DEF upto5
<1>12. /\ all \in Seq(Words) /\ Len(all) = Len(upto5) + 1
       /\ Listed(all) = Listed(upto5) \cup Listed(radio)
       /\ Fitting(upto5, room) \subseteq Fitting(all, room)
  BY <1>6, <1>11, Joined
<1> HIDE DEF all
<1>13. /\ Fitting(all, room) \subseteq Listed(all)
       /\ Len(all) <= room => Fitting(all, room) = Listed(all)
  BY <1>12, Joined
<1>14. Len(all) <= 12
  BY <1>1, <1>2, <1>5, <1>8, <1>9, <1>10, <1>11, <1>12
<1>15. Listed(all) =
         Listed(first) \cup Listed(context) \cup Listed(work) \cup Listed(config)
           \cup Listed(probes) \cup Listed(radio)
  BY <1>8, <1>9, <1>10, <1>11, <1>12
<1>16. {"status", "path", "coverage", "action"} \subseteq Fitting(all, room)
  BY <1>1, <1>8, <1>9, <1>10, <1>11, <1>12
<1>17. room >= 12 => Fitting(all, room) = Listed(all)
  <2>1. Len(all) \in Nat
    BY <1>12
  <2> QED BY <1>13, <1>14, <2>1
<1>18. ~look.active => ProbeKinds \cap Fitting(all, room) = {}
  <2>1. ~look.active =>
          Listed(all) \subseteq {"status", "path", "coverage", "action", "context", "workload",
                                 "configuration", "telemetry"}
    BY <1>1, <1>2, <1>3, <1>4, <1>5, <1>6, <1>15
  <2> QED BY <1>13, <2>1 DEF ProbeKinds
<1>19. room >= 12 /\ look.salient => "context" \in Fitting(all, room)
  BY <1>2, <1>15, <1>17
<1>20. room >= 12 /\ look.active => ProbeKinds \cup {"hop"} \subseteq Fitting(all, room)
  BY <1>3, <1>5, <1>15, <1>17
<1> QED
  BY <1>7, <1>16, <1>18, <1>19, <1>20

\* The ledger of a terminal that is not compact.
LEMMA LedgerShows ==
  ASSUME NEW look \in Looks, look.screen.rows \in Nat, look.screen.rows >= 23
  PROVE  LET lines == LedgerLines(look)
         IN /\ look.active => ProbeKinds \cup {"hop"} \subseteq lines
            /\ ~look.active => ProbeKinds \cap lines = {}
<1> DEFINE room == look.screen.rows - 17
           hop == <<"hop">>
           work == <<"workload">>
           passive == <<"policy", "interface", "workload", "resolvers", "sources">>
           body == IF look.active THEN hop \o ProbeRows \o work ELSE passive
           scope == <<"scope">>
           memory == <<"anchor", "place">>
           lines == body \o scope
           all == IF look.remembered /\ room >= Len(lines) + 2 THEN lines \o memory ELSE lines
<1>0. /\ {"hop", "workload", "policy", "interface", "resolvers", "sources", "scope", "anchor",
          "place", "Gateway", "Dns", "Https", "PublicIp"} \subseteq Words
      /\ room \in Nat /\ room >= 6
  BY DEF Words, ProbeKinds
<1>1. LedgerLines(look) = Fitting(all, room)
  BY Zenon DEF LedgerLines
<1>2. hop \in Seq(Words) /\ Len(hop) = 1 /\ Listed(hop) = {"hop"}
  BY <1>0, OneListed
<1>3. work \in Seq(Words)
  BY <1>0, OneListed
<1>4. scope \in Seq(Words) /\ Listed(scope) = {"scope"}
  BY <1>0, OneListed
<1>5. memory \in Seq(Words) /\ Listed(memory) = {"anchor", "place"}
  <2>1. DOMAIN memory = 1 .. 2 /\ memory[1] = "anchor" /\ memory[2] = "place"
    OBVIOUS
  <2>2. memory \in Seq(Words)
    BY <1>0
  <2> HIDE DEF memory
  <2> QED BY <2>1, <2>2 DEF Listed
<1>6. /\ passive \in Seq(Words)
      /\ Listed(passive) = {"policy", "interface", "workload", "resolvers", "sources"}
  <2>1. /\ DOMAIN passive = 1 .. 5 /\ passive[1] = "policy" /\ passive[2] = "interface"
        /\ passive[3] = "workload" /\ passive[4] = "resolvers" /\ passive[5] = "sources"
    OBVIOUS
  <2>2. passive \in Seq(Words)
    BY <1>0
  <2> HIDE DEF passive
  <2> QED BY <2>1, <2>2 DEF Listed
<1>7. ProbeRows \in Seq(Words) /\ Len(ProbeRows) = 4 /\ Listed(ProbeRows) = ProbeKinds
  BY <1>0, FourListed DEF ProbeRows, ProbeKinds
<1> HIDE DEF hop, work, passive, scope, memory, room
<1> DEFINE probed == hop \o ProbeRows
<1>8. /\ probed \in Seq(Words) /\ Len(probed) = 5 /\ Listed(probed) = {"hop"} \cup ProbeKinds
  <2>1. /\ probed \in Seq(Words) /\ Len(probed) = Len(hop) + Len(ProbeRows)
        /\ Listed(probed) = Listed(hop) \cup Listed(ProbeRows)
    BY <1>0, <1>2, <1>7, Joined, Zenon
  <2> HIDE DEF probed
  <2> QED BY <1>2, <1>7, <2>1
<1> HIDE DEF probed
<1>9. /\ probed \o work \in Seq(Words)
      /\ {"hop"} \cup ProbeKinds \subseteq Fitting(probed \o work, room)
  <2>1. /\ probed \o work \in Seq(Words)
        /\ Fitting(probed, room) \subseteq Fitting(probed \o work, room)
        /\ Len(probed) <= room => Fitting(probed, room) = Listed(probed)
    BY <1>0, <1>3, <1>8, Joined, Zenon
  <2> QED BY <1>0, <1>8, <2>1
<1>10. /\ body \in Seq(Words)
       /\ look.active => {"hop"} \cup ProbeKinds \subseteq Fitting(body, room)
       /\ ~look.active => body = passive
  <2>1. CASE look.active
    <3>1. body = probed \o work
      BY <2>1 DEF probed
    <3> HIDE DEF body
    <3> QED BY <1>9, <2>1, <3>1, Zenon
  <2>2. CASE ~look.active
    <3>1. body = passive
      BY <2>2
    <3> HIDE DEF body
    <3> QED BY <1>6, <2>2, <3>1, Zenon
  <2> QED BY <2>1, <2>2
<1> HIDE DEF body
<1>11. /\ lines \in Seq(Words) /\ Listed(lines) = Listed(body) \cup Listed(scope)
       /\ Fitting(body, room) \subseteq Fitting(lines, room)
       /\ Fitting(lines, room) \subseteq Fitting(lines \o memory, room)
       /\ Listed(lines \o memory) = Listed(lines) \cup Listed(memory)
       /\ Fitting(lines \o memory, room) \subseteq Listed(lines \o memory)
       /\ Fitting(lines, room) \subseteq Listed(lines)
  <2>1. /\ lines \in Seq(Words) /\ Listed(lines) = Listed(body) \cup Listed(scope)
        /\ Fitting(body, room) \subseteq Fitting(lines, room)
    BY <1>0, <1>4, <1>10, Joined, Zenon
  <2> HIDE DEF lines
  <2>2. /\ lines \o memory \in Seq(Words)
        /\ Fitting(lines, room) \subseteq Fitting(lines \o memory, room)
        /\ Listed(lines \o memory) = Listed(lines) \cup Listed(memory)
        /\ Fitting(lines, room) \subseteq Listed(lines)
    BY <1>0, <1>5, <2>1, Joined, Zenon
  <2>3. Fitting(lines \o memory, room) \subseteq Listed(lines \o memory)
    BY DEF Fitting, Listed
  <2> QED BY <2>1, <2>2, <2>3
<1> HIDE DEF lines
<1>12. all = lines \/ all = lines \o memory
  OBVIOUS
<1> HIDE DEF all
<1>13. /\ Fitting(lines, room) \subseteq Fitting(all, room)
       /\ Fitting(all, room) \subseteq Listed(lines) \cup Listed(memory)
  BY <1>11, <1>12
<1>14. look.active => ProbeKinds \cup {"hop"} \subseteq Fitting(all, room)
  BY <1>10, <1>11, <1>13
<1>15. ~look.active => ProbeKinds \cap Fitting(all, room) = {}
  <2>1. ~look.active =>
          Fitting(all, room) \subseteq {"policy", "interface", "workload", "resolvers", "sources",
                                        "scope", "anchor", "place"}
    BY <1>4, <1>5, <1>6, <1>10, <1>11, <1>13
  <2> QED BY <2>1 DEF ProbeKinds
<1> QED
  BY <1>1, <1>14, <1>15

\* What is on the screen, whatever its size (render).
LEMMA OverviewShows ==
  ASSUME NEW look \in Looks, ~TooSmall(look.screen)
  PROVE  LET lines == Overview(look)
             rows == look.screen.rows
         IN /\ {"header", "status", "path", "coverage", "action"} \subseteq lines
            /\ look.salient /\ rows > 10 => "context" \in lines
            /\ look.active /\ rows > 10 => ProbeKinds \cup {"hop"} \subseteq lines
            /\ ~look.active => ProbeKinds \cap lines = {}
<1> DEFINE lines == Overview(look)
           rows == look.screen.rows
           wide == look.screen.cols >= 120 /\ rows >= 25
           top == {"header"} \cup DiagnosisLines \cup PathLines
<1>1. /\ rows \in Nat /\ rows >= 10
      /\ Compact(look.screen) => rows = 10 \/ rows = 30
      /\ ~Compact(look.screen) => rows >= 23
  <2>1. look.screen \in Screens
    BY DEF Looks
  <2>2. \A screen \in Screens :
          /\ screen.rows \in Nat /\ screen.rows >= 10
          /\ screen.cols < 76 \/ screen.rows < 22 => screen.rows = 10 \/ screen.rows = 30
          /\ screen.cols >= 76 => screen.rows >= 23
          /\ screen.cols \in Nat
    BY DEF Screens
  <2> QED BY <2>1, <2>2 DEF Compact
<1>2. ASSUME Compact(look.screen)
      PROVE  /\ {"header", "status", "path", "coverage", "action"} \subseteq lines
             /\ look.salient /\ rows > 10 => "context" \in lines
             /\ look.active /\ rows > 10 => ProbeKinds \cup {"hop"} \subseteq lines
             /\ ~look.active => ProbeKinds \cap lines = {}
  <2> DEFINE room == rows - 6
  <2>1. lines = {"header"} \cup CompactLines(look)
    BY <1>2 DEF Overview
  <2>2. room \in Nat /\ room >= 4 /\ (rows > 10 => room >= 12)
    BY <1>1, <1>2
  <2>3. /\ {"status", "path", "coverage", "action"} \subseteq CompactLines(look)
        /\ room >= 12 /\ look.salient => "context" \in CompactLines(look)
        /\ room >= 12 /\ look.active => ProbeKinds \cup {"hop"} \subseteq CompactLines(look)
        /\ ~look.active => ProbeKinds \cap CompactLines(look) = {}
    BY <2>2, CompactShows
  <2> HIDE DEF lines, room, rows
  <2> QED BY <2>1, <2>2, <2>3 DEF ProbeKinds
<1>3. ASSUME ~Compact(look.screen)
      PROVE  /\ top \subseteq lines
             /\ look.active => ProbeKinds \cup {"hop"} \subseteq lines
             /\ ~look.active => ProbeKinds \cap lines = {}
  <2>1. /\ look.active => ProbeKinds \cup {"hop"} \subseteq LedgerLines(look)
        /\ ~look.active => ProbeKinds \cap LedgerLines(look) = {}
    BY <1>1, <1>3, LedgerShows
  <2>2. ProbeKinds \cap (top \cup {"windows"}) = {}
    BY DEF ProbeKinds, DiagnosisLines, PathLines
  <2>3. CASE ~wide \/ ~look.active
    <3>1. lines = top \cup LedgerLines(look) \cup IF wide /\ rows >= 28 THEN {"windows"} ELSE {}
      BY <1>3, <2>3, Zenon DEF Overview
    <3> HIDE DEF lines, top, wide, rows
    <3> QED BY <2>1, <2>2, <3>1
  <2>4. CASE wide /\ look.active
    <3>1. top \cup {"hop", "workload"} \cup ProbePanel(look.active) \subseteq lines
      BY <1>3, <2>4 DEF Overview
    <3>2. ProbePanel(look.active) = ProbeKinds
      BY <2>4 DEF ProbePanel
    <3> HIDE DEF lines, top, wide, rows
    <3> QED BY <2>4, <3>1, <3>2
  <2> QED BY <2>3, <2>4
<1>4. {"header", "status", "path", "coverage", "action", "context"} \subseteq top
  BY DEF DiagnosisLines, PathLines
<1> HIDE DEF lines, rows, wide, top
<1> QED
  BY <1>2, <1>3, <1>4 DEF lines, rows

\* Whatever the size of the terminal, a session is not told better than it is.
LEMMA ScreensSayIt ==
  ASSUME NEW e, Kept(e)
  PROVE  ScreensTell(e)
<1> DEFINE verdict == Situation(e)
           coverage == CoverageLine(e)
           compact == [width \in Widths |-> CompactCoverage(e, width)]
<1> SUFFICES ASSUME NEW shown \in OverviewLines,
                    shown.active <=> Active(e), e.settling => shown.salient
             PROVE  LET screen == shown.screen
                        lines == shown.lines
                        parts == IF screen.cols < 120 THEN compact[WidthOf(screen)]
                                 ELSE DOMAIN coverage
                    IN /\ {"header", "status", "path", "coverage", "action"} \subseteq lines
                       /\ e.settling /\ screen.rows > 10 => "context" \in lines
                       /\ Active(e) /\ screen.rows > 10 => ProbeKinds \cup {"hop"} \subseteq lines
                       /\ ~Active(e) => ProbeKinds \cap lines = {}
                       /\ (\E k \in PathKinds \ lines : Active(e) /\ e.probes[k] = "failed") =>
                            verdict.health # "ok"
                       /\ CacheCompleteness(e) \notin {"ok", "queued"} =>
                            \/ {"completeness", "scope"} \cap lines # {}
                            \/ "coverage" \in parts /\ coverage.coverage # "complete"
                            \/ "cache" \in parts
                       /\ CompactAction(e, verdict, screen).enable => ~Active(e)
  BY Zenon DEF ScreensTell
<1> DEFINE screen == shown.screen
           lines == shown.lines
           parts == IF screen.cols < 120 THEN compact[WidthOf(screen)] ELSE DOMAIN coverage
<1>1. /\ {"header", "status", "path", "coverage", "action"} \subseteq lines
      /\ shown.salient /\ screen.rows > 10 => "context" \in lines
      /\ shown.active /\ screen.rows > 10 => ProbeKinds \cup {"hop"} \subseteq lines
      /\ ~shown.active => ProbeKinds \cap lines = {}
  <2>1. PICK look \in Looks :
          /\ ~TooSmall(look.screen)
          /\ shown = [screen |-> look.screen, active |-> look.active, salient |-> look.salient,
                      lines |-> Overview(look)]
    BY DEF OverviewLines
  <2>2. /\ shown.screen = look.screen /\ shown.active = look.active
        /\ shown.salient = look.salient /\ shown.lines = Overview(look)
    BY <2>1
  <2> QED BY <2>1, <2>2, OverviewShows
<1>2. (\E k \in PathKinds : e.probes[k] = "failed") => verdict.health # "ok"
  BY SuccessSeen
<1>3. "coverage" \in parts \/ "cache" \in parts
  <2>1. CASE screen.cols < 120
    <3>1. WidthOf(screen) \in Widths
      BY DEF WidthOf, Widths
    <3>2. parts = CompactCoverage(e, WidthOf(screen))
      BY <2>1, <3>1
    <3> QED BY <3>1, <3>2, CompactNames
  <2>2. CASE ~(screen.cols < 120)
    <3>1. parts = DOMAIN coverage
      BY <2>2
    <3> QED BY <3>1, CoverageLineSays
  <2> QED BY <2>1, <2>2
<1>4. CacheCompleteness(e) \notin {"ok", "queued"} => coverage.coverage # "complete"
  <2>1. coverage.coverage = OverviewCoverage(e)
    BY CoverageLineSays
  <2>2. OverviewCoverage(e) = "complete" =>
          ~e.peers.failed /\ e.peers.health \notin {"queued", "degraded", "failed", "unavailable"}
    BY DEF OverviewCoverage
  <2>3. e.peers.health \in {"queued", "ok", "degraded", "unavailable"}
    BY DEF Kept, Sensible, CacheReading
  <2> HIDE DEF coverage
  <2> QED BY <2>1, <2>2, <2>3 DEF CacheCompleteness
<1>5. CompactAction(e, verdict, screen).enable => ~Active(e)
  <2>1. CASE screen.cols < 76 /\ ~Active(e)
    BY <2>1
  <2>2. CASE ~(screen.cols < 76 /\ ~Active(e))
    <3>1. CompactAction(e, verdict, screen) = Action(verdict)
      BY <2>2 DEF CompactAction
    <3>2. Action(verdict).enable = (verdict.kind = "PassiveObservation")
      BY ActionSays, Zenon
    <3>3. verdict.kind = "PassiveObservation" => ~Active(e)
      BY KindsSeen DEF KindSeen
    <3> HIDE DEF verdict
    <3> QED BY <3>1, <3>2, <3>3, Zenon
  <2> QED BY <2>1, <2>2
<1> HIDE DEF verdict, coverage, compact, parts, lines, screen
<1>6. ~Active(e) => ProbeKinds \cap lines = {}
  BY <1>1
<1> QED
  BY <1>1, <1>2, <1>3, <1>4, <1>5, <1>6, Zenon
  DEF verdict, coverage, compact, parts, lines, screen

-----------------------------------------------------------------------------
LEMMA KeptTells ==
  ASSUME NEW e, Kept(e)
  PROVE  Tellable(e)
BY DEF Kept, Evidence, Sensible, LinkEvidence, Tellable

LEMMA ShotTells ==
  ASSUME NEW r, NEW ended, Reported(r), Collected(r, ended),
         ended["PublicIp"] \notin {"degraded", "failed"}
  PROVE  Tellable(AsLive(r))
<1> DEFINE e == AsLive(r)
           replies == [i \in 1 .. MinSamples |-> "reply"]
<1>1. Alike(e, r)
  BY AsLiveSays
<1> HIDE DEF e
<1>2. replies \in Seq({"reply", "lost"})
  <2>1. MinSamples \in Nat
    BY WindowAssumption
  <2>2. replies \in [1 .. MinSamples -> {"reply", "lost"}]
    OBVIOUS
  <2> HIDE DEF replies
  <2> QED BY <2>1, <2>2, SeqDef
<1>3. r.subject = "diagnosis" =>
        /\ \A k \in ProbeKinds : r.results[k] \in Health
        /\ r.results["PublicIp"] \notin {"degraded", "failed"}
  BY DEF Reported, Collected, Missing, ProbeKinds, PathKinds
<1>4. /\ \A k \in ProbeKinds : FreshProbes(Policy(r))[k] \in Health
      /\ FreshProbes(Policy(r))["PublicIp"] \notin {"degraded", "failed"}
  BY DEF FreshProbes, Health, Pending, ProbeKinds
<1>5. e.link.route \in BOOLEAN /\ e.outcomes = replies /\ e.stale = {}
      /\ e.probes = IF r.subject = "diagnosis" THEN r.results ELSE FreshProbes(Policy(r))
  BY <1>1 DEF Alike, Reported
<1> HIDE DEF replies
<1>6. \A k \in ProbeKinds : e.probes[k] \in Health
  BY <1>3, <1>4, <1>5
<1>7. e.probes["PublicIp"] \notin {"degraded", "failed"}
  BY <1>3, <1>4, <1>5
<1> QED
  BY <1>2, <1>5, <1>6, <1>7 DEF Tellable, e

\* Whatever a session observes, and at whatever size it is shown: every sentence
\* of the dashboard is borne out by the evidence, every line that tells of one
\* thing tells the same of it, and no terminal makes a session look better than it
\* is; the sentences of a report are borne out by what it collected (ui.rs,
\* overview_diagnosis and the render functions).
THEOREM SentencesAreBacked == Spec => []DiagnosisBacked
<1>1. Init => ReportInvariant /\ ShotInvariant
  BY ReportInit, ShotInitially DEF Init
<1>2. ReportInvariant /\ ShotInvariant /\ [Next]_vars => ReportInvariant' /\ ShotInvariant'
  <2>1. [Next]_vars => [ShotNext]_shotVars
    BY DEF Next, vars, Stream, Plain, Windows, Probe, Host, Ping, Speed, Readiness, Line,
           Capsules, Screenshot
  <2> QED BY <2>1, ShotStep, ReportStep
<1>3. ReportInvariant /\ ShotInvariant => DiagnosisBacked
  <2> SUFFICES ASSUME ReportInvariant, ShotInvariant PROVE DiagnosisBacked
    OBVIOUS
  <2>1. Backed(evidence) /\ LinesAgree(evidence) /\ ScreensTell(evidence)
    BY KeptTells, TellsBacked, LinesSayTheSame, ScreensSayIt DEF ReportInvariant
  <2>2. ASSUME shot.phase = "reported" PROVE Backed(AsLive(shot))
    <3>1. Tellable(AsLive(shot))
      BY <2>2, ShotTells DEF ShotInvariant
    <3> QED BY <3>1, TellsBacked
  <2> QED BY <2>1, <2>2 DEF DiagnosisBacked
<1> QED
  BY <1>1, <1>2, <1>3, PTL DEF Spec
=============================================================================
