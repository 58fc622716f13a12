--------------------------- MODULE LiveAppProofs ---------------------------
(***************************************************************************)
(* What the reducer preserves, for every App, every update and every value *)
(* of the constants: the App stays an App, and what it shows under one     *)
(* generation is what it showed before, or what the update carries.        *)
(***************************************************************************)
EXTENDS LiveApp, SequenceTheorems, TLAPS

\* A fingerprint is in its type, and NONE is none.
LEMMA FingerprintType ==
  ASSUME NEW link \in Link
  PROVE  /\ Fingerprint(link) \in Fingerprints
         /\ Fingerprint(link) # NONE
BY NoneIsNoFingerprint DEF Link, Fingerprint, Fingerprints

LEMMA LinkIsNotNone == \A link \in Link : link # NONE
BY NoneIsNoLink

\* Probes and collectors are different slots.
LEMMA SlotsApart == /\ Probes \cap Collectors = {}
                    /\ Probes \subseteq Slots /\ Collectors \subseteq Slots
BY SlotsAssumption DEF AllProbes, AllCollectors, Slots

\* A bounded queue stays a sequence, and holds nothing new but the element.
LEMMA PushBoundedProperties ==
  ASSUME NEW S, NEW queue \in Seq(S), NEW element \in S, NEW bound \in Nat \ {0}
  PROVE  /\ PushBounded(queue, element, bound) \in Seq(S)
         /\ \A i \in DOMAIN PushBounded(queue, element, bound) :
              \/ PushBounded(queue, element, bound)[i] = element
              \/ \E j \in DOMAIN queue :
                   PushBounded(queue, element, bound)[i] = queue[j]
<1> DEFINE kept == IF Len(queue) >= bound THEN Tail(queue) ELSE queue
<1>1. /\ kept \in Seq(S)
      /\ \A i \in 1 .. Len(kept) : \E j \in 1 .. Len(queue) : kept[i] = queue[j]
  <2>1. CASE Len(queue) >= bound
    <3>1. queue # <<>>
      BY <2>1
    <3>2. /\ Tail(queue) \in Seq(S) /\ Len(Tail(queue)) = Len(queue) - 1
          /\ \A i \in 1 .. Len(Tail(queue)) : Tail(queue)[i] = queue[i + 1]
      BY <3>1, HeadTailProperties
    <3>3. \A i \in 1 .. Len(Tail(queue)) : i + 1 \in 1 .. Len(queue)
      BY <3>2
    <3> QED BY <2>1, <3>2, <3>3
  <2>2. CASE ~(Len(queue) >= bound)
    BY <2>2
  <2> QED BY <2>1, <2>2
<1>2. /\ Append(kept, element) \in Seq(S)
      /\ Len(Append(kept, element)) = Len(kept) + 1
      /\ \A i \in 1 .. Len(kept) : Append(kept, element)[i] = kept[i]
      /\ Append(kept, element)[Len(kept) + 1] = element
  BY <1>1, AppendProperties
<1>3. PushBounded(queue, element, bound) = Append(kept, element)
  BY DEF PushBounded
<1> HIDE DEF kept
<1>4. ASSUME NEW i \in 1 .. Len(kept) + 1
      PROVE  \/ Append(kept, element)[i] = element
             \/ \E j \in 1 .. Len(queue) : Append(kept, element)[i] = queue[j]
  <2>1. CASE i = Len(kept) + 1
    BY <1>2, <2>1
  <2>2. CASE i # Len(kept) + 1
    <3>1. i \in 1 .. Len(kept)
      BY <2>2, <1>1
    <3> QED BY <3>1, <1>1, <1>2
  <2> QED BY <2>1, <2>2
<1>5. DOMAIN Append(kept, element) = 1 .. Len(kept) + 1
  BY <1>2
<1>6. DOMAIN queue = 1 .. Len(queue)
  OBVIOUS
<1> QED BY <1>2, <1>3, <1>4, <1>5, <1>6

-----------------------------------------------------------------------------
(***************************************************************************)
(* Types.                                                                  *)
(***************************************************************************)
\* FreshHealth describes every probe.
LEMMA FreshHealthType ==
  ASSUME NEW p \in Policies
  PROVE  FreshHealth(p) \in [Probes -> Unsettled \cup Outcomes]
BY DEF FreshHealth, Unsettled

\* A new App is an App.
LEMMA NewAppType ==
  ASSUME NEW p \in Policies
  PROVE  NewApp(p) \in App
<1>1. FreshHealth(p) \in [Probes -> Unsettled \cup Outcomes]
  BY FreshHealthType
<1>2. <<>> \in Seq(Fingerprints) /\ <<>> \in Seq(CompletedDwell)
  OBVIOUS
<1> QED BY <1>1, <1>2 DEF NewApp, App

\* Admitting a link keeps the App an App, whether it refreshes the path shown
\* or opens a generation.
LEMMA ApplyLinkType ==
  ASSUME NEW app \in App, NEW u \in MonitorUpdate, u.type = "Link",
         app.path_generation # 0 => app.link # NONE
  PROVE  ApplyLink(app, u) \in App
<1>1. u.link \in Link /\ u.generation \in Nat
  BY DEF MonitorUpdate
<1>2. u.link.ssid \in Names \cup {NONE, REDACTED}
  BY <1>1 DEF Link
<1>3. CASE u.generation = app.path_generation
  <2>1. KeptName(app.ssid, u.link.ssid) \in Names \cup {NONE, REDACTED}
    BY <1>2 DEF KeptName, App
  <2>2. RefreshLink(app, u.link) \in App
    BY <1>1, <2>1 DEF RefreshLink, App
  <2> QED BY <1>3, <2>2 DEF ApplyLink
<1>4. CASE u.generation # app.path_generation
  <2> DEFINE ledger == IF app.path_generation = 0
                       THEN app.completed_path_dwells
                       ELSE PushBounded(app.completed_path_dwells,
                              ClosedDwell(app, u.generation), MaxDwells)
  <2>1. ledger \in Seq(CompletedDwell)
    <3>1. CASE app.path_generation = 0
      BY <3>1 DEF App
    <3>2. CASE app.path_generation # 0
      <4>1. app.link \in Link
        BY <3>2 DEF App
      <4>2. ClosedDwell(app, u.generation) \in CompletedDwell
        BY <4>1, <1>1, FingerprintType DEF ClosedDwell, CompletedDwell, App
      <4>3. app.completed_path_dwells \in Seq(CompletedDwell)
        BY DEF App
      <4> QED BY <3>2, <4>2, <4>3, PushBoundedProperties, BoundsAssumption
    <3> QED BY <3>1, <3>2
  <2>2. FreshHealth(app.probe_policy) \in [Probes -> Unsettled \cup Outcomes]
    BY FreshHealthType DEF App
  <2>3. [s \in Slots |-> NONE] \in [Slots -> Fingerprints \cup {NONE}]
    OBVIOUS
  <2>4. <<>> \in Seq(Fingerprints)
    OBVIOUS
  <2>5. OpenGeneration(app, u.generation, u.link) =
          [app EXCEPT !.path_generation = u.generation, !.link = u.link,
             !.ssid = u.link.ssid, !.public_ip = NONE,
             !.path_transition_pending = FALSE,
             !.health = FreshHealth(app.probe_policy),
             !.evidence = [s \in Slots |-> NONE], !.gateway_outcomes = <<>>,
             !.path_dwell = {}, !.completed_path_dwells = ledger]
    BY DEF OpenGeneration, App
  <2> HIDE DEF ledger
  <2>6. OpenGeneration(app, u.generation, u.link) \in App
    BY <1>1, <1>2, <2>1, <2>2, <2>3, <2>4, <2>5 DEF App
  <2> QED BY <1>4, <2>6 DEF ApplyLink
<1> QED BY <1>3, <1>4

\* Admitting evidence keeps the App an App.
LEMMA ApplyEvidenceType ==
  ASSUME NEW app \in App, NEW u \in MonitorUpdate
  PROVE  /\ u.type = "Collected" => ApplyCollected(app, u) \in App
         /\ u.type = "ProbeStarted" => ApplyProbeStarted(app, u) \in App
         /\ u.type = "ProbeFinished" => ApplyProbeFinished(app, u) \in App
<1>1. ASSUME u.type = "Collected"
      PROVE  ApplyCollected(app, u) \in App
  <2>1. u.slot \in Slots /\ u.path \in Fingerprints /\ u.ssid \in Names \cup {NONE}
    BY <1>1, SlotsApart DEF MonitorUpdate
  <2> QED BY <2>1 DEF ApplyCollected, App
<1>2. ASSUME u.type = "ProbeStarted"
      PROVE  ApplyProbeStarted(app, u) \in App
  <2>1. u.slot \in Probes
    BY <1>2 DEF MonitorUpdate
  <2> QED BY <2>1 DEF ApplyProbeStarted, App, Unsettled
<1>3. ASSUME u.type = "ProbeFinished"
      PROVE  ApplyProbeFinished(app, u) \in App
  <2>1. /\ u.slot \in Probes /\ u.slot \in Slots
        /\ u.path \in Fingerprints /\ u.outcome \in Outcomes
    BY <1>3, SlotsApart DEF MonitorUpdate
  <2>2. PushBounded(app.gateway_outcomes, u.path, MaxSamples) \in Seq(Fingerprints)
    BY <2>1, PushBoundedProperties, BoundsAssumption DEF App
  <2> QED BY <2>1, <2>2 DEF ApplyProbeFinished, App
<1> QED BY <1>1, <1>2, <1>3

\* Every update keeps the App an App.
LEMMA ApplyType ==
  ASSUME NEW app \in App, NEW u \in MonitorUpdate,
         app.path_generation # 0 => app.link # NONE
  PROVE  Apply(app, u) \in App
<1>1. u.type \in {"Link", "PathSettling", "Collected", "ProbeStarted", "ProbeFinished"}
  BY DEF MonitorUpdate
<1>2. ApplyPathSettling(app) \in App
  BY DEF ApplyPathSettling, App
<1> QED BY <1>1, <1>2, ApplyLinkType, ApplyEvidenceType DEF Apply

\* So do the operator's pause and probe policy keys.
LEMMA OperatorType ==
  ASSUME NEW app \in App, NEW b \in BOOLEAN, NEW p \in Policies
  PROVE  SetPaused(app, b) \in App /\ SetProbePolicy(app, p) \in App
<1>1. SetPaused(app, b) \in App
  BY DEF SetPaused, App
<1>2. FreshHealth(p) \in [Probes -> Unsettled \cup Outcomes]
  BY FreshHealthType
<1>3. [s \in Slots |-> IF s \in Probes THEN NONE ELSE app.evidence[s]]
        \in [Slots -> Fingerprints \cup {NONE}]
  BY DEF App
<1>4. <<>> \in Seq(Fingerprints)
  OBVIOUS
<1>5. SetProbePolicy(app, p) \in App
  BY <1>2, <1>3, <1>4 DEF SetProbePolicy, App
<1> QED BY <1>1, <1>5

-----------------------------------------------------------------------------
(***************************************************************************)
(* Paths.                                                                  *)
(***************************************************************************)
\* What an App shows, said of one path at a time.
LEMMA AppPathsMember ==
  ASSUME NEW app, NEW path
  PROVE  path \in AppPaths(app) <=>
           \/ app.link # NONE /\ path = Fingerprint(app.link)
           \/ path # NONE /\ \E s \in Slots : path = app.evidence[s]
           \/ path # NONE /\ path = app.public_ip
           \/ \E i \in DOMAIN app.gateway_outcomes : path = app.gateway_outcomes[i]
           \/ path \in app.path_dwell
BY DEF AppPaths

\* An admitted link of the generation shown adds its own path; an admitted
\* link of another generation leaves nothing but its own path.
LEMMA ApplyLinkPaths ==
  ASSUME NEW app \in App, NEW u \in MonitorUpdate, u.type = "Link"
  PROVE  /\ ApplyLink(app, u).path_generation = u.generation
         /\ ApplyLink(app, u).link = u.link
         /\ u.generation = app.path_generation =>
              /\ AppPaths(ApplyLink(app, u)) \subseteq AppPaths(app) \cup {CarriedPath(u)}
              /\ ApplyLink(app, u).evidence = app.evidence
         /\ u.generation # app.path_generation =>
              /\ AppPaths(ApplyLink(app, u)) \subseteq {CarriedPath(u)}
              /\ ApplyLink(app, u).evidence = [s \in Slots |-> NONE]
<1>1. CASE u.generation = app.path_generation
  <2> DEFINE new == RefreshLink(app, u.link)
  <2>1. ApplyLink(app, u) = new
    BY <1>1 DEF ApplyLink
  <2>2. /\ new.path_generation = app.path_generation /\ new.link = u.link
        /\ new.evidence = app.evidence /\ new.public_ip = app.public_ip
        /\ new.gateway_outcomes = app.gateway_outcomes
        /\ new.path_dwell = app.path_dwell
    BY DEF RefreshLink, App
  <2> HIDE DEF new
  <2>3. AppPaths(new) \subseteq AppPaths(app) \cup {CarriedPath(u)}
    BY <2>2, AppPathsMember DEF CarriedPath
  <2> QED BY <1>1, <2>1, <2>2, <2>3
<1>2. CASE u.generation # app.path_generation
  <2> DEFINE new == OpenGeneration(app, u.generation, u.link)
  <2>1. ApplyLink(app, u) = new
    BY <1>2 DEF ApplyLink
  <2>2. /\ new.path_generation = u.generation /\ new.link = u.link
        /\ new.evidence = [s \in Slots |-> NONE] /\ new.public_ip = NONE
        /\ new.gateway_outcomes = <<>> /\ new.path_dwell = {}
    BY DEF OpenGeneration, App
  <2> HIDE DEF new
  <2>3. AppPaths(new) \subseteq {CarriedPath(u)}
    BY <2>2, AppPathsMember DEF CarriedPath
  <2> QED BY <1>2, <2>1, <2>2, <2>3
<1> QED BY <1>1, <1>2

\* Admitted evidence adds the path it was collected for, in its own slot.
LEMMA ApplyCollectedPaths ==
  ASSUME NEW app \in App, NEW u \in MonitorUpdate, u.type = "Collected"
  PROVE  /\ ApplyCollected(app, u).path_generation = app.path_generation
         /\ ApplyCollected(app, u).link = app.link
         /\ ApplyCollected(app, u).evidence = [app.evidence EXCEPT ![u.slot] = u.path]
         /\ AppPaths(ApplyCollected(app, u)) \subseteq AppPaths(app) \cup {CarriedPath(u)}
<1> DEFINE new == ApplyCollected(app, u)
<1>1. /\ new.path_generation = app.path_generation /\ new.link = app.link
      /\ new.evidence = [app.evidence EXCEPT ![u.slot] = u.path]
      /\ new.public_ip = app.public_ip
      /\ new.gateway_outcomes = app.gateway_outcomes
      /\ new.path_dwell = app.path_dwell \cup {u.path}
  BY DEF ApplyCollected, App
<1>2. app.evidence \in [Slots -> Fingerprints \cup {NONE}]
  BY DEF App
<1> HIDE DEF new
<1>3. AppPaths(new) \subseteq AppPaths(app) \cup {CarriedPath(u)}
  BY <1>1, <1>2, AppPathsMember DEF CarriedPath
<1> QED BY <1>1, <1>3 DEF new

LEMMA ApplyProbeStartedPaths ==
  ASSUME NEW app \in App, NEW u
  PROVE  /\ ApplyProbeStarted(app, u).path_generation = app.path_generation
         /\ ApplyProbeStarted(app, u).link = app.link
         /\ ApplyProbeStarted(app, u).evidence = app.evidence
         /\ AppPaths(ApplyProbeStarted(app, u)) = AppPaths(app)
BY DEF ApplyProbeStarted, App, AppPaths

LEMMA ApplyPathSettlingPaths ==
  ASSUME NEW app \in App
  PROVE  /\ ApplyPathSettling(app).path_generation = app.path_generation
         /\ ApplyPathSettling(app).link = app.link
         /\ ApplyPathSettling(app).evidence = app.evidence
         /\ AppPaths(ApplyPathSettling(app)) = AppPaths(app)
BY DEF ApplyPathSettling, App, AppPaths

LEMMA ApplyProbeFinishedPaths ==
  ASSUME NEW app \in App, NEW u \in MonitorUpdate, u.type = "ProbeFinished"
  PROVE  /\ ApplyProbeFinished(app, u).path_generation = app.path_generation
         /\ ApplyProbeFinished(app, u).link = app.link
         /\ ApplyProbeFinished(app, u).evidence =
              [app.evidence EXCEPT ![u.slot] = u.path]
         /\ AppPaths(ApplyProbeFinished(app, u)) \subseteq AppPaths(app) \cup {CarriedPath(u)}
<1> DEFINE new == ApplyProbeFinished(app, u)
           pushed == PushBounded(app.gateway_outcomes, u.path, MaxSamples)
<1>1. /\ new.path_generation = app.path_generation /\ new.link = app.link
      /\ new.evidence = [app.evidence EXCEPT ![u.slot] = u.path]
      /\ new.public_ip \in {app.public_ip, u.path}
      /\ new.gateway_outcomes \in {app.gateway_outcomes, pushed}
      /\ new.path_dwell = app.path_dwell
  BY DEF ApplyProbeFinished, App
<1>2. /\ app.evidence \in [Slots -> Fingerprints \cup {NONE}]
      /\ app.gateway_outcomes \in Seq(Fingerprints)
      /\ u.path \in Fingerprints
  BY DEF App, MonitorUpdate
<1>3. \A i \in DOMAIN pushed :
        \/ pushed[i] = u.path
        \/ \E j \in DOMAIN app.gateway_outcomes : pushed[i] = app.gateway_outcomes[j]
  BY <1>2, PushBoundedProperties, BoundsAssumption
<1> HIDE DEF new, pushed
<1>4. ASSUME NEW path \in AppPaths(new)
      PROVE  path \in AppPaths(app) \cup {u.path}
  <2>1. \/ new.link # NONE /\ path = Fingerprint(new.link)
        \/ path # NONE /\ \E s \in Slots : path = new.evidence[s]
        \/ path # NONE /\ path = new.public_ip
        \/ \E i \in DOMAIN new.gateway_outcomes : path = new.gateway_outcomes[i]
        \/ path \in new.path_dwell
    BY AppPathsMember
  <2>2. CASE \E i \in DOMAIN new.gateway_outcomes : path = new.gateway_outcomes[i]
    BY <1>1, <1>3, <2>2, AppPathsMember
  <2> QED BY <1>1, <1>2, <2>1, <2>2, AppPathsMember
<1>5. CarriedPath(u) = u.path
  BY DEF CarriedPath
<1> QED BY <1>1, <1>4, <1>5 DEF new

\* The operator's keys add no path and take none but the evidence of probes.
LEMMA OperatorPaths ==
  ASSUME NEW app \in App, NEW b, NEW p \in Policies
  PROVE  /\ SetPaused(app, b).path_generation = app.path_generation
         /\ SetPaused(app, b).link = app.link
         /\ SetPaused(app, b).evidence = app.evidence
         /\ AppPaths(SetPaused(app, b)) = AppPaths(app)
         /\ SetProbePolicy(app, p).path_generation = app.path_generation
         /\ SetProbePolicy(app, p).link = app.link
         /\ SetProbePolicy(app, p).evidence \in
              {app.evidence,
               [s \in Slots |-> IF s \in Probes THEN NONE ELSE app.evidence[s]]}
         /\ AppPaths(SetProbePolicy(app, p)) \subseteq AppPaths(app)
<1>1. /\ SetPaused(app, b).path_generation = app.path_generation
      /\ SetPaused(app, b).link = app.link
      /\ SetPaused(app, b).evidence = app.evidence
      /\ AppPaths(SetPaused(app, b)) = AppPaths(app)
  BY DEF SetPaused, App, AppPaths
<1> DEFINE new == SetProbePolicy(app, p)
           kept == [s \in Slots |-> IF s \in Probes THEN NONE ELSE app.evidence[s]]
<1>2. CASE app.probe_policy = p
  BY <1>1, <1>2 DEF SetProbePolicy
<1>3. CASE app.probe_policy # p
  <2>1. /\ new.path_generation = app.path_generation /\ new.link = app.link
        /\ new.evidence = kept /\ new.public_ip = NONE
        /\ new.gateway_outcomes = <<>> /\ new.path_dwell = app.path_dwell
    BY <1>3 DEF SetProbePolicy, App
  <2> HIDE DEF new
  <2>2. AppPaths(new) \subseteq AppPaths(app)
    BY <2>1, AppPathsMember
  <2> QED BY <1>1, <2>1, <2>2 DEF new
<1> QED BY <1>2, <1>3

-----------------------------------------------------------------------------
(***************************************************************************)
(* Consent.                                                                *)
(***************************************************************************)
\* No update changes the policy on display; under a passive policy none
\* changes what probes contribute, except by clearing it.
LEMMA ApplyPassive ==
  ASSUME NEW app \in App, NEW u \in MonitorUpdate
  PROVE  /\ Apply(app, u).probe_policy = app.probe_policy
         /\ app.probe_policy = "passive" =>
              /\ Apply(app, u).health \in {app.health, FreshHealth("passive")}
              /\ \A k \in Probes : Apply(app, u).evidence[k] \in {app.evidence[k], NONE}
              /\ Apply(app, u).public_ip \in {app.public_ip, NONE}
              /\ Apply(app, u).gateway_outcomes \in {app.gateway_outcomes, <<>>}
<1> DEFINE new == Apply(app, u)
<1>0. /\ u.type \in {"Link", "PathSettling", "Collected", "ProbeStarted", "ProbeFinished"}
      /\ app.evidence \in [Slots -> Fingerprints \cup {NONE}]
  BY DEF MonitorUpdate, App
<1>1. CASE ~AcceptsUpdate(app, u)
  BY <1>1 DEF Apply
<1>2. CASE AcceptsUpdate(app, u) /\ u.type = "Link"
  <2>1. new = IF u.generation = app.path_generation
              THEN RefreshLink(app, u.link)
              ELSE OpenGeneration(app, u.generation, u.link)
    BY <1>2 DEF Apply, ApplyLink
  <2> HIDE DEF new
  <2>2. CASE u.generation = app.path_generation
    <3>1. /\ new.probe_policy = app.probe_policy /\ new.health = app.health
          /\ new.evidence = app.evidence /\ new.public_ip = app.public_ip
          /\ new.gateway_outcomes = app.gateway_outcomes
      BY <2>1, <2>2 DEF RefreshLink, App
    <3> QED BY <3>1 DEF new
  <2>3. CASE u.generation # app.path_generation
    <3>1. /\ new.probe_policy = app.probe_policy
          /\ new.health = FreshHealth(app.probe_policy)
          /\ new.evidence = [s \in Slots |-> NONE] /\ new.public_ip = NONE
          /\ new.gateway_outcomes = <<>>
      BY <2>1, <2>3 DEF OpenGeneration, App
    <3>2. \A k \in Probes : new.evidence[k] = NONE
      BY <3>1, SlotsApart
    <3> QED BY <3>1, <3>2 DEF new
  <2> QED BY <2>2, <2>3
<1>3. CASE AcceptsUpdate(app, u) /\ u.type = "PathSettling"
  <2>1. new = ApplyPathSettling(app)
    BY <1>3 DEF Apply
  <2> QED BY <2>1 DEF ApplyPathSettling, App
<1>4. CASE AcceptsUpdate(app, u) /\ u.type = "Collected"
  <2>1. new = ApplyCollected(app, u)
    BY <1>4 DEF Apply
  <2>2. u.slot \in Collectors
    BY <1>4 DEF MonitorUpdate
  <2> HIDE DEF new
  <2>3. /\ new.probe_policy = app.probe_policy /\ new.health = app.health
        /\ new.evidence = [app.evidence EXCEPT ![u.slot] = u.path]
        /\ new.public_ip = app.public_ip
        /\ new.gateway_outcomes = app.gateway_outcomes
    BY <2>1 DEF ApplyCollected, App
  <2>4. \A k \in Probes : new.evidence[k] = app.evidence[k]
    BY <1>0, <2>2, <2>3, SlotsApart
  <2> QED BY <2>3, <2>4 DEF new
<1>5. CASE AcceptsUpdate(app, u) /\ u.type \in {"ProbeStarted", "ProbeFinished"}
  <2>1. app.probe_policy # "passive"
    BY <1>5 DEF AcceptsUpdate
  <2>2. new \in {ApplyProbeStarted(app, u), ApplyProbeFinished(app, u)}
    BY <1>5 DEF Apply
  <2>3. /\ ApplyProbeStarted(app, u).probe_policy = app.probe_policy
        /\ ApplyProbeFinished(app, u).probe_policy = app.probe_policy
    BY DEF ApplyProbeStarted, ApplyProbeFinished, App
  <2> QED BY <2>1, <2>2, <2>3
<1> QED BY <1>0, <1>1, <1>2, <1>3, <1>4, <1>5

=============================================================================
