------------------------------- MODULE LiveApp -------------------------------
(***************************************************************************)
(* The reducer of a live session (model.rs, App): the updates a monitor    *)
(* sends (MonitorUpdate) and, as operators on the App record, what         *)
(* apply_at, set_paused and set_probe_policy make of it.                   *)
(*                                                                         *)
(* Evidence is represented by the path it was collected for: the           *)
(* fingerprint of the link that was current when its worker was launched.  *)
(* That is all the fence between paths needs of a peer cache, a counter or *)
(* a probe result.                                                         *)
(*                                                                         *)
(* The App keeps a name resolved by Wi-Fi telemetry inside its link; here  *)
(* `link` is the last admitted snapshot and `ssid` the name on display.    *)
(* Event texts, rates, receipt times and metrics are left out.             *)
(***************************************************************************)
EXTENDS LinkPath, Sequences

CONSTANTS
  Probes,      \* the active probe kinds in use, of AllProbes
  Collectors,  \* the passive collectors in use, of AllCollectors
  MaxSamples,  \* MAX_GATEWAY_SAMPLES
  MaxDwells    \* MAX_COMPLETED_PATH_DWELLS

AllProbes == {"Gateway", "Dns", "Https", "PublicIp"}
AllCollectors == {"Traffic", "Workload", "Peers", "Wifi"}

ASSUME SlotsAssumption ==
  /\ Probes \subseteq AllProbes
  /\ Collectors \subseteq AllCollectors

ASSUME BoundsAssumption ==
  /\ MaxSamples \in Nat \ {0}
  /\ MaxDwells \in Nat \ {0}

Slots == Probes \cup Collectors
Policies == {"passive", "active"}
Outcomes == {"ok", "failed", "unavailable"}
Unsettled == {"disabled", "queued", "running"}

-----------------------------------------------------------------------------
(***************************************************************************)
(* MonitorUpdate.  "Collected" stands for Traffic, Workload, Peers and     *)
(* Wifi, told apart by the slot; only Wifi carries a name.                 *)
(***************************************************************************)
LinkUpdate(g, link) == [type |-> "Link", generation |-> g, link |-> link]

SettlingUpdate(g) == [type |-> "PathSettling", generation |-> g]

CollectedUpdate(g, c, path, name) ==
  [type |-> "Collected", generation |-> g, slot |-> c, path |-> path,
   ssid |-> name]

StartedUpdate(g, k) == [type |-> "ProbeStarted", generation |-> g, slot |-> k]

FinishedUpdate(g, k, path, outcome) ==
  [type |-> "ProbeFinished", generation |-> g, slot |-> k, path |-> path,
   outcome |-> outcome]

MonitorUpdate ==
  [type : {"Link"}, generation : Nat, link : Link]
    \cup [type : {"PathSettling"}, generation : Nat]
    \cup [type : {"Collected"}, generation : Nat, slot : Collectors,
          path : Fingerprints, ssid : Names \cup {NONE}]
    \cup [type : {"ProbeStarted"}, generation : Nat, slot : Probes]
    \cup [type : {"ProbeFinished"}, generation : Nat, slot : Probes,
          path : Fingerprints, outcome : Outcomes]

-----------------------------------------------------------------------------
(***************************************************************************)
(* The App record.                                                         *)
(***************************************************************************)
CompletedDwell ==
  [generation : Nat, next_generation : Nat, path : Fingerprints,
   observed : SUBSET Fingerprints]

App ==
  [path_generation         : Nat,
   link                    : Link \cup {NONE},
   ssid                    : Names \cup {NONE, REDACTED},
   public_ip               : Fingerprints \cup {NONE},
   path_transition_pending : BOOLEAN,
   paused                  : BOOLEAN,
   probe_policy            : Policies,
   health                  : [Probes -> Unsettled \cup Outcomes],
   evidence                : [Slots -> Fingerprints \cup {NONE}],
   gateway_outcomes        : Seq(Fingerprints),
   path_dwell              : SUBSET Fingerprints,
   completed_path_dwells   : Seq(CompletedDwell)]

\* ProbeView::queued under an active policy, ProbeView::disabled otherwise.
FreshHealth(policy) ==
  [k \in Probes |-> IF policy = "active" THEN "queued" ELSE "disabled"]

NewApp(policy) ==
  [path_generation         |-> 0,
   link                    |-> NONE,
   ssid                    |-> NONE,
   public_ip               |-> NONE,
   path_transition_pending |-> FALSE,
   paused                  |-> FALSE,
   probe_policy            |-> policy,
   health                  |-> FreshHealth(policy),
   evidence                |-> [s \in Slots |-> NONE],
   gateway_outcomes        |-> <<>>,
   path_dwell              |-> {},
   completed_path_dwells   |-> <<>>]

\* Fault: what was collected before the switch is still admitted after it.
AcceptsUpdate_Late(app, u) ==
  IF u.type = "Link"
  THEN u.generation >= app.path_generation
  ELSE /\ u.generation <= app.path_generation
       /\ u.type \in {"ProbeStarted", "ProbeFinished"} => app.probe_policy = "active"

\* Fault: a probe result is admitted whatever the operator decided meanwhile.
AcceptsUpdate_AnyPolicy(app, u) ==
  IF u.type = "Link"
  THEN u.generation >= app.path_generation
  ELSE u.generation = app.path_generation

AcceptsUpdate(app, u) ==
  CASE u.type = "Link" -> u.generation >= app.path_generation
    [] u.type \in {"PathSettling", "Collected"} ->
         u.generation = app.path_generation
    [] u.type \in {"ProbeStarted", "ProbeFinished"} ->
         /\ u.generation = app.path_generation
         /\ app.probe_policy = "active"

\* push_back on a queue that drops its oldest element when it is full.
PushBounded(queue, element, bound) ==
  Append(IF Len(queue) >= bound THEN Tail(queue) ELSE queue, element)

-----------------------------------------------------------------------------
\* Fault: the withheld name of a light collection replaces the resolved one.
KeptName_Replaced(shown, received) == received

\* A name already resolved outlives a snapshot whose name is withheld.
KeptName(shown, received) ==
  IF received = REDACTED /\ shown \in Names THEN shown ELSE received

RefreshLink(app, link) ==
  [app EXCEPT !.link = link,
              !.ssid = KeptName(@, link.ssid),
              !.path_transition_pending = FALSE]

\* The dwell that a new generation closes.
ClosedDwell(app, generation) ==
  [generation |-> app.path_generation, next_generation |-> generation,
   path |-> Fingerprint(app.link), observed |-> app.path_dwell]

\* Fault: the open dwell is not restarted with the generation.
OpenGeneration_SameDwell(app, generation, link) ==
  [app EXCEPT
     !.path_generation = generation,
     !.link = link,
     !.ssid = link.ssid,
     !.public_ip = NONE,
     !.path_transition_pending = FALSE,
     !.health = FreshHealth(app.probe_policy),
     !.evidence = [s \in Slots |-> NONE],
     !.gateway_outcomes = <<>>,
     !.completed_path_dwells =
       IF app.path_generation = 0
       THEN @
       ELSE PushBounded(@, ClosedDwell(app, generation), MaxDwells)]

OpenGeneration(app, generation, link) ==
  [app EXCEPT
     !.path_generation = generation,
     !.link = link,
     !.ssid = link.ssid,
     !.public_ip = NONE,
     !.path_transition_pending = FALSE,
     !.health = FreshHealth(app.probe_policy),
     !.evidence = [s \in Slots |-> NONE],
     !.gateway_outcomes = <<>>,
     !.path_dwell = {},
     !.completed_path_dwells =
       IF app.path_generation = 0
       THEN @
       ELSE PushBounded(@, ClosedDwell(app, generation), MaxDwells)]

ApplyLink(app, u) ==
  IF u.generation = app.path_generation
  THEN RefreshLink(app, u.link)
  ELSE OpenGeneration(app, u.generation, u.link)

ApplyPathSettling(app) == [app EXCEPT !.path_transition_pending = TRUE]

\* Peers, Traffic, Workload and Wifi: the snapshot replaces the previous one
\* and is added to what the open dwell has observed.  Wifi may name the link.
ApplyCollected(app, u) ==
  [app EXCEPT !.evidence[u.slot] = u.path,
              !.path_dwell = @ \cup {u.path},
              !.ssid = IF u.slot = "Wifi" /\ u.ssid # NONE THEN u.ssid ELSE @]

ApplyProbeStarted(app, u) ==
  IF app.health[u.slot] = "queued"
  THEN [app EXCEPT !.health[u.slot] = "running"]
  ELSE app

ApplyProbeFinished(app, u) ==
  [app EXCEPT
     !.health[u.slot] = u.outcome,
     !.evidence[u.slot] = u.path,
     !.gateway_outcomes =
       IF u.slot = "Gateway" /\ u.outcome # "unavailable"
       THEN PushBounded(@, u.path, MaxSamples)
       ELSE @,
     !.public_ip =
       IF u.slot = "PublicIp" /\ u.outcome = "ok" THEN u.path ELSE @]

Apply(app, u) ==
  IF ~AcceptsUpdate(app, u)
  THEN app
  ELSE CASE u.type = "Link"          -> ApplyLink(app, u)
         [] u.type = "PathSettling"  -> ApplyPathSettling(app)
         [] u.type = "Collected"     -> ApplyCollected(app, u)
         [] u.type = "ProbeStarted"  -> ApplyProbeStarted(app, u)
         [] u.type = "ProbeFinished" -> ApplyProbeFinished(app, u)

SetPaused(app, paused) == [app EXCEPT !.paused = paused]

\* Every active result is dropped when the operator changes the policy.
SetProbePolicy(app, policy) ==
  IF app.probe_policy = policy
  THEN app
  ELSE [app EXCEPT
          !.probe_policy = policy,
          !.public_ip = NONE,
          !.gateway_outcomes = <<>>,
          !.health = FreshHealth(policy),
          !.evidence =
            [s \in Slots |-> IF s \in Probes THEN NONE ELSE app.evidence[s]]]
-----------------------------------------------------------------------------
(***************************************************************************)
(* What evidence there is, whoever holds it.                               *)
(***************************************************************************)
\* An update with a link or evidence, as opposed to an announcement.
Carries(u) == u.type \in {"Link", "Collected", "ProbeFinished"}

\* The path such an update stands for.
CarriedPath(u) == IF u.type = "Link" THEN Fingerprint(u.link) ELSE u.path

\* The paths for which an App shows or counts anything.
AppPaths(app) ==
  {Fingerprint(link) : link \in {app.link} \ {NONE}}
    \cup ({app.evidence[s] : s \in Slots} \ {NONE})
    \cup ({app.public_ip} \ {NONE})
    \cup {app.gateway_outcomes[i] : i \in DOMAIN app.gateway_outcomes}
    \cup app.path_dwell
=============================================================================
