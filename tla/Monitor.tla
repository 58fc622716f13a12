------------------------------- MODULE Monitor -------------------------------
(***************************************************************************)
(* The monitor thread and its workers (net.rs: monitor_loop, spawn_probe,  *)
(* spawn_peers, spawn_wifi, spawn_traffic, spawn_workload).                *)
(*                                                                         *)
(* One turn of the outer loop drains the queued controls, observes the     *)
(* link and publishes it under a path generation, launches workers, and    *)
(* waits one interval or until a control arrives.  A worker owns the slot  *)
(* of its kind (an AtomicBool) from its launch until it has sent its       *)
(* result; a launch into an occupied slot does nothing.  Workers capture   *)
(* the generation and the link of their launch; probe workers also capture *)
(* the probe epoch and send nothing once the epoch has moved.              *)
(*                                                                         *)
(* The host's own state is part of this module because the monitor reads   *)
(* it twice in one turn.  Time is counted in intervals: it passes when a   *)
(* wait times out.                                                         *)
(***************************************************************************)
EXTENDS LiveApp

CONSTANTS
  Mode,           \* MonitorMode: "overview", "link" or "peers"
  OsLinks,        \* snapshots a full collection can return on this host
  MaxOsChanges,   \* bound: times the host's links change
  FullEvery,      \* FULL_LINK_REFRESH_INTERVAL in intervals
  MaxQueue        \* bound: undelivered updates when the monitor sends

ASSUME MonitorAssumption ==
  /\ Mode \in {"overview", "link", "peers"}
  /\ OsLinks \subseteq Link
  /\ MaxOsChanges \in Nat
  /\ FullEvery \in Nat \ {0}
  /\ MaxQueue \in Nat \ {0}

VARIABLES
  os,           \* the link the host has
  osChanges,    \* how often it has changed
  osSeen,       \* history: the paths the host has had
  outage,       \* history: the age of the host's outage, paused or not
  controls,     \* control_rx
  hungUp,       \* the control sender was dropped
  updates,      \* update_rx
  reading,      \* somebody still receives from update_rx
  pc,           \* where monitor_loop is
  stopped, paused, policy, epoch,
  pending,      \* *_refresh_pending
  started,      \* *_last_started is Some
  fullPending,  \* full_link_refresh_pending
  fullAge,      \* intervals since full_link_refreshed_at
  current,      \* current_link
  fingerprint,  \* path_fingerprint
  generation,   \* path_generation
  routeAge,     \* incomplete_route_since, as an age
  underlayAge,  \* incomplete_underlay_since, as an age
  settling,     \* path_settling
  worker        \* *_in_flight and the worker that holds the slot

hostVars == <<os, osChanges, osSeen, outage>>
channelVars == <<controls, hungUp, updates, reading>>
modeVars == <<stopped, paused, policy, epoch>>
scheduleVars == <<pending, started>>
linkVars == <<fullPending, fullAge, current, fingerprint, generation,
              routeAge, underlayAge, settling>>
monitorVars == <<hostVars, channelVars, pc, modeVars, scheduleVars, linkVars,
                 worker>>

-----------------------------------------------------------------------------
\* Slots with a *_refresh_pending flag: the others are tried in every turn.
Pendable == Slots \ {"Gateway", "Traffic"}
Internet == Probes \ {"Gateway"}

\* Slots whose last start the monitor remembers and acts upon.
Timed == Slots \cap {"Dns", "Https", "Workload"}

Control ==
  [type : {"Refresh", "Stop"}]
    \cup [type : {"SetProbePolicy"}, policy : Policies]
    \cup [type : {"Pause"}, value : BOOLEAN]

Idle == [at |-> "idle", generation |-> 0, path |-> NONE, epoch |-> 0]

Worker ==
  {Idle} \cup [at : {"running", "sending", "releasing"}, generation : Nat,
               path : Fingerprints, epoch : Nat]

MonitorTypeOK ==
  /\ os \in OsLinks /\ osChanges \in 0 .. MaxOsChanges
  /\ osSeen \subseteq Fingerprints /\ outage \in GapAges
  /\ controls \in Seq(Control) /\ hungUp \in BOOLEAN
  /\ updates \in Seq(MonitorUpdate) /\ reading \in BOOLEAN
  /\ pc \in {"drain", "dispatch", "wait", "stopped"}
  /\ stopped \in BOOLEAN /\ paused \in BOOLEAN
  /\ policy \in Policies /\ epoch \in Nat
  /\ pending \in [Pendable -> BOOLEAN] /\ started \in [Timed -> BOOLEAN]
  /\ fullPending \in BOOLEAN /\ fullAge \in 0 .. FullEvery
  /\ current \in Link \cup {NONE} /\ fingerprint \in Fingerprints \cup {NONE}
  /\ generation \in Nat
  /\ routeAge \in GapAges /\ underlayAge \in GapAges /\ settling \in BOOLEAN
  /\ worker \in [Slots -> Worker]

MonitorInit(initialPolicy) ==
  /\ os \in OsLinks /\ osChanges = 0
  /\ osSeen = {Fingerprint(os)} /\ outage = NoGap
  /\ controls = <<>> /\ hungUp = FALSE
  /\ updates = <<>> /\ reading = TRUE
  /\ pc = "drain"
  /\ stopped = FALSE /\ paused = FALSE
  /\ policy = initialPolicy /\ epoch = 0
  /\ pending = [s \in Pendable |-> s \in Internet => initialPolicy = "active"]
  /\ started = [s \in Timed |-> FALSE]
  /\ fullPending = TRUE /\ fullAge = FullEvery
  /\ current = NONE /\ fingerprint = NONE /\ generation = 0
  /\ routeAge = NoGap /\ underlayAge = NoGap /\ settling = FALSE
  /\ worker = [s \in Slots |-> Idle]

-----------------------------------------------------------------------------
(***************************************************************************)
(* The host.                                                               *)
(***************************************************************************)
OsBecomes(link) ==
  /\ os' = link
  /\ osChanges' = osChanges + (IF link = os THEN 0 ELSE 1)
  /\ osSeen' = osSeen \cup {Fingerprint(link)}

OsChanges ==
  /\ osChanges < MaxOsChanges
  /\ \E link \in OsLinks \ {os} : OsBecomes(link)
  /\ UNCHANGED <<outage, channelVars, pc, modeVars, scheduleVars, linkVars,
                 worker>>

\* History: at every turn of the monitor, paused or not, whether the host is
\* without a route, told apart from the timers of the loop.
OutageSeen ==
  outage' = CASE os'.interface # NONE -> NoGap
              [] os'.interface = NONE /\ outage = NoGap -> 0
              [] OTHER -> outage

\* What a second collection in the same turn can find.
OsLater == IF osChanges < MaxOsChanges THEN OsLinks ELSE {os}

-----------------------------------------------------------------------------
(***************************************************************************)
(* The update channel.  An update that nobody will receive is not queued.  *)
(* The channel has no bound in the code.  Here the loop waits while more   *)
(* than MaxQueue updates would be undelivered; workers never wait, and as  *)
(* each sends once per launch the queue stays below MaxQueue + |Slots|.    *)
(***************************************************************************)
Send(messages) == updates' = IF reading THEN updates \o messages ELSE updates

(***************************************************************************)
(* Controls, handled alike by the drain and by the wait.                   *)
(***************************************************************************)
\* pending with the Internet probes set to whether the policy permits them.
InternetPending(flags, newPolicy) ==
  [s \in Pendable |-> IF s \in Internet THEN newPolicy = "active" ELSE flags[s]]

InternetNeverStarted == [s \in Timed |-> s \notin Internet /\ started[s]]

Refresh ==
  /\ pending' = [s \in Pendable |-> s \in Internet => policy = "active"]
  /\ fullPending' = TRUE
  /\ UNCHANGED <<modeVars, started>>

\* Fault: a policy that arrives during a pause is forgotten.
ChangePolicy_NotPaused(newPolicy) ==
  /\ IF newPolicy = policy \/ paused
     THEN UNCHANGED <<policy, epoch, pending, started>>
     ELSE /\ policy' = newPolicy
          /\ epoch' = epoch + 1
          /\ pending' = InternetPending(pending, newPolicy)
          /\ started' = InternetNeverStarted
  /\ UNCHANGED <<stopped, paused, fullPending>>

ChangePolicy(newPolicy) ==
  /\ IF newPolicy = policy
     THEN UNCHANGED <<policy, epoch, pending, started>>
     ELSE /\ policy' = newPolicy
          /\ epoch' = epoch + 1
          /\ pending' = InternetPending(pending, newPolicy)
          /\ started' = InternetNeverStarted
  /\ UNCHANGED <<stopped, paused, fullPending>>

HandleControl ==
  /\ controls # <<>>
  /\ controls' = Tail(controls)
  /\ LET control == Head(controls) IN
     \/ /\ control.type = "Refresh"
        /\ Refresh
     \/ /\ control.type = "SetProbePolicy"
        /\ ChangePolicy(control.policy)
     \/ /\ control.type = "Pause"
        /\ paused' = control.value
        /\ UNCHANGED <<stopped, policy, epoch, scheduleVars, fullPending>>
     \/ /\ control.type = "Stop"
        /\ stopped' = TRUE
        /\ UNCHANGED <<paused, policy, epoch, scheduleVars, fullPending>>
  /\ UNCHANGED <<hostVars, hungUp, updates, reading, fullAge, current,
                 fingerprint, generation, routeAge, underlayAge, settling,
                 worker>>

\* Fault: the drain empties the channel without looking at it.
DrainControl_Discards ==
  /\ pc = "drain" /\ controls # <<>>
  /\ controls' = Tail(controls)
  /\ UNCHANGED <<hostVars, hungUp, updates, reading, pc, modeVars,
                 scheduleVars, linkVars, worker>>

\* while let Ok(control) = control_rx.try_recv()
DrainControl ==
  /\ pc = "drain"
  /\ HandleControl
  /\ UNCHANGED pc

Finish ==
  /\ pc = "drain" /\ controls = <<>> /\ stopped
  /\ pc' = "stopped"
  /\ UNCHANGED <<hostVars, channelVars, modeVars, scheduleVars, linkVars,
                 worker>>

SkipPausedRound ==
  /\ pc = "drain" /\ controls = <<>> /\ ~stopped /\ paused
  /\ pc' = "wait"
  /\ UNCHANGED <<os, osChanges, osSeen, channelVars, modeVars, scheduleVars,
                 linkVars, worker>>
  /\ OutageSeen

-----------------------------------------------------------------------------
(***************************************************************************)
(* Observe: collect, hold what just disappeared, number the path, publish. *)
(***************************************************************************)
FullRefreshDue == fullPending \/ fullAge = FullEvery \/ current = NONE

FirstReading == IF FullRefreshDue THEN os ELSE LightLink(current, os)

\* Fault: a light reading of another path is published as it is.
ReadAgain_Never == FALSE

\* A light reading that shows another path is collected again in full.
ReadAgain ==
  /\ ~FullRefreshDue
  /\ Fingerprint(FirstReading) # Fingerprint(current)

\* The link published for a candidate, and the gap ages it leaves behind.
RouteGap(candidate) == GapSeen(routeAge, RouteLost(current, candidate))

UnderlayGap(candidate) ==
  IF Held(RouteGap(candidate))
  THEN NoGap
  ELSE GapSeen(underlayAge, UnderlayLost(current, candidate))

Published(candidate) ==
  CASE Held(RouteGap(candidate))    -> current
    [] Held(UnderlayGap(candidate)) -> WithUnderlayOf(current, candidate)
    [] OTHER                        -> candidate

\* Fault: another path is published under the number of the one before.
NumberPath_SameNumber(link) ==
  /\ fingerprint' = Fingerprint(link)
  /\ generation' = IF fingerprint = NONE THEN 1 ELSE generation
  /\ IF fingerprint = Fingerprint(link)
     THEN UNCHANGED scheduleVars
     ELSE /\ pending' = [s \in Pendable |-> s \in Internet => policy = "active"]
          /\ started' = [s \in Timed |-> FALSE]

\* Fault: the number is increased in two places.
NumberPath_Twice(link) ==
  /\ fingerprint' = Fingerprint(link)
  /\ IF fingerprint = Fingerprint(link)
     THEN UNCHANGED <<generation, pending, started>>
     ELSE /\ generation' = generation + 2
          /\ pending' = [s \in Pendable |-> s \in Internet => policy = "active"]
          /\ started' = [s \in Timed |-> FALSE]

\* A new fingerprint opens a generation and makes everything due again.
NumberPath(link) ==
  IF fingerprint = Fingerprint(link)
  THEN UNCHANGED <<fingerprint, generation, pending, started>>
  ELSE /\ fingerprint' = Fingerprint(link)
       /\ generation' = generation + 1
       /\ pending' = [s \in Pendable |-> s \in Internet => policy = "active"]
       /\ started' = [s \in Timed |-> FALSE]

\* Fault: the link is sent before it is numbered.
PublishCandidate_SendFirst(candidate) ==
  LET link == Published(candidate) IN
  /\ routeAge' = RouteGap(candidate)
  /\ underlayAge' = UnderlayGap(candidate)
  /\ settling' = Held(RouteGap(candidate))
  /\ current' = link
  /\ NumberPath(link)
  /\ Send(<<IF Held(RouteGap(candidate))
            THEN SettlingUpdate(generation)
            ELSE LinkUpdate(generation, link)>>)
  /\ Len(updates) < MaxQueue

PublishCandidate(candidate) ==
  LET link == Published(candidate) IN
  /\ routeAge' = RouteGap(candidate)
  /\ underlayAge' = UnderlayGap(candidate)
  /\ settling' = Held(RouteGap(candidate))
  /\ current' = link
  /\ NumberPath(link)
  /\ Send(<<IF Held(RouteGap(candidate))
            THEN SettlingUpdate(generation')
            ELSE LinkUpdate(generation', link)>>)
  /\ Len(updates) < MaxQueue

Observe ==
  /\ pc = "drain" /\ controls = <<>> /\ ~stopped /\ ~paused
  /\ fullPending' = FALSE
  /\ fullAge' = IF FullRefreshDue \/ ReadAgain THEN 0 ELSE fullAge
  /\ \/ /\ ~ReadAgain
        /\ PublishCandidate(FirstReading)
        /\ UNCHANGED <<os, osChanges, osSeen>>
     \/ /\ ReadAgain
        /\ \E link \in OsLater :
             /\ OsBecomes(link)
             /\ PublishCandidate(link)
  /\ OutageSeen
  /\ pc' = "dispatch"
  /\ UNCHANGED <<controls, hungUp, reading, modeVars, worker>>

-----------------------------------------------------------------------------
(***************************************************************************)
(* Dispatch: the slots this turn tries to fill.  `due` is the choice of    *)
(* the slots whose own cadence (60 s, 5 s, every 15th or 3rd tick) falls   *)
(* on this turn: any turn may be such a turn.                              *)
(***************************************************************************)
ProbesPermitted == Mode = "overview" /\ policy = "active"

\* Slots the mode collects at all.
InMode(s) ==
  CASE s \in Probes                -> ProbesPermitted
    [] s = "Workload"              -> Mode = "overview"
    [] s \in {"Traffic", "Wifi"}   -> Mode \in {"overview", "link"}
    [] s = "Peers"                 -> Mode \in {"overview", "peers"}

\* Cadences that exist: PublicIp has none, the others once they have started.
CanBeDue(s) ==
  CASE s \in Timed            -> started[s]
    [] s \in {"Wifi", "Peers"} -> TRUE
    [] OTHER                  -> FALSE

\* Peers mode reads the cache in every turn; a workload that never started
\* since the path opened is due.
AlwaysDue(s) ==
  \/ s = "Peers" /\ Mode = "peers"
  \/ s = "Workload" /\ ~started[s]

Attempted(due) ==
  IF settling
  THEN {}
  ELSE {s \in Slots : /\ InMode(s)
                      /\ s \in Pendable =>
                           pending[s] \/ AlwaysDue(s) \/ s \in due}

\* compare-and-set of the in-flight flag: only a free slot is filled.
Launched(due) == {s \in Attempted(due) : worker[s] = Idle}

LaunchedWorker(s) ==
  [at |-> "running", generation |-> generation, path |-> Fingerprint(current),
   epoch |-> IF s \in Probes THEN epoch ELSE 0]

AnnounceIf(k, launched) ==
  IF k \in launched THEN <<StartedUpdate(generation, k)>> ELSE <<>>

Announced(launched) ==
  AnnounceIf("Gateway", launched \cap Probes) \o
  AnnounceIf("Dns", launched \cap Probes) \o
  AnnounceIf("Https", launched \cap Probes) \o
  AnnounceIf("PublicIp", launched \cap Probes)

\* Fault: a slot that was due but occupied counts as served.
PendingAfter_Busy(due) ==
  [s \in Pendable |-> pending[s] /\ s \notin Attempted(due)]

\* A slot that was due but occupied stays pending, except Workload, whose
\* cadence is looked at afresh in every turn.
PendingAfter(due) ==
  [s \in Pendable |->
     IF s \in Launched(due)
     THEN FALSE
     ELSE pending[s] \/ (s \in Attempted(due) \ {"Workload"})]

Dispatch ==
  /\ pc = "dispatch"
  /\ \E due \in SUBSET {s \in Pendable : CanBeDue(s) /\ InMode(s)} :
       /\ worker' = [s \in Slots |-> IF s \in Launched(due)
                                     THEN LaunchedWorker(s) ELSE worker[s]]
       /\ pending' = PendingAfter(due)
       /\ started' = [s \in Timed |-> started[s] \/ s \in Launched(due)]
       /\ Send(Announced(Launched(due)))
       /\ Len(updates) + Len(Announced(Launched(due))) <= MaxQueue
  /\ pc' = "wait"
  /\ UNCHANGED <<hostVars, controls, hungUp, reading, modeVars, linkVars>>

-----------------------------------------------------------------------------
(***************************************************************************)
(* Wait: one recv_timeout per 100 ms of the interval.                      *)
(***************************************************************************)
WaitControl ==
  /\ pc = "wait"
  /\ HandleControl
  /\ pc' = IF stopped' THEN "stopped" ELSE "drain"

\* Fault: a closed channel is taken for a timeout.
WaitDisconnected_GoesOn ==
  /\ pc = "wait" /\ controls = <<>> /\ hungUp
  /\ pc' = "drain"
  /\ UNCHANGED <<hostVars, channelVars, modeVars, scheduleVars, linkVars,
                 worker>>

WaitDisconnected ==
  /\ pc = "wait" /\ controls = <<>> /\ hungUp
  /\ stopped' = TRUE
  /\ pc' = "stopped"
  /\ UNCHANGED <<hostVars, channelVars, paused, policy, epoch, scheduleVars,
                 linkVars, worker>>

\* The interval ends: every age grows.
WaitElapsed ==
  /\ pc = "wait" /\ controls = <<>> /\ ~hungUp
  /\ pc' = "drain"
  /\ fullAge' = IF fullAge < FullEvery THEN fullAge + 1 ELSE fullAge
  /\ routeAge' = GapOlder(routeAge)
  /\ underlayAge' = GapOlder(underlayAge)
  /\ outage' = GapOlder(outage)
  /\ UNCHANGED <<os, osChanges, osSeen, channelVars, modeVars, scheduleVars,
                 fullPending, current, fingerprint, generation, settling,
                 worker>>

-----------------------------------------------------------------------------
(***************************************************************************)
(* Workers.  Checking the epoch and sending are separate steps: the        *)
(* monitor can move the epoch between them.                                *)
(***************************************************************************)
WorkerRuns(s) ==
  /\ worker[s].at = "running"
  /\ worker' = [worker EXCEPT
       ![s].at = IF s \in Probes /\ worker[s].epoch # epoch
                 THEN "releasing" ELSE "sending"]
  /\ UNCHANGED <<hostVars, channelVars, pc, modeVars, scheduleVars, linkVars>>

\* Fault: a result is tagged when it is sent, not when its worker started.
Results_TaggedLate(s) ==
  IF s \in Probes
  THEN {FinishedUpdate(generation, s, worker[s].path, o) : o \in Outcomes}
  ELSE {CollectedUpdate(generation, s, worker[s].path, n) :
          n \in IF s = "Wifi" THEN Names \cup {NONE} ELSE {NONE}}

\* Fault: a probe reports like a collector.
Results_AllCollected(s) ==
  {CollectedUpdate(worker[s].generation, s, worker[s].path, NONE)}

\* What a worker can have found.
Results(s) ==
  LET w == worker[s] IN
  IF s \in Probes
  THEN {FinishedUpdate(w.generation, s, w.path, o) : o \in Outcomes}
  ELSE {CollectedUpdate(w.generation, s, w.path, n) :
          n \in IF s = "Wifi" THEN Names \cup {NONE} ELSE {NONE}}

WorkerSends(s) ==
  /\ worker[s].at = "sending"
  /\ \E result \in Results(s) : Send(<<result>>)
  /\ worker' = [worker EXCEPT ![s].at = "releasing"]
  /\ UNCHANGED <<hostVars, controls, hungUp, reading, pc, modeVars,
                 scheduleVars, linkVars>>

WorkerReleases(s) ==
  /\ worker[s].at = "releasing"
  /\ worker' = [worker EXCEPT ![s] = Idle]
  /\ UNCHANGED <<hostVars, channelVars, pc, modeVars, scheduleVars, linkVars>>

WorkerStep(s) == WorkerRuns(s) \/ WorkerSends(s) \/ WorkerReleases(s)

LoopStep ==
  \/ DrainControl \/ Finish \/ SkipPausedRound \/ Observe \/ Dispatch
  \/ WaitControl \/ WaitDisconnected \/ WaitElapsed
=============================================================================
