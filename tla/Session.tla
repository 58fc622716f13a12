------------------------------ MODULE Session ------------------------------
(***************************************************************************)
(* A live session (main.rs, run_tui): the operator's thread, which owns    *)
(* the App and reduces the updates it receives, and the monitor thread     *)
(* with its workers, joined by the two channels.  A key changes the App at *)
(* once and reaches the monitor later, through the control channel.        *)
(***************************************************************************)
EXTENDS Monitor

CONSTANTS
  InitialPolicies, \* probe policies the command line may ask for
  Keys,            \* operator keys in use: of "r", "p", "a", "q", "drop"
  MaxKeys          \* bound: keys pressed in a session

ASSUME SessionAssumption ==
  /\ InitialPolicies \subseteq Policies
  /\ Keys \subseteq {"r", "p", "a", "q", "drop"}
  /\ MaxKeys \in Nat

VARIABLES
  app,     \* App
  pressed  \* keys pressed so far

vars == <<monitorVars, app, pressed>>

TypeOK ==
  /\ MonitorTypeOK
  /\ app \in App
  /\ pressed \in 0 .. MaxKeys

Init ==
  \E initialPolicy \in InitialPolicies :
    /\ MonitorInit(initialPolicy)
    /\ app = NewApp(initialPolicy)
    /\ pressed = 0

-----------------------------------------------------------------------------
(***************************************************************************)
(* The operator's thread.                                                  *)
(***************************************************************************)
\* One turn of `while let` over updates.try_recv(): apply_monitor_update.
ReceiveUpdate ==
  /\ reading
  /\ updates # <<>>
  /\ app' = Apply(app, Head(updates))
  /\ updates' = Tail(updates)
  /\ UNCHANGED <<hostVars, controls, hungUp, reading, pc, modeVars,
                 scheduleVars, linkVars, worker, pressed>>

Press(key) ==
  /\ reading
  /\ key \in Keys
  /\ pressed < MaxKeys
  /\ pressed' = pressed + 1
  /\ UNCHANGED <<hostVars, pc, modeVars, scheduleVars, linkVars, worker>>

SendControl(control) ==
  /\ controls' = Append(controls, control)
  /\ UNCHANGED <<hungUp, updates, reading>>

PressRefresh ==
  /\ Press("r")
  /\ SendControl([type |-> "Refresh"])
  /\ UNCHANGED app

PressPause ==
  /\ Press("p")
  /\ SendControl([type |-> "Pause", value |-> ~app.paused])
  /\ app' = SetPaused(app, ~app.paused)

Toggled(probePolicy) == IF probePolicy = "active" THEN "passive" ELSE "active"

\* The key is live only where the dashboard can be navigated.
PressProbePolicy ==
  /\ Mode = "overview"
  /\ Press("a")
  /\ SendControl([type |-> "SetProbePolicy",
                  policy |-> Toggled(app.probe_policy)])
  /\ app' = SetProbePolicy(app, Toggled(app.probe_policy))

\* q, Esc, Ctrl-C or the dwell deadline: the loop is left, Stop is sent and
\* the monitor joined; updates still queued are never reduced.
Quit ==
  /\ Press("q")
  /\ reading' = FALSE
  /\ updates' = <<>>
  /\ controls' = Append(controls, [type |-> "Stop"])
  /\ UNCHANGED <<hungUp, app>>

\* The operator's thread unwinds: both channel ends drop without a Stop.
Drop ==
  /\ Press("drop")
  /\ reading' = FALSE
  /\ updates' = <<>>
  /\ hungUp' = TRUE
  /\ UNCHANGED <<controls, app>>

OperatorStep ==
  PressRefresh \/ PressPause \/ PressProbePolicy \/ Quit \/ Drop

MonitorStep ==
  /\ OsChanges \/ LoopStep \/ \E s \in Slots : WorkerStep(s)
  /\ UNCHANGED <<app, pressed>>

Next == ReceiveUpdate \/ OperatorStep \/ MonitorStep

Spec == Init /\ [][Next]_vars

(***************************************************************************)
(* Fairness: threads that can run do run.  The monitor never waits for     *)
(* ever (recv_timeout), collectors and probes are bounded by deadlines,    *)
(* and the operator's thread polls at least every 100 ms.  The host and    *)
(* the operator owe nothing.                                               *)
(***************************************************************************)
Fairness ==
  /\ WF_vars(LoopStep /\ UNCHANGED <<app, pressed>>)
  /\ WF_vars(ReceiveUpdate)
  /\ \A s \in Slots : WF_vars(WorkerStep(s) /\ UNCHANGED <<app, pressed>>)

FairSpec == Spec /\ Fairness

-----------------------------------------------------------------------------
(***************************************************************************)
(* Safety.                                                                 *)
(***************************************************************************)
ShownPath == Fingerprint(app.link)

\* Evidence never crosses a path switch: whatever the App shows or counts
\* (collector and probe views, the next-hop window, the public address, the
\* open dwell) was collected by a worker launched on the path the App shows,
\* however long workers take and whatever switches happen in between.
EvidenceFenced ==
  app.path_generation # 0 =>
    /\ \A s \in Slots : app.evidence[s] \in {NONE, ShownPath}
    /\ app.public_ip \in {NONE, ShownPath}
    /\ \A i \in DOMAIN app.gateway_outcomes :
         app.gateway_outcomes[i] = ShownPath
    /\ app.path_dwell \subseteq {ShownPath}

\* A completed dwell contains only what was observed on its own path, and
\* the ledger is a gapless chain that ends at the generation shown.
LedgerPure ==
  LET ledger == app.completed_path_dwells IN
  \A i \in DOMAIN ledger :
    /\ ledger[i].observed \subseteq {ledger[i].path}
    /\ ledger[i].next_generation = ledger[i].generation + 1
    /\ ledger[i].next_generation =
         IF i = Len(ledger) THEN app.path_generation
                            ELSE ledger[i + 1].generation

\* Under a passive policy no active result is on display, whatever was in
\* flight when the operator switched probes off.
PassiveShowsNoProbe ==
  app.probe_policy = "passive" =>
    /\ \A k \in Probes : app.health[k] = "disabled" /\ app.evidence[k] = NONE
    /\ app.public_ip = NONE
    /\ app.gateway_outcomes = <<>>

\* The operator's view of consent and the monitor's differ only by controls
\* still in the channel: what the last queued control of a kind says, or
\* else what the monitor holds, is what the App shows.
LastQueued(type) ==
  {i \in DOMAIN controls :
     /\ controls[i].type = type
     /\ \A j \in (i + 1) .. Len(controls) : controls[j].type # type}

ConsentAgrees ==
  /\ IF LastQueued("SetProbePolicy") = {}
     THEN policy = app.probe_policy
     ELSE \A i \in LastQueued("SetProbePolicy") :
            controls[i].policy = app.probe_policy
  /\ IF LastQueued("Pause") = {}
     THEN paused = app.paused
     ELSE \A i \in LastQueued("Pause") : controls[i].value = app.paused

\* Within one generation the App shows one path: the link it shows is only
\* ever replaced by one with the same identity unless the generation grows.
OneGenerationOnePath ==
  [][ /\ app'.path_generation >= app.path_generation
      /\ app'.path_generation = app.path_generation /\ app.link # NONE =>
           Fingerprint(app'.link) = Fingerprint(app.link) ]_vars

\* A name that Wi-Fi telemetry resolved for a redacted association stays on
\* display for as long as the path does.
ResolvedNameStays ==
  [][ /\ app.link # NONE /\ app.link.ssid = REDACTED
      /\ app.ssid \in Names
      /\ app'.path_generation = app.path_generation
      => app'.ssid \in Names ]_vars

\* Every path the monitor publishes is one the host has had.
PublishedPathExisted == fingerprint \in osSeen \cup {NONE}

\* "A short loss of the default route ... is represented as a transition
\* grace state": a loss of the route becomes a path of its own only when the
\* host had no route at any turn of the monitor for Grace intervals.
ShortLossHeld ==
  [][ fingerprint' # fingerprint /\ fingerprint # NONE
      /\ fingerprint.interface # NONE /\ fingerprint'.interface = NONE
      => outage = Grace ]_vars

-----------------------------------------------------------------------------
(***************************************************************************)
(* Why the fence holds.  Whatever was found, is about to be shown or is    *)
(* shown is tagged with a generation and stands for a path.  The tags of a *)
(* step are tags of the state before it, or the one tag of a path that the *)
(* monitor just numbered with a number nobody holds yet.                   *)
(***************************************************************************)
MonitorTags ==
  {tag \in {<<generation, fingerprint>>} : fingerprint # NONE}

WorkerTags ==
  {<<worker[s].generation, worker[s].path>> : s \in {t \in Slots : worker[t] # Idle}}

QueueTags ==
  {<<updates[i].generation, CarriedPath(updates[i])>> :
     i \in {j \in DOMAIN updates : Carries(updates[j])}}

AppTags == {<<app.path_generation, path>> : path \in AppPaths(app)}

Tags == MonitorTags \cup WorkerTags \cup QueueTags \cup AppTags

\* One generation stands for one path, wherever it is in use, and no
\* generation is in use before the monitor has reached it.
TagsAgree ==
  /\ \A t \in Tags : t[1] \in 1 .. generation
  /\ \A t, u \in Tags : t[1] = u[1] => t[2] = u[2]

\* What the monitor and the App know about their link when they act on it.
LinkKnown ==
  /\ pc = "dispatch" => current # NONE
  /\ fingerprint = IF current = NONE THEN NONE ELSE Fingerprint(current)
  /\ app.path_generation # 0 => app.link # NONE

FenceInvariant == LinkKnown /\ TagsAgree

\* Why the ledger has no gap: links travel in the order of their generations,
\* and every generation the App has yet to hear of is in the queue.
LinksInOrder ==
  reading =>
    /\ \A i, j \in DOMAIN updates :
         i < j /\ updates[i].type = "Link" /\ updates[j].type = "Link" =>
           updates[i].generation <= updates[j].generation
    /\ \A g \in (app.path_generation + 1) .. generation :
         \E i \in DOMAIN updates :
           updates[i].type = "Link" /\ updates[i].generation = g

-----------------------------------------------------------------------------
(***************************************************************************)
(* The session implements the fence: of the App the fence sees the         *)
(* generation, the identity of the link, and the evidence.                 *)
(***************************************************************************)
ShownPathOrNone == IF app.link = NONE THEN NONE ELSE Fingerprint(app.link)

Fence == INSTANCE PathFence WITH
  Paths    <- Fingerprints,
  Sources  <- Slots,
  NoPath   <- NONE,
  number   <- app.path_generation,
  path     <- ShownPathOrNone,
  evidence <- app.evidence

\* The operator sees one path at a time and evidence of no other: late
\* results, switches, policy changes and occupied slots are all steps, or
\* stutters, of PathFence.
ImplementsFence == Fence!FenceSpec

-----------------------------------------------------------------------------
(***************************************************************************)
(* Liveness.                                                               *)
(***************************************************************************)
Over == pc = "stopped" \/ ~reading

\* What the session is to show once nothing changes any more.
UpToDate ==
  /\ app.path_generation = generation
  /\ app.link = os
  /\ ~app.path_transition_pending
  /\ \A s \in Slots : InMode(s) => app.evidence[s] # NONE

\* When host and operator leave it alone the App ends up showing the host's
\* link with evidence from every collector and probe the mode permits: no
\* switch, hold, busy slot or suppressed result leaves a gap for ever.
Converges == <>[](Over \/ paused \/ UpToDate)

\* After Quit, or after the operator's thread is gone, the monitor stops.
QuitStops == (~reading) ~> (pc = "stopped")

\* Switching probes off takes effect: if the operator leaves the policy passive
\* no probe runs from some time on, although the monitor hears of it late.
OffSwitchWorks ==
  <>[](app.probe_policy = "passive") =>
    <>[](Over \/ \A k \in Probes : worker[k] = Idle)

\* A requested refresh is served by a worker launched after the request.  One
\* that meets an occupied slot still stands when the slot is free, and one that
\* finds its slot free is given a worker, launched on the path the monitor is on
\* by then: it is not lost to the worker before, whose evidence is older.
RefreshServed ==
  \A s \in Pendable :
    /\ (pending[s] /\ InMode(s) /\ worker[s] # Idle)
         ~> ((pending[s] /\ worker[s] = Idle) \/ ~InMode(s))
    /\ (pending[s] /\ InMode(s) /\ worker[s] = Idle)
         ~> ( \/ worker[s].at = "running" /\ worker[s].generation = generation
              \/ ~InMode(s) \/ paused \/ Over )
=============================================================================
