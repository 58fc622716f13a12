---------------------------- MODULE SessionProofs ----------------------------
(***************************************************************************)
(* The fence between path generations holds in every session: for every    *)
(* host, every set of probes and collectors, every bound, and every        *)
(* interleaving of the operator's thread, the monitor and its workers.     *)
(* Then what a session publishes of its host: only paths it had, no loss   *)
(* shorter than the grace, names that stay, and consent as it was given.   *)
(* First that every step keeps the types of the variables, and that the    *)
(* App has a link exactly when it has a generation.                        *)
(***************************************************************************)
EXTENDS Session, LiveAppProofs, WellFoundedInduction

-----------------------------------------------------------------------------
(***************************************************************************)
(* The operators that turn readings into the published link.               *)
(***************************************************************************)
\* The ages of a gap stay ages.
LEMMA GapType ==
  ASSUME NEW age \in GapAges, NEW lost \in BOOLEAN
  PROVE  GapSeen(age, lost) \in GapAges /\ GapOlder(age) \in GapAges
BY GraceAssumption DEF GapAges, GapSeen, GapOlder, NoGap

\* What the monitor publishes is a link, if it read one.
LEMMA PublishedType ==
  ASSUME NEW candidate \in Link, current \in Link \cup {NONE},
         routeAge \in GapAges, underlayAge \in GapAges
  PROVE  /\ Published(candidate) \in Link
         /\ RouteGap(candidate) \in GapAges
         /\ UnderlayGap(candidate) \in GapAges
         /\ Held(RouteGap(candidate)) \in BOOLEAN
         /\ Held(RouteGap(candidate)) =>
              current \in Link /\ Published(candidate) = current
<1>1. /\ RouteLost(current, candidate) \in BOOLEAN
      /\ UnderlayLost(current, candidate) \in BOOLEAN
  BY DEF RouteLost, UnderlayLost
<1>2. RouteGap(candidate) \in GapAges
  BY <1>1, GapType DEF RouteGap
<1>3. UnderlayGap(candidate) \in GapAges
  BY <1>1, GapType DEF UnderlayGap, GapAges
<1>4. Held(RouteGap(candidate)) => current \in Link
  BY DEF Held, RouteGap, GapSeen, RouteLost
<1>5. Held(UnderlayGap(candidate)) => current \in Link
  BY DEF Held, UnderlayGap, GapSeen, UnderlayLost
<1>6. ASSUME current \in Link
      PROVE  WithUnderlayOf(current, candidate) \in Link
  BY <1>6 DEF WithUnderlayOf, Link
<1>7. Published(candidate) \in Link
  BY <1>4, <1>5, <1>6 DEF Published
<1>8. ASSUME Held(RouteGap(candidate))
      PROVE  Published(candidate) = current
  <2>1. ~Held(UnderlayGap(candidate))
    BY <1>8 DEF UnderlayGap, Held
  <2> QED BY <1>8, <2>1 DEF Published
<1> QED BY <1>2, <1>3, <1>4, <1>7, <1>8 DEF Held

\* What the monitor reads first is a link.
LEMMA FirstReadingType ==
  ASSUME os \in OsLinks, current \in Link \cup {NONE}
  PROVE  FirstReading \in Link
<1>1. os \in Link
  BY MonitorAssumption
<1>2. CASE FullRefreshDue
  BY <1>1, <1>2 DEF FirstReading
<1>3. CASE ~FullRefreshDue
  <2>1. current \in Link
    BY <1>3 DEF FullRefreshDue
  <2>2. LightLink(current, os) \in Link
    BY <1>1, <2>1 DEF LightLink, Link
  <2> QED BY <1>3, <2>2 DEF FirstReading
<1> QED BY <1>2, <1>3

-----------------------------------------------------------------------------
(***************************************************************************)
(* The monitor.                                                            *)
(***************************************************************************)
\* Handling a control keeps the types.
LEMMA HandleControlType ==
  ASSUME MonitorTypeOK, HandleControl
  PROVE  /\ controls' \in Seq(Control)
         /\ stopped' \in BOOLEAN /\ paused' \in BOOLEAN
         /\ policy' \in Policies /\ epoch' \in Nat
         /\ pending' \in [Pendable -> BOOLEAN]
         /\ started' \in [Timed -> BOOLEAN]
         /\ fullPending' \in BOOLEAN
<1> DEFINE control == Head(controls)
<1>1. controls \in Seq(Control) /\ controls # <<>>
  BY DEF MonitorTypeOK, HandleControl
<1>2. control \in Control /\ Tail(controls) \in Seq(Control)
  BY <1>1, HeadTailProperties
<1>3. controls' \in Seq(Control)
  BY <1>2 DEF HandleControl
<1> HIDE DEF control
<1>4. CASE control.type = "Refresh" /\ Refresh
  BY <1>3, <1>4 DEF Refresh, MonitorTypeOK, modeVars
<1>5. CASE /\ control.type = "SetProbePolicy" /\ ChangePolicy(control.policy)
  <2>1. control.policy \in Policies
    BY <1>2, <1>5 DEF Control
  <2>2. InternetPending(pending, control.policy) \in [Pendable -> BOOLEAN]
    BY DEF InternetPending, MonitorTypeOK
  <2>3. InternetNeverStarted \in [Timed -> BOOLEAN]
    BY DEF InternetNeverStarted, MonitorTypeOK
  <2> QED BY <1>3, <1>5, <2>1, <2>2, <2>3 DEF ChangePolicy, MonitorTypeOK
<1>6. CASE /\ control.type = "Pause" /\ paused' = control.value
           /\ UNCHANGED <<stopped, policy, epoch, scheduleVars, fullPending>>
  <2>1. control.value \in BOOLEAN
    BY <1>2, <1>6 DEF Control
  <2> QED BY <1>3, <1>6, <2>1 DEF MonitorTypeOK, scheduleVars
<1>7. CASE /\ control.type = "Stop" /\ stopped' = TRUE
           /\ UNCHANGED <<paused, policy, epoch, scheduleVars, fullPending>>
  BY <1>3, <1>7 DEF MonitorTypeOK, scheduleVars
<1> QED BY <1>4, <1>5, <1>6, <1>7 DEF HandleControl, control

\* Sending keeps the types.
LEMMA SendType ==
  ASSUME updates \in Seq(MonitorUpdate), NEW messages \in Seq(MonitorUpdate),
         Send(messages)
  PROVE  updates' \in Seq(MonitorUpdate)
<1>1. updates \o messages \in Seq(MonitorUpdate)
  BY ConcatProperties
<1> QED BY <1>1 DEF Send

\* Publishing a reading keeps the types.
LEMMA PublishCandidateType ==
  ASSUME MonitorTypeOK, NEW candidate \in Link, PublishCandidate(candidate)
  PROVE  /\ routeAge' \in GapAges /\ underlayAge' \in GapAges
         /\ settling' \in BOOLEAN
         /\ current' \in Link
         /\ fingerprint' \in Fingerprints \cup {NONE} /\ generation' \in Nat
         /\ pending' \in [Pendable -> BOOLEAN]
         /\ started' \in [Timed -> BOOLEAN]
         /\ updates' \in Seq(MonitorUpdate)
<1>1. /\ Published(candidate) \in Link
      /\ RouteGap(candidate) \in GapAges /\ UnderlayGap(candidate) \in GapAges
      /\ Held(RouteGap(candidate)) \in BOOLEAN
  BY PublishedType DEF MonitorTypeOK
<1>2. Fingerprint(Published(candidate)) \in Fingerprints
  BY <1>1, FingerprintType
<1>3. NumberPath(Published(candidate))
  BY DEF PublishCandidate
<1>4. /\ fingerprint' \in Fingerprints \cup {NONE} /\ generation' \in Nat
      /\ pending' \in [Pendable -> BOOLEAN] /\ started' \in [Timed -> BOOLEAN]
  <2>1. CASE fingerprint = Fingerprint(Published(candidate))
    BY <1>3, <2>1 DEF NumberPath, MonitorTypeOK
  <2>2. CASE fingerprint # Fingerprint(Published(candidate))
    <3>1. /\ [s \in Pendable |-> s \in Internet => policy = "active"]
               \in [Pendable -> BOOLEAN]
          /\ [s \in Timed |-> FALSE] \in [Timed -> BOOLEAN]
      BY Zenon
    <3>2. generation + 1 \in Nat
      BY DEF MonitorTypeOK
    <3> QED BY <1>2, <1>3, <2>2, <3>1, <3>2 DEF NumberPath
  <2> QED BY <2>1, <2>2
<1> DEFINE message == IF Held(RouteGap(candidate))
                      THEN SettlingUpdate(generation')
                      ELSE LinkUpdate(generation', Published(candidate))
<1>5. message \in MonitorUpdate
  BY <1>1, <1>4 DEF SettlingUpdate, LinkUpdate, MonitorUpdate
<1>6. Send(<<message>>)
  BY DEF PublishCandidate
<1> HIDE DEF message
<1>7. <<message>> \in Seq(MonitorUpdate)
  BY <1>5
<1>8. updates' \in Seq(MonitorUpdate)
  BY <1>6, <1>7, SendType DEF MonitorTypeOK
<1> QED BY <1>1, <1>4, <1>8 DEF PublishCandidate

\* What a launch announces is a sequence of ProbeStarted updates.
LEMMA AnnouncedType ==
  ASSUME NEW L \in SUBSET Slots, generation \in Nat
  PROVE  /\ Announced(L) \in Seq(MonitorUpdate)
         /\ \A i \in DOMAIN Announced(L) : Announced(L)[i].type = "ProbeStarted"
<1> DEFINE S == {u \in MonitorUpdate : u.type = "ProbeStarted"}
<1>1. ASSUME NEW k
      PROVE  AnnounceIf(k, L \cap Probes) \in Seq(S)
  <2>1. CASE k \in L \cap Probes
    <3>1. StartedUpdate(generation, k) \in S
      BY <2>1 DEF StartedUpdate, MonitorUpdate
    <3> HIDE DEF S
    <3> QED BY <2>1, <3>1 DEF AnnounceIf
  <2>2. CASE k \notin L \cap Probes
    BY <2>2 DEF AnnounceIf
  <2> QED BY <2>1, <2>2
<1> HIDE DEF S
<1>2. Announced(L) \in Seq(S)
  BY <1>1, ConcatProperties DEF Announced
<1>3. /\ Len(Announced(L)) \in Nat
      /\ Announced(L) \in [1 .. Len(Announced(L)) -> S]
  BY <1>2, LenProperties
<1> QED BY <1>2, <1>3 DEF S

\* The monitor's own state and the queues, untouched.
LEMMA MonitorTypeStutter ==
  ASSUME MonitorTypeOK, UNCHANGED monitorVars
  PROVE  MonitorTypeOK'
BY DEF MonitorTypeOK, monitorVars, hostVars, channelVars, modeVars,
       scheduleVars, linkVars

\* The host's steps keep the types.
LEMMA OsBecomesType ==
  ASSUME MonitorTypeOK, NEW link \in OsLinks, OsBecomes(link),
         link # os => osChanges < MaxOsChanges
  PROVE  /\ os' \in OsLinks /\ osChanges' \in 0 .. MaxOsChanges
         /\ osSeen' \subseteq Fingerprints
<1>1. Fingerprint(link) \in Fingerprints
  BY MonitorAssumption, FingerprintType
<1> QED BY <1>1, MonitorAssumption DEF OsBecomes, MonitorTypeOK

\* The outage the host is seen to have has an age.
LEMMA OutageType ==
  ASSUME outage \in GapAges, OutageSeen
  PROVE  outage' \in GapAges
BY GraceAssumption DEF OutageSeen, GapAges, NoGap

\* Empty channels are channels.
LEMMA NothingQueued == <<>> \in Seq(MonitorUpdate) /\ <<>> \in Seq(Control)
OBVIOUS

\* Every step of the loop keeps the types.
LEMMA LoopStepType ==
  ASSUME MonitorTypeOK, LinkKnown, LoopStep
  PROVE  MonitorTypeOK'
<1> USE DEF hostVars, channelVars, modeVars, scheduleVars, linkVars
<1>1. CASE DrainControl
  BY <1>1, HandleControlType DEF DrainControl, HandleControl, MonitorTypeOK
<1>2. CASE Finish
  BY <1>2 DEF Finish, MonitorTypeOK
<1>3. CASE SkipPausedRound
  <2>1. outage' \in GapAges
    BY <1>3, OutageType DEF SkipPausedRound, MonitorTypeOK
  <2> QED BY <1>3, <2>1 DEF SkipPausedRound, MonitorTypeOK
<1>4. CASE Observe
  <2>1. outage' \in GapAges
    BY <1>4, OutageType DEF Observe, MonitorTypeOK
  <2>2. fullAge' \in 0 .. FullEvery
    BY <1>4, MonitorAssumption DEF Observe, MonitorTypeOK
  <2>3. PICK candidate \in Link :
          /\ PublishCandidate(candidate)
          /\ os' \in OsLinks /\ osChanges' \in 0 .. MaxOsChanges
          /\ osSeen' \subseteq Fingerprints
    <3>1. CASE ~ReadAgain
      BY <1>4, <3>1, FirstReadingType DEF Observe, MonitorTypeOK
    <3>2. CASE ReadAgain
      <4>1. PICK link \in OsLater : OsBecomes(link) /\ PublishCandidate(link)
        BY <1>4, <3>2 DEF Observe
      <4>2. link \in OsLinks /\ (link # os => osChanges < MaxOsChanges)
        BY <4>1 DEF OsLater, MonitorTypeOK
      <4> QED BY <4>1, <4>2, OsBecomesType, MonitorAssumption
    <3> QED BY <3>1, <3>2
  <2>4. /\ routeAge' \in GapAges /\ underlayAge' \in GapAges
        /\ settling' \in BOOLEAN /\ current' \in Link
        /\ fingerprint' \in Fingerprints \cup {NONE} /\ generation' \in Nat
        /\ pending' \in [Pendable -> BOOLEAN]
        /\ started' \in [Timed -> BOOLEAN]
        /\ updates' \in Seq(MonitorUpdate)
    BY <2>3, PublishCandidateType
  <2> QED BY <1>4, <2>1, <2>2, <2>3, <2>4 DEF Observe, MonitorTypeOK
<1>5. CASE Dispatch
  <2>1. PICK due \in SUBSET {s \in Pendable : CanBeDue(s) /\ InMode(s)} :
          /\ worker' = [s \in Slots |-> IF s \in Launched(due)
                                        THEN LaunchedWorker(s) ELSE worker[s]]
          /\ pending' = PendingAfter(due)
          /\ started' = [s \in Timed |-> started[s] \/ s \in Launched(due)]
          /\ Send(Announced(Launched(due)))
    BY <1>5 DEF Dispatch
  <2>2. Launched(due) \in SUBSET Slots
    BY DEF Launched, Attempted
  <2>3. updates' \in Seq(MonitorUpdate)
    BY <2>1, <2>2, AnnouncedType, SendType DEF MonitorTypeOK
  <2>4. pending' \in [Pendable -> BOOLEAN] /\ started' \in [Timed -> BOOLEAN]
    BY <2>1, Zenon DEF PendingAfter, MonitorTypeOK
  <2>5. worker' \in [Slots -> Worker]
    <3>1. current \in Link
      BY <1>5 DEF Dispatch, LinkKnown, MonitorTypeOK
    <3>2. \A s \in Slots : LaunchedWorker(s) \in Worker
      <4>1. Fingerprint(current) \in Fingerprints
        BY <3>1, FingerprintType
      <4> QED BY <4>1 DEF LaunchedWorker, Worker, MonitorTypeOK
    <3> QED BY <2>1, <3>2 DEF MonitorTypeOK
  <2> QED BY <1>5, <2>3, <2>4, <2>5 DEF Dispatch, MonitorTypeOK
<1>6. CASE WaitControl
  BY <1>6, HandleControlType DEF WaitControl, HandleControl, MonitorTypeOK
<1>7. CASE WaitDisconnected
  BY <1>7 DEF WaitDisconnected, MonitorTypeOK
<1>8. CASE WaitElapsed
  <2>1. /\ outage' \in GapAges /\ routeAge' \in GapAges
        /\ underlayAge' \in GapAges
    BY <1>8, GapType DEF WaitElapsed, MonitorTypeOK
  <2>2. fullAge' \in 0 .. FullEvery
    BY <1>8, MonitorAssumption DEF WaitElapsed, MonitorTypeOK
  <2> QED BY <1>8, <2>1, <2>2 DEF WaitElapsed, MonitorTypeOK
<1> QED BY <1>1, <1>2, <1>3, <1>4, <1>5, <1>6, <1>7, <1>8 DEF LoopStep

\* So does every step of a worker, whatever it found.
LEMMA ResultsType ==
  ASSUME MonitorTypeOK, NEW s \in Slots, worker[s] # Idle
  PROVE  Results(s) \subseteq MonitorUpdate
<1>1. worker[s].generation \in Nat /\ worker[s].path \in Fingerprints
  BY DEF MonitorTypeOK, Worker
<1>2. CASE s \in Probes
  BY <1>1, <1>2 DEF Results, FinishedUpdate, MonitorUpdate
<1>3. CASE s \notin Probes
  <2>1. s \in Collectors
    BY <1>3 DEF Slots
  <2> QED BY <1>1, <1>3, <2>1 DEF Results, CollectedUpdate, MonitorUpdate
<1> QED BY <1>2, <1>3

LEMMA WorkerStepType ==
  ASSUME MonitorTypeOK, NEW s \in Slots, WorkerStep(s)
  PROVE  MonitorTypeOK'
<1> USE DEF hostVars, channelVars, modeVars, scheduleVars, linkVars
<1>0. worker[s] # Idle => worker[s] \in
         [at : {"running", "sending", "releasing"}, generation : Nat,
          path : Fingerprints, epoch : Nat]
  BY DEF MonitorTypeOK, Worker
<1>1. CASE WorkerRuns(s)
  <2>1. worker[s] # Idle
    BY <1>1 DEF WorkerRuns, Idle
  <2>2. worker' \in [Slots -> Worker]
    BY <1>0, <1>1, <2>1 DEF WorkerRuns, MonitorTypeOK, Worker
  <2> QED BY <1>1, <2>2 DEF WorkerRuns, MonitorTypeOK
<1>2. CASE WorkerSends(s)
  <2>1. worker[s] # Idle
    BY <1>2 DEF WorkerSends, Idle
  <2>2. worker' \in [Slots -> Worker]
    BY <1>0, <1>2, <2>1 DEF WorkerSends, MonitorTypeOK, Worker
  <2>3. PICK result \in Results(s) : Send(<<result>>)
    BY <1>2 DEF WorkerSends
  <2>4. <<result>> \in Seq(MonitorUpdate)
    BY <2>1, ResultsType
  <2>5. updates' \in Seq(MonitorUpdate)
    BY <2>3, <2>4, SendType DEF MonitorTypeOK
  <2> QED BY <1>2, <2>2, <2>5 DEF WorkerSends, MonitorTypeOK
<1>3. CASE WorkerReleases(s)
  <2>1. worker' \in [Slots -> Worker]
    BY <1>3 DEF WorkerReleases, MonitorTypeOK, Worker
  <2> QED BY <1>3, <2>1 DEF WorkerReleases, MonitorTypeOK
<1> QED BY <1>1, <1>2, <1>3 DEF WorkerStep

\* The host changes to a link it can have.
LEMMA OsChangesType ==
  ASSUME MonitorTypeOK, OsChanges
  PROVE  MonitorTypeOK'
<1> USE DEF hostVars, channelVars, modeVars, scheduleVars, linkVars
<1>1. PICK link \in OsLinks : OsBecomes(link)
  BY DEF OsChanges
<1>2. /\ os' \in OsLinks /\ osChanges' \in 0 .. MaxOsChanges
      /\ osSeen' \subseteq Fingerprints
  BY <1>1, OsBecomesType DEF OsChanges
<1> QED BY <1>2 DEF OsChanges, MonitorTypeOK

-----------------------------------------------------------------------------
(***************************************************************************)
(* The session.                                                            *)
(***************************************************************************)
LEMMA InitType ==
  ASSUME Init
  PROVE  TypeOK
<1>1. PICK p \in InitialPolicies : MonitorInit(p) /\ app = NewApp(p) /\ pressed = 0
  BY DEF Init
<1>2. p \in Policies
  BY SessionAssumption
<1>3. app \in App
  BY <1>1, <1>2, NewAppType
<1>4. pending \in [Pendable -> BOOLEAN]
  <2>1. [s \in Pendable |-> s \in Internet => p = "active"] \in [Pendable -> BOOLEAN]
    BY Zenon
  <2> QED BY <1>1, <2>1 DEF MonitorInit
<1>5. osSeen \subseteq Fingerprints
  BY <1>1, FingerprintType, MonitorAssumption DEF MonitorInit
<1>6. worker \in [Slots -> Worker] /\ started \in [Timed -> BOOLEAN]
  BY <1>1 DEF MonitorInit, Worker
<1>7. MonitorTypeOK
  <2>1. /\ osChanges \in 0 .. MaxOsChanges /\ fullAge \in 0 .. FullEvery
        /\ outage \in GapAges /\ routeAge \in GapAges /\ underlayAge \in GapAges
    BY <1>1, MonitorAssumption DEF MonitorInit, GapAges
  <2>2. controls \in Seq(Control) /\ updates \in Seq(MonitorUpdate)
    BY <1>1, NothingQueued DEF MonitorInit
  <2> QED BY <1>1, <1>2, <1>4, <1>5, <1>6, <2>1, <2>2
          DEF MonitorInit, MonitorTypeOK
<1> QED BY <1>1, <1>3, <1>7, SessionAssumption DEF TypeOK

LEMMA OperatorStepType ==
  ASSUME TypeOK, OperatorStep
  PROVE  TypeOK'
<1> USE DEF hostVars, modeVars, scheduleVars, linkVars
<1>1. app \in App /\ MonitorTypeOK
  BY DEF TypeOK
<1>2. ASSUME NEW key, Press(key)
      PROVE  pressed' \in 0 .. MaxKeys
  BY <1>2, SessionAssumption DEF Press, TypeOK
<1>3. ASSUME NEW control \in Control
      PROVE  Append(controls, control) \in Seq(Control)
  BY <1>1, <1>3 DEF MonitorTypeOK
<1>4. CASE PressRefresh
  <2>1. [type |-> "Refresh"] \in Control
    BY DEF Control
  <2> QED BY <1>1, <1>2, <1>3, <1>4, <2>1
          DEF PressRefresh, Press, SendControl, TypeOK, MonitorTypeOK
<1>5. CASE PressPause
  <2>1. /\ [type |-> "Pause", value |-> ~app.paused] \in Control
        /\ SetPaused(app, ~app.paused) \in App
    BY <1>1, OperatorType DEF Control, App
  <2> QED BY <1>1, <1>2, <1>3, <1>5, <2>1
          DEF PressPause, Press, SendControl, TypeOK, MonitorTypeOK
<1>6. CASE PressProbePolicy
  <2>1. Toggled(app.probe_policy) \in Policies
    BY DEF Toggled, Policies
  <2>2. /\ [type |-> "SetProbePolicy", policy |-> Toggled(app.probe_policy)] \in Control
        /\ SetProbePolicy(app, Toggled(app.probe_policy)) \in App
    BY <1>1, <2>1, OperatorType DEF Control
  <2> QED BY <1>1, <1>2, <1>3, <1>6, <2>2
          DEF PressProbePolicy, Press, SendControl, TypeOK, MonitorTypeOK
<1>7. CASE Quit
  <2>1. [type |-> "Stop"] \in Control
    BY DEF Control
  <2> QED BY <1>1, <1>2, <1>3, <1>7, <2>1, NothingQueued
          DEF Quit, Press, TypeOK, MonitorTypeOK
<1>8. CASE Drop
  BY <1>1, <1>2, <1>8, NothingQueued DEF Drop, Press, TypeOK, MonitorTypeOK
<1> QED BY <1>4, <1>5, <1>6, <1>7, <1>8 DEF OperatorStep

\* Receiving an update keeps the types.
LEMMA ReceiveUpdateType ==
  ASSUME TypeOK, LinkKnown, ReceiveUpdate
  PROVE  /\ TypeOK'
         /\ Head(updates) \in MonitorUpdate
<1>1. updates \in Seq(MonitorUpdate) /\ updates # <<>>
  BY DEF TypeOK, MonitorTypeOK, ReceiveUpdate
<1>2. Head(updates) \in MonitorUpdate /\ Tail(updates) \in Seq(MonitorUpdate)
  BY <1>1, HeadTailProperties
<1>3. app' \in App
  BY <1>2, ApplyType DEF ReceiveUpdate, LinkKnown, TypeOK
<1> QED BY <1>2, <1>3 DEF ReceiveUpdate, TypeOK, MonitorTypeOK, hostVars,
          modeVars, scheduleVars, linkVars

\* Every step of the session keeps the types.
LEMMA NextType ==
  ASSUME TypeOK, LinkKnown, [Next]_vars
  PROVE  TypeOK'
<1>1. CASE ReceiveUpdate
  BY <1>1, ReceiveUpdateType
<1>2. CASE OperatorStep
  BY <1>2, OperatorStepType
<1>3. CASE MonitorStep
  <2>1. MonitorTypeOK'
    BY <1>3, LoopStepType, WorkerStepType, OsChangesType DEF MonitorStep, TypeOK
  <2> QED BY <1>3, <2>1 DEF MonitorStep, TypeOK
<1>4. CASE UNCHANGED vars
  BY <1>4, MonitorTypeStutter DEF vars, TypeOK
<1> QED BY <1>1, <1>2, <1>3, <1>4 DEF Next

-----------------------------------------------------------------------------
(***************************************************************************)
(* Tags.                                                                   *)
(***************************************************************************)
\* If a step adds no tag, or only that of a path it numbers afresh, the tags
\* still agree.
LEMMA TagsStillAgree ==
  ASSUME TagsAgree, generation \in Nat,
         \/ generation' = generation /\ Tags' \subseteq Tags
         \/ /\ generation' = generation + 1
            /\ Tags' \subseteq Tags \cup {<<generation', fingerprint'>>}
  PROVE  TagsAgree'
<1>1. CASE generation' = generation /\ Tags' \subseteq Tags
  BY <1>1 DEF TagsAgree
<1>2. CASE /\ generation' = generation + 1
           /\ Tags' \subseteq Tags \cup {<<generation', fingerprint'>>}
  <2>1. ASSUME NEW t \in Tags'
        PROVE  /\ t[1] \in 1 .. generation'
               /\ t \in Tags \/ t = <<generation', fingerprint'>>
               /\ t \in Tags => t[1] # generation'
    BY <1>2, <2>1 DEF TagsAgree
  <2>2. ASSUME NEW t \in Tags', NEW u \in Tags', t[1] = u[1]
        PROVE  t[2] = u[2]
    <3>1. CASE t \in Tags /\ u \in Tags
      BY <2>2, <3>1 DEF TagsAgree
    <3>2. CASE t = <<generation', fingerprint'>> /\ u = <<generation', fingerprint'>>
      BY <3>2
    <3> QED BY <2>1, <2>2, <3>1, <3>2
  <2> QED BY <2>1, <2>2 DEF TagsAgree
<1> QED BY <1>1, <1>2

\* What a queue carries, said of one update at a time.
LEMMA QueueTagsMember ==
  \A tag : tag \in QueueTags <=>
    \E i \in DOMAIN updates :
      /\ Carries(updates[i])
      /\ tag = <<updates[i].generation, CarriedPath(updates[i])>>
BY DEF QueueTags

\* Sending one update adds at most what that update carries.
LEMMA SendTags ==
  ASSUME updates \in Seq(MonitorUpdate), NEW messages \in Seq(MonitorUpdate),
         Send(messages), NEW tag \in QueueTags'
  PROVE  \/ tag \in QueueTags
         \/ \E i \in DOMAIN messages :
              /\ Carries(messages[i])
              /\ tag = <<messages[i].generation, CarriedPath(messages[i])>>
<1>1. PICK i \in DOMAIN updates' :
        /\ Carries(updates'[i])
        /\ tag = <<updates'[i].generation, CarriedPath(updates'[i])>>
  BY QueueTagsMember DEF QueueTags
<1>2. CASE updates' = updates
  BY <1>1, <1>2, QueueTagsMember
<1>3. CASE updates' = updates \o messages
  <2>1. /\ Len(updates \o messages) = Len(updates) + Len(messages)
        /\ updates \o messages \in Seq(MonitorUpdate)
        /\ \A j \in 1 .. Len(updates) + Len(messages) :
             (updates \o messages)[j] =
               IF j <= Len(updates) THEN updates[j] ELSE messages[j - Len(updates)]
    BY ConcatProperties
  <2>2. i \in 1 .. Len(updates) + Len(messages)
    BY <1>1, <1>3, <2>1
  <2>3. CASE i <= Len(updates)
    <3>1. i \in DOMAIN updates /\ updates'[i] = updates[i]
      BY <1>3, <2>1, <2>2, <2>3
    <3> QED BY <1>1, <3>1, QueueTagsMember
  <2>4. CASE ~(i <= Len(updates))
    <3>1. /\ i - Len(updates) \in DOMAIN messages
          /\ updates'[i] = messages[i - Len(updates)]
      BY <1>3, <2>1, <2>2, <2>4
    <3> QED BY <1>1, <3>1
  <2> QED BY <2>3, <2>4
<1> QED BY <1>2, <1>3 DEF Send

\* Receiving the first update removes at most what it carries.
LEMMA ReceiveTags ==
  ASSUME updates \in Seq(MonitorUpdate), updates # <<>>
  PROVE  /\ updates' = Tail(updates) => QueueTags' \subseteq QueueTags
         /\ Carries(Head(updates)) =>
              <<Head(updates).generation, CarriedPath(Head(updates))>> \in QueueTags
<1>1. ASSUME updates' = Tail(updates), NEW tag \in QueueTags'
      PROVE  tag \in QueueTags
  <2>1. PICK i \in DOMAIN updates' :
          /\ Carries(updates'[i])
          /\ tag = <<updates'[i].generation, CarriedPath(updates'[i])>>
    BY <1>1 DEF QueueTags
  <2>2. i + 1 \in DOMAIN updates /\ updates'[i] = updates[i + 1]
    BY <1>1, <2>1
  <2> QED BY <2>1, <2>2, QueueTagsMember
<1>2. 1 \in DOMAIN updates /\ Head(updates) = updates[1]
  OBVIOUS
<1>3. Carries(Head(updates)) =>
        <<Head(updates).generation, CarriedPath(Head(updates))>> \in QueueTags
  BY <1>2, QueueTagsMember
<1> QED BY <1>1, <1>3

\* The tag of the path the monitor is on.
LEMMA CurrentTag ==
  ASSUME TypeOK, LinkKnown, current # NONE
  PROVE  /\ <<generation, Fingerprint(current)>> \in Tags
         /\ fingerprint = Fingerprint(current)
<1>1. current \in Link
  BY DEF TypeOK, MonitorTypeOK
<1>2. Fingerprint(current) # NONE
  BY <1>1, FingerprintType
<1> QED BY <1>2 DEF LinkKnown, Tags, MonitorTags

-----------------------------------------------------------------------------
(***************************************************************************)
(* One lemma per step that has to do with tags.                            *)
(***************************************************************************)
\* The other steps leave every holder of a tag alone.
LEMMA QuietStep ==
  ASSUME FenceInvariant,
         UNCHANGED <<fingerprint, generation, current, worker, updates, app>>,
         pc' # "dispatch" \/ pc' = pc
  PROVE  FenceInvariant'
<1>1. Tags' = Tags
  BY DEF Tags, MonitorTags, WorkerTags, QueueTags, AppTags
<1>2. TagsAgree'
  BY <1>1 DEF FenceInvariant, TagsAgree
<1>3. LinkKnown'
  BY DEF FenceInvariant, LinkKnown
<1> QED BY <1>2, <1>3 DEF FenceInvariant

LEMMA ObserveFence ==
  ASSUME TypeOK, FenceInvariant, Observe, UNCHANGED app
  PROVE  FenceInvariant'
<1>1. PICK candidate \in Link : PublishCandidate(candidate)
  <2>1. CASE ~ReadAgain
    BY <2>1, FirstReadingType DEF Observe, TypeOK, MonitorTypeOK
  <2>2. CASE ReadAgain
    BY <2>2, MonitorAssumption DEF Observe, OsLater, TypeOK, MonitorTypeOK
  <2> QED BY <2>1, <2>2
<1> DEFINE link == Published(candidate)
           message == IF Held(RouteGap(candidate))
                      THEN SettlingUpdate(generation')
                      ELSE LinkUpdate(generation', link)
<1>2. link \in Link
  BY PublishedType DEF TypeOK, MonitorTypeOK
<1>3. Fingerprint(link) # NONE /\ link # NONE
  BY <1>2, FingerprintType, LinkIsNotNone
<1>4. /\ current' = link /\ Send(<<message>>) /\ NumberPath(link)
      /\ UNCHANGED worker
  BY <1>1 DEF PublishCandidate, Observe
<1>5. /\ fingerprint' = Fingerprint(link)
      /\ \/ generation' = generation /\ fingerprint' = fingerprint
         \/ generation' = generation + 1
  BY <1>4 DEF NumberPath
<1>6. generation \in Nat /\ generation' \in Nat /\ updates \in Seq(MonitorUpdate)
  BY <1>5 DEF TypeOK, MonitorTypeOK
<1>7. message \in MonitorUpdate
  BY <1>2, <1>6 DEF SettlingUpdate, LinkUpdate, MonitorUpdate
<1>8. Carries(message) =>
        <<message.generation, CarriedPath(message)>> = <<generation', fingerprint'>>
  BY <1>5 DEF Carries, CarriedPath, SettlingUpdate, LinkUpdate
<1> HIDE DEF message
<1>9. QueueTags' \subseteq QueueTags \cup {<<generation', fingerprint'>>}
  <2>1. ASSUME NEW tag \in QueueTags'
        PROVE  tag \in QueueTags \cup {<<generation', fingerprint'>>}
    <3>1. <<message>> \in Seq(MonitorUpdate)
      BY <1>7
    <3>2. \/ tag \in QueueTags
          \/ \E i \in DOMAIN <<message>> :
               /\ Carries(<<message>>[i])
               /\ tag = <<<<message>>[i].generation, CarriedPath(<<message>>[i])>>
      BY <1>4, <1>6, <2>1, <3>1, SendTags
    <3>3. \A i \in DOMAIN <<message>> : <<message>>[i] = message
      OBVIOUS
    <3> QED BY <1>8, <3>2, <3>3
  <2> QED BY <2>1
<1>10. Tags' \subseteq Tags \cup {<<generation', fingerprint'>>}
  <2>1. MonitorTags' \subseteq {<<generation', fingerprint'>>}
    BY DEF MonitorTags
  <2>2. WorkerTags' = WorkerTags /\ AppTags' = AppTags
    BY <1>4 DEF WorkerTags, AppTags
  <2> QED BY <1>9, <2>1, <2>2 DEF Tags
<1>11. TagsAgree'
  <2>1. CASE generation' = generation /\ fingerprint' = fingerprint
    <3>1. <<generation', fingerprint'>> \in Tags
      BY <1>3, <1>5, <2>1 DEF Tags, MonitorTags
    <3> QED BY <1>6, <1>10, <2>1, <3>1, TagsStillAgree DEF FenceInvariant
  <2>2. CASE generation' = generation + 1
    BY <1>6, <1>10, <2>2, TagsStillAgree DEF FenceInvariant
  <2> QED BY <1>5, <2>1, <2>2
<1>12. LinkKnown'
  BY <1>3, <1>4, <1>5 DEF FenceInvariant, LinkKnown
<1> QED BY <1>11, <1>12 DEF FenceInvariant

LEMMA DispatchFence ==
  ASSUME TypeOK, FenceInvariant, Dispatch, UNCHANGED app
  PROVE  FenceInvariant'
<1>1. PICK due \in SUBSET {s \in Pendable : CanBeDue(s) /\ InMode(s)} :
        /\ worker' = [s \in Slots |-> IF s \in Launched(due)
                                      THEN LaunchedWorker(s) ELSE worker[s]]
        /\ Send(Announced(Launched(due)))
  BY DEF Dispatch
<1>2. /\ UNCHANGED <<fingerprint, generation, current>>
      /\ current # NONE /\ pc' = "wait"
  BY DEF Dispatch, linkVars, FenceInvariant, LinkKnown
<1>3. <<generation, Fingerprint(current)>> \in Tags
  BY <1>2, CurrentTag DEF FenceInvariant
<1>4. WorkerTags' \subseteq Tags
  <2>1. ASSUME NEW s \in Slots, worker'[s] # Idle
        PROVE  <<worker'[s].generation, worker'[s].path>> \in Tags
    <3>1. CASE s \in Launched(due)
      BY <1>1, <1>3, <3>1 DEF LaunchedWorker
    <3>2. CASE s \notin Launched(due)
      BY <1>1, <2>1, <3>2 DEF Tags, WorkerTags
    <3> QED BY <3>1, <3>2
  <2> QED BY <2>1 DEF WorkerTags
<1>5. QueueTags' \subseteq QueueTags
  <2>1. ASSUME NEW tag \in QueueTags'
        PROVE  tag \in QueueTags
    <3> DEFINE messages == Announced(Launched(due))
    <3>1. Launched(due) \in SUBSET Slots
      BY DEF Launched, Attempted
    <3>2. /\ messages \in Seq(MonitorUpdate)
          /\ \A i \in DOMAIN messages : messages[i].type = "ProbeStarted"
      BY <3>1, AnnouncedType DEF TypeOK, MonitorTypeOK
    <3> HIDE DEF messages
    <3>3. \A i \in DOMAIN messages : ~Carries(messages[i])
      BY <3>2 DEF Carries
    <3>4. Send(messages) /\ updates \in Seq(MonitorUpdate)
      BY <1>1 DEF messages, TypeOK, MonitorTypeOK
    <3> QED BY <2>1, <3>2, <3>3, <3>4, SendTags
  <2> QED BY <2>1
<1>6. Tags' \subseteq Tags
  <2>1. MonitorTags' = MonitorTags /\ AppTags' = AppTags
    BY <1>2 DEF MonitorTags, AppTags
  <2> QED BY <1>4, <1>5, <2>1 DEF Tags
<1>7. TagsAgree'
  BY <1>2, <1>6, TagsStillAgree DEF FenceInvariant, TypeOK, MonitorTypeOK
<1>8. LinkKnown'
  BY <1>2 DEF FenceInvariant, LinkKnown
<1> QED BY <1>7, <1>8 DEF FenceInvariant

LEMMA WorkerFence ==
  ASSUME TypeOK, FenceInvariant, NEW s \in Slots, WorkerStep(s), UNCHANGED app
  PROVE  FenceInvariant'
<1>1. /\ UNCHANGED <<fingerprint, generation, current, pc>>
      /\ worker \in [Slots -> Worker] /\ generation \in Nat
      /\ updates \in Seq(MonitorUpdate)
  BY DEF WorkerStep, WorkerRuns, WorkerSends, WorkerReleases, linkVars,
         TypeOK, MonitorTypeOK
<1>2. /\ worker[s] # Idle
      /\ worker' = [worker EXCEPT ![s] = worker'[s]]
      /\ \/ worker'[s] = Idle
         \/ /\ worker'[s].generation = worker[s].generation
            /\ worker'[s].path = worker[s].path
  BY <1>1 DEF WorkerStep, WorkerRuns, WorkerSends, WorkerReleases, Idle, Worker
<1>3. <<worker[s].generation, worker[s].path>> \in WorkerTags
  BY <1>2 DEF WorkerTags
<1>4. WorkerTags' \subseteq WorkerTags
  <2>1. ASSUME NEW t \in Slots, worker'[t] # Idle
        PROVE  <<worker'[t].generation, worker'[t].path>> \in WorkerTags
    <3>1. CASE t = s
      BY <1>2, <1>3, <2>1, <3>1
    <3>2. CASE t # s
      <4>1. worker'[t] = worker[t]
        BY <1>1, <1>2, <3>2
      <4> QED BY <2>1, <4>1 DEF WorkerTags
    <3> QED BY <3>1, <3>2
  <2> QED BY <2>1 DEF WorkerTags
<1>5. QueueTags' \subseteq QueueTags \cup WorkerTags
  <2>1. CASE UNCHANGED updates
    BY <2>1 DEF QueueTags
  <2>2. CASE WorkerSends(s)
    <3>1. PICK result \in Results(s) : Send(<<result>>)
      BY <2>2 DEF WorkerSends
    <3>2. <<result.generation, CarriedPath(result)>> =
            <<worker[s].generation, worker[s].path>>
      BY <3>1 DEF Results, FinishedUpdate, CollectedUpdate, CarriedPath
    <3>3. <<result>> \in Seq(MonitorUpdate)
      BY <1>2, <3>1, ResultsType DEF TypeOK
    <3>4. \A i \in DOMAIN <<result>> : <<result>>[i] = result
      OBVIOUS
    <3>5. ASSUME NEW tag \in QueueTags'
          PROVE  tag \in QueueTags \cup WorkerTags
      <4>1. \/ tag \in QueueTags
            \/ \E i \in DOMAIN <<result>> :
                 /\ Carries(<<result>>[i])
                 /\ tag = <<<<result>>[i].generation, CarriedPath(<<result>>[i])>>
        BY <1>1, <3>1, <3>3, <3>5, SendTags
      <4> QED BY <1>3, <3>2, <3>4, <4>1
    <3> QED BY <3>5
  <2>3. UNCHANGED updates \/ WorkerSends(s)
    BY DEF WorkerStep, WorkerRuns, WorkerReleases, channelVars
  <2> QED BY <2>1, <2>2, <2>3
<1>6. Tags' \subseteq Tags
  <2>1. MonitorTags' = MonitorTags /\ AppTags' = AppTags
    BY <1>1 DEF MonitorTags, AppTags
  <2> QED BY <1>4, <1>5, <2>1 DEF Tags
<1>7. TagsAgree'
  BY <1>1, <1>6, TagsStillAgree DEF FenceInvariant
<1>8. LinkKnown'
  BY <1>1 DEF FenceInvariant, LinkKnown
<1> QED BY <1>7, <1>8 DEF FenceInvariant

\* The operator's keys put no path on display.
LEMMA OperatorFence ==
  ASSUME TypeOK, FenceInvariant, OperatorStep
  PROVE  FenceInvariant'
<1>1. /\ UNCHANGED <<fingerprint, generation, current, worker, pc>>
      /\ app'.path_generation = app.path_generation /\ app'.link = app.link
      /\ AppPaths(app') \subseteq AppPaths(app)
  <2>1. app.paused \in BOOLEAN /\ Toggled(app.probe_policy) \in Policies /\ app \in App
    BY DEF TypeOK, App, Toggled, Policies
  <2>2. CASE PressRefresh \/ Quit \/ Drop
    BY <2>2 DEF PressRefresh, Quit, Drop, Press, linkVars
  <2>3. CASE PressPause
    BY <2>1, <2>3, OperatorPaths DEF PressPause, Press, linkVars
  <2>4. CASE PressProbePolicy
    BY <2>1, <2>4, OperatorPaths DEF PressProbePolicy, Press, linkVars
  <2> QED BY <2>2, <2>3, <2>4 DEF OperatorStep
<1>2. updates' \in {updates, <<>>}
  BY DEF OperatorStep, PressRefresh, PressPause, PressProbePolicy, SendControl,
         Quit, Drop
<1>3. Tags' \subseteq Tags
  <2>1. QueueTags' \subseteq QueueTags
    BY <1>2 DEF QueueTags
  <2>2. MonitorTags' = MonitorTags /\ WorkerTags' = WorkerTags
    BY <1>1 DEF MonitorTags, WorkerTags
  <2>3. AppTags' \subseteq AppTags
    BY <1>1 DEF AppTags
  <2> QED BY <2>1, <2>2, <2>3 DEF Tags
<1>4. TagsAgree'
  BY <1>1, <1>3, TagsStillAgree DEF FenceInvariant, TypeOK, MonitorTypeOK
<1>5. LinkKnown'
  BY <1>1 DEF FenceInvariant, LinkKnown
<1> QED BY <1>4, <1>5 DEF FenceInvariant

\* What an update makes of the App, in terms of paths: nothing, or, if it is
\* admitted under the generation shown, its own path beside those shown, or,
\* if it is a link of a greater generation, its own path alone.
LEMMA ReceivePaths ==
  ASSUME TypeOK, ReceiveUpdate
  PROVE  LET u == Head(updates) IN
         \/ /\ app'.path_generation = app.path_generation
            /\ app'.link = app.link /\ app'.evidence = app.evidence
            /\ AppPaths(app') = AppPaths(app)
         \/ /\ Carries(u) /\ u.generation = app.path_generation
            /\ app'.path_generation = app.path_generation
            /\ AppPaths(app') \subseteq AppPaths(app) \cup {CarriedPath(u)}
            /\ \/ u.type = "Link" /\ app'.link = u.link /\ app'.evidence = app.evidence
               \/ /\ app'.link = app.link /\ u.slot \in Slots
                  /\ app'.evidence = [app.evidence EXCEPT ![u.slot] = CarriedPath(u)]
         \/ /\ u.type = "Link" /\ u.generation > app.path_generation
            /\ app'.path_generation = u.generation /\ app'.link = u.link
            /\ app'.evidence = [s \in Slots |-> NONE]
            /\ AppPaths(app') \subseteq {CarriedPath(u)}
<1> DEFINE u == Head(updates)
<1>1. u \in MonitorUpdate /\ app \in App /\ app' = Apply(app, u)
  BY DEF TypeOK, MonitorTypeOK, ReceiveUpdate
<1> HIDE DEF u
<1>2. u.type \in {"Link", "PathSettling", "Collected", "ProbeStarted", "ProbeFinished"}
  BY <1>1 DEF MonitorUpdate
<1>3. CASE ~AcceptsUpdate(app, u)
  BY <1>1, <1>3 DEF Apply, u
<1>4. CASE AcceptsUpdate(app, u) /\ u.type = "Link"
  <2>1. app' = ApplyLink(app, u)
    BY <1>1, <1>4 DEF Apply
  <2>2. /\ u.generation >= app.path_generation
        /\ u.generation \in Nat /\ app.path_generation \in Nat
    BY <1>1, <1>4 DEF AcceptsUpdate, MonitorUpdate, App
  <2>3. Carries(u)
    BY <1>4 DEF Carries
  <2>4. CASE u.generation = app.path_generation
    BY <1>1, <1>4, <2>1, <2>3, <2>4, ApplyLinkPaths DEF u
  <2>5. CASE u.generation # app.path_generation
    <3>1. u.generation > app.path_generation
      BY <2>2, <2>5
    <3> QED BY <1>1, <1>4, <2>1, <2>5, <3>1, ApplyLinkPaths DEF u
  <2> QED BY <2>4, <2>5
<1>5. CASE AcceptsUpdate(app, u) /\ u.type = "PathSettling"
  <2>1. app' = ApplyPathSettling(app)
    BY <1>1, <1>5 DEF Apply
  <2> QED BY <1>1, <2>1, ApplyPathSettlingPaths DEF u
<1>6. CASE AcceptsUpdate(app, u) /\ u.type = "Collected"
  <2>1. /\ app' = ApplyCollected(app, u) /\ u.generation = app.path_generation
    BY <1>1, <1>6 DEF Apply, AcceptsUpdate
  <2>2. Carries(u) /\ CarriedPath(u) = u.path /\ u.slot \in Slots
    BY <1>1, <1>6, SlotsApart DEF Carries, CarriedPath, MonitorUpdate
  <2> QED BY <1>1, <1>6, <2>1, <2>2, ApplyCollectedPaths DEF u
<1>7. CASE AcceptsUpdate(app, u) /\ u.type = "ProbeStarted"
  <2>1. app' = ApplyProbeStarted(app, u)
    BY <1>1, <1>7 DEF Apply
  <2> QED BY <1>1, <2>1, ApplyProbeStartedPaths DEF u
<1>8. CASE AcceptsUpdate(app, u) /\ u.type = "ProbeFinished"
  <2>1. /\ app' = ApplyProbeFinished(app, u) /\ u.generation = app.path_generation
    BY <1>1, <1>8 DEF Apply, AcceptsUpdate
  <2>2. Carries(u) /\ CarriedPath(u) = u.path /\ u.slot \in Slots
    BY <1>1, <1>8, SlotsApart DEF Carries, CarriedPath, MonitorUpdate
  <2> QED BY <1>1, <1>8, <2>1, <2>2, ApplyProbeFinishedPaths DEF u
<1> QED BY <1>2, <1>3, <1>4, <1>5, <1>6, <1>7, <1>8

\* Receiving an update moves a tag from the queue to the App, or drops it.
LEMMA ReceiveFence ==
  ASSUME TypeOK, FenceInvariant, ReceiveUpdate
  PROVE  FenceInvariant'
<1> DEFINE u == Head(updates)
<1>1. /\ updates \in Seq(MonitorUpdate) /\ updates # <<>>
      /\ updates' = Tail(updates) /\ u \in MonitorUpdate
      /\ UNCHANGED <<fingerprint, generation, current, worker, pc>>
  BY DEF ReceiveUpdate, linkVars, TypeOK, MonitorTypeOK
<1>2. /\ QueueTags' \subseteq QueueTags
      /\ Carries(u) => <<u.generation, CarriedPath(u)>> \in QueueTags
  BY <1>1, ReceiveTags
<1> HIDE DEF u
<1>3. AppTags' \subseteq AppTags \cup QueueTags
  <2>1. CASE /\ app'.path_generation = app.path_generation
             /\ AppPaths(app') = AppPaths(app)
    BY <2>1 DEF AppTags
  <2>2. CASE /\ Carries(u) /\ u.generation = app.path_generation
             /\ app'.path_generation = app.path_generation
             /\ AppPaths(app') \subseteq AppPaths(app) \cup {CarriedPath(u)}
    BY <1>2, <2>2 DEF AppTags
  <2>3. CASE /\ u.type = "Link" /\ app'.path_generation = u.generation
             /\ AppPaths(app') \subseteq {CarriedPath(u)}
    BY <1>2, <2>3 DEF AppTags, Carries
  <2> QED BY <2>1, <2>2, <2>3, ReceivePaths DEF u
<1>4. Tags' \subseteq Tags
  <2>1. MonitorTags' = MonitorTags /\ WorkerTags' = WorkerTags
    BY <1>1 DEF MonitorTags, WorkerTags
  <2> QED BY <1>2, <1>3, <2>1 DEF Tags
<1>5. TagsAgree'
  BY <1>1, <1>4, TagsStillAgree DEF FenceInvariant, TypeOK, MonitorTypeOK
<1>6. u.type = "Link" => u.link # NONE
  BY <1>1, LinkIsNotNone DEF MonitorUpdate
<1>7. app'.path_generation # 0 => app'.link # NONE
  BY <1>6, ReceivePaths DEF FenceInvariant, LinkKnown, u
<1>8. LinkKnown'
  BY <1>1, <1>7 DEF FenceInvariant, LinkKnown
<1> QED BY <1>5, <1>8 DEF FenceInvariant

-----------------------------------------------------------------------------
(***************************************************************************)
(* The invariant.                                                          *)
(***************************************************************************)
LEMMA InitFence ==
  ASSUME Init
  PROVE  FenceInvariant
<1>1. PICK p \in InitialPolicies : MonitorInit(p) /\ app = NewApp(p)
  BY DEF Init
<1>2. /\ current = NONE /\ fingerprint = NONE /\ updates = <<>> /\ pc = "drain"
      /\ \A s \in Slots : worker[s] = Idle
      /\ app.path_generation = 0 /\ app.link = NONE /\ app.public_ip = NONE
      /\ \A s \in Slots : app.evidence[s] = NONE
      /\ app.gateway_outcomes = <<>> /\ app.path_dwell = {}
  BY <1>1 DEF MonitorInit, NewApp
<1>3. Tags = {}
  <2>1. \A path : path \notin AppPaths(app)
    BY <1>2, AppPathsMember
  <2> QED BY <1>2, <2>1 DEF Tags, MonitorTags, WorkerTags, QueueTags, AppTags
<1> QED BY <1>2, <1>3 DEF FenceInvariant, LinkKnown, TagsAgree

LEMMA NextFence ==
  ASSUME TypeOK, FenceInvariant, [Next]_vars
  PROVE  FenceInvariant'
<1>1. CASE ReceiveUpdate
  BY <1>1, ReceiveFence
<1>2. CASE OperatorStep
  BY <1>2, OperatorFence
<1>3. CASE MonitorStep
  <2>1. UNCHANGED app
    BY <1>3 DEF MonitorStep
  <2>2. CASE OsChanges
    BY <2>1, <2>2, QuietStep DEF OsChanges, linkVars, channelVars
  <2>3. CASE DrainControl \/ Finish \/ SkipPausedRound \/ WaitControl
             \/ WaitDisconnected \/ WaitElapsed
    <3>1. UNCHANGED <<fingerprint, generation, current, worker, updates>>
      BY <2>3 DEF DrainControl, Finish, SkipPausedRound, WaitControl,
                  WaitDisconnected, WaitElapsed, HandleControl, linkVars,
                  channelVars
    <3>2. pc' # "dispatch" \/ pc' = pc
      BY <2>3 DEF DrainControl, Finish, SkipPausedRound, WaitControl,
                  WaitDisconnected, WaitElapsed
    <3> QED BY <2>1, <3>1, <3>2, QuietStep
  <2>4. CASE Observe
    BY <2>1, <2>4, ObserveFence
  <2>5. CASE Dispatch
    BY <2>1, <2>5, DispatchFence
  <2>6. CASE \E s \in Slots : WorkerStep(s)
    BY <2>1, <2>6, WorkerFence
  <2> QED BY <1>3, <2>2, <2>3, <2>4, <2>5, <2>6 DEF MonitorStep, LoopStep
<1>4. CASE UNCHANGED vars
  BY <1>4, QuietStep DEF vars, monitorVars, linkVars, channelVars
<1> QED BY <1>1, <1>2, <1>3, <1>4 DEF Next

\* The variables have their types, and generations stand for one path each,
\* in every reachable state: the two are inductive together, because a worker
\* may only be launched, and a dwell only be closed, when there is a link.
THEOREM FenceInductive == Spec => [](TypeOK /\ FenceInvariant)
<1>1. Init => TypeOK /\ FenceInvariant
  BY InitType, InitFence
<1>2. TypeOK /\ FenceInvariant /\ [Next]_vars => TypeOK' /\ FenceInvariant'
  BY NextType, NextFence DEF FenceInvariant
<1> QED BY <1>1, <1>2, PTL DEF Spec

\* Every variable of the session keeps its type.
THEOREM TypeCorrect == Spec => []TypeOK
BY FenceInductive, PTL

\* Path-generation fencing (App::accepts_update, apply_at): whatever the App
\* shows or counts was collected on the path it shows.
THEOREM EvidenceNeverCrosses == Spec => []EvidenceFenced
<1>1. TypeOK /\ FenceInvariant => EvidenceFenced
  <2> SUFFICES ASSUME TypeOK, FenceInvariant, app.path_generation # 0
               PROVE  \A path \in AppPaths(app) : path = ShownPath
    BY AppPathsMember DEF EvidenceFenced, TypeOK, App
  <2>1. ShownPath \in AppPaths(app)
    BY AppPathsMember DEF FenceInvariant, LinkKnown, ShownPath
  <2>2. \A path \in AppPaths(app) : <<app.path_generation, path>> \in Tags
    BY DEF Tags, AppTags
  <2> QED BY <2>1, <2>2 DEF FenceInvariant, TagsAgree
<1> QED BY <1>1, FenceInductive, PTL

-----------------------------------------------------------------------------
(***************************************************************************)
(* The App's path.                                                         *)
(***************************************************************************)
\* An update admitted under the generation shown stands for the path shown.
LEMMA AdmittedPath ==
  ASSUME TypeOK, FenceInvariant, updates # <<>>, Carries(Head(updates)),
         Head(updates).generation = app.path_generation
  PROVE  /\ app.path_generation # 0 /\ app.link \in Link
         /\ CarriedPath(Head(updates)) = ShownPath
<1> DEFINE u == Head(updates)
<1>1. <<u.generation, CarriedPath(u)>> \in Tags
  BY ReceiveTags DEF Tags, TypeOK, MonitorTypeOK
<1>2. app.path_generation # 0 /\ app.link # NONE
  BY <1>1 DEF FenceInvariant, TagsAgree, LinkKnown
<1>3. <<app.path_generation, ShownPath>> \in Tags
  BY <1>2, AppPathsMember DEF ShownPath, Tags, AppTags
<1>4. CarriedPath(u) = ShownPath
  BY <1>1, <1>3 DEF FenceInvariant, TagsAgree
<1> QED BY <1>2, <1>4 DEF TypeOK, App

\* What each kind of step does to the generation and the path on display.
LEMMA ShownStep ==
  ASSUME TypeOK, FenceInvariant, [Next]_vars
  PROVE  \/ /\ app'.path_generation = app.path_generation
            /\ ShownPathOrNone' = ShownPathOrNone
         \/ /\ app'.path_generation > app.path_generation
            /\ ShownPathOrNone' \in Fingerprints
<1>1. CASE ReceiveUpdate
  <2> DEFINE u == Head(updates)
  <2>1. u \in MonitorUpdate /\ updates # <<>>
    BY <1>1 DEF ReceiveUpdate, TypeOK, MonitorTypeOK
  <2>2. u.type = "Link" => u.link \in Link
    BY <2>1 DEF MonitorUpdate
  <2>3. CASE /\ app'.path_generation = app.path_generation
             /\ app'.link = app.link
    BY <2>3 DEF ShownPathOrNone
  <2>4. CASE /\ Carries(u) /\ u.generation = app.path_generation
             /\ app'.path_generation = app.path_generation
             /\ u.type = "Link" /\ app'.link = u.link
    <3>1. app.link \in Link /\ Fingerprint(u.link) = Fingerprint(app.link)
      BY <2>1, <2>4, AdmittedPath DEF CarriedPath, ShownPath
    <3> QED BY <2>2, <2>4, <3>1, LinkIsNotNone DEF ShownPathOrNone
  <2>5. CASE /\ u.type = "Link" /\ u.generation > app.path_generation
             /\ app'.path_generation = u.generation /\ app'.link = u.link
    BY <2>2, <2>5, LinkIsNotNone, FingerprintType DEF ShownPathOrNone
  <2> HIDE DEF u
  <2> QED BY <1>1, <2>3, <2>4, <2>5, ReceivePaths DEF u
<1>2. CASE OperatorStep
  <2>1. app'.path_generation = app.path_generation /\ app'.link = app.link
    <3>1. app.paused \in BOOLEAN /\ Toggled(app.probe_policy) \in Policies /\ app \in App
      BY DEF TypeOK, App, Toggled, Policies
    <3> QED BY <1>2, <3>1, OperatorPaths
            DEF OperatorStep, PressRefresh, PressPause, PressProbePolicy, Quit, Drop
  <2> QED BY <2>1 DEF ShownPathOrNone
<1>3. CASE MonitorStep \/ UNCHANGED vars
  BY <1>3 DEF MonitorStep, vars, ShownPathOrNone
<1> QED BY <1>1, <1>2, <1>3 DEF Next

\* Generations shown never go back, and a generation has one path for as long
\* as it is shown (apply_at).
THEOREM GenerationsHaveOnePath == Spec => OneGenerationOnePath
<1>1. ASSUME TypeOK, FenceInvariant, [Next]_vars
      PROVE  [ /\ app'.path_generation >= app.path_generation
               /\ app'.path_generation = app.path_generation /\ app.link # NONE =>
                    Fingerprint(app'.link) = Fingerprint(app.link) ]_vars
  <2>1. app.path_generation \in Nat /\ app'.path_generation \in Nat
    BY <1>1, NextType DEF TypeOK, App, FenceInvariant
  <2>2. app.link # NONE => ShownPathOrNone # NONE
    BY <1>1, FingerprintType DEF ShownPathOrNone, TypeOK, App
  <2> QED BY <1>1, <2>1, <2>2, ShownStep DEF ShownPathOrNone
<1> QED BY <1>1, FenceInductive, PTL DEF Spec, OneGenerationOnePath

-----------------------------------------------------------------------------
(***************************************************************************)
(* The session implements the fence.                                       *)
(***************************************************************************)
LEMMA FenceStep ==
  ASSUME TypeOK, FenceInvariant, [Next]_vars
  PROVE  [Fence!FenceNext]_(Fence!fence)
<1> USE DEF Fence!FenceNext, Fence!fence, Fence!SwitchPath, Fence!Admit,
            Fence!Withdraw
<1>0. app.evidence \in [Slots -> Fingerprints \cup {NONE}] /\ app \in App
  BY DEF TypeOK, App
<1>1. CASE ReceiveUpdate
  <2> DEFINE u == Head(updates)
  <2>0. updates # <<>>
    BY <1>1 DEF ReceiveUpdate
  <2>1. CASE /\ app'.path_generation = app.path_generation
             /\ app'.link = app.link /\ app'.evidence = app.evidence
    BY <2>1 DEF ShownPathOrNone
  <2>2. CASE /\ Carries(u) /\ u.generation = app.path_generation
             /\ app'.path_generation = app.path_generation
             /\ u.type = "Link" /\ app'.link = u.link /\ app'.evidence = app.evidence
    <3>1. app'.path_generation = app.path_generation
      BY <2>2
    <3>2. ShownPathOrNone' = ShownPathOrNone
      BY <3>1, ShownStep DEF TypeOK, App
    <3> QED BY <2>2, <3>2
  <2>3. CASE /\ Carries(u) /\ u.generation = app.path_generation
             /\ app'.path_generation = app.path_generation
             /\ app'.link = app.link /\ u.slot \in Slots
             /\ app'.evidence = [app.evidence EXCEPT ![u.slot] = CarriedPath(u)]
    <3>1. app.link \in Link /\ CarriedPath(u) = Fingerprint(app.link)
      BY <2>0, <2>3, AdmittedPath DEF ShownPath
    <3>2. ShownPathOrNone # NONE /\ CarriedPath(u) = ShownPathOrNone
      BY <3>1, LinkIsNotNone, FingerprintType DEF ShownPathOrNone
    <3>3. Fence!Admit(u.slot)
      BY <2>3, <3>2 DEF ShownPathOrNone
    <3> QED BY <2>3, <3>3
  <2>4. CASE /\ u.type = "Link" /\ u.generation > app.path_generation
             /\ app'.path_generation = u.generation /\ app'.link = u.link
             /\ app'.evidence = [s \in Slots |-> NONE]
    <3>1. app'.path_generation > app.path_generation /\ app.path_generation \in Nat
      BY <1>0, <2>4 DEF App
    <3>2. ShownPathOrNone' \in Fingerprints
      BY <3>1, ShownStep
    <3> QED BY <2>4, <3>1, <3>2
  <2> HIDE DEF u
  <2> QED BY <1>1, <2>1, <2>2, <2>3, <2>4, ReceivePaths DEF u
<1>2. CASE OperatorStep
  <2>1. app.paused \in BOOLEAN /\ Toggled(app.probe_policy) \in Policies
    BY <1>0 DEF App, Toggled, Policies
  <2> DEFINE kept == [s \in Slots |-> IF s \in Probes THEN NONE ELSE app.evidence[s]]
  <2>2. /\ app'.path_generation = app.path_generation /\ app'.link = app.link
        /\ app'.evidence \in {app.evidence, kept}
    BY <1>0, <1>2, <2>1, OperatorPaths
       DEF OperatorStep, PressRefresh, PressPause, PressProbePolicy, Quit, Drop
  <2>3. app'.evidence = kept => Fence!Withdraw(Probes)
    BY <2>2 DEF ShownPathOrNone
  <2>4. Probes \in SUBSET Slots
    BY SlotsApart
  <2> QED BY <2>2, <2>3, <2>4 DEF ShownPathOrNone
<1>3. CASE MonitorStep \/ UNCHANGED vars
  BY <1>3 DEF MonitorStep, vars, ShownPathOrNone
<1> QED BY <1>1, <1>2, <1>3 DEF Next

\* A live session is an implementation of PathFence: with threads, channels
\* and workers hidden, only path switches under greater numbers, admissions
\* of evidence of the path shown, and withdrawals are left.
THEOREM SessionImplementsFence == Spec => ImplementsFence
<1>1. Init => Fence!FenceInit
  <2> SUFFICES ASSUME Init PROVE Fence!FenceInit
    OBVIOUS
  <2>1. PICK p \in InitialPolicies : app = NewApp(p)
    BY DEF Init
  <2> QED BY <2>1 DEF Fence!FenceInit, NewApp, ShownPathOrNone
<1>2. TypeOK /\ FenceInvariant /\ [Next]_vars => [Fence!FenceNext]_(Fence!fence)
  BY FenceStep
<1> QED BY <1>1, <1>2, FenceInductive, PTL
        DEF Spec, ImplementsFence, Fence!FenceSpec

-----------------------------------------------------------------------------
(***************************************************************************)
(* Consent.                                                                *)
(***************************************************************************)
\* Once the operator's switch is off no active result is on display or comes
\* back on display, whatever is still in flight (App::set_probe_policy,
\* App::accepts_update).
THEOREM PassiveIsPassive == Spec => []PassiveShowsNoProbe
<1>1. Init => PassiveShowsNoProbe
  <2> SUFFICES ASSUME Init PROVE PassiveShowsNoProbe
    OBVIOUS
  <2>1. PICK p \in InitialPolicies : app = NewApp(p)
    BY DEF Init
  <2>2. \A k \in Probes : app.evidence[k] = NONE
    BY <2>1, SlotsApart DEF NewApp
  <2>3. p = "passive" => \A k \in Probes : app.health[k] = "disabled"
    BY <2>1 DEF NewApp, FreshHealth
  <2> QED BY <2>1, <2>2, <2>3 DEF PassiveShowsNoProbe, NewApp
<1>2. TypeOK /\ PassiveShowsNoProbe /\ [Next]_vars => PassiveShowsNoProbe'
  <2> SUFFICES ASSUME TypeOK, PassiveShowsNoProbe, [Next]_vars
               PROVE  PassiveShowsNoProbe'
    OBVIOUS
  <2>0. app \in App
    BY DEF TypeOK
  <2>1. CASE ReceiveUpdate
    <3>1. Head(updates) \in MonitorUpdate /\ app' = Apply(app, Head(updates))
      BY <2>1 DEF ReceiveUpdate, TypeOK, MonitorTypeOK
    <3>2. \A k \in Probes : FreshHealth("passive")[k] = "disabled"
      BY DEF FreshHealth
    <3> QED BY <2>0, <3>1, <3>2, ApplyPassive DEF PassiveShowsNoProbe
  <2>2. CASE PressProbePolicy
    <3> DEFINE p == Toggled(app.probe_policy)
    <3>1. app' = SetProbePolicy(app, p) /\ p # app.probe_policy /\ p \in Policies
      BY <2>2 DEF PressProbePolicy, Toggled, Policies
    <3> HIDE DEF p
    <3>2. /\ app'.probe_policy = p /\ app'.public_ip = NONE
          /\ app'.gateway_outcomes = <<>> /\ app'.health = FreshHealth(p)
          /\ app'.evidence =
               [s \in Slots |-> IF s \in Probes THEN NONE ELSE app.evidence[s]]
      BY <2>0, <3>1 DEF SetProbePolicy, App
    <3>3. \A k \in Probes : app'.evidence[k] = NONE
      BY <3>2, SlotsApart
    <3>4. p = "passive" => \A k \in Probes : app'.health[k] = "disabled"
      BY <3>2 DEF FreshHealth
    <3> QED BY <3>2, <3>3, <3>4 DEF PassiveShowsNoProbe
  <2>3. CASE PressPause
    <3>1. app' = SetPaused(app, ~app.paused)
      BY <2>3 DEF PressPause
    <3> QED BY <2>0, <3>1 DEF SetPaused, PassiveShowsNoProbe, App
  <2>4. CASE UNCHANGED app
    BY <2>4 DEF PassiveShowsNoProbe
  <2>5. \/ ReceiveUpdate \/ PressProbePolicy \/ PressPause \/ UNCHANGED app
    BY DEF Next, OperatorStep, PressRefresh, Quit, Drop, MonitorStep, vars
  <2> QED BY <2>1, <2>2, <2>3, <2>4, <2>5
<1> QED BY <1>1, <1>2, FenceInductive, PTL DEF Spec

-----------------------------------------------------------------------------
(***************************************************************************)
(* The ledger of completed dwells.                                         *)
(***************************************************************************)
\* Sending no link, or one link of the newest generation, keeps the order.
LEMMA SendInOrder ==
  ASSUME TypeOK, FenceInvariant, LinksInOrder, UNCHANGED <<app, reading>>,
         NEW messages \in Seq(MonitorUpdate), Send(messages),
         generation' \in Nat, generation' >= generation,
         \/ /\ generation' = generation
            /\ \A i \in DOMAIN messages : messages[i].type # "Link"
         \/ /\ Len(messages) = 1 /\ messages[1].type = "Link"
            /\ messages[1].generation = generation'
            /\ generation' <= generation + 1
  PROVE  LinksInOrder'
<1> SUFFICES ASSUME reading PROVE LinksInOrder'
  BY DEF LinksInOrder
<1> DEFINE n == Len(updates)
<1>1. /\ n \in Nat /\ updates \in Seq(MonitorUpdate)
      /\ generation \in Nat /\ app.path_generation \in Nat
  BY DEF TypeOK, MonitorTypeOK, App
<1>2. /\ updates' = updates \o messages
      /\ Len(updates') = n + Len(messages)
      /\ \A i \in 1 .. n + Len(messages) :
           updates'[i] = IF i <= n THEN updates[i] ELSE messages[i - n]
      /\ DOMAIN updates' = 1 .. n + Len(messages) /\ Len(messages) \in Nat
  BY <1>1, ConcatProperties DEF Send
<1>3. ASSUME NEW i \in 1 .. n, updates[i].type = "Link"
      PROVE  updates[i].generation \in Nat /\ updates[i].generation <= generation
  <2>1. <<updates[i].generation, CarriedPath(updates[i])>> \in Tags
    BY <1>1, <1>3, QueueTagsMember DEF Tags, Carries
  <2> QED BY <1>1, <2>1 DEF FenceInvariant, TagsAgree
<1> HIDE DEF n
<1>4. ASSUME NEW i \in DOMAIN updates', NEW j \in DOMAIN updates', i < j,
             updates'[i].type = "Link", updates'[j].type = "Link"
      PROVE  updates'[i].generation <= updates'[j].generation
  <2>1. CASE j <= n
    <3>1. i \in 1 .. n /\ j \in 1 .. n /\ updates'[i] = updates[i] /\ updates'[j] = updates[j]
      BY <1>1, <1>2, <1>4, <2>1
    <3> QED BY <1>1, <1>4, <3>1 DEF LinksInOrder, n
  <2>2. CASE ~(j <= n)
    <3>1. j - n \in DOMAIN messages /\ updates'[j] = messages[j - n]
      BY <1>1, <1>2, <1>4, <2>2
    <3>2. Len(messages) = 1 /\ messages[1].generation = generation'
      BY <1>4, <3>1
    <3>3. /\ i \in Nat /\ j \in Nat /\ 1 <= i /\ j <= n + 1
      BY <1>1, <1>2, <3>2
    <3>4. j - n = 1 /\ i \in 1 .. n
      BY <1>1, <1>4, <2>2, <3>3
    <3>5. updates'[i] = updates[i]
      BY <1>1, <1>2, <3>3, <3>4
    <3> QED BY <1>1, <1>3, <1>4, <3>1, <3>2, <3>4, <3>5
  <2> QED BY <2>1, <2>2
<1>5. ASSUME NEW g \in (app.path_generation + 1) .. generation'
      PROVE  \E i \in DOMAIN updates' :
               updates'[i].type = "Link" /\ updates'[i].generation = g
  <2>1. CASE g <= generation
    <3>1. g \in (app.path_generation + 1) .. generation
      BY <1>1, <2>1
    <3>2. PICK i \in DOMAIN updates : updates[i].type = "Link" /\ updates[i].generation = g
      BY <3>1 DEF LinksInOrder
    <3>3. i \in DOMAIN updates' /\ updates'[i] = updates[i]
      BY <1>1, <1>2, <3>2 DEF n
    <3> QED BY <3>2, <3>3
  <2>2. CASE ~(g <= generation)
    <3>1. Len(messages) = 1 /\ messages[1].type = "Link" /\ messages[1].generation = g
      BY <1>1, <2>2
    <3>2. n + 1 \in DOMAIN updates' /\ updates'[n + 1] = messages[1]
      BY <1>1, <1>2, <3>1
    <3> QED BY <3>1, <3>2
  <2> QED BY <2>1, <2>2
<1> QED BY <1>4, <1>5 DEF LinksInOrder

\* The loop sends links in the order of their generations.
LEMMA MonitorInOrder ==
  ASSUME TypeOK, FenceInvariant, LinksInOrder, MonitorStep
  PROVE  LinksInOrder'
<1>0. /\ UNCHANGED app /\ updates \in Seq(MonitorUpdate) /\ generation \in Nat
      /\ UNCHANGED reading
  BY DEF MonitorStep, LoopStep, OsChanges, DrainControl, Finish,
         SkipPausedRound, Observe, Dispatch, WaitControl, WaitDisconnected,
         WaitElapsed, HandleControl, WorkerStep, WorkerRuns, WorkerSends,
         WorkerReleases, channelVars, TypeOK, MonitorTypeOK
<1>1. CASE UNCHANGED <<updates, generation>>
  BY <1>0, <1>1 DEF LinksInOrder
<1>2. CASE Observe
  <2>1. PICK candidate \in Link : PublishCandidate(candidate)
    <3>1. CASE ~ReadAgain
      BY <1>2, <3>1, FirstReadingType DEF Observe, TypeOK, MonitorTypeOK
    <3>2. CASE ReadAgain
      BY <1>2, <3>2, MonitorAssumption DEF Observe, OsLater, TypeOK, MonitorTypeOK
    <3> QED BY <3>1, <3>2
  <2> DEFINE link == Published(candidate)
             held == Held(RouteGap(candidate))
             message == IF held THEN SettlingUpdate(generation')
                                ELSE LinkUpdate(generation', link)
  <2>2. link \in Link /\ (held => current \in Link /\ link = current)
    BY PublishedType DEF TypeOK, MonitorTypeOK
  <2>3. NumberPath(link) /\ Send(<<message>>)
    BY <2>1 DEF PublishCandidate
  <2>4. held => fingerprint = Fingerprint(link)
    BY <2>2, LinkIsNotNone DEF FenceInvariant, LinkKnown
  <2>5. generation' \in {generation, generation + 1} /\ (held => generation' = generation)
    BY <2>3, <2>4 DEF NumberPath
  <2>6. message \in MonitorUpdate
    BY <1>0, <2>2, <2>5 DEF SettlingUpdate, LinkUpdate, MonitorUpdate
  <2>7. /\ held => message.type # "Link"
        /\ ~held => message.type = "Link" /\ message.generation = generation'
    BY DEF SettlingUpdate, LinkUpdate
  <2> HIDE DEF message, held
  <2>8. <<message>> \in Seq(MonitorUpdate)
    BY <2>6
  <2>9. Len(<<message>>) = 1 /\ <<message>>[1] = message /\ DOMAIN <<message>> = {1}
    OBVIOUS
  <2>10. generation' \in Nat /\ generation' >= generation /\ generation' <= generation + 1
    BY <1>0, <2>5
  <2>11. \/ /\ generation' = generation
            /\ \A i \in DOMAIN <<message>> : <<message>>[i].type # "Link"
         \/ /\ Len(<<message>>) = 1 /\ <<message>>[1].type = "Link"
            /\ <<message>>[1].generation = generation'
            /\ generation' <= generation + 1
    BY <2>5, <2>7, <2>9, <2>10
  <2>12. UNCHANGED <<app, reading>>
    BY <1>0
  <2> QED BY <2>3, <2>8, <2>10, <2>11, <2>12, SendInOrder
<1>3. CASE Dispatch
  <2>1. PICK due \in SUBSET {s \in Pendable : CanBeDue(s) /\ InMode(s)} :
          Send(Announced(Launched(due)))
    BY <1>3 DEF Dispatch
  <2>2. Launched(due) \in SUBSET Slots
    BY DEF Launched, Attempted
  <2>3. /\ Announced(Launched(due)) \in Seq(MonitorUpdate)
        /\ \A i \in DOMAIN Announced(Launched(due)) :
             Announced(Launched(due))[i].type # "Link"
    BY <1>0, <2>2, AnnouncedType
  <2>4. /\ generation' = generation /\ generation' \in Nat
        /\ generation' >= generation
    BY <1>0, <1>3 DEF Dispatch, linkVars
  <2>5. UNCHANGED <<app, reading>>
    BY <1>0
  <2> QED BY <2>1, <2>3, <2>4, <2>5, SendInOrder
<1>4. ASSUME NEW s \in Slots, WorkerSends(s)
      PROVE  LinksInOrder'
  <2>1. PICK result \in Results(s) : Send(<<result>>)
    BY <1>4 DEF WorkerSends
  <2>2. worker[s] # Idle
    BY <1>4 DEF WorkerSends, Idle
  <2>3. result \in MonitorUpdate
    BY <2>1, <2>2, ResultsType DEF TypeOK
  <2>4. result.type # "Link"
    BY <2>1 DEF Results, FinishedUpdate, CollectedUpdate
  <2>5. <<result>> \in Seq(MonitorUpdate) /\ DOMAIN <<result>> = {1} /\ <<result>>[1] = result
    BY <2>3
  <2>6. /\ generation' = generation /\ generation' \in Nat
        /\ generation' >= generation
    BY <1>0, <1>4 DEF WorkerSends, linkVars
  <2>7. UNCHANGED <<app, reading>> /\ \A i \in DOMAIN <<result>> : <<result>>[i].type # "Link"
    BY <1>0, <2>4, <2>5
  <2> QED BY <2>1, <2>5, <2>6, <2>7, SendInOrder
<1>5. \/ UNCHANGED <<updates, generation>> \/ Observe \/ Dispatch
      \/ \E s \in Slots : WorkerSends(s)
  BY DEF MonitorStep, LoopStep, OsChanges, DrainControl, Finish,
         SkipPausedRound, WaitControl, WaitDisconnected, WaitElapsed,
         HandleControl, WorkerStep, WorkerRuns, WorkerReleases, channelVars,
         linkVars
<1> QED BY <1>1, <1>2, <1>3, <1>4, <1>5

\* A link of a greater generation is of the next generation.
LEMMA NextGeneration ==
  ASSUME TypeOK, FenceInvariant, LinksInOrder, reading, updates # <<>>,
         Head(updates).type = "Link", Head(updates).generation > app.path_generation
  PROVE  Head(updates).generation = app.path_generation + 1
<1>1. /\ updates \in Seq(MonitorUpdate) /\ app.path_generation \in Nat
      /\ 1 \in DOMAIN updates /\ Head(updates) = updates[1]
  BY DEF TypeOK, MonitorTypeOK, App
<1>2. <<updates[1].generation, CarriedPath(updates[1])>> \in Tags
  BY <1>1, QueueTagsMember DEF Tags, Carries
<1>3. updates[1].generation \in 1 .. generation /\ generation \in Nat
  BY <1>2 DEF FenceInvariant, TagsAgree, TypeOK, MonitorTypeOK
<1>4. app.path_generation + 1 \in (app.path_generation + 1) .. generation
  BY <1>1, <1>3
<1>5. PICK i \in DOMAIN updates :
        updates[i].type = "Link" /\ updates[i].generation = app.path_generation + 1
  BY <1>4 DEF LinksInOrder
<1>6. i \in Nat /\ (i = 1 \/ 1 < i)
  BY <1>1, <1>5
<1>7. updates[1].generation <= app.path_generation + 1
  BY <1>1, <1>5, <1>6 DEF LinksInOrder
<1> QED BY <1>1, <1>3, <1>7

\* Receiving keeps the order of what is left.
LEMMA ReceiveInOrder ==
  ASSUME TypeOK, FenceInvariant, LinksInOrder, ReceiveUpdate
  PROVE  LinksInOrder'
<1> DEFINE u == Head(updates)
<1>1. /\ updates \in Seq(MonitorUpdate) /\ updates # <<>> /\ reading
      /\ updates' = Tail(updates) /\ generation' = generation
      /\ app.path_generation \in Nat /\ u = updates[1] /\ generation \in Nat
      /\ u \in MonitorUpdate
  BY DEF ReceiveUpdate, linkVars, TypeOK, MonitorTypeOK, App
<1>2. \A i \in DOMAIN updates' : i + 1 \in DOMAIN updates /\ updates'[i] = updates[i + 1]
  BY <1>1
<1>3. \A i \in DOMAIN updates : i # 1 =>
        i - 1 \in DOMAIN updates' /\ updates'[i - 1] = updates[i]
  BY <1>1
<1>4. ASSUME NEW i \in DOMAIN updates', NEW j \in DOMAIN updates', i < j,
             updates'[i].type = "Link", updates'[j].type = "Link"
      PROVE  updates'[i].generation <= updates'[j].generation
  <2>1. i \in Nat /\ j \in Nat /\ i + 1 < j + 1
    BY <1>1, <1>4
  <2> QED BY <1>1, <1>2, <1>4, <2>1 DEF LinksInOrder
<1>5. /\ app'.path_generation \in Nat /\ app'.path_generation >= app.path_generation
      /\ u.type = "Link" => u.generation <= app'.path_generation
  <2>1. u.type = "Link" => u.generation \in Nat
    BY <1>1 DEF MonitorUpdate
  <2>2. u.type = "Link" => app' = IF u.generation >= app.path_generation
                                  THEN ApplyLink(app, u) ELSE app
    BY DEF ReceiveUpdate, Apply, AcceptsUpdate
  <2>3. u.type = "Link" => ApplyLink(app, u).path_generation = u.generation
    BY <1>1, ApplyLinkPaths DEF TypeOK
  <2>4. u.type # "Link" => app'.path_generation = app.path_generation
    BY ReceivePaths
  <2> HIDE DEF u
  <2> QED BY <1>1, <2>1, <2>2, <2>3, <2>4
<1>6. ASSUME NEW g \in (app'.path_generation + 1) .. generation
      PROVE  \E i \in DOMAIN updates' :
               updates'[i].type = "Link" /\ updates'[i].generation = g
  <2>1. g \in (app.path_generation + 1) .. generation
    BY <1>1, <1>5
  <2>2. PICK i \in DOMAIN updates : updates[i].type = "Link" /\ updates[i].generation = g
    BY <1>1, <2>1 DEF LinksInOrder
  <2>3. i # 1
    BY <1>1, <1>5, <2>2
  <2> QED BY <1>3, <2>2, <2>3
<1> QED BY <1>1, <1>4, <1>6 DEF LinksInOrder

\* The operator's keys never reorder the queue: they empty it, and then
\* nobody reads any more, or leave it alone.
LEMMA OperatorInOrder ==
  ASSUME TypeOK, LinksInOrder, OperatorStep
  PROVE  LinksInOrder'
<1>1. app'.path_generation = app.path_generation /\ UNCHANGED generation
  <2>1. app.paused \in BOOLEAN /\ Toggled(app.probe_policy) \in Policies /\ app \in App
    BY DEF TypeOK, App, Toggled, Policies
  <2> QED BY <2>1, OperatorPaths
          DEF OperatorStep, PressRefresh, PressPause, PressProbePolicy, Quit,
              Drop, Press, linkVars
<1>2. reading' = FALSE \/ UNCHANGED <<updates, reading>>
  BY DEF OperatorStep, PressRefresh, PressPause, PressProbePolicy, SendControl,
         Quit, Drop
<1> QED BY <1>1, <1>2 DEF LinksInOrder

\* Opening the next generation appends a pure dwell that continues the chain.
LEMMA LedgerGrows ==
  ASSUME TypeOK, LedgerPure, app.link # NONE, app.path_generation # 0,
         app.path_dwell \subseteq {ShownPath},
         NEW link \in Link,
         app' = OpenGeneration(app, app.path_generation + 1, link)
  PROVE  LedgerPure'
<1> DEFINE g == app.path_generation
           old == app.completed_path_dwells
           closed == ClosedDwell(app, g + 1)
           new == PushBounded(old, closed, MaxDwells)
<1>1. /\ app \in App /\ g \in Nat /\ old \in Seq(CompletedDwell) /\ app.link \in Link
      /\ MaxDwells \in Nat \ {0}
  BY BoundsAssumption DEF TypeOK, App
<1>2. app'.completed_path_dwells = new /\ app'.path_generation = g + 1
  BY <1>1 DEF OpenGeneration, App
<1>3. /\ closed \in CompletedDwell
      /\ closed.observed \subseteq {closed.path}
      /\ closed.generation = g /\ closed.next_generation = g + 1
  BY <1>1, FingerprintType DEF ClosedDwell, CompletedDwell, ShownPath, App
<1> HIDE DEF g, old, closed
<1> DEFINE kept == IF Len(old) >= MaxDwells THEN Tail(old) ELSE old
           shift == IF Len(old) >= MaxDwells THEN 1 ELSE 0
<1>4. /\ kept \in Seq(CompletedDwell) /\ shift \in {0, 1}
      /\ Len(kept) = Len(old) - shift /\ Len(kept) \in Nat /\ Len(old) \in Nat
      /\ \A i \in 1 .. Len(kept) : kept[i] = old[i + shift]
  <2>1. CASE Len(old) >= MaxDwells
    <3>1. old # <<>>
      BY <1>1, <2>1
    <3> QED BY <1>1, <2>1, <3>1, HeadTailProperties
  <2>2. CASE ~(Len(old) >= MaxDwells)
    BY <1>1, <2>2
  <2> QED BY <2>1, <2>2
<1>5. /\ new = Append(kept, closed)
      /\ Len(new) = Len(kept) + 1 /\ DOMAIN new = 1 .. Len(kept) + 1
      /\ \A i \in 1 .. Len(kept) : new[i] = kept[i]
      /\ new[Len(kept) + 1] = closed
  BY <1>3, <1>4, AppendProperties DEF PushBounded
<1>6. \A i \in 1 .. Len(old) :
        /\ old[i].observed \subseteq {old[i].path}
        /\ old[i].next_generation = old[i].generation + 1
        /\ old[i].next_generation =
             IF i = Len(old) THEN g ELSE old[i + 1].generation
  BY <1>1 DEF LedgerPure, old, g
<1> HIDE DEF new, kept, shift
<1>7. ASSUME NEW i \in DOMAIN new
      PROVE  /\ new[i].observed \subseteq {new[i].path}
             /\ new[i].next_generation = new[i].generation + 1
             /\ new[i].next_generation =
                  IF i = Len(new) THEN g + 1 ELSE new[i + 1].generation
  <2>1. CASE i = Len(kept) + 1
    BY <1>3, <1>5, <2>1
  <2>2. CASE i # Len(kept) + 1
    <3>1. i \in 1 .. Len(kept) /\ i + shift \in 1 .. Len(old)
      BY <1>4, <1>5, <2>2
    <3>2. new[i] = old[i + shift]
      BY <1>4, <1>5, <3>1
    <3>3. CASE i = Len(kept)
      <4>1. i + shift = Len(old) /\ new[i + 1] = closed
        BY <1>4, <1>5, <3>1, <3>3
      <4> QED BY <1>3, <1>5, <1>6, <2>2, <3>1, <3>2, <4>1
    <3>4. CASE i # Len(kept)
      <4>1. /\ i + 1 \in 1 .. Len(kept) /\ i + shift # Len(old)
            /\ (i + shift) + 1 = (i + 1) + shift
        BY <1>4, <3>1, <3>4
      <4>2. new[i + 1] = old[(i + shift) + 1]
        BY <1>4, <1>5, <4>1
      <4> QED BY <1>5, <1>6, <2>2, <3>1, <3>2, <4>1, <4>2
    <3> QED BY <3>3, <3>4
  <2> QED BY <2>1, <2>2
<1> QED BY <1>2, <1>7 DEF LedgerPure

\* The steps that do not open a generation leave the ledger alone.
LEMMA LedgerStep ==
  ASSUME TypeOK, FenceInvariant, LinksInOrder, LedgerPure, EvidenceFenced,
         [Next]_vars
  PROVE  LedgerPure'
<1>0. app \in App /\ app.path_generation \in Nat
  BY DEF TypeOK, App
<1>1. CASE /\ app'.completed_path_dwells = app.completed_path_dwells
           /\ app'.path_generation = app.path_generation
  BY <1>1 DEF LedgerPure
<1>2. CASE ReceiveUpdate
  <2> DEFINE u == Head(updates)
  <2>1. /\ u \in MonitorUpdate /\ app' = Apply(app, u)
        /\ u.type \in {"Link", "PathSettling", "Collected", "ProbeStarted", "ProbeFinished"}
    BY <1>2 DEF ReceiveUpdate, TypeOK, MonitorTypeOK, MonitorUpdate
  <2>2. CASE ~(u.type = "Link" /\ u.generation > app.path_generation)
    <3> DEFINE Same(new) ==
                 /\ new.completed_path_dwells = app.completed_path_dwells
                 /\ new.path_generation = app.path_generation
    <3>1. /\ Same(app) /\ Same(RefreshLink(app, u.link))
          /\ Same(ApplyPathSettling(app)) /\ Same(ApplyCollected(app, u))
          /\ Same(ApplyProbeStarted(app, u)) /\ Same(ApplyProbeFinished(app, u))
      BY <1>0 DEF RefreshLink, ApplyPathSettling, ApplyCollected,
                  ApplyProbeStarted, ApplyProbeFinished, App
    <3> HIDE DEF Same, u
    <3>2. ASSUME ~AcceptsUpdate(app, u) PROVE Same(app')
      BY <2>1, <3>1, <3>2 DEF Apply
    <3>3. ASSUME AcceptsUpdate(app, u), u.type = "Link" PROVE Same(app')
      <4>1. u.generation = app.path_generation
        BY <1>0, <2>1, <2>2, <3>3 DEF AcceptsUpdate, MonitorUpdate
      <4>2. app' = RefreshLink(app, u.link)
        BY <2>1, <3>3, <4>1 DEF Apply, ApplyLink
      <4> QED BY <3>1, <4>2
    <3>4. ASSUME AcceptsUpdate(app, u), u.type # "Link" PROVE Same(app')
      BY <2>1, <3>1, <3>4 DEF Apply
    <3>5. Same(app')
      BY <3>2, <3>3, <3>4
    <3> QED BY <1>1, <3>5 DEF Same
  <2>3. CASE u.type = "Link" /\ u.generation > app.path_generation
    <3>1. u.generation = app.path_generation + 1 /\ u.link \in Link
      BY <1>2, <2>1, <2>3, NextGeneration DEF ReceiveUpdate, MonitorUpdate
    <3>2. app' = OpenGeneration(app, app.path_generation + 1, u.link)
      <4> HIDE DEF u
      <4>1. AcceptsUpdate(app, u)
        BY <1>0, <2>3, <3>1 DEF AcceptsUpdate
      <4>2. app' = ApplyLink(app, u)
        BY <2>1, <2>3, <4>1 DEF Apply
      <4>3. u.generation # app.path_generation
        BY <1>0, <3>1
      <4> QED BY <3>1, <4>2, <4>3 DEF ApplyLink
    <3>3. CASE app.path_generation = 0
      <4>1. \A i \in DOMAIN app.completed_path_dwells : FALSE
        <5>1. app.completed_path_dwells \in Seq(CompletedDwell)
          BY <1>0 DEF App
        <5> SUFFICES ASSUME app.completed_path_dwells # <<>> PROVE FALSE
          BY <5>1
        <5> DEFINE n == Len(app.completed_path_dwells)
        <5>2. /\ n \in DOMAIN app.completed_path_dwells
              /\ app.completed_path_dwells[n] \in CompletedDwell
          BY <5>1
        <5> QED BY <3>3, <5>2 DEF LedgerPure, CompletedDwell
      <4>2. app'.completed_path_dwells = app.completed_path_dwells
        BY <1>0, <3>2, <3>3 DEF OpenGeneration, App
      <4> QED BY <4>1, <4>2 DEF LedgerPure
    <3>4. CASE app.path_generation # 0
      BY <3>1, <3>2, <3>4, LedgerGrows DEF FenceInvariant, LinkKnown, EvidenceFenced
    <3> QED BY <3>3, <3>4
  <2> QED BY <2>2, <2>3
<1>3. CASE OperatorStep
  <2>1. /\ app'.completed_path_dwells = app.completed_path_dwells
        /\ app'.path_generation = app.path_generation
    BY <1>0, <1>3 DEF OperatorStep, PressRefresh, PressPause, PressProbePolicy,
                      Quit, Drop, SetPaused, SetProbePolicy, App
  <2> QED BY <1>1, <2>1
<1>4. CASE MonitorStep \/ UNCHANGED vars
  <2>1. UNCHANGED app
    BY <1>4 DEF MonitorStep, vars
  <2> QED BY <1>1, <2>1
<1> QED BY <1>2, <1>3, <1>4 DEF Next

\* Links reach the App in the order of their generations and none is missing
\* (monitor_loop numbers and sends in one turn, the channel keeps the order).
THEOREM LinksTravelInOrder == Spec => []LinksInOrder
<1>1. Init => LinksInOrder
  <2> SUFFICES ASSUME Init PROVE LinksInOrder
    OBVIOUS
  <2>1. PICK p \in InitialPolicies : MonitorInit(p) /\ app = NewApp(p)
    BY DEF Init
  <2>2. generation = 0 /\ updates = <<>> /\ app.path_generation = 0
    BY <2>1 DEF MonitorInit, NewApp
  <2> QED BY <2>2 DEF LinksInOrder
<1>2. TypeOK /\ FenceInvariant /\ LinksInOrder /\ [Next]_vars => LinksInOrder'
  <2> SUFFICES ASSUME TypeOK, FenceInvariant, LinksInOrder, [Next]_vars
               PROVE  LinksInOrder'
    OBVIOUS
  <2>1. CASE UNCHANGED vars
    BY <2>1 DEF vars, monitorVars, channelVars, linkVars, LinksInOrder
  <2> QED BY <2>1, ReceiveInOrder, OperatorInOrder, MonitorInOrder DEF Next
<1> QED BY <1>1, <1>2, FenceInductive, PTL DEF Spec

\* The ledger is a gapless chain of dwells, each with evidence of its own path
\* only (apply_at, on a Link of another generation).
THEOREM LedgerIsPure == Spec => []LedgerPure
<1>1. Init => LedgerPure
  <2> SUFFICES ASSUME Init PROVE LedgerPure
    OBVIOUS
  <2>1. PICK p \in InitialPolicies : app = NewApp(p)
    BY DEF Init
  <2>2. app.path_generation = 0 /\ app.completed_path_dwells = <<>>
    BY <2>1 DEF NewApp
  <2> QED BY <2>2 DEF LedgerPure
<1>2. /\ TypeOK /\ FenceInvariant /\ LinksInOrder /\ LedgerPure /\ EvidenceFenced
      /\ [Next]_vars
      => LedgerPure'
  BY LedgerStep
<1> QED
  BY <1>1, <1>2, FenceInductive, LinksTravelInOrder, EvidenceNeverCrosses, PTL
     DEF Spec

-----------------------------------------------------------------------------
(***************************************************************************)
(* The paths the monitor publishes.                                        *)
(***************************************************************************)
\* No network of the host is a tunnel with a corroborated underlay.
NoUnderlays == \A l \in OsLinks : l.underlay = NONE

\* What the monitor publishes comes from a link it read: the host's in this
\* turn or, up to its resolvers, one of the path it has published.
LEMMA ReadingOfHost ==
  ASSUME TypeOK, FenceInvariant, Observe
  PROVE  \E candidate \in Link :
           /\ PublishCandidate(candidate)
           /\ candidate.interface = os'.interface /\ candidate.underlay = os'.underlay
           /\ Fingerprint(candidate) \in {Fingerprint(os'), fingerprint} \ {NONE}
           /\ os' \in OsLinks /\ osSeen \subseteq osSeen'
           /\ os' = os \/ Fingerprint(os') \in osSeen'
<1>1. os \in OsLinks /\ os \in Link /\ OsLinks \subseteq Link /\ current \in Link \cup {NONE}
  BY MonitorAssumption DEF TypeOK, MonitorTypeOK
<1>2. CASE ReadAgain
  <2>1. PICK link \in OsLater : OsBecomes(link) /\ PublishCandidate(link)
    BY <1>2 DEF Observe
  <2>2. /\ link \in OsLinks /\ link \in Link /\ os' = link
        /\ osSeen' = osSeen \cup {Fingerprint(link)}
    BY <1>1, <2>1 DEF OsLater, OsBecomes
  <2> QED
    BY <2>1, <2>2, FingerprintType
<1>3. CASE ~ReadAgain
  <2>1. PublishCandidate(FirstReading) /\ UNCHANGED <<os, osSeen>>
    BY <1>3 DEF Observe
  <2>2. FirstReading \in Link
    BY <1>1, FirstReadingType
  <2>3. /\ FirstReading.interface = os.interface /\ FirstReading.underlay = os.underlay
        /\ Fingerprint(FirstReading) \in {Fingerprint(os), fingerprint}
    <3>1. CASE FullRefreshDue
      BY <3>1 DEF FirstReading
    <3>2. CASE ~FullRefreshDue
      <4>1. FirstReading = LightLink(current, os) /\ current # NONE
        BY <3>2 DEF FirstReading, FullRefreshDue
      <4>2. FirstReading.interface = os.interface /\ FirstReading.underlay = os.underlay
        BY <1>1, <4>1 DEF LightLink, Link
      <4>3. Fingerprint(FirstReading) = fingerprint
        BY <1>3, <3>2, <4>1 DEF ReadAgain, FenceInvariant, LinkKnown
      <4> QED
        BY <4>2, <4>3
    <3> QED
      BY <3>1, <3>2
  <2>4. Fingerprint(FirstReading) # NONE
    BY <2>2, FingerprintType
  <2> QED
    BY <1>1, <2>1, <2>2, <2>3, <2>4
<1> QED
  BY <1>2, <1>3

HostPathsInvariant ==
  /\ Fingerprint(os) \in osSeen
  /\ PublishedPathExisted
  /\ current # NONE => current.underlay = NONE

LEMMA HostPathsStep ==
  ASSUME NoUnderlays, TypeOK, FenceInvariant, HostPathsInvariant, [Next]_vars
  PROVE  HostPathsInvariant'
<1>1. CASE Observe
  <2>1. PICK candidate \in Link :
          /\ PublishCandidate(candidate)
          /\ candidate.interface = os'.interface /\ candidate.underlay = os'.underlay
          /\ Fingerprint(candidate) \in {Fingerprint(os'), fingerprint} \ {NONE}
          /\ os' \in OsLinks /\ osSeen \subseteq osSeen'
          /\ os' = os \/ Fingerprint(os') \in osSeen'
    BY <1>1, ReadingOfHost
  <2>2. Fingerprint(os') \in osSeen' /\ candidate.underlay = NONE
    BY <2>1 DEF HostPathsInvariant, NoUnderlays
  <2>3. UnderlayGap(candidate) = NoGap
    BY <2>1 DEF UnderlayGap, UnderlayLost, GapSeen, HostPathsInvariant
  <2>4. Published(candidate) = current \/ Published(candidate) = candidate
    BY <2>3 DEF Published, Held
  <2>5. Published(candidate) \in Link
    BY <2>1, PublishedType DEF TypeOK, MonitorTypeOK
  <2>6. Fingerprint(Published(candidate)) \in osSeen'
    <3>1. CASE Published(candidate) = current
      BY <2>1, <2>5, <3>1, LinkIsNotNone, FingerprintType
      DEF FenceInvariant, LinkKnown, HostPathsInvariant, PublishedPathExisted
    <3>2. CASE Published(candidate) = candidate
      BY <2>1, <2>2, <3>2 DEF HostPathsInvariant, PublishedPathExisted
    <3> QED
      BY <2>4, <3>1, <3>2
  <2>7. /\ current' = Published(candidate)
        /\ fingerprint' = Fingerprint(Published(candidate))
    BY <2>1 DEF PublishCandidate, NumberPath
  <2>8. current'.underlay = NONE
    BY <2>2, <2>4, <2>5, <2>7, LinkIsNotNone DEF HostPathsInvariant
  <2> QED
    BY <2>2, <2>6, <2>7, <2>8 DEF HostPathsInvariant, PublishedPathExisted
<1>2. CASE OsChanges /\ UNCHANGED linkVars
  BY <1>2 DEF OsChanges, OsBecomes, linkVars, HostPathsInvariant, PublishedPathExisted
<1>3. CASE UNCHANGED <<os, osSeen, current, fingerprint>>
  BY <1>3 DEF HostPathsInvariant, PublishedPathExisted
<1> QED
  BY <1>1, <1>2, <1>3
  DEF Next, vars, monitorVars, hostVars, linkVars, channelVars, ReceiveUpdate, OperatorStep,
      PressRefresh, PressPause, PressProbePolicy, Quit, Drop, Press, MonitorStep, OsChanges,
      LoopStep, DrainControl, Finish, SkipPausedRound, Dispatch, WaitControl,
      WaitDisconnected, WaitElapsed, HandleControl, WorkerStep, WorkerRuns, WorkerSends,
      WorkerReleases

\* Where no tunnel's underlay can be lost, every path the monitor publishes is
\* one the host has had: retained routes, light readings and what changes
\* between the two readings of a turn never mix two paths.
THEOREM PublishesWhatExisted ==
  ASSUME NoUnderlays
  PROVE  Spec => []PublishedPathExisted
<1>1. Init => HostPathsInvariant
  BY DEF Init, MonitorInit, HostPathsInvariant, PublishedPathExisted
<1>2. TypeOK /\ FenceInvariant /\ HostPathsInvariant /\ [Next]_vars => HostPathsInvariant'
  BY HostPathsStep
<1>3. HostPathsInvariant => PublishedPathExisted
  BY DEF HostPathsInvariant
<1> QED
  BY <1>1, <1>2, <1>3, FenceInductive, PTL DEF Spec

-----------------------------------------------------------------------------
(***************************************************************************)
(* How long a lost route is held.                                          *)
(***************************************************************************)
\* Nobody pauses the session.
NeverPaused == "p" \notin Keys

NoPause == ~paused /\ \A i \in DOMAIN controls : controls[i].type # "Pause"

\* While the published path has a route, the timer of the loop and the age of
\* the host's outage are the same.
LossTimed ==
  current # NONE /\ current.interface # NONE => routeAge = outage

LEMMA NoPauseStep ==
  ASSUME NeverPaused, TypeOK, NoPause, [Next]_vars
  PROVE  NoPause'
<1>1. controls \in Seq(Control)
  BY DEF TypeOK, MonitorTypeOK
<1>2. CASE HandleControl
  <2>1. controls # <<>> /\ controls' = Tail(controls)
    BY <1>2 DEF HandleControl
  <2>2. Head(controls) = controls[1] /\ 1 \in DOMAIN controls
    BY <1>1, <2>1
  <2>3. \A i \in DOMAIN Tail(controls) :
          i + 1 \in DOMAIN controls /\ Tail(controls)[i] = controls[i + 1]
    BY <1>1, <2>1
  <2>4. paused' = paused
    BY <1>2, <2>2 DEF HandleControl, NoPause, Refresh, ChangePolicy, modeVars
  <2> QED
    BY <2>1, <2>3, <2>4 DEF NoPause
<1>3. ASSUME NEW control, control.type # "Pause", controls' = Append(controls, control),
             UNCHANGED paused
      PROVE  NoPause'
  <2>1. \A i \in DOMAIN Append(controls, control) :
          \/ i \in DOMAIN controls /\ Append(controls, control)[i] = controls[i]
          \/ Append(controls, control)[i] = control
    BY <1>1
  <2> QED
    BY <1>3, <2>1 DEF NoPause
<1>4. CASE PressRefresh \/ PressProbePolicy \/ Quit
  BY <1>3, <1>4 DEF PressRefresh, PressProbePolicy, Quit, Press, SendControl, modeVars
<1>5. CASE UNCHANGED <<controls, paused>>
  BY <1>5 DEF NoPause
<1> QED
  BY <1>2, <1>4, <1>5
  DEF Next, vars, monitorVars, modeVars, channelVars, ReceiveUpdate, OperatorStep, PressPause,
      Drop, Press, NeverPaused, MonitorStep, OsChanges, LoopStep, DrainControl, Finish,
      SkipPausedRound, Observe, Dispatch, WaitControl, WaitDisconnected, WaitElapsed,
      WorkerStep, WorkerRuns, WorkerSends, WorkerReleases

\* What an observation makes of the two ages.
LEMMA LossTimedObserve ==
  ASSUME TypeOK, FenceInvariant, LossTimed, Observe
  PROVE  /\ LossTimed'
         /\ fingerprint' # fingerprint /\ fingerprint # NONE
              /\ fingerprint.interface # NONE /\ fingerprint'.interface = NONE
              => outage = Grace
<1>1. PICK candidate \in Link :
        /\ PublishCandidate(candidate)
        /\ candidate.interface = os'.interface
  BY ReadingOfHost
<1>2. /\ current \in Link \cup {NONE} /\ routeAge \in GapAges /\ outage \in GapAges
      /\ fingerprint = IF current = NONE THEN NONE ELSE Fingerprint(current)
  BY DEF TypeOK, MonitorTypeOK, FenceInvariant, LinkKnown
<1>3. /\ current' = Published(candidate) /\ routeAge' = RouteGap(candidate)
      /\ fingerprint' = Fingerprint(Published(candidate))
  BY <1>1 DEF PublishCandidate, NumberPath
<1>4. outage' = IF candidate.interface # NONE THEN NoGap
                ELSE IF outage = NoGap THEN 0 ELSE outage
  BY <1>1 DEF Observe, OutageSeen
<1>5. ~Held(RouteGap(candidate)) => Published(candidate).interface = candidate.interface
  BY DEF Published, WithUnderlayOf, Link
<1>6. CASE RouteLost(current, candidate)
  <2>1. /\ current \in Link /\ current.interface # NONE /\ candidate.interface = NONE
        /\ RouteGap(candidate) = IF routeAge = NoGap THEN 0 ELSE routeAge
    BY <1>2, <1>6 DEF RouteLost, RouteGap, GapSeen
  <2>2. routeAge = outage
    BY <1>2, <2>1, LinkIsNotNone DEF LossTimed
  <2>3. LossTimed'
    BY <1>3, <1>4, <2>1, <2>2 DEF LossTimed
  <2>4. CASE Held(RouteGap(candidate))
    <3>1. Published(candidate) = current
      BY <2>4 DEF Published, UnderlayGap, Held
    <3>2. fingerprint' = fingerprint
      BY <1>2, <1>3, <2>1, <3>1, LinkIsNotNone
    <3> QED
      BY <2>3, <3>2
  <2>5. CASE ~Held(RouteGap(candidate))
    <3>1. routeAge = Grace
      BY <1>2, <2>1, <2>5, GraceAssumption DEF Held, GapAges, NoGap
    <3> QED
      BY <2>2, <2>3, <3>1
  <2> QED
    BY <2>4, <2>5
<1>7. CASE ~RouteLost(current, candidate)
  <2>1. RouteGap(candidate) = NoGap /\ ~Held(RouteGap(candidate))
    BY <1>7 DEF RouteGap, GapSeen, Held
  <2>2. LossTimed'
    BY <1>3, <1>4, <1>5, <2>1 DEF LossTimed
  <2>3. fingerprint'.interface = candidate.interface
    BY <1>3, <1>5, <2>1 DEF Fingerprint
  <2>4. current # NONE => fingerprint.interface = current.interface
    BY <1>2 DEF Fingerprint
  <2> QED
    BY <1>2, <1>7, <2>2, <2>3, <2>4 DEF RouteLost
<1> QED
  BY <1>6, <1>7

\* The timer and the outage age together through every other step.
LEMMA LossTimedStep ==
  ASSUME NeverPaused, TypeOK, FenceInvariant, NoPause, LossTimed, [Next]_vars
  PROVE  /\ LossTimed'
         /\ fingerprint' # fingerprint /\ fingerprint # NONE
              /\ fingerprint.interface # NONE /\ fingerprint'.interface = NONE
              => outage = Grace
<1>1. CASE Observe
  BY <1>1, LossTimedObserve
<1>2. CASE WaitElapsed
  BY <1>2 DEF WaitElapsed, LossTimed
<1>3. CASE SkipPausedRound
  BY <1>3 DEF SkipPausedRound, NoPause
<1>4. CASE UNCHANGED <<outage, current, fingerprint, routeAge>>
  BY <1>4 DEF LossTimed
<1> QED
  BY <1>1, <1>2, <1>3, <1>4
  DEF Next, vars, monitorVars, hostVars, linkVars, channelVars, ReceiveUpdate, OperatorStep,
      PressRefresh, PressPause, PressProbePolicy, Quit, Drop, Press, MonitorStep, OsChanges,
      LoopStep, DrainControl, Finish, Dispatch, WaitControl, WaitDisconnected,
      HandleControl, WorkerStep, WorkerRuns, WorkerSends, WorkerReleases

\* In a session that is not paused, a loss of the default route becomes a path
\* of its own only when the host has been without one for the whole grace
\* (should_hold_incomplete_route): the loop's own timer measures the outage,
\* however readings, switches and requested refreshes fall.
THEOREM ShortLossIsHeld ==
  ASSUME NeverPaused
  PROVE  Spec => ShortLossHeld
<1>1. Init => NoPause /\ LossTimed
  BY DEF Init, MonitorInit, NoPause, LossTimed
<1>2. TypeOK /\ FenceInvariant /\ NoPause /\ LossTimed /\ [Next]_vars => NoPause' /\ LossTimed'
  BY NoPauseStep, LossTimedStep
<1>3. TypeOK /\ FenceInvariant /\ NoPause /\ LossTimed /\ [Next]_vars
        => [ fingerprint' # fingerprint /\ fingerprint # NONE
             /\ fingerprint.interface # NONE /\ fingerprint'.interface = NONE
             => outage = Grace ]_vars
  BY LossTimedStep
<1> QED
  BY <1>1, <1>2, <1>3, FenceInductive, PTL DEF Spec, ShortLossHeld

-----------------------------------------------------------------------------
(***************************************************************************)
(* The name on display.                                                    *)
(***************************************************************************)
\* An admitted update leaves a resolved name, or brings another, unless it is
\* a link: of the same path, or of a greater generation.
LEMMA ReceivedName ==
  ASSUME TypeOK, ReceiveUpdate, app.ssid \in Names,
         app'.path_generation = app.path_generation
  PROVE  LET u == Head(updates) IN
         \/ app'.ssid \in Names
         \/ /\ u.type = "Link" /\ u.generation = app.path_generation
            /\ app'.ssid = KeptName(app.ssid, u.link.ssid)
<1> DEFINE u == Head(updates)
<1>1. u \in MonitorUpdate /\ app \in App /\ app' = Apply(app, u)
  BY DEF TypeOK, MonitorTypeOK, ReceiveUpdate
<1> HIDE DEF u
<1>2. u.type \in {"Link", "PathSettling", "Collected", "ProbeStarted", "ProbeFinished"}
  BY <1>1 DEF MonitorUpdate
<1>3. CASE ~AcceptsUpdate(app, u)
  BY <1>1, <1>3 DEF Apply
<1>4. CASE AcceptsUpdate(app, u) /\ u.type = "Link"
  <2>1. app' = IF u.generation = app.path_generation
               THEN RefreshLink(app, u.link)
               ELSE OpenGeneration(app, u.generation, u.link)
    BY <1>1, <1>4 DEF Apply, ApplyLink
  <2>2. CASE u.generation = app.path_generation
    <3>1. app'.ssid = KeptName(app.ssid, u.link.ssid)
      BY <1>1, <2>1, <2>2 DEF RefreshLink, App
    <3> QED
      BY <1>4, <2>2, <3>1 DEF u
  <2>3. CASE u.generation # app.path_generation
    <3>1. app'.path_generation = u.generation
      BY <1>1, <2>1, <2>3 DEF OpenGeneration, App
    <3> QED
      BY <2>3, <3>1
  <2> QED
    BY <2>2, <2>3
<1>5. CASE AcceptsUpdate(app, u) /\ u.type = "PathSettling"
  BY <1>1, <1>5 DEF Apply, ApplyPathSettling, App
<1>6. CASE AcceptsUpdate(app, u) /\ u.type = "Collected"
  <2>1. app' = ApplyCollected(app, u) /\ u.ssid \in Names \cup {NONE}
    BY <1>1, <1>6 DEF Apply, MonitorUpdate
  <2>2. app'.ssid = IF u.slot = "Wifi" /\ u.ssid # NONE THEN u.ssid ELSE app.ssid
    BY <1>1, <2>1 DEF ApplyCollected, App
  <2> QED
    BY <2>1, <2>2
<1>7. CASE AcceptsUpdate(app, u) /\ u.type = "ProbeStarted"
  BY <1>1, <1>7 DEF Apply, ApplyProbeStarted, App
<1>8. CASE AcceptsUpdate(app, u) /\ u.type = "ProbeFinished"
  BY <1>1, <1>8 DEF Apply, ApplyProbeFinished, App
<1> QED
  BY <1>2, <1>3, <1>4, <1>5, <1>6, <1>7, <1>8 DEF u

\* A name that Wi-Fi telemetry resolved for a redacted association stays while
\* the path does (apply_at): a later snapshot of the path withholds the name
\* again, because the name is part of what makes it that path.
THEOREM ResolvedNamesStay == Spec => ResolvedNameStays
<1>1. ASSUME TypeOK, FenceInvariant, [Next]_vars,
             app.link # NONE, app.link.ssid = REDACTED, app.ssid \in Names,
             app'.path_generation = app.path_generation
      PROVE  app'.ssid \in Names
  <2>1. CASE ReceiveUpdate
    <3> DEFINE u == Head(updates)
    <3>1. CASE /\ u.type = "Link" /\ u.generation = app.path_generation
               /\ app'.ssid = KeptName(app.ssid, u.link.ssid)
      <4>1. Fingerprint(u.link) = Fingerprint(app.link)
        BY <1>1, <2>1, <3>1, AdmittedPath DEF ReceiveUpdate, Carries, CarriedPath, ShownPath
      <4>2. u.link.ssid = REDACTED
        BY <1>1, <4>1 DEF Fingerprint
      <4> QED
        BY <1>1, <3>1, <4>2 DEF KeptName
    <3> HIDE DEF u
    <3> QED
      BY <1>1, <2>1, <3>1, ReceivedName DEF u
  <2>2. CASE OperatorStep
    <3>1. app \in App
      BY <1>1 DEF TypeOK
    <3>2. \/ app' = app \/ app' = SetPaused(app, ~app.paused)
          \/ app' = SetProbePolicy(app, Toggled(app.probe_policy))
      BY <2>2 DEF OperatorStep, PressRefresh, PressPause, PressProbePolicy, Quit, Drop
    <3>3. app'.ssid = app.ssid
      BY <3>1, <3>2 DEF SetPaused, SetProbePolicy, App
    <3> QED
      BY <1>1, <3>3
  <2>3. CASE MonitorStep \/ UNCHANGED vars
    BY <1>1, <2>3 DEF MonitorStep, vars
  <2> QED
    BY <1>1, <2>1, <2>2, <2>3 DEF Next
<1>2. TypeOK /\ FenceInvariant /\ [Next]_vars
        => [ app.link # NONE /\ app.link.ssid = REDACTED /\ app.ssid \in Names
             /\ app'.path_generation = app.path_generation
             => app'.ssid \in Names ]_vars
  BY <1>1
<1> QED
  BY <1>2, FenceInductive, PTL DEF Spec, ResolvedNameStays

-----------------------------------------------------------------------------
(***************************************************************************)
(* What the operator consented to and what the monitor acts upon.          *)
(***************************************************************************)
\* A non-empty set of places of a queue has a last place.
LEMMA LastPlace ==
  ASSUME NEW n \in Nat, NEW places \in SUBSET (1 .. n), places # {}
  PROVE  \E last \in places : \A i \in places : i <= last
<1> DEFINE fromEnd == {k \in Nat : n - k \in places}
           R == OpToRel(<, Nat)
<1>1. fromEnd \subseteq Nat /\ fromEnd # {}
  <2>1. PICK i \in places : TRUE
    OBVIOUS
  <2>2. n - i \in Nat /\ n - (n - i) = i
    BY <2>1
  <2> QED
    BY <2>1, <2>2
<1>2. IsWellFoundedOn(R, Nat)
  BY NatLessThanWellFounded
<1>3. \A i \in places : i \in 1 .. n /\ n - i \in fromEnd
  <2> SUFFICES ASSUME NEW i \in places
               PROVE  i \in 1 .. n /\ n - i \in fromEnd
    OBVIOUS
  <2>1. i \in 1 .. n /\ n - i \in Nat /\ n - (n - i) = i
    OBVIOUS
  <2> QED
    BY <2>1
<1>4. \A k \in fromEnd : n - k \in places
  OBVIOUS
<1> HIDE DEF R, fromEnd
<1>5. PICK first \in fromEnd : \A k \in fromEnd : ~ (<<k, first>> \in R)
  BY <1>1, <1>2, WFMin
<1>6. \A k \in fromEnd : ~ (k < first)
  BY <1>1, <1>5 DEF R, OpToRel
<1>7. \A i \in places : i <= n - first
  BY <1>1, <1>3, <1>6
<1> QED
  BY <1>4, <1>7

\* A kind of control that is queued at all is queued last somewhere.
LEMMA QueuedLast ==
  ASSUME controls \in Seq(Control), NEW type, NEW i \in DOMAIN controls,
         controls[i].type = type
  PROVE  LastQueued(type) # {}
<1> DEFINE places == {j \in 1 .. Len(controls) : controls[j].type = type}
<1>1. Len(controls) \in Nat /\ DOMAIN controls = 1 .. Len(controls)
  OBVIOUS
<1>2. places \in SUBSET (1 .. Len(controls)) /\ places # {}
  BY <1>1
<1>3. \A j \in 1 .. Len(controls) : controls[j].type = type => j \in places
  OBVIOUS
<1>4. \A j \in places : j \in 1 .. Len(controls) /\ controls[j].type = type
  OBVIOUS
<1> HIDE DEF places
<1>5. PICK last \in places : \A j \in places : j <= last
  BY <1>1, <1>2, LastPlace
<1>6. last \in LastQueued(type)
  BY <1>1, <1>3, <1>4, <1>5 DEF LastQueued
<1> QED
  BY <1>6

\* A control that is sent is the last of its kind, and of no other.
LEMMA LastSent ==
  ASSUME controls \in Seq(Control), NEW control, NEW type,
         controls' = Append(controls, control)
  PROVE  /\ control.type = type =>
              LastQueued(type)' # {}
              /\ \A i \in LastQueued(type)' : controls'[i] = control
         /\ control.type # type =>
              LastQueued(type)' = LastQueued(type)
              /\ \A i \in LastQueued(type) : controls'[i] = controls[i]
<1> DEFINE n == Len(controls)
<1>1. /\ n \in Nat /\ DOMAIN controls = 1 .. n
      /\ Len(controls') = n + 1 /\ DOMAIN controls' = 1 .. (n + 1)
      /\ controls'[n + 1] = control
      /\ \A i \in 1 .. n : controls'[i] = controls[i]
  OBVIOUS
<1> HIDE DEF n
<1>2. LastQueued(type)' = {i \in DOMAIN controls' :
                             /\ controls'[i].type = type
                             /\ \A j \in (i + 1) .. Len(controls') : controls'[j].type # type}
  BY DEF LastQueued
<1>3. Len(controls) = n
  BY DEF n
<1>4. CASE control.type = type
  <2>1. n + 1 \in LastQueued(type)'
    BY <1>1, <1>2, <1>4
  <2>2. \A i \in LastQueued(type)' : i = n + 1
    BY <1>1, <1>2, <1>4
  <2> QED
    BY <1>1, <1>4, <2>1, <2>2
<1>5. CASE control.type # type
  <2>1. \A i \in LastQueued(type)' : i \in LastQueued(type)
    BY <1>1, <1>2, <1>3, <1>5 DEF LastQueued
  <2>2. \A i \in LastQueued(type) : i \in LastQueued(type)' /\ i \in 1 .. n
    BY <1>1, <1>2, <1>3, <1>5 DEF LastQueued
  <2> QED
    BY <1>1, <1>5, <2>1, <2>2
<1> QED
  BY <1>4, <1>5

\* Handling the first control leaves the last of each kind, if it was another.
LEMMA LastHandled ==
  ASSUME controls \in Seq(Control), controls # <<>>, NEW type,
         controls' = Tail(controls)
  PROVE  /\ \A i \in LastQueued(type)' :
              i + 1 \in LastQueued(type) /\ controls'[i] = controls[i + 1]
         /\ LastQueued(type)' = {} => LastQueued(type) \subseteq {1}
<1> DEFINE n == Len(controls)
<1>1. /\ n \in Nat \ {0} /\ DOMAIN controls = 1 .. n
      /\ Len(controls') = n - 1 /\ DOMAIN controls' = 1 .. (n - 1)
      /\ \A i \in 1 .. (n - 1) : controls'[i] = controls[i + 1]
  OBVIOUS
<1>3. Len(controls) = n
  BY DEF n
<1> HIDE DEF n
<1>2. LastQueued(type)' = {i \in DOMAIN controls' :
                             /\ controls'[i].type = type
                             /\ \A j \in (i + 1) .. Len(controls') : controls'[j].type # type}
  BY DEF LastQueued
<1>4. ASSUME NEW i \in LastQueued(type)'
      PROVE  i + 1 \in LastQueued(type) /\ controls'[i] = controls[i + 1]
  <2>1. /\ i \in 1 .. (n - 1) /\ i + 1 \in 1 .. n /\ controls[i + 1].type = type
        /\ controls'[i] = controls[i + 1]
    BY <1>1, <1>2, <1>4
  <2>2. ASSUME NEW j \in (i + 2) .. n
        PROVE  controls[j].type # type
    <3>1. j - 1 \in (i + 1) .. (n - 1) /\ j - 1 \in 1 .. (n - 1) /\ (j - 1) + 1 = j
      BY <1>1, <2>1, <2>2
    <3> QED
      BY <1>1, <1>2, <1>4, <3>1
  <2>3. (i + 1) + 1 = i + 2
    BY <2>1
  <2> QED
    BY <1>1, <1>3, <2>1, <2>2, <2>3 DEF LastQueued
<1>5. ASSUME NEW i \in LastQueued(type), i # 1
      PROVE  i - 1 \in LastQueued(type)'
  <2>1. /\ i \in 1 .. n /\ controls[i].type = type
        /\ \A j \in (i + 1) .. n : controls[j].type # type
    BY <1>1, <1>3, <1>5 DEF LastQueued
  <2>2. /\ i - 1 \in 1 .. (n - 1) /\ (i - 1) + 1 = i /\ controls'[i - 1] = controls[i]
    BY <1>1, <1>5, <2>1
  <2>3. ASSUME NEW j \in i .. (n - 1)
        PROVE  controls'[j].type # type
    <3>1. j \in 1 .. (n - 1) /\ j + 1 \in (i + 1) .. n
      BY <1>1, <2>1, <2>3
    <3> QED
      BY <1>1, <2>1, <3>1
  <2> QED
    BY <1>1, <1>2, <2>1, <2>2, <2>3
<1> QED
  BY <1>4, <1>5

\* No update pauses or resumes the App.
LEMMA ApplyPaused ==
  ASSUME NEW a \in App, NEW u \in MonitorUpdate
  PROVE  Apply(a, u).paused = a.paused
<1>1. u.type \in {"Link", "PathSettling", "Collected", "ProbeStarted", "ProbeFinished"}
  BY DEF MonitorUpdate
<1>2. /\ ApplyLink(a, u).paused = a.paused
      /\ ApplyPathSettling(a).paused = a.paused
  BY DEF ApplyLink, RefreshLink, OpenGeneration, ApplyPathSettling, App
<1>3. /\ ApplyCollected(a, u).paused = a.paused
      /\ ApplyProbeStarted(a, u).paused = a.paused
      /\ ApplyProbeFinished(a, u).paused = a.paused
  BY DEF ApplyCollected, ApplyProbeStarted, ApplyProbeFinished, App
<1> QED
  BY <1>1, <1>2, <1>3 DEF Apply

\* What a step that sends a control must show for it.
LEMMA ConsentSent ==
  ASSUME TypeOK, ConsentAgrees, UNCHANGED <<policy, paused>>, NEW control,
         controls' = Append(controls, control),
         app'.probe_policy = IF control.type = "SetProbePolicy"
                             THEN control.policy ELSE app.probe_policy,
         app'.paused = IF control.type = "Pause" THEN control.value ELSE app.paused
  PROVE  ConsentAgrees'
<1>1. controls \in Seq(Control)
  BY DEF TypeOK, MonitorTypeOK
<1>4. /\ LET type == "SetProbePolicy"
         IN /\ control.type = type =>
                 LastQueued(type)' # {} /\ \A i \in LastQueued(type)' : controls'[i] = control
            /\ control.type # type =>
                 /\ LastQueued(type)' = LastQueued(type)
                 /\ \A i \in LastQueued(type) : controls'[i] = controls[i]
      /\ LET type == "Pause"
         IN /\ control.type = type =>
                 LastQueued(type)' # {} /\ \A i \in LastQueued(type)' : controls'[i] = control
            /\ control.type # type =>
                 /\ LastQueued(type)' = LastQueued(type)
                 /\ \A i \in LastQueued(type) : controls'[i] = controls[i]
  BY <1>1, LastSent DEF LastQueued
<1>2. IF LastQueued("SetProbePolicy")' = {}
      THEN policy' = app'.probe_policy
      ELSE \A i \in LastQueued("SetProbePolicy")' : controls'[i].policy = app'.probe_policy
  <2>1. CASE control.type = "SetProbePolicy"
    BY <1>4, <2>1
  <2>2. CASE control.type # "SetProbePolicy"
    BY <1>4, <2>2 DEF ConsentAgrees
  <2> QED
    BY <2>1, <2>2
<1>3. IF LastQueued("Pause")' = {}
      THEN paused' = app'.paused
      ELSE \A i \in LastQueued("Pause")' : controls'[i].value = app'.paused
  <2>1. CASE control.type = "Pause"
    BY <1>4, <2>1
  <2>2. CASE control.type # "Pause"
    BY <1>4, <2>2 DEF ConsentAgrees
  <2> QED
    BY <2>1, <2>2
<1> QED
  BY <1>2, <1>3 DEF ConsentAgrees

\* The monitor takes the first control for what the App shows, if it is the
\* last of its kind; otherwise the App shows what a later one says.
LEMMA ConsentHandled ==
  ASSUME TypeOK, ConsentAgrees, HandleControl, UNCHANGED app
  PROVE  ConsentAgrees'
<1>1. controls \in Seq(Control) /\ controls # <<>> /\ controls' = Tail(controls)
  BY DEF TypeOK, MonitorTypeOK, HandleControl
<1>2. 1 \in DOMAIN controls /\ Head(controls) = controls[1]
  BY <1>1
<1>3. /\ policy' = IF controls[1].type = "SetProbePolicy" THEN controls[1].policy ELSE policy
      /\ paused' = IF controls[1].type = "Pause" THEN controls[1].value ELSE paused
  BY <1>2 DEF HandleControl, Refresh, ChangePolicy, modeVars
<1>4. ASSUME NEW type, LastQueued(type)' = {}
      PROVE  IF controls[1].type = type THEN LastQueued(type) = {1} ELSE LastQueued(type) = {}
  <2>1. LastQueued(type) \subseteq {1}
    BY <1>1, <1>4, LastHandled
  <2>2. 1 \in LastQueued(type) => controls[1].type = type
    BY DEF LastQueued
  <2>3. controls[1].type = type => LastQueued(type) # {}
    BY <1>1, <1>2, QueuedLast
  <2> QED
    BY <2>1, <2>2, <2>3
<1>5. IF LastQueued("SetProbePolicy")' = {}
      THEN policy' = app'.probe_policy
      ELSE \A i \in LastQueued("SetProbePolicy")' : controls'[i].policy = app'.probe_policy
  <2>1. CASE LastQueued("SetProbePolicy")' = {}
    BY <1>3, <1>4, <2>1 DEF ConsentAgrees
  <2>2. CASE LastQueued("SetProbePolicy")' # {}
    BY ZenonT(40), <1>1, <2>2, LastHandled DEF ConsentAgrees
  <2> QED
    BY <2>1, <2>2
<1>6. IF LastQueued("Pause")' = {}
      THEN paused' = app'.paused
      ELSE \A i \in LastQueued("Pause")' : controls'[i].value = app'.paused
  <2>1. CASE LastQueued("Pause")' = {}
    BY <1>3, <1>4, <2>1 DEF ConsentAgrees
  <2>2. CASE LastQueued("Pause")' # {}
    BY <1>1, <2>2, LastHandled DEF ConsentAgrees
  <2> QED
    BY <2>1, <2>2
<1> QED
  BY <1>5, <1>6 DEF ConsentAgrees

\* The App and the monitor differ about probes and about the pause only by
\* controls still in the channel (run_tui, monitor_loop): no pause, refresh,
\* full queue or change of path makes the monitor forget what it was told.
THEOREM ConsentIsKept == Spec => []ConsentAgrees
<1>1. Init => ConsentAgrees
  <2> SUFFICES ASSUME Init PROVE ConsentAgrees
    OBVIOUS
  <2>1. PICK p \in InitialPolicies : MonitorInit(p) /\ app = NewApp(p)
    BY DEF Init
  <2>2. \A type : LastQueued(type) = {}
    BY <2>1 DEF MonitorInit, LastQueued
  <2>3. /\ policy = p /\ paused = FALSE
        /\ app.probe_policy = p /\ app.paused = FALSE
    BY <2>1 DEF MonitorInit, NewApp
  <2> QED
    BY <2>2, <2>3 DEF ConsentAgrees
<1>2. TypeOK /\ ConsentAgrees /\ [Next]_vars => ConsentAgrees'
  <2> SUFFICES ASSUME TypeOK, ConsentAgrees, [Next]_vars
               PROVE  ConsentAgrees'
    OBVIOUS
  <2>0. app \in App
    BY DEF TypeOK
  <2>1. CASE ReceiveUpdate
    <3>1. /\ Head(updates) \in MonitorUpdate /\ app' = Apply(app, Head(updates))
          /\ UNCHANGED <<controls, policy, paused>>
      BY <2>1 DEF ReceiveUpdate, TypeOK, MonitorTypeOK, modeVars
    <3>2. app'.probe_policy = app.probe_policy /\ app'.paused = app.paused
      BY <2>0, <3>1, ApplyPassive, ApplyPaused
    <3> QED
      BY <3>1, <3>2 DEF ConsentAgrees, LastQueued
  <2>2. CASE PressRefresh \/ Quit
    <3>1. PICK control \in {[type |-> "Refresh"], [type |-> "Stop"]} :
            controls' = Append(controls, control)
      BY <2>2 DEF PressRefresh, Quit, SendControl
    <3>2. UNCHANGED <<policy, paused, app>>
      BY <2>2 DEF PressRefresh, Quit, Press, modeVars
    <3> QED
      BY <3>1, <3>2, ConsentSent
  <2>3. CASE PressPause
    <3> DEFINE control == [type |-> "Pause", value |-> ~app.paused]
    <3>1. controls' = Append(controls, control) /\ UNCHANGED <<policy, paused>>
      BY <2>3 DEF PressPause, Press, SendControl, modeVars
    <3>2. app'.probe_policy = app.probe_policy /\ app'.paused = ~app.paused
      BY <2>0, <2>3 DEF PressPause, SetPaused, App
    <3>3. control.type = "Pause" /\ control.value = ~app.paused
      OBVIOUS
    <3> HIDE DEF control
    <3> QED
      BY <3>1, <3>2, <3>3, ConsentSent
  <2>4. CASE PressProbePolicy
    <3> DEFINE p == Toggled(app.probe_policy)
               control == [type |-> "SetProbePolicy", policy |-> p]
    <3>1. controls' = Append(controls, control) /\ UNCHANGED <<policy, paused>>
      BY <2>4 DEF PressProbePolicy, Press, SendControl, modeVars
    <3>2. app'.probe_policy = p /\ app'.paused = app.paused
      BY <2>0, <2>4 DEF PressProbePolicy, SetProbePolicy, App
    <3>3. control.type = "SetProbePolicy" /\ control.policy = p
      OBVIOUS
    <3> HIDE DEF control
    <3> QED
      BY <3>1, <3>2, <3>3, ConsentSent
  <2>5. CASE HandleControl /\ UNCHANGED app
    BY <2>5, ConsentHandled
  <2>6. CASE UNCHANGED <<controls, policy, paused, app>>
    BY <2>6 DEF ConsentAgrees, LastQueued
  <2> QED
    BY <2>1, <2>2, <2>3, <2>4, <2>5, <2>6
    DEF Next, vars, monitorVars, modeVars, channelVars, OperatorStep, Drop, Press,
        MonitorStep, OsChanges, LoopStep, DrainControl, Finish, SkipPausedRound, Observe,
        Dispatch, WaitControl, WaitDisconnected, WaitElapsed, WorkerStep, WorkerRuns,
        WorkerSends, WorkerReleases
<1> QED
  BY <1>1, <1>2, FenceInductive, PTL DEF Spec
=============================================================================
