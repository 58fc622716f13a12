---------------------------- MODULE HistoryProofs ----------------------------
(***************************************************************************)
(* A process records a path generation at most once, and records it as     *)
(* soon as its context is complete, for every log, every host and every    *)
(* number of processes.  What it remembers, a replay sorted by Netbraid,   *)
(* is well typed and in the log, and the anchors in it are of routers that *)
(* answered for the gateway.  The offline report of a log is its partition *)
(* into runs of one context, and contradicts nothing that was said while   *)
(* it was written.                                                         *)
(***************************************************************************)
EXTENDS HistoryReport, LiveAppProofs, FiniteSetTheorems, WellFoundedInduction

\* The part of the types these arguments need.
LogTyped ==
  /\ file.records \in Seq(Observation)
  /\ file.state \in FileStates
  /\ file = [state |-> file.state, records |-> file.records]
  /\ lives \in Nat

SessionTyped ==
  /\ running \in BOOLEAN
  /\ running => lives > 0
  /\ session = [records             |-> session.records,
                recorded_generation |-> session.recorded_generation,
                writable            |-> session.writable,
                recovered_tail      |-> session.recovered_tail]
  /\ session.recorded_generation \in Nat \cup {NONE}
  /\ session.writable \in BOOLEAN
  /\ session.recovered_tail \in BOOLEAN

AppTyped ==
  /\ app \in App
  /\ app.link = NONE => app.path_generation = 0 /\ app.completed_path_dwells = <<>>
  /\ ~running => app.link = NONE
  /\ neighbor \in Neighbor \cup {NONE}

HistoryInvariant ==
  LogTyped /\ SessionTyped /\ AppTyped /\ RecordsNumbered /\ OncePerGeneration
    /\ CompleteIsRecorded

-----------------------------------------------------------------------------
\* Every record of the log is an observation.
LEMMA LogMember ==
  ASSUME LogTyped
  PROVE  \A i \in DOMAIN file.records : file.records[i] \in Observation
<1> DEFINE records == file.records
<1>1. records \in Seq(Observation)
  BY DEF LogTyped
<1> HIDE DEF records
<1>2. \A i \in DOMAIN records : records[i] \in Observation
  BY <1>1
<1> QED BY <1>2 DEF records

\* Whatever the monitor may send is an update; before the first link it is a
\* link.
LEMMA UpdatesType ==
  ASSUME AppTyped, NEW u \in Updates
  PROVE  /\ u \in MonitorUpdate
         /\ app.link = NONE => u.type = "Link" /\ u.generation = app.path_generation + 1
<1>1. /\ app.path_generation \in Nat
      /\ app.link \in Link \cup {NONE}
      /\ app.completed_path_dwells \in Seq(CompletedDwell)
  BY DEF AppTyped, App
<1>2. CASE u \in Links
  BY <1>1, <1>2, HostAssumption DEF Links, LinkUpdate, MonitorUpdate
<1>3. \A l \in LaunchedOn : l[1] \in Nat /\ l[2] \in Fingerprints
  <2>1. app.link # NONE => Fingerprint(app.link) \in Fingerprints
    BY <1>1, FingerprintType
  <2>2. \A i \in DOMAIN app.completed_path_dwells :
          /\ app.completed_path_dwells[i].generation \in Nat
          /\ app.completed_path_dwells[i].path \in Fingerprints
    <3> DEFINE dwells == app.completed_path_dwells
    <3>1. dwells \in Seq(CompletedDwell)
      BY <1>1
    <3> HIDE DEF dwells
    <3>2. \A i \in DOMAIN dwells : dwells[i] \in CompletedDwell
      BY <3>1
    <3> QED BY <3>2 DEF CompletedDwell, dwells
  <2> QED BY <1>1, <2>1, <2>2 DEF LaunchedOn
<1>4. app.link = NONE => LaunchedOn = {}
  BY DEF LaunchedOn, AppTyped
<1>5. CASE u \in Collections
  BY <1>3, <1>4, <1>5 DEF Collections, CollectedUpdate, MonitorUpdate
<1>6. CASE \E x \in {app.link} \ {NONE} : u = SettlingUpdate(app.path_generation)
  BY <1>1, <1>6 DEF SettlingUpdate, MonitorUpdate
<1> QED BY <1>2, <1>5, <1>6 DEF Updates

\* Of an update that is admitted, the generation is the App's afterwards, and
\* generations never go back.
LEMMA AdmittedGeneration ==
  ASSUME AppTyped, NEW u \in Updates
  PROVE  /\ Apply(app, u) \in App
         /\ Apply(app, u).path_generation >= app.path_generation
         /\ Apply(app, u).link = NONE =>
              /\ Apply(app, u).path_generation = 0
              /\ Apply(app, u).completed_path_dwells = <<>>
         /\ AcceptsUpdate(app, u) =>
              /\ Apply(app, u).path_generation = u.generation
              /\ Apply(app, u).link # NONE
<1>1. /\ u \in MonitorUpdate /\ app \in App /\ app.path_generation \in Nat
      /\ app.link \in Link \cup {NONE}
      /\ app.link = NONE => u.type = "Link" /\ u.generation = app.path_generation + 1
  BY UpdatesType DEF AppTyped, App
<1>2. u.type \in {"Link", "PathSettling", "Collected", "ProbeStarted", "ProbeFinished"}
      /\ u.generation \in Nat
  BY <1>1 DEF MonitorUpdate
<1>3. Apply(app, u) \in App
  BY <1>1, ApplyType DEF AppTyped
<1>4. CASE ~AcceptsUpdate(app, u)
  BY <1>1, <1>3, <1>4 DEF Apply, AppTyped
<1>5. CASE u.type = "Link" /\ AcceptsUpdate(app, u)
  <2>1. Apply(app, u) = ApplyLink(app, u) /\ u.generation >= app.path_generation
    BY <1>5 DEF Apply, AcceptsUpdate
  <2>2. /\ ApplyLink(app, u).path_generation = u.generation
        /\ ApplyLink(app, u).link = u.link
    BY <1>1, <2>1 DEF ApplyLink, RefreshLink, OpenGeneration, App
  <2>3. u.link # NONE
    BY <1>1, <1>5, LinkIsNotNone DEF MonitorUpdate
  <2> QED BY <1>2, <1>3, <1>5, <2>1, <2>2, <2>3, <1>1
<1>6. CASE u.type # "Link" /\ AcceptsUpdate(app, u)
  <2>1. u.generation = app.path_generation /\ app.link # NONE
    BY <1>1, <1>2, <1>6 DEF AcceptsUpdate
  <2>2. /\ Apply(app, u).path_generation = app.path_generation
        /\ Apply(app, u).link = app.link
    BY <1>1, <1>2, <1>6 DEF Apply, ApplyPathSettling, ApplyCollected,
      ApplyProbeStarted, ApplyProbeFinished, App
  <2> QED BY <1>1, <1>3, <1>6, <2>1, <2>2
<1> QED BY <1>4, <1>5, <1>6

\* What a process would record is a record, of a generation of its own.
LEMMA ObservedType ==
  ASSUME LogTyped, AppTyped, NEW u \in Updates, NEW entry \in Neighbor \cup {NONE},
         AcceptsUpdate(app, u), NEW t \in Readings
  PROVE  LET record == Observed(Apply(app, u), entry, t) IN
         /\ record \in Observation
         /\ record.pid = lives
         /\ record.generation = Apply(app, u).path_generation
<1> DEFINE a == Apply(app, u)
<1>1. a \in App /\ a.link # NONE
  BY AdmittedGeneration
<1>2. /\ a.link \in Link /\ a.path_generation \in Nat
      /\ a.ssid \in Names \cup {NONE, REDACTED}
  BY <1>1 DEF App
<1>3. /\ a.link.interface \in Interfaces \cup {NONE}
      /\ a.link.gateway \in Gateways \cup {NONE}
      /\ a.link.resolvers \in ResolverLists
  BY <1>2 DEF Link
<1> HIDE DEF a
<1>4. NextHopLinkAddress(a.link, entry) \in Macs \cup {NONE}
  BY DEF NextHopLinkAddress, Neighbor
<1>5. t \in Nat
  BY CountsAssumption DEF Readings, Times
<1>6. Observed(a, entry, t) \in Observation
  BY <1>2, <1>3, <1>4, <1>5, HostAssumption DEF Observed, Observation, HostPath, LogTyped
<1>7. Observed(a, entry, t).pid = lives /\ Observed(a, entry, t).generation = a.path_generation
  BY DEF Observed
<1> QED BY <1>6, <1>7 DEF a

-----------------------------------------------------------------------------
\* A log with one record more, of the process's next generation, still has
\* every generation once.
LEMMA AppendNumbered ==
  ASSUME LogTyped, RecordsNumbered, OncePerGeneration, running, SessionTyped,
         session.writable, app.path_generation \in Nat,
         NEW record \in Observation, record.pid = lives, lives > 0,
         record.generation >= app.path_generation,
         session.recorded_generation # record.generation,
         file' = AppendJsonl(file, record), lives' = lives
  PROVE  /\ LogTyped'
         /\ OncePerGeneration'
         /\ \A i \in DOMAIN file'.records : file'.records[i].pid <= lives
         /\ \A i \in DOMAIN file'.records :
              file'.records[i].pid = lives => file'.records[i].generation <= record.generation
<1> DEFINE old == file.records
           new == file'.records
<1>1. /\ new \in Seq(Observation) /\ Len(new) = Len(old) + 1
      /\ \A i \in 1 .. Len(old) : new[i] = old[i]
      /\ new[Len(old) + 1] = record
  BY AppendProperties DEF LogTyped, AppendJsonl
<1>2. LogTyped'
  BY <1>1 DEF LogTyped, AppendJsonl, FileStates
<1>3. /\ old \in Seq(Observation) /\ Len(old) \in Nat
      /\ DOMAIN old = 1 .. Len(old) /\ DOMAIN new = 1 .. Len(old) + 1
      /\ record.generation \in Nat
  BY <1>1 DEF LogTyped, Observation
<1> HIDE DEF old, new
<1>4. \A i \in 1 .. Len(old) : old[i].pid \in Nat /\ old[i].generation \in Nat
  <2>1. \A i \in 1 .. Len(old) : old[i] \in Observation
    BY <1>3
  <2> QED BY <2>1 DEF Observation
<1>5. \A i \in 1 .. Len(old) : old[i].pid <= lives
  BY <1>3 DEF RecordsNumbered, old
<1>6. ASSUME NEW i \in 1 .. Len(old), old[i].pid = lives
      PROVE  old[i].generation < record.generation
  <2>1. /\ session.recorded_generation # NONE
        /\ old[i].generation <= session.recorded_generation
        /\ session.recorded_generation <= app.path_generation
    BY <1>3, <1>6 DEF RecordsNumbered, old
  <2>2. session.recorded_generation \in Nat
    BY <2>1 DEF SessionTyped
  <2> QED BY <1>3, <1>4, <2>1, <2>2
<1>7. ASSUME NEW i \in DOMAIN new
      PROVE  /\ new[i].pid <= lives
             /\ new[i].pid = lives => new[i].generation <= record.generation
  <2>1. CASE i \in 1 .. Len(old)
    BY <1>1, <1>3, <1>4, <1>5, <1>6, <2>1
  <2>2. CASE i = Len(old) + 1
    BY <1>1, <1>3, <2>2 DEF LogTyped
  <2> QED BY <1>3, <2>1, <2>2
<1>8. ASSUME NEW i \in DOMAIN new, NEW j \in DOMAIN new,
             new[i].pid > 0, new[i].pid = new[j].pid,
             new[i].generation = new[j].generation
      PROVE  i = j
  <2>1. CASE i \in 1 .. Len(old) /\ j \in 1 .. Len(old)
    <3>1. /\ old[i].pid > 0 /\ old[i].pid = old[j].pid
          /\ old[i].generation = old[j].generation
      BY <1>1, <1>8, <2>1
    <3> QED BY <1>3, <2>1, <3>1 DEF OncePerGeneration, old
  <2>2. CASE i = Len(old) + 1 /\ j \in 1 .. Len(old)
    BY <1>1, <1>3, <1>4, <1>6, <1>8, <2>2
  <2>3. CASE i \in 1 .. Len(old) /\ j = Len(old) + 1
    BY <1>1, <1>3, <1>4, <1>6, <1>8, <2>3
  <2>4. CASE i = Len(old) + 1 /\ j = Len(old) + 1
    BY <2>4
  <2> QED BY <1>3, <2>1, <2>2, <2>3, <2>4
<1>9. OncePerGeneration'
  BY <1>8 DEF OncePerGeneration, new
<1> QED BY <1>2, <1>7, <1>9 DEF new

\* What an append that fails leaves: the records as they were, or one more.
LEMMA FailureLeaves ==
  ASSUME LogTyped, NEW u \in Updates, NEW entry \in Neighbors, RecordFails(u, entry)
  PROVE  /\ AcceptsUpdate(app, u) /\ app' = Apply(app, u) /\ lives' = lives
         /\ session.writable \/ session.recovered_tail
         /\ ~session.recovered_tail /\ running
         /\ session.recorded_generation # Apply(app, u).path_generation
         /\ \/ file'.records = file.records /\ LogTyped'
            \/ \E t \in Readings :
                 file' = AppendJsonl(file, Observed(Apply(app, u), NeighborAfter(u, entry), t))
<1>1. /\ AcceptsUpdate(app, u) /\ app' = Apply(app, u) /\ lives' = lives
      /\ neighbor' = NeighborAfter(u, entry)
      /\ session.writable \/ session.recovered_tail
      /\ ~session.recovered_tail /\ running
      /\ session.recorded_generation # Apply(app, u).path_generation
  BY DEF RecordFails, Complete, Admit, Assesses
<1>2. \/ file' = file
      \/ \E t \in Readings :
           file' \in Unfinished(file, Observed(Apply(app, u), NeighborAfter(u, entry), t))
  BY <1>1 DEF RecordFails, Leftovers
<1>3. ASSUME file' \in {file, Touched(file), Torn(file)}
      PROVE  file'.records = file.records /\ LogTyped'
  BY <1>1, <1>3 DEF Touched, Torn, LogTyped, FileStates
<1> QED
  BY <1>1, <1>2, <1>3 DEF Unfinished
-----------------------------------------------------------------------------
\* The start: what is in the log is older than every process.
LEMMA InitHistory == Init => HistoryInvariant
<1> SUFFICES ASSUME Init PROVE HistoryInvariant
  OBVIOUS
<1>1. /\ file.state \in FileStates /\ file.records \in Seq(Observation)
      /\ \A i \in DOMAIN file.records : file.records[i].pid = 0
      /\ file = [state |-> file.state, records |-> file.records]
  <2>1. file \in File /\ \A i \in DOMAIN file.records : file.records[i].pid = 0
    BY InitialFilesAssumption DEF Init
  <2> QED BY <2>1 DEF File
<1>2. LogTyped /\ SessionTyped
  BY <1>1 DEF Init, LogTyped, SessionTyped, NoSession
<1>3. NewApp("passive") \in App
  BY NewAppType DEF Policies
<1>4. AppTyped
  BY <1>3 DEF Init, AppTyped, NewApp
<1>5. RecordsNumbered /\ OncePerGeneration
  BY <1>1 DEF Init, RecordsNumbered, OncePerGeneration
<1>6. CompleteIsRecorded
  BY DEF Init, CompleteIsRecorded
<1> QED BY <1>2, <1>4, <1>5, <1>6 DEF HistoryInvariant

\* A process starts with a pid nobody has, and ends with nothing but its log.
LEMMA StartHistory ==
  ASSUME HistoryInvariant, Start
  PROVE  HistoryInvariant'
<1>1. /\ ~running /\ lives' = lives + 1 /\ session' = Open(file) /\ running' = TRUE
      /\ UNCHANGED <<file, app, neighbor>>
      /\ LogTyped /\ SessionTyped /\ AppTyped /\ RecordsNumbered /\ OncePerGeneration
  BY DEF Start, HistoryInvariant
<1>2. /\ \A i \in DOMAIN file.records :
           file.records[i].pid <= lives /\ file.records[i].pid # lives + 1
  <2>1. \A i \in DOMAIN file.records : file.records[i].pid \in Nat
    BY <1>1, LogMember DEF Observation
  <2> QED BY <1>1, <2>1 DEF RecordsNumbered, LogTyped
<1>3. LogTyped' /\ AppTyped' /\ OncePerGeneration'
  BY <1>1 DEF LogTyped, AppTyped, OncePerGeneration
<1>4. SessionTyped'
  BY <1>1 DEF SessionTyped, Open, LogTyped, FileStates
<1>5. RecordsNumbered'
  <2>1. \A i \in DOMAIN file.records : file.records[i].pid <= lives + 1
    <3>1. \A i \in DOMAIN file.records : file.records[i].pid \in Nat
      BY <1>1, LogMember DEF Observation
    <3> QED BY <1>1, <1>2, <3>1 DEF LogTyped
  <2>2. Open(file).recorded_generation = NONE
    BY DEF Open
  <2> QED BY <1>1, <1>2, <2>1, <2>2 DEF RecordsNumbered
<1>6. CompleteIsRecorded'
  BY <1>1 DEF AppTyped, CompleteIsRecorded
<1> QED BY <1>3, <1>4, <1>5, <1>6 DEF HistoryInvariant

\* A process that is gone leaves a log in which it has every generation once.
LEMMA GoneHistory ==
  ASSUME Gone, LogTyped', lives' = lives, OncePerGeneration',
         \A i \in DOMAIN file'.records : file'.records[i].pid <= lives
  PROVE  HistoryInvariant'
<1>1. NewApp("passive") \in App
  BY NewAppType DEF Policies
<1>2. AppTyped'
  BY <1>1 DEF Gone, AppTyped, NewApp
<1>3. SessionTyped' /\ RecordsNumbered' /\ CompleteIsRecorded'
  BY DEF Gone, SessionTyped, NoSession, RecordsNumbered, CompleteIsRecorded
<1> QED BY <1>2, <1>3 DEF HistoryInvariant

\* The App's part of an update, whatever becomes of the log.
LEMMA AdmitTyped ==
  ASSUME AppTyped, NEW u \in Updates, NEW entry \in Neighbors, Admit(u, entry),
         running' = running
  PROVE  /\ AppTyped'
         /\ app'.path_generation \in Nat
         /\ app'.path_generation >= app.path_generation
         /\ NeighborAfter(u, entry) \in Neighbor \cup {NONE}
<1>1. entry \in Neighbor \cup {NONE}
  BY DEF Neighbors, OfGateways, OfOthers
<1>2. NeighborAfter(u, entry) \in Neighbor \cup {NONE}
  BY <1>1 DEF NeighborAfter, AppTyped
<1>3. app' = Apply(app, u) /\ running /\ neighbor' \in Neighbor \cup {NONE}
  BY <1>2 DEF Admit, AppTyped
<1>4. AppTyped'
  BY <1>3, AdmittedGeneration DEF AppTyped
<1> QED BY <1>2, <1>3, <1>4, AdmittedGeneration DEF AppTyped, App

\* An update that does not reach an assessment leaves nothing unassessed.
LEMMA ReceiveOnlyHistory ==
  ASSUME HistoryInvariant, NEW u \in Updates, NEW entry \in Neighbors,
         ReceiveOnly(u, entry)
  PROVE  HistoryInvariant'
<1>1. /\ LogTyped /\ SessionTyped /\ AppTyped /\ RecordsNumbered
      /\ OncePerGeneration /\ CompleteIsRecorded
      /\ UNCHANGED <<file, lives, running, session, context>>
      /\ Admit(u, entry) /\ app' = Apply(app, u) /\ running
  BY DEF HistoryInvariant, ReceiveOnly, Admit
<1>2. LogTyped' /\ SessionTyped' /\ OncePerGeneration'
  BY <1>1 DEF LogTyped, SessionTyped, OncePerGeneration
<1>3. /\ AppTyped' /\ app'.path_generation \in Nat
      /\ app'.path_generation >= app.path_generation
  BY <1>1, AdmitTyped
<1>4. RecordsNumbered'
  <2>1. app.path_generation \in Nat
    BY <1>1 DEF AppTyped, App
  <2>2. \A i \in DOMAIN file.records : file.records[i].generation \in Nat
    BY <1>1, LogMember DEF Observation
  <2> QED BY <1>1, <1>3, <2>1, <2>2 DEF RecordsNumbered, SessionTyped
<1>5. CompleteIsRecorded'
  <2>1. CASE ~AcceptsUpdate(app, u)
    BY <1>1, <2>1 DEF Apply, CompleteIsRecorded
  <2>2. CASE AcceptsUpdate(app, u)
    <3>1. u.generation = app'.path_generation
      BY <1>1, <2>2, AdmittedGeneration
    <3>2. ~Assesses(u, app')
      BY <2>2 DEF ReceiveOnly
    <3> QED BY <1>1, <3>1, <3>2 DEF Assesses, ContextComplete, CompleteIsRecorded
  <2> QED BY <2>1, <2>2
<1> QED BY <1>2, <1>3, <1>4, <1>5 DEF HistoryInvariant

\* An assessment marks its generation, or the session can assess no more.
LEMMA AssessHistory ==
  ASSUME HistoryInvariant, NEW u \in Updates, NEW entry \in Neighbors,
         AssessPrefix(u, entry) \/ RecordFails(u, entry)
  PROVE  HistoryInvariant'
<1>1. /\ LogTyped /\ SessionTyped /\ AppTyped /\ RecordsNumbered
      /\ OncePerGeneration /\ CompleteIsRecorded
      /\ UNCHANGED <<lives, running>>
      /\ Admit(u, entry) /\ running
  BY DEF HistoryInvariant, AssessPrefix, RecordFails, Complete, Admit
<1>2. /\ AppTyped' /\ app'.path_generation \in Nat
      /\ app'.path_generation >= app.path_generation
      /\ app.path_generation \in Nat
  BY <1>1, AdmitTyped DEF AppTyped, App
<1>3. \A i \in DOMAIN file.records : file.records[i].generation \in Nat
  BY <1>1, LogMember DEF Observation
<1>4. CASE AssessPrefix(u, entry)
  <2>1. /\ session' = [session EXCEPT !.recorded_generation = app'.path_generation]
        /\ session'.recorded_generation = app'.path_generation
        /\ app'.path_generation # NONE
    <3>1. session' = [session EXCEPT !.recorded_generation = app'.path_generation]
      BY <1>4 DEF AssessPrefix
    <3> QED BY <1>1, <1>2, <3>1, NoneIsNoNumber DEF SessionTyped
  <2>2. SessionTyped'
    BY <1>1, <1>2, <2>1 DEF SessionTyped
  <2>3. file' = file /\ LogTyped' /\ OncePerGeneration'
    BY <1>1, <1>4 DEF AssessPrefix, LogTyped, OncePerGeneration
  <2>4. RecordsNumbered'
    BY <1>1, <1>2, <1>3, <2>1, <2>3 DEF RecordsNumbered, SessionTyped
  <2>5. CompleteIsRecorded'
    BY <2>1 DEF CompleteIsRecorded
  <2> QED BY <1>2, <2>2, <2>3, <2>4, <2>5 DEF HistoryInvariant
<1>5. CASE RecordFails(u, entry)
  <2>1. session' = [session EXCEPT !.writable = FALSE] /\ ~session.recovered_tail
    BY <1>5 DEF RecordFails
  <2>2. /\ SessionTyped' /\ session'.recorded_generation = session.recorded_generation
        /\ session'.writable = FALSE
    BY <1>1, <2>1 DEF SessionTyped
  <2>3. CompleteIsRecorded'
    BY <1>1, <2>1 DEF SessionTyped, CompleteIsRecorded
  <2>4. LogTyped' /\ OncePerGeneration' /\ RecordsNumbered'
    <3>1. CASE file'.records = file.records /\ LogTyped'
      BY <1>1, <1>2, <1>3, <2>2, <3>1 DEF OncePerGeneration, RecordsNumbered, SessionTyped
    <3>2. ASSUME NEW t \in Readings,
                 file' = AppendJsonl(file, Observed(Apply(app, u), NeighborAfter(u, entry), t))
          PROVE  LogTyped' /\ OncePerGeneration' /\ RecordsNumbered'
      <4> DEFINE record == Observed(Apply(app, u), NeighborAfter(u, entry), t)
      <4>1. /\ record \in Observation /\ record.pid = lives
            /\ record.generation = Apply(app, u).path_generation
        BY <1>1, <1>5, AdmitTyped, FailureLeaves, ObservedType
      <4> HIDE DEF record
      <4>2. /\ file' = AppendJsonl(file, record) /\ record.generation = app'.path_generation
            /\ session.writable /\ session.recorded_generation # record.generation
        BY <1>1, <1>5, <3>2, <4>1, FailureLeaves DEF record
      <4>3. /\ LogTyped' /\ OncePerGeneration'
            /\ \A i \in DOMAIN file'.records : file'.records[i].pid <= lives
            /\ \A i \in DOMAIN file'.records :
                 file'.records[i].pid = lives => file'.records[i].generation <= record.generation
        BY <1>1, <1>2, <4>1, <4>2, AppendNumbered DEF SessionTyped
      <4> QED BY <1>1, <1>2, <2>2, <4>2, <4>3 DEF RecordsNumbered, SessionTyped
    <3> QED BY <1>5, <1>1, <3>1, <3>2, FailureLeaves
  <2> QED BY <1>2, <2>2, <2>3, <2>4 DEF HistoryInvariant
<1> QED BY <1>4, <1>5

\* A record is of a generation of which its process has none yet.
LEMMA RecordHistory ==
  ASSUME HistoryInvariant, NEW u \in Updates, NEW entry \in Neighbors,
         Record(u, entry)
  PROVE  HistoryInvariant'
<1>1. /\ LogTyped /\ SessionTyped /\ AppTyped /\ RecordsNumbered
      /\ OncePerGeneration
      /\ UNCHANGED <<lives, running>>
      /\ Admit(u, entry) /\ running /\ AcceptsUpdate(app, u)
      /\ session.recorded_generation # app'.path_generation /\ session.writable
      /\ app' = Apply(app, u)
  BY DEF HistoryInvariant, Record, Complete, Admit, Assesses
<1>2. /\ AppTyped' /\ app'.path_generation \in Nat
      /\ app'.path_generation >= app.path_generation
      /\ app.path_generation \in Nat
      /\ neighbor' \in Neighbor \cup {NONE}
  BY <1>1, AdmitTyped DEF AppTyped, App
<1>3. PICK t \in Readings :
        /\ file' = AppendJsonl(file, Observed(app', neighbor', t))
        /\ session' = [session EXCEPT
                         !.recorded_generation = app'.path_generation,
                         !.records = Append(@, Observed(app', neighbor', t))]
  BY DEF Record
<1> DEFINE record == Observed(app', neighbor', t)
<1>4. /\ record \in Observation /\ record.pid = lives
      /\ record.generation = app'.path_generation
  <2> DEFINE entryAfter == neighbor'
  <2>1. entryAfter \in Neighbor \cup {NONE}
    BY <1>2
  <2> HIDE DEF entryAfter
  <2>2. LET r == Observed(Apply(app, u), entryAfter, t) IN
          /\ r \in Observation /\ r.pid = lives
          /\ r.generation = Apply(app, u).path_generation
    BY <1>1, <2>1, ObservedType
  <2> QED BY <1>1, <2>2 DEF entryAfter
<1> HIDE DEF record
<1>5. file' = AppendJsonl(file, record)
  BY <1>3 DEF record
<1>6. /\ LogTyped' /\ OncePerGeneration'
      /\ \A i \in DOMAIN file'.records : file'.records[i].pid <= lives
      /\ \A i \in DOMAIN file'.records :
           file'.records[i].pid = lives => file'.records[i].generation <= record.generation
  BY <1>1, <1>2, <1>4, <1>5, AppendNumbered DEF SessionTyped
<1>7. /\ SessionTyped'
      /\ session'.recorded_generation = app'.path_generation
      /\ app'.path_generation # NONE
  BY <1>1, <1>2, <1>3, NoneIsNoNumber DEF SessionTyped
<1>8. RecordsNumbered' /\ CompleteIsRecorded'
  BY <1>1, <1>2, <1>4, <1>6, <1>7 DEF RecordsNumbered, CompleteIsRecorded
<1> QED BY <1>2, <1>6, <1>7, <1>8 DEF HistoryInvariant

\* Nothing a dying process leaves has a generation twice.
LEMMA DieInAppendHistory ==
  ASSUME HistoryInvariant, NEW u \in Updates, NEW entry \in Neighbors,
         DieInAppend(u, entry)
  PROVE  HistoryInvariant'
<1>1. /\ LogTyped /\ SessionTyped /\ AppTyped /\ RecordsNumbered
      /\ OncePerGeneration
      /\ running /\ AcceptsUpdate(app, u) /\ lives' = lives /\ Gone
      /\ session.recorded_generation # Apply(app, u).path_generation /\ session.writable
  BY DEF HistoryInvariant, DieInAppend, Assesses
<1>2. NeighborAfter(u, entry) \in Neighbor \cup {NONE}
  BY <1>1 DEF NeighborAfter, AppTyped, Neighbors, OfGateways, OfOthers
<1>3. PICK t \in Readings :
        file' \in {Touched(file), Torn(file),
                   AppendJsonl(file, Observed(Apply(app, u), NeighborAfter(u, entry), t))}
  BY DEF DieInAppend, Unfinished
<1>4. CASE file' \in {Touched(file), Torn(file)}
  <2>1. file'.records = file.records /\ LogTyped'
    BY <1>1, <1>4 DEF Touched, Torn, LogTyped, FileStates
  <2> QED BY <1>1, <2>1, GoneHistory DEF RecordsNumbered, OncePerGeneration
<1>5. CASE file' = AppendJsonl(file, Observed(Apply(app, u), NeighborAfter(u, entry), t))
  <2> DEFINE record == Observed(Apply(app, u), NeighborAfter(u, entry), t)
  <2>1. /\ record \in Observation /\ record.pid = lives
        /\ record.generation = Apply(app, u).path_generation
    BY <1>1, <1>2, ObservedType
  <2>2. /\ Apply(app, u).path_generation >= app.path_generation
        /\ app.path_generation \in Nat
    BY <1>1, AdmittedGeneration DEF AppTyped, App
  <2> HIDE DEF record
  <2>3. file' = AppendJsonl(file, record)
    BY <1>5 DEF record
  <2>4. /\ LogTyped' /\ OncePerGeneration'
        /\ \A i \in DOMAIN file'.records : file'.records[i].pid <= lives
    BY <1>1, <2>1, <2>2, <2>3, AppendNumbered DEF SessionTyped
  <2> QED BY <1>1, <2>4, GoneHistory
<1> QED BY <1>3, <1>4, <1>5

\* Another process adds a record, under a pid of its own, or tears the log.
LEMMA OthersRecord ==
  ASSUME OtherWrites
  PROVE  file' = Torn(file) \/ \E record \in Observation :
           /\ record.pid = 0 /\ file' = AppendJsonl(file, record)
           /\ record.time \in Readings
<1>1. PICK t \in Readings, l \in {l \in OsLinks : l.gateway # NONE} :
        file' \in
          {Torn(file),
           AppendJsonl(file,
             [observer |-> ThisHost, time |-> t, pid |-> 0, generation |-> 1,
              path |-> [interface |-> l.interface, ssid |-> l.ssid,
                        gateway |-> l.gateway, mac |-> RouterOf[l],
                        resolvers |-> l.resolvers]])}
  BY DEF OtherWrites
<1> DEFINE record ==
      [observer |-> ThisHost, time |-> t, pid |-> 0, generation |-> 1,
       path |-> [interface |-> l.interface, ssid |-> l.ssid,
                 gateway |-> l.gateway, mac |-> RouterOf[l],
                 resolvers |-> l.resolvers]]
<1>2. t \in Nat
  BY CountsAssumption DEF Readings, Times
<1>3. l \in Link /\ l.gateway # NONE
  BY HostAssumption
<1>4. record \in Observation /\ record.pid = 0 /\ record.time \in Readings
  BY <1>2, <1>3, HostAssumption DEF Observation, HostPath, Link
<1> QED BY <1>1, <1>4

\* Another process logs under no pid of this host's processes.
LEMMA OtherWritesHistory ==
  ASSUME HistoryInvariant, OtherWrites
  PROVE  HistoryInvariant'
<1>1. /\ LogTyped /\ SessionTyped /\ AppTyped /\ RecordsNumbered
      /\ OncePerGeneration /\ CompleteIsRecorded
      /\ UNCHANGED <<lives, running, session, app, neighbor, context>>
  BY DEF HistoryInvariant, OtherWrites
<1>2. SessionTyped' /\ AppTyped' /\ CompleteIsRecorded'
  BY <1>1 DEF SessionTyped, AppTyped, CompleteIsRecorded
<1>3. CASE file' = Torn(file)
  <2>1. file'.records = file.records /\ LogTyped'
    BY <1>1, <1>3 DEF Torn, LogTyped, FileStates
  <2> QED BY <1>1, <1>2, <2>1 DEF RecordsNumbered, OncePerGeneration, HistoryInvariant
<1>4. CASE \E record \in Observation :
             record.pid = 0 /\ file' = AppendJsonl(file, record)
  <2>1. PICK record \in Observation :
          record.pid = 0 /\ file' = AppendJsonl(file, record)
    BY <1>4
  <2> DEFINE old == file.records
             new == file'.records
  <2>2. /\ new \in Seq(Observation) /\ Len(new) = Len(old) + 1
        /\ \A i \in 1 .. Len(old) : new[i] = old[i]
        /\ new[Len(old) + 1] = record
        /\ old \in Seq(Observation)
    BY <1>1, <2>1, AppendProperties DEF LogTyped, AppendJsonl
  <2>3. LogTyped'
    BY <1>1, <2>1, <2>2 DEF LogTyped, AppendJsonl, FileStates
  <2> HIDE DEF old, new
  <2>4. /\ DOMAIN old = 1 .. Len(old) /\ DOMAIN new = 1 .. Len(old) + 1
        /\ Len(old) \in Nat
    BY <2>2
  <2>5. \A i \in DOMAIN new :
          new[i].pid > 0 => i \in DOMAIN old /\ new[i] = old[i]
    BY <2>1, <2>2, <2>4
  <2>6. \A i \in DOMAIN new : new[i].pid <= lives
    <3>1. lives \in Nat /\ \A i \in DOMAIN old : old[i].pid <= lives
      BY <1>1 DEF LogTyped, RecordsNumbered, old
    <3> QED BY <2>1, <2>2, <2>4, <3>1
  <2>7. OncePerGeneration'
    <3>1. \A i, j \in DOMAIN new :
            /\ new[i].pid > 0 /\ new[i].pid = new[j].pid
            /\ new[i].generation = new[j].generation
            => i = j
      BY <1>1, <2>5 DEF OncePerGeneration, old
    <3> QED BY <3>1 DEF OncePerGeneration, new
  <2>8. RecordsNumbered'
    <3>1. running => lives > 0
      BY <1>1 DEF SessionTyped
    <3>2. \A i \in DOMAIN new : running /\ new[i].pid = lives =>
            i \in DOMAIN old /\ new[i] = old[i]
      BY <2>5, <3>1
    <3> QED BY <1>1, <2>6, <3>2 DEF RecordsNumbered, old, new
  <2> QED BY <1>2, <2>3, <2>7, <2>8 DEF HistoryInvariant
<1> QED BY <1>3, <1>4, OthersRecord

\* Every step.
LEMMA NextHistory ==
  ASSUME HistoryInvariant, [Next]_vars
  PROVE  HistoryInvariant'
<1>1. CASE Start
  BY <1>1, StartHistory
<1>2. CASE Receive
  BY <1>2, ReceiveOnlyHistory, AssessHistory, RecordHistory DEF Receive
<1>3. CASE \E u \in Updates, entry \in Neighbors : DieInAppend(u, entry)
  BY <1>3, DieInAppendHistory
<1>4. CASE End
  BY <1>4, GoneHistory DEF End, HistoryInvariant, LogTyped, OncePerGeneration,
    RecordsNumbered
<1>5. CASE OtherWrites
  BY <1>5, OtherWritesHistory
<1>6. CASE UNCHANGED vars
  BY <1>6 DEF vars, HistoryInvariant, LogTyped, SessionTyped, AppTyped,
    RecordsNumbered, OncePerGeneration, CompleteIsRecorded
<1> QED BY <1>1, <1>2, <1>3, <1>4, <1>5, <1>6 DEF Next

\* The inductive invariant of a log and the process that writes it.
THEOREM HistoryInductive == Spec => []HistoryInvariant
<1>1. Init => HistoryInvariant
  BY InitHistory
<1>2. HistoryInvariant /\ [Next]_vars => HistoryInvariant'
  BY NextHistory
<1> QED BY <1>1, <1>2, PTL DEF Spec

\* No process writes a record_id twice, across crashes, failed appends and
\* another process's writes.
THEOREM RecordedOnce == Spec => []OncePerGeneration
<1>1. HistoryInvariant => OncePerGeneration
  BY DEF HistoryInvariant
<1> QED BY <1>1, HistoryInductive, PTL

\* The order in which Wi-Fi, neighbours and links arrive never leaves a
\* complete context unassessed.
THEOREM CompleteContextRecorded == Spec => []CompleteIsRecorded
<1>1. HistoryInvariant => CompleteIsRecorded
  BY DEF HistoryInvariant
<1> QED BY <1>1, HistoryInductive, PTL
-----------------------------------------------------------------------------
(***************************************************************************)
(* Orders.                                                                 *)
(***************************************************************************)
\* What a sort needs of the comparison.
Orders(before, S) ==
  /\ \A x \in S : <<x, x>> \notin before
  /\ \A x, y \in S : x # y => <<x, y>> \in before \/ <<y, x>> \in before
  /\ \A x, y, z \in S : <<x, y>> \in before /\ <<y, z>> \in before => <<x, z>> \in before

Preceding(S, before, x) == {y \in S : <<y, x>> \in before}

\* What comes later has more before it.
LEMMA BeforeGrows ==
  ASSUME NEW S, IsFiniteSet(S), NEW before, Orders(before, S)
  PROVE  /\ Cardinality(S) \in Nat
         /\ \A x \in S : /\ IsFiniteSet(Preceding(S, before, x))
                         /\ Cardinality(Preceding(S, before, x)) \in Nat
                         /\ Cardinality(Preceding(S, before, x)) < Cardinality(S)
         /\ \A x, y \in S : <<x, y>> \in before =>
              Cardinality(Preceding(S, before, x)) < Cardinality(Preceding(S, before, y))
<1>1. Cardinality(S) \in Nat
  BY FS_CardinalityType
<1>2. ASSUME NEW x \in S
      PROVE  /\ IsFiniteSet(Preceding(S, before, x))
             /\ Cardinality(Preceding(S, before, x)) \in Nat
             /\ Cardinality(Preceding(S, before, x)) < Cardinality(S)
  <2>1. Preceding(S, before, x) \in SUBSET (S \ {x})
    BY DEF Preceding, Orders
  <2>2. IsFiniteSet(S \ {x}) /\ Cardinality(S \ {x}) = Cardinality(S) - 1
    BY FS_RemoveElement
  <2>3. /\ IsFiniteSet(Preceding(S, before, x))
        /\ Cardinality(Preceding(S, before, x)) <= Cardinality(S) - 1
    BY <2>1, <2>2, FS_Subset
  <2>4. Cardinality(Preceding(S, before, x)) \in Nat
    BY <2>3, FS_CardinalityType
  <2> QED
    BY <1>1, <2>3, <2>4
<1>3. ASSUME NEW x \in S, NEW y \in S, <<x, y>> \in before
      PROVE  Cardinality(Preceding(S, before, x)) < Cardinality(Preceding(S, before, y))
  <2>1. Preceding(S, before, x) \in SUBSET Preceding(S, before, y)
    BY <1>3 DEF Preceding, Orders
  <2>2. x \in Preceding(S, before, y) /\ x \notin Preceding(S, before, x)
    BY <1>3 DEF Preceding, Orders
  <2>3. /\ Cardinality(Preceding(S, before, x)) <= Cardinality(Preceding(S, before, y))
        /\ Cardinality(Preceding(S, before, y)) # Cardinality(Preceding(S, before, x))
    BY <1>2, <2>1, <2>2, FS_Subset
  <2> QED
    BY <1>2, <2>3
<1> QED
  BY <1>1, <1>2, <1>3

\* A sort lists every element once, in the order of the comparison.
LEMMA Sorted ==
  ASSUME NEW S, IsFiniteSet(S), NEW before, Orders(before, S), NEW order,
         order = InOrder(S, before)
  PROVE  /\ Cardinality(S) \in Nat
         /\ order \in [1 .. Cardinality(S) -> S] /\ DOMAIN order = 1 .. Cardinality(S)
         /\ order \in Seq(S) /\ Len(order) = Cardinality(S)
         /\ \A x \in S : \E i \in 1 .. Cardinality(S) : order[i] = x
         /\ \A i, j \in 1 .. Cardinality(S) : i < j => <<order[i], order[j]>> \in before
         /\ \A i, j \in 1 .. Cardinality(S) : order[i] = order[j] => i = j
<1> DEFINE n == Cardinality(S)
           below == [x \in S |-> Cardinality(Preceding(S, before, x))]
           place == [x \in S |-> below[x] + 1]
           At(i) == CHOOSE x \in S : Cardinality(Preceding(S, before, x)) = i - 1
<1>1. order = [i \in 1 .. n |-> At(i)]
  BY DEF InOrder, Preceding
<1>2. /\ n \in Nat
      /\ \A x \in S : below[x] \in Nat /\ below[x] < n
      /\ \A x, y \in S : <<x, y>> \in before => below[x] < below[y]
  BY BeforeGrows
<1>a. \A x \in S : below[x] = Cardinality(Preceding(S, before, x))
  OBVIOUS
<1> HIDE DEF n, below
<1>3. ASSUME NEW x \in S, NEW y \in S, below[x] = below[y]
      PROVE  x = y
  <2>1. <<x, y>> \notin before /\ <<y, x>> \notin before
    BY <1>2, <1>3
  <2> QED
    BY <2>1 DEF Orders
<1>4. place \in Injection(S, 1 .. n)
  <2>1. place \in [S -> 1 .. n]
    BY <1>2
  <2>2. \A x, y \in S : place[x] = place[y] => x = y
    BY <1>2, <1>3
  <2> QED
    BY <2>1, <2>2 DEF Injection, IsInjective
<1>5. place \in Surjection(S, 1 .. n)
  <2>1. IsFiniteSet(1 .. n) /\ Cardinality(1 .. n) = n
    BY <1>2, FS_Interval
  <2> QED
    BY <1>4, <2>1, FS_Injection DEF n
<1>6. \A i \in 1 .. n : \E x \in S : below[x] = i - 1
  <2> TAKE i \in 1 .. n
  <2>1. PICK x \in S : place[x] = i
    BY <1>5 DEF Surjection
  <2>2. below[x] = i - 1
    BY <1>2, <2>1
  <2> QED
    BY <2>2
<1>7. \A i \in 1 .. n : At(i) \in S /\ below[At(i)] = i - 1
  BY <1>6, <1>a
<1> HIDE DEF At
<1>8. \A i \in 1 .. n : order[i] \in S /\ below[order[i]] = i - 1
  BY <1>1, <1>7
<1>9. order \in [1 .. n -> S] /\ DOMAIN order = 1 .. n
  BY <1>1, <1>8
<1>10. order \in Seq(S) /\ Len(order) = n
  BY <1>2, <1>9
<1>11. ASSUME NEW x \in S
       PROVE  \E i \in 1 .. n : order[i] = x
  <2> DEFINE i == below[x] + 1
  <2>1. i \in 1 .. n /\ i - 1 = below[x]
    BY <1>2
  <2>2. order[i] = x
    BY <1>3, <1>8, <2>1
  <2> QED
    BY <2>1, <2>2
<1>12. ASSUME NEW i \in 1 .. n, NEW j \in 1 .. n, i < j
       PROVE  <<order[i], order[j]>> \in before
  <2>1. /\ order[i] \in S /\ order[j] \in S
        /\ below[order[i]] < below[order[j]]
    BY <1>2, <1>8, <1>12
  <2>2. order[i] # order[j] /\ ~ (<<order[j], order[i]>> \in before)
    BY <1>2, <2>1
  <2> QED
    BY <2>1, <2>2 DEF Orders
<1>13. \A i, j \in 1 .. n : order[i] = order[j] => i = j
  <2> TAKE i, j \in 1 .. n
  <2>1. below[order[i]] = i - 1 /\ below[order[j]] = j - 1
    BY <1>8
  <2> QED
    BY <1>2, <2>1
<1> QED
  BY <1>2, <1>9, <1>10, <1>11, <1>12, <1>13 DEF n

-----------------------------------------------------------------------------
(***************************************************************************)
(* Replays.                                                                *)
(***************************************************************************)
\* Records and their places.
LEMMA RecordTypes ==
  ASSUME NEW R \in Seq(Observation)
  PROVE  /\ Len(R) \in Nat /\ DOMAIN R = 1 .. Len(R)
         /\ \A i \in DOMAIN R :
              /\ i \in Nat \ {0} /\ i <= Len(R)
              /\ R[i] \in Observation /\ R[i].observer \in Observers
              /\ R[i].time \in Nat /\ ContextKey(R[i]) \in HostPath
              /\ R[i] # NONE
         /\ \A o : Own(R, o) \subseteq DOMAIN R
         /\ \A i \in DOMAIN R : \A o : i \in Own(R, o) <=> R[i].observer = o
<1>1. Len(R) \in Nat /\ DOMAIN R = 1 .. Len(R)
  OBVIOUS
<1>2. \A i \in DOMAIN R : R[i] \in Observation
  OBVIOUS
<1>3. \A i \in DOMAIN R : i \in Nat \ {0} /\ i <= Len(R)
  BY <1>1
<1>4. \A r \in Observation : r.observer \in Observers /\ r.time \in Nat /\ r.path \in HostPath
  BY DEF Observation
<1>5. \A i \in DOMAIN R : R[i] # NONE
  BY <1>2, NoneIsNoRecord
<1> QED
  BY <1>1, <1>2, <1>3, <1>4, <1>5 DEF Own, ContextKey

\* A log in the order of a replay, where no two records have one time.
Chronological(R) ==
  /\ R \in Seq(Observation)
  /\ \A i, j \in DOMAIN R : i < j => R[i].time < R[j].time

\* No two records were taken at one time.
TimesDiffer(records) ==
  \A i, j \in DOMAIN records : records[i].time = records[j].time => i = j

\* A replay holds the records of the log, no more and no fewer, in the order of
\* their times.
LEMMA ReplaySorts ==
  ASSUME NEW records \in Seq(Observation)
  PROVE  /\ Replay(records) \in Seq(Observation)
         /\ Len(Replay(records)) = Len(records)
         /\ {Replay(records)[n] : n \in DOMAIN Replay(records)}
              = {records[j] : j \in DOMAIN records}
         /\ TimesDiffer(records) => Chronological(Replay(records))
<1> DEFINE D == DOMAIN records
           before == {pair \in D \X D : Precedes(records, pair[1], pair[2])}
           order == InOrder(D, before)
           R == Replay(records)
<1>1. /\ D = 1 .. Len(records) /\ Len(records) \in Nat
      /\ \A i \in D : i \in Nat /\ records[i] \in Observation /\ records[i].time \in Nat
  BY RecordTypes
<1>2. IsFiniteSet(D) /\ Cardinality(D) = Len(records)
  <2> DEFINE n == Len(records)
  <2>1. n \in Nat /\ n \in Int /\ 1 \in Int /\ D = 1 .. n
    BY <1>1
  <2> HIDE DEF n, D
  <2>2. IsFiniteSet(D) /\ Cardinality(D) = n
    BY <2>1, FS_Interval
  <2> QED
    BY <2>2 DEF n
<1>3. \A i, j \in D : <<i, j>> \in before <=> Precedes(records, i, j)
  OBVIOUS
<1>4. R = [n \in D |-> records[order[n]]]
  BY DEF Replay
<1> HIDE DEF D, before, R
<1>5. Orders(before, D)
  <2>1. \A i \in D : <<i, i>> \notin before
    BY <1>1, <1>3 DEF Precedes
  <2>2. \A i, j \in D : i # j => <<i, j>> \in before \/ <<j, i>> \in before
    BY <1>1, <1>3 DEF Precedes
  <2>3. ASSUME NEW i \in D, NEW j \in D, NEW k \in D, <<i, j>> \in before, <<j, k>> \in before
        PROVE  <<i, k>> \in before
    <3>1. Precedes(records, i, j) /\ Precedes(records, j, k)
      BY <1>3, <2>3
    <3>2. /\ records[i].time \in Nat /\ records[j].time \in Nat /\ records[k].time \in Nat
          /\ i \in Nat /\ j \in Nat /\ k \in Nat
      BY <1>1
    <3>3. Precedes(records, i, k)
      BY <3>1, <3>2 DEF Precedes
    <3> QED
      BY <1>3, <3>3
  <2> QED
    BY <2>1, <2>2, <2>3 DEF Orders
<1>6. /\ \A i \in D : order[i] \in D
      /\ \A j \in D : \E i \in D : order[i] = j
      /\ \A i, j \in D : i < j => <<order[i], order[j]>> \in before
      /\ \A i, j \in D : order[i] = order[j] => i = j
  <2> DEFINE o == order
  <2>1. o = InOrder(D, before)
    OBVIOUS
  <2> HIDE DEF o
  <2>2. /\ o \in [1 .. Cardinality(D) -> D]
        /\ \A x \in D : \E i \in 1 .. Cardinality(D) : o[i] = x
        /\ \A i, j \in 1 .. Cardinality(D) : i < j => <<o[i], o[j]>> \in before
        /\ \A i, j \in 1 .. Cardinality(D) : o[i] = o[j] => i = j
    BY <1>2, <1>5, <2>1, Sorted
  <2>3. 1 .. Cardinality(D) = D
    BY <1>1, <1>2
  <2> QED
    BY <2>2, <2>3 DEF o
<1> HIDE DEF order
<1>7. DOMAIN R = D /\ \A i \in D : R[i] = records[order[i]]
  BY <1>4
<1>8. R \in Seq(Observation) /\ Len(R) = Len(records)
  BY <1>1, <1>4, <1>6
<1>9. {R[n] : n \in DOMAIN R} = {records[j] : j \in D}
  BY <1>6, <1>7
<1>10. ASSUME TimesDiffer(records)
       PROVE  Chronological(R)
  <2> SUFFICES ASSUME NEW i \in D, NEW j \in D, i < j
               PROVE  R[i].time < R[j].time
    BY <1>7, <1>8 DEF Chronological
  <2> DEFINE x == order[i]
             y == order[j]
  <2>1. x \in D /\ y \in D /\ <<x, y>> \in before /\ R[i] = records[x] /\ R[j] = records[y]
    BY <1>6, <1>7
  <2>2. x # y
    BY <1>1, <1>6
  <2> HIDE DEF x, y
  <2>3. records[x].time # records[y].time
    BY <1>10, <2>1, <2>2 DEF TimesDiffer, D
  <2>4. Precedes(records, x, y)
    BY <1>3, <2>1
  <2> QED
    BY <2>1, <2>3, <2>4 DEF Precedes
<1> QED
  BY <1>8, <1>9, <1>10 DEF R, D
-----------------------------------------------------------------------------
(***************************************************************************)
(* What a process remembers.                                               *)
(***************************************************************************)
Members(seq) == {seq[i] : i \in DOMAIN seq}

LEMMA AppendedMembers ==
  ASSUME NEW S, NEW seq \in Seq(S), NEW element \in S
  PROVE  Members(Append(seq, element)) = Members(seq) \cup {element}
<1> DEFINE new == Append(seq, element)
<1>1. /\ new \in Seq(S) /\ Len(new) = Len(seq) + 1
      /\ \A i \in 1 .. Len(seq) : new[i] = seq[i]
      /\ new[Len(seq) + 1] = element
  BY AppendProperties
<1>2. /\ Len(seq) \in Nat /\ DOMAIN seq = 1 .. Len(seq)
      /\ DOMAIN new = 1 .. Len(seq) + 1
  BY <1>1
<1> HIDE DEF new
<1>3. \A i \in DOMAIN new : (i \in DOMAIN seq /\ new[i] = seq[i]) \/ new[i] = element
  BY <1>1, <1>2
<1>4. \A i \in DOMAIN seq : i \in DOMAIN new /\ new[i] = seq[i]
  BY <1>1, <1>2
<1>5. Len(seq) + 1 \in DOMAIN new
  BY <1>2
<1>6. {new[i] : i \in DOMAIN new} = {seq[i] : i \in DOMAIN seq} \cup {element}
  BY <1>1, <1>3, <1>4, <1>5
<1> QED
  BY <1>6 DEF new, Members

\* What the session remembers and shows, besides HistoryInvariant.
MemoryInvariant ==
  /\ session.records \in Seq(Observation)
  /\ lives <= MaxLives
  /\ context \in Contexts \cup {NONE}
  /\ MemoryIsLogged

LEMMA SummarizeType ==
  ASSUME NEW records, NEW current
  PROVE  Summarize(records, current) \in Contexts
BY DEF Summarize, CompareContexts, Contexts, Assessments

LEMMA InitMemory == Init => MemoryInvariant
BY CountsAssumption DEF Init, MemoryInvariant, MemoryIsLogged, NoSession

\* A session starts with the log, or with nothing where it cannot be read: no
\* record is its own yet.
LEMMA StartMemory ==
  ASSUME HistoryInvariant, MemoryInvariant, Start
  PROVE  MemoryInvariant'
<1>1. /\ ~running /\ lives' = lives + 1 /\ lives' <= MaxLives /\ file' = file
      /\ session' = Open(file) /\ context' = InitialContext(file)
      /\ LogTyped /\ RecordsNumbered
  BY CountsAssumption DEF Start, HistoryInvariant, LogTyped
<1>2. context' \in Contexts
  BY <1>1 DEF InitialContext, LogTyped, FileStates, Contexts
<1>3. \A r \in Logged : r.pid # lives + 1
  <2>1. \A i \in DOMAIN file.records : file.records[i].pid \in Nat
    BY <1>1, LogMember DEF Observation
  <2> QED
    BY <1>1, <2>1 DEF RecordsNumbered, LogTyped, Logged
<1>4. /\ session'.records \in Seq(Observation)
      /\ Remembered' \subseteq Logged
  <2>1. CASE session'.records = <<>>
    BY <2>1 DEF Remembered
  <2>2. CASE session'.records = Replay(file.records)
    BY <1>1, <2>2, ReplaySorts DEF LogTyped, Remembered, Logged
  <2> QED
    BY <1>1, <2>1, <2>2 DEF Open
<1>5. Logged' = Logged
  BY <1>1 DEF Logged
<1> QED
  BY <1>1, <1>2, <1>3, <1>4, <1>5 DEF MemoryInvariant, MemoryIsLogged

\* A record is written and remembered, or neither.
LEMMA ReceiveMemory ==
  ASSUME HistoryInvariant, MemoryInvariant, NEW u \in Updates, NEW entry \in Neighbors,
         \/ ReceiveOnly(u, entry) \/ AssessPrefix(u, entry)
         \/ Record(u, entry) \/ RecordFails(u, entry)
  PROVE  MemoryInvariant'
<1>1. /\ LogTyped /\ SessionTyped /\ AppTyped /\ UNCHANGED <<lives, running>>
      /\ Admit(u, entry) /\ running
  BY DEF HistoryInvariant, ReceiveOnly, AssessPrefix, Record, RecordFails, Complete, Admit
<1>2. CASE ReceiveOnly(u, entry)
  BY <1>1, <1>2 DEF ReceiveOnly, MemoryInvariant, MemoryIsLogged, Remembered, Logged
<1>3. CASE AssessPrefix(u, entry)
  <2>1. file' = file /\ session'.records = session.records
        /\ session'.writable = session.writable
    BY <1>1, <1>3 DEF AssessPrefix, SessionTyped
  <2>2. context' \in Contexts
    BY <1>3 DEF AssessPrefix, Contexts
  <2> QED
    BY <1>1, <2>1, <2>2 DEF MemoryInvariant, MemoryIsLogged, Remembered, Logged
<1>5. CASE RecordFails(u, entry)
  <2>1. session'.records = session.records /\ session'.writable = FALSE
    BY <1>1, <1>5 DEF RecordFails, SessionTyped
  <2>2. context' \in Contexts
    BY <1>5 DEF RecordFails, Contexts
  <2>3. Logged \subseteq Logged'
    <3>1. Logged = Members(file.records) /\ Logged' = Members(file'.records)
      BY DEF Logged, Members
    <3>2. ASSUME NEW t \in Readings,
                 file' = AppendJsonl(file, Observed(Apply(app, u), NeighborAfter(u, entry), t))
          PROVE  Logged \subseteq Logged'
      <4>1. Observed(Apply(app, u), NeighborAfter(u, entry), t) \in Observation
        BY <1>1, <1>5, AdmitTyped, FailureLeaves, ObservedType
      <4> QED
        BY <1>1, <3>1, <3>2, <4>1, AppendedMembers DEF LogTyped, AppendJsonl
    <3> QED
      BY <1>1, <1>5, <3>1, <3>2, FailureLeaves
  <2> QED
    BY <1>1, <2>1, <2>2, <2>3 DEF MemoryInvariant, MemoryIsLogged, Remembered
<1>4. CASE Record(u, entry)
  <2>1. PICK t \in Readings :
          /\ file' = AppendJsonl(file, Observed(app', neighbor', t))
          /\ session' = [session EXCEPT
                           !.recorded_generation = app'.path_generation,
                           !.records = Append(@, Observed(app', neighbor', t))]
          /\ context' = Summarize(session.records, Observed(app', neighbor', t))
    BY <1>4 DEF Record
  <2> DEFINE record == Observed(app', neighbor', t)
             entryAfter == neighbor'
  <2>2. record \in Observation
    <3>1. entryAfter \in Neighbor \cup {NONE} /\ app' = Apply(app, u) /\ AcceptsUpdate(app, u)
      BY <1>1, <1>4, AdmitTyped DEF Admit, Record, Complete
    <3> HIDE DEF entryAfter
    <3>2. Observed(Apply(app, u), entryAfter, t) \in Observation
      BY <1>1, <3>1, ObservedType
    <3> QED
      BY <3>1, <3>2 DEF entryAfter
  <2> HIDE DEF record
  <2>3. /\ file'.records = Append(file.records, record)
        /\ session'.records = Append(session.records, record)
        /\ session'.writable = session.writable
        /\ context' \in Contexts
    BY <1>1, <2>1, SummarizeType DEF record, AppendJsonl, SessionTyped
  <2>4. Logged' = Logged \cup {record} /\ Remembered' = Remembered \cup {record}
    <3>1. file.records \in Seq(Observation) /\ session.records \in Seq(Observation)
      BY <1>1 DEF LogTyped, MemoryInvariant
    <3>2. /\ Members(Append(file.records, record)) = Members(file.records) \cup {record}
          /\ Members(Append(session.records, record)) = Members(session.records) \cup {record}
      BY <2>2, <3>1, AppendedMembers
    <3>3. /\ Logged = Members(file.records) /\ Logged' = Members(file'.records)
          /\ Remembered = Members(session.records)
          /\ Remembered' = Members(session'.records)
      BY DEF Logged, Remembered, Members
    <3> QED
      BY <2>3, <3>2, <3>3
  <2>5. session'.records \in Seq(Observation)
    BY <2>2, <2>3 DEF MemoryInvariant
  <2> QED
    BY <1>1, <2>3, <2>4, <2>5 DEF MemoryInvariant, MemoryIsLogged
<1> QED
  BY <1>2, <1>3, <1>4, <1>5

\* What others log is nobody's own.
LEMMA OtherWritesMemory ==
  ASSUME HistoryInvariant, MemoryInvariant, OtherWrites
  PROVE  MemoryInvariant'
<1>1. /\ LogTyped /\ SessionTyped
      /\ UNCHANGED <<lives, running, session, app, neighbor, context>>
  BY DEF HistoryInvariant, OtherWrites
<1>2. CASE file' = Torn(file)
  <2>1. file'.records = file.records
    BY <1>2 DEF Torn
  <2> QED
    BY <1>1, <2>1 DEF MemoryInvariant, MemoryIsLogged, Remembered, Logged
<1>3. ASSUME NEW record \in Observation, record.pid = 0, file' = AppendJsonl(file, record)
      PROVE  MemoryInvariant'
  <2>1. file'.records = Append(file.records, record)
    BY <1>3 DEF AppendJsonl
  <2>2. Logged' = Logged \cup {record}
    <3>1. Members(Append(file.records, record)) = Members(file.records) \cup {record}
      BY <1>1, AppendedMembers DEF LogTyped
    <3>2. Logged = Members(file.records) /\ Logged' = Members(file'.records)
      BY DEF Logged, Members
    <3> QED
      BY <2>1, <3>1, <3>2
  <2>3. Remembered' = Remembered /\ (running => record.pid # lives)
    BY <1>1, <1>3 DEF Remembered, SessionTyped, LogTyped
  <2> QED
    BY <1>1, <2>2, <2>3 DEF MemoryInvariant, MemoryIsLogged
<1> QED
  BY <1>1, <1>2, <1>3, OthersRecord

LEMMA NextMemory ==
  ASSUME HistoryInvariant, MemoryInvariant, [Next]_vars
  PROVE  MemoryInvariant'
<1>1. CASE Start
  BY <1>1, StartMemory
<1>2. CASE Receive
  BY <1>2, ReceiveMemory DEF Receive
<1>3. CASE End \/ \E u \in Updates, entry \in Neighbors : DieInAppend(u, entry)
  <2>1. Gone /\ lives' = lives
    BY <1>3 DEF End, DieInAppend
  <2>2. session'.records = <<>> /\ context' = NONE /\ ~running'
    BY <2>1 DEF Gone, NoSession
  <2> QED
    BY <2>1, <2>2 DEF MemoryInvariant, MemoryIsLogged
<1>4. CASE OtherWrites
  BY <1>4, OtherWritesMemory
<1>5. CASE UNCHANGED vars
  BY <1>5 DEF vars, MemoryInvariant, MemoryIsLogged, Remembered, Logged
<1> QED
  BY <1>1, <1>2, <1>3, <1>4, <1>5 DEF Next

LEMMA MemoryInductive == Spec => [](HistoryInvariant /\ MemoryInvariant)
<1>1. Init => HistoryInvariant /\ MemoryInvariant
  BY InitHistory, InitMemory
<1>2. HistoryInvariant /\ MemoryInvariant /\ [Next]_vars
        => (HistoryInvariant /\ MemoryInvariant)'
  BY NextHistory, NextMemory
<1> QED
  BY <1>1, <1>2, PTL DEF Spec

\* What a process compares a context with was really logged, whatever append
\* failed; and until one has, everything it logged itself is among it.
THEOREM ComparesWithTheLog == Spec => []MemoryIsLogged
<1>1. MemoryInvariant => MemoryIsLogged
  BY DEF MemoryInvariant
<1> QED
  BY <1>1, MemoryInductive, PTL

\* A process numbers what it logs upwards, adds nothing after an append that
\* failed, and no pid is ever used again.
THEOREM NumbersGoUp == Spec => []RecordsNumbered
<1>1. HistoryInvariant => RecordsNumbered
  BY DEF HistoryInvariant
<1> QED
  BY <1>1, HistoryInductive, PTL

\* The log, the process and its App keep their types.
THEOREM HistoryTypeCorrect == Spec => []HistoryTypeOK
<1>1. HistoryInvariant /\ MemoryInvariant => HistoryTypeOK
  BY DEF HistoryInvariant, MemoryInvariant, LogTyped, SessionTyped, AppTyped,
         HistoryTypeOK, HistorySession
<1> QED
  BY <1>1, MemoryInductive, PTL
-----------------------------------------------------------------------------
(***************************************************************************)
(* The link address in a record.                                           *)
(***************************************************************************)
\* A record of another process, or one without a link address, or with that of
\* a router that has the gateway's address on the interface.
Answered(r) ==
  r.pid > 0 /\ r.path.mac # NONE =>
    \E l \in OsLinks :
      /\ l.interface = r.path.interface
      /\ l.gateway = r.path.gateway
      /\ r.path.mac = RouterOf[l]

AnchorInvariant ==
  /\ AnchorAnswersForGateway
  /\ app.link \in OsLinks \cup {NONE}
  /\ neighbor \in Neighbors

\* The App has the link of one of the host's networks.
LEMMA AdmittedLink ==
  ASSUME AppTyped, app.link \in OsLinks \cup {NONE}, NEW u \in Updates
  PROVE  /\ Apply(app, u).link \in OsLinks \cup {NONE}
         /\ AcceptsUpdate(app, u) => Apply(app, u).link \in OsLinks
<1>1. u \in MonitorUpdate /\ app \in App
  BY UpdatesType DEF AppTyped
<1>2. u.type = "Link" => u.link \in OsLinks
  BY DEF Updates, Links, Collections, LinkUpdate, CollectedUpdate, SettlingUpdate
<1>3. \/ Apply(app, u).link = app.link
      \/ u.type = "Link" /\ Apply(app, u).link = u.link
  <2>1. u.type \in {"Link", "PathSettling", "Collected", "ProbeStarted", "ProbeFinished"}
    BY <1>1 DEF MonitorUpdate
  <2>2. u.type = "Link" => ApplyLink(app, u).link = u.link
    BY <1>1, ApplyLinkPaths
  <2>3. u.type # "Link" => Apply(app, u).link = app.link
    BY <1>1, <2>1 DEF Apply, ApplyPathSettling, ApplyCollected, ApplyProbeStarted,
      ApplyProbeFinished, App
  <2>4. u.type = "Link" => Apply(app, u) \in {app, ApplyLink(app, u)}
    BY DEF Apply
  <2> QED
    BY <2>2, <2>3, <2>4
<1>4. Apply(app, u).link \in OsLinks \cup {NONE}
  BY <1>2, <1>3
<1> QED
  BY <1>4, AdmittedGeneration

\* What would be recorded has the link address of such a router or none.
LEMMA ObservedAnchor ==
  ASSUME NEW a, a.link \in OsLinks, NEW entry \in Neighbors, NEW time
  PROVE  Answered(Observed(a, entry, time))
<1> DEFINE record == Observed(a, entry, time)
<1>1. /\ record.path.mac = NextHopLinkAddress(a.link, entry)
      /\ record.path.interface = a.link.interface
      /\ record.path.gateway = a.link.gateway
  BY DEF Observed
<1>2. ASSUME record.path.mac # NONE
      PROVE  \E l \in OsLinks :
               /\ l.interface = a.link.interface
               /\ l.gateway = a.link.gateway
               /\ record.path.mac = RouterOf[l]
  <2>1. /\ entry # NONE /\ entry.address = a.link.gateway /\ a.link.gateway # NONE
        /\ entry.interface = a.link.interface /\ ~entry.conflict
        /\ record.path.mac = entry.mac
    BY <1>1, <1>2 DEF NextHopLinkAddress
  <2>2. entry \in OfGateways
    BY <2>1 DEF Neighbors, OfOthers
  <2>3. PICK l \in OsLinks :
          /\ l.gateway # NONE /\ entry \in Neighbor
          /\ entry.address = l.gateway /\ entry.interface = l.interface
          /\ entry.conflict <=> entry.mac # RouterOf[l]
    BY <2>2 DEF OfGateways
  <2>4. entry.mac = RouterOf[l]
    BY <2>1, <2>3
  <2> QED
    BY <2>1, <2>3, <2>4
<1> HIDE DEF record
<1>3. record.path.mac # NONE =>
        \E l \in OsLinks :
          /\ l.interface = record.path.interface
          /\ l.gateway = record.path.gateway
          /\ record.path.mac = RouterOf[l]
  BY <1>1, <1>2
<1> QED
  BY <1>3 DEF Answered, record

\* The records after a step are those before it and perhaps one with such an
\* address.
LEMMA AnchorsStay ==
  ASSUME AnchorAnswersForGateway, LogTyped, NEW record \in Observation, Answered(record),
         \/ file'.records = file.records
         \/ file'.records = Append(file.records, record)
  PROVE  AnchorAnswersForGateway'
<1>1. Members(file'.records) \subseteq Members(file.records) \cup {record}
  <2>1. Members(Append(file.records, record)) = Members(file.records) \cup {record}
    BY AppendedMembers DEF LogTyped
  <2> QED
    BY <2>1
<1>2. Logged = Members(file.records) /\ Logged' = Members(file'.records)
  BY DEF Logged, Members
<1>3. \A r \in Logged' : Answered(r)
  BY <1>1, <1>2 DEF AnchorAnswersForGateway, Answered
<1> QED
  BY <1>3 DEF AnchorAnswersForGateway, Answered

LEMMA NextAnchor ==
  ASSUME HistoryInvariant, AnchorInvariant, [Next]_vars
  PROVE  AnchorInvariant'
<1>1. /\ LogTyped /\ AppTyped /\ AnchorAnswersForGateway
      /\ app.link \in OsLinks \cup {NONE} /\ neighbor \in Neighbors
  BY DEF HistoryInvariant, AnchorInvariant
<1>2. ASSUME file'.records = file.records
      PROVE  AnchorAnswersForGateway'
  BY <1>1, <1>2 DEF AnchorAnswersForGateway, Logged
<1>3. ASSUME NEW u \in Updates, NEW entry \in Neighbors
      PROVE  NeighborAfter(u, entry) \in Neighbors
  BY <1>1 DEF NeighborAfter, Neighbors
<1>12. ASSUME NEW u \in Updates, NEW entry \in Neighbors, AcceptsUpdate(app, u), NEW t \in Readings,
             file'.records = Append(file.records, Observed(Apply(app, u), NeighborAfter(u, entry), t))
      PROVE  AnchorAnswersForGateway'
  <2>1. Observed(Apply(app, u), NeighborAfter(u, entry), t) \in Observation
    <3>1. NeighborAfter(u, entry) \in Neighbor \cup {NONE}
      BY <1>3 DEF Neighbors, OfGateways, OfOthers
    <3> QED
      BY <1>12, <1>1, <3>1, ObservedType
  <2>2. Answered(Observed(Apply(app, u), NeighborAfter(u, entry), t))
    BY <1>12, <1>1, <1>3, AdmittedLink, ObservedAnchor
  <2> QED
    BY <1>12, <1>1, <2>1, <2>2, AnchorsStay
<1>4. CASE Start \/ UNCHANGED vars
  BY <1>1, <1>2, <1>4 DEF Start, vars, AnchorInvariant
<1>5. ASSUME NEW u \in Updates, NEW entry \in Neighbors, Admit(u, entry)
      PROVE  app'.link \in OsLinks \cup {NONE} /\ neighbor' \in Neighbors
  BY <1>1, <1>3, <1>5, AdmittedLink DEF Admit
<1>6. ASSUME NEW u \in Updates, NEW entry \in Neighbors,
             ReceiveOnly(u, entry) \/ AssessPrefix(u, entry)
      PROVE  AnchorInvariant'
  BY <1>2, <1>5, <1>6 DEF ReceiveOnly, AssessPrefix, Complete, AnchorInvariant
<1>7. ASSUME NEW u \in Updates, NEW entry \in Neighbors,
             Record(u, entry) \/ RecordFails(u, entry)
      PROVE  AnchorInvariant'
  <2>1. /\ Admit(u, entry) /\ AcceptsUpdate(app, u) /\ app' = Apply(app, u)
        /\ neighbor' = NeighborAfter(u, entry)
    BY <1>7 DEF Record, RecordFails, Complete, Admit
  <2>2. CASE Record(u, entry)
    <3>1. PICK t \in Readings :
            file'.records = Append(file.records, Observed(Apply(app, u), NeighborAfter(u, entry), t))
      BY <2>1, <2>2 DEF Record, AppendJsonl
    <3> QED
      BY <1>12, <1>5, <2>1, <3>1 DEF AnchorInvariant
  <2>3. CASE RecordFails(u, entry)
    <3>1. \/ file'.records = file.records
          \/ \E t \in Readings :
               file'.records
                 = Append(file.records, Observed(Apply(app, u), NeighborAfter(u, entry), t))
      BY <1>1, <2>3, FailureLeaves DEF AppendJsonl
    <3> QED
      BY <1>12, <1>2, <1>5, <2>1, <3>1 DEF AnchorInvariant
  <2> QED
    BY <1>7, <2>2, <2>3
<1>8. ASSUME Gone, AnchorAnswersForGateway'
      PROVE  AnchorInvariant'
  BY <1>8 DEF Gone, NewApp, Neighbors, AnchorInvariant
<1>9. ASSUME NEW u \in Updates, NEW entry \in Neighbors, DieInAppend(u, entry)
      PROVE  AnchorInvariant'
  <2>1. AcceptsUpdate(app, u) /\ Gone
    BY <1>9 DEF DieInAppend
  <2>2. PICK t \in Readings :
          \/ file'.records = file.records
          \/ file'.records = Append(file.records, Observed(Apply(app, u), NeighborAfter(u, entry), t))
    BY <1>9 DEF DieInAppend, Unfinished, AppendJsonl, Touched, Torn
  <2> QED
    BY <1>12, <1>2, <1>8, <2>1, <2>2
<1>10. CASE End
  BY <1>2, <1>8, <1>10 DEF End
<1>11. CASE OtherWrites
  <2>1. \/ file'.records = file.records
        \/ \E record \in Observation :
             Answered(record) /\ file'.records = Append(file.records, record)
    BY <1>11, OthersRecord DEF Torn, AppendJsonl, Answered
  <2>2. AnchorAnswersForGateway'
    BY <1>1, <1>2, <2>1, AnchorsStay
  <2> QED
    BY <1>11, <2>2 DEF OtherWrites, AnchorInvariant, Neighbors
<1> QED
  BY <1>4, <1>6, <1>7, <1>9, <1>10, <1>11 DEF Next, Receive

\* The link address that identifies a recorded network is that of a router with
\* the gateway's address on its interface, on every host, whatever networks it
\* moves between while its cache is read, and whatever other answers are in it.
THEOREM AnchorsAnswer == Spec => []AnchorAnswersForGateway
<1>1. Init => AnchorInvariant
  <2> SUFFICES ASSUME Init PROVE AnchorInvariant
    OBVIOUS
  <2>1. \A i \in DOMAIN file.records : file.records[i].pid = 0
    BY InitialFilesAssumption DEF Init
  <2> QED
    BY <2>1 DEF Init, AnchorInvariant, AnchorAnswersForGateway, Logged, NewApp, Neighbors
<1>2. HistoryInvariant /\ AnchorInvariant /\ [Next]_vars => AnchorInvariant'
  BY NextAnchor
<1>3. AnchorInvariant => AnchorAnswersForGateway
  BY DEF AnchorInvariant
<1> QED
  BY <1>1, <1>2, <1>3, HistoryInductive, PTL DEF Spec
-----------------------------------------------------------------------------
(***************************************************************************)
(* What the loop over the records has after each of them.                  *)
(***************************************************************************)
\* Every set of natural numbers but the empty one has a least element.
LEMMA LeastNumber ==
  ASSUME NEW S \in SUBSET Nat, S # {}
  PROVE  \E n \in S : \A m \in S : ~ (m < n)
<1> DEFINE R == OpToRel(<, Nat)
<1>1. PICK n \in S : \A m \in S : ~ (<<m, n>> \in R)
  <2>1. IsWellFoundedOn(R, Nat)
    BY NatLessThanWellFounded
  <2> HIDE DEF R
  <2> QED
    BY <2>1, WFMin
<1> QED
  BY <1>1 DEF OpToRel

\* The loop, from its beginning to its n-th record.
Loops(records, n, after) ==
  after = [i \in 0 .. n |-> IF i = 0 THEN NoHistory ELSE Reduce(after[i - 1], records[i])]

\* The loop over any number of records has a result.
LEMMA LoopExists ==
  ASSUME NEW records, NEW n \in Nat
  PROVE  \E after : Loops(records, n, after)
<1> DEFINE C == {i \in Nat : ~ \E after : Loops(records, i, after)}
<1>1. SUFFICES ASSUME C # {} PROVE FALSE
  OBVIOUS
<1>2. PICK m \in C : \A i \in C : ~ (i < m)
  <2>1. C \in SUBSET Nat
    OBVIOUS
  <2> HIDE DEF C
  <2> QED
    BY <1>1, <2>1, LeastNumber
<1>3. m \in Nat /\ ~ \E after : Loops(records, m, after)
  OBVIOUS
<1>4. CASE m = 0
  <2> DEFINE first == [i \in 0 .. 0 |-> NoHistory]
  <2>1. \A i \in 0 .. 0 : i = 0
    OBVIOUS
  <2>2. first = [i \in 0 .. 0 |-> IF i = 0 THEN NoHistory ELSE Reduce(first[i - 1], records[i])]
    BY <2>1
  <2>3. Loops(records, 0, first)
    BY <2>2 DEF Loops
  <2> QED
    BY <1>3, <1>4, <2>3
<1>5. CASE m # 0
  <2>1. m - 1 \in Nat /\ m - 1 < m
    BY <1>3, <1>5
  <2>2. PICK g : Loops(records, m - 1, g)
    BY <1>2, <2>1
  <2>3. g = [i \in 0 .. m - 1 |-> IF i = 0 THEN NoHistory ELSE Reduce(g[i - 1], records[i])]
    BY <2>2 DEF Loops
  <2> HIDE DEF C
  <2> DEFINE W(i) == IF i = m THEN Reduce(g[m - 1], records[m]) ELSE g[i]
             h == [i \in 0 .. m |-> W(i)]
  <2>4. \A i \in 0 .. m : h[i] = W(i)
    OBVIOUS
  <2>5. \A i \in 0 .. m :
          h[i] = IF i = 0 THEN NoHistory ELSE Reduce(h[i - 1], records[i])
    <3> TAKE i \in 0 .. m
    <3>1. CASE i = m
      <4>1. h[m] = Reduce(g[m - 1], records[m])
        BY <2>4, <3>1
      <4>2. m - 1 \in 0 .. m /\ m - 1 # m
        BY <1>3, <2>1
      <4>3. h[m - 1] = g[m - 1]
        BY <2>4, <4>2
      <4> HIDE DEF h
      <4> QED
        BY <1>5, <3>1, <4>1, <4>3
    <3>2. CASE i # m
      <4>1. i \in 0 .. m - 1 /\ h[i] = g[i]
        BY <1>3, <2>4, <3>2
      <4>2. g[i] = IF i = 0 THEN NoHistory ELSE Reduce(g[i - 1], records[i])
        BY <2>3, <4>1
      <4>3. i # 0 => i - 1 \in 0 .. m /\ i - 1 # m
        BY <1>3, <3>2
      <4>4. i # 0 => h[i - 1] = g[i - 1]
        BY <2>4, <4>3
      <4> HIDE DEF h
      <4> QED
        BY <4>1, <4>2, <4>4
    <3> QED
      BY <3>1, <3>2
  <2>6. h = [i \in 0 .. m |-> h[i]]
    OBVIOUS
  <2> HIDE DEF h
  <2>7. [i \in 0 .. m |-> h[i]]
          = [i \in 0 .. m |-> IF i = 0 THEN NoHistory ELSE Reduce(h[i - 1], records[i])]
    BY <2>5
  <2>8. Loops(records, m, h)
    BY <2>6, <2>7, Zenon DEF Loops
  <2> QED
    BY <1>3, <2>8
<1> QED
  BY <1>4, <1>5

\* One record at a time.
LEMMA ReducedByOne ==
  ASSUME NEW records, Len(records) \in Nat
  PROVE  /\ Reduced(records)[0] = NoHistory
         /\ \A n \in 1 .. Len(records) :
              Reduced(records)[n] = Reduce(Reduced(records)[n - 1], records[n])
<1> DEFINE after == Reduced(records)
           n == Len(records)
<1>1. after = CHOOSE g : Loops(records, n, g)
  BY DEF Reduced, Loops
<1>2. \E g : Loops(records, n, g)
  BY LoopExists
<1>3. Loops(records, n, after)
  BY <1>1, <1>2
<1> HIDE DEF after
<1>4. after = [i \in 0 .. n |-> IF i = 0 THEN NoHistory ELSE Reduce(after[i - 1], records[i])]
  BY <1>3 DEF Loops
<1>5. \A i \in 0 .. n : after[i] = IF i = 0 THEN NoHistory ELSE Reduce(after[i - 1], records[i])
  BY <1>4, Zenon
<1>6. 0 \in 0 .. n /\ \A i \in 1 .. n : i \in 0 .. n /\ i # 0
  OBVIOUS
<1>7. after[0] = NoHistory
  BY <1>5, <1>6
<1>8. \A i \in 1 .. n : after[i] = Reduce(after[i - 1], records[i])
  BY <1>5, <1>6
<1> QED
  BY <1>7, <1>8 DEF after
-----------------------------------------------------------------------------
(***************************************************************************)
(* Runs of records with one key.                                           *)
(***************************************************************************)
\* What there is of an observer before a place.
Seen(R, m, o) == {i \in Own(R, o) : i < m}

OtherKey(R, a) ==
  {i \in Own(R, R[a].observer) : ContextKey(R[i]) # ContextKey(R[a])}

\* A run up to b that may go on, and its end.
IsOpen(R, a, b) ==
  /\ b \in Own(R, R[a].observer) /\ a <= b
  /\ OtherKey(R, a) \cap (a .. b) = {}
  /\ \A i \in Own(R, R[a].observer) : i < a => \E j \in OtherKey(R, a) : i <= j /\ j < a

IsClosed(R, a, b) ==
  \A i \in Own(R, R[a].observer) : b < i => \E j \in OtherKey(R, a) : b < j /\ j <= i

\* A run is open up to its end and closed there.
LEMMA RunParts ==
  ASSUME NEW R, NEW a, NEW b
  PROVE  IsRun(R, a, b) <=> IsOpen(R, a, b) /\ IsClosed(R, a, b)
BY DEF IsRun, IsOpen, IsClosed, OtherKey

\* The records of a stretch, and a run, are of the observer of its first.
LEMMA OpenSays ==
  ASSUME NEW R \in Seq(Observation), NEW a \in DOMAIN R, NEW b, IsOpen(R, a, b)
  PROVE  /\ b \in DOMAIN R /\ a <= b /\ R[b].observer = R[a].observer
         /\ a \in Own(R, R[a].observer)
         /\ \A i \in Own(R, R[a].observer) : a <= i /\ i <= b =>
              ContextKey(R[i]) = ContextKey(R[a])
         /\ ContextKey(R[b]) = ContextKey(R[a])
<1>1. b \in Own(R, R[a].observer) /\ a <= b /\ OtherKey(R, a) \cap (a .. b) = {}
  BY DEF IsOpen
<1>2. b \in DOMAIN R /\ R[b].observer = R[a].observer /\ a \in Own(R, R[a].observer)
  BY <1>1 DEF Own
<1>3. \A i \in Own(R, R[a].observer) : a <= i /\ i <= b =>
        ContextKey(R[i]) = ContextKey(R[a])
  <2> TAKE i \in Own(R, R[a].observer)
  <2> HAVE a <= i /\ i <= b
  <2>1. i \in DOMAIN R
    BY DEF Own
  <2>2. i \in a .. b
    BY <1>2, <2>1, RecordTypes
  <2> QED
    BY <1>1, <2>2 DEF OtherKey
<1>4. b <= b
  BY <1>2, RecordTypes
<1> QED
  BY <1>1, <1>2, <1>3, <1>4

\* What is open up to one place began at one place.
LEMMA OneBeginning ==
  ASSUME NEW R \in Seq(Observation), NEW a \in DOMAIN R, NEW c \in DOMAIN R, NEW b,
         IsOpen(R, a, b), IsOpen(R, c, b)
  PROVE  a = c
<1>1. ASSUME NEW x \in DOMAIN R, NEW y \in DOMAIN R, IsOpen(R, x, b), IsOpen(R, y, b), x < y
      PROVE  FALSE
  <2>1. /\ R[x].observer = R[y].observer /\ ContextKey(R[x]) = ContextKey(R[y])
        /\ x \in Own(R, R[y].observer) /\ y <= b /\ b \in DOMAIN R
    BY <1>1, OpenSays
  <2>2. PICK j \in OtherKey(R, y) : x <= j /\ j < y
    BY <1>1, <2>1 DEF IsOpen
  <2>3. j \in Own(R, R[x].observer) /\ ContextKey(R[j]) # ContextKey(R[x]) /\ j \in DOMAIN R
    BY <2>1, <2>2 DEF OtherKey, Own
  <2>4. j <= b
    BY <1>1, <2>1, <2>2, <2>3, RecordTypes
  <2> QED
    BY <1>1, <2>2, <2>3, <2>4, OpenSays
<1>2. ~ (a < c) /\ ~ (c < a)
  BY <1>1
<1> QED
  BY <1>2, RecordTypes

\* What began at one place ends at one place.
LEMMA OneEnd ==
  ASSUME NEW R \in Seq(Observation), NEW a \in DOMAIN R, NEW b, NEW c,
         IsRun(R, a, b), IsRun(R, a, c)
  PROVE  b = c
<1>1. ASSUME NEW x, NEW y, IsRun(R, a, x), IsRun(R, a, y), x < y
      PROVE  FALSE
  <2>1. IsOpen(R, a, y) /\ IsClosed(R, a, x) /\ IsOpen(R, a, x)
    BY <1>1, RunParts
  <2>2. y \in Own(R, R[a].observer)
    BY <2>1 DEF IsOpen
  <2>3. PICK j \in OtherKey(R, a) : x < j /\ j <= y
    BY <1>1, <2>1, <2>2 DEF IsClosed
  <2>4. /\ j \in Own(R, R[a].observer) /\ ContextKey(R[j]) # ContextKey(R[a])
        /\ j \in DOMAIN R
    BY <2>3 DEF OtherKey, Own
  <2>5. a <= j
    <3>1. a <= x /\ x \in DOMAIN R
      BY <2>1, OpenSays
    <3> QED
      BY <2>3, <2>4, <3>1, RecordTypes
  <2> QED
    BY <2>1, <2>3, <2>4, <2>5, OpenSays
<1>2. ~ (b < c) /\ ~ (c < b)
  BY <1>1
<1>3. b \in DOMAIN R /\ c \in DOMAIN R
  BY RunParts, OpenSays
<1> QED
  BY <1>2, <1>3, RecordTypes

\* The places of a log are finitely many, and so are its runs.
LEMMA FinitelyMany ==
  ASSUME NEW R \in Seq(Observation)
  PROVE  /\ IsFiniteSet(DOMAIN R)
         /\ \A S \in SUBSET (DOMAIN R) : IsFiniteSet(S) /\ Cardinality(S) \in Nat
         /\ IsFiniteSet(Runs(R))
         /\ \A S \in SUBSET Runs(R) : IsFiniteSet(S) /\ Cardinality(S) \in Nat
<1>1. IsFiniteSet(DOMAIN R)
  <2> DEFINE n == Len(R)
  <2>1. n \in Nat /\ n \in Int /\ 1 \in Int /\ DOMAIN R = 1 .. n
    OBVIOUS
  <2> HIDE DEF n
  <2> QED
    BY <2>1, FS_Interval
<1>2. IsFiniteSet((DOMAIN R) \X (DOMAIN R))
  BY <1>1, FS_Product
<1>3. Runs(R) \in SUBSET ((DOMAIN R) \X (DOMAIN R))
  BY DEF Runs
<1>4. IsFiniteSet(Runs(R))
  BY <1>2, <1>3, FS_Subset
<1> QED
  BY <1>1, <1>4, FS_Subset, FS_CardinalityType

\* A run is a pair of places.
LEMMA RunsSay ==
  ASSUME NEW R, NEW r \in Runs(R)
  PROVE  r[1] \in DOMAIN R /\ r[2] \in DOMAIN R /\ r = <<r[1], r[2]>> /\ IsRun(R, r[1], r[2])
BY DEF Runs

\* Each field of an episode.
KindOf(R, a) ==
  IF Seen(R, a, R[a].observer) = {} THEN "Initial"
  ELSE IF Earlier(R, a) # {} THEN "Returned" ELSE "Changed"

ChangedIn(R, a, b) ==
  UNION {ChangedDimensions(R[q[1]], R[q[2]]) : q \in Successions(R, a, b)}

LEMMA EpisodeSays ==
  ASSUME NEW R \in Seq(Observation), NEW a \in DOMAIN R, NEW b
  PROVE  EpisodeOf(R, a, b) =
           [observer     |-> R[a].observer,
            key          |-> ContextKey(R[a]),
            kind         |-> KindOf(R, a),
            onset        |-> R[a].time,
            latest       |-> R[b].time,
            recovery     |-> IF KindOf(R, a) = "Returned" THEN R[a].time ELSE NONE,
            observations |-> Cardinality(Stretch(R, a, b)),
            prior        |-> Cardinality(Earlier(R, a)),
            changed      |-> ChangedIn(R, a, b)]
<1>1. ASSUME a \in DOMAIN R
      PROVE  (\A i \in Own(R, R[a].observer) : i >= a) <=> Seen(R, a, R[a].observer) = {}
  <2>1. \A i \in Own(R, R[a].observer) : i \in Nat /\ a \in Nat
    BY <1>1, RecordTypes
  <2> QED
    BY <2>1 DEF Seen
<1> QED
  BY <1>1 DEF EpisodeOf, KindOf, ChangedIn

\* What a comparison may name.
LEMMA ChangedType ==
  ASSUME NEW x \in Observation, NEW y \in Observation
  PROVE  ChangedDimensions(x, y) \in
           SUBSET {"interface", "ssid", "gateway", "mac", "resolvers"}
BY DEF ChangedDimensions, Observation, HostPath

\* An episode is one, and never nothing.
LEMMA EpisodeType ==
  ASSUME NEW R \in Seq(Observation), NEW a \in DOMAIN R, NEW b \in DOMAIN R
  PROVE  EpisodeOf(R, a, b) \in Episode /\ EpisodeOf(R, a, b) # NONE
<1> DEFINE e == EpisodeOf(R, a, b)
<1>1. /\ R[a].observer \in Observers /\ R[a].time \in Nat /\ R[b].time \in Nat
      /\ ContextKey(R[a]) \in HostPath
  BY RecordTypes
<1>2. Stretch(R, a, b) \in SUBSET (DOMAIN R) /\ Earlier(R, a) \in SUBSET Runs(R)
  BY DEF Stretch, Own, Earlier
<1>3. Cardinality(Stretch(R, a, b)) \in Nat /\ Cardinality(Earlier(R, a)) \in Nat
  BY <1>2, FinitelyMany
<1>4. ASSUME NEW q \in Successions(R, a, b)
      PROVE  ChangedDimensions(R[q[1]], R[q[2]]) \in
               SUBSET {"interface", "ssid", "gateway", "mac", "resolvers"}
  <2>1. q[1] \in 1 .. b /\ q[2] \in Stretch(R, a, b)
    BY DEF Successions
  <2>2. q[1] \in DOMAIN R /\ q[2] \in DOMAIN R
    BY <1>2, <2>1, RecordTypes
  <2> QED
    BY <2>2, ChangedType, RecordTypes
<1>5. ChangedIn(R, a, b) \in SUBSET {"interface", "ssid", "gateway", "mac", "resolvers"}
  BY <1>4 DEF ChangedIn
<1>6. KindOf(R, a) \in {"Initial", "Returned", "Changed"}
  BY DEF KindOf
<1> HIDE DEF e
<1>7. e \in Episode
  BY <1>1, <1>3, <1>5, <1>6, EpisodeSays DEF Episode, e
<1> QED
  BY <1>7, NoneIsNoEpisode DEF e

\* When it began tells an episode from every other.
LEMMA OnsetTells ==
  ASSUME NEW R, Chronological(R), NEW r \in Runs(R), NEW q \in Runs(R),
         R[r[1]].time = R[q[1]].time
  PROVE  r = q
<1>1. R \in Seq(Observation) /\ \A i, j \in DOMAIN R : i < j => R[i].time < R[j].time
  BY DEF Chronological
<1>2. r[1] = q[1]
  <2>1. /\ r[1] \in DOMAIN R /\ q[1] \in DOMAIN R
        /\ r[1] \in Nat /\ q[1] \in Nat /\ R[r[1]].time \in Nat
    BY <1>1, RunsSay, RecordTypes
  <2>2. ~ (r[1] < q[1]) /\ ~ (q[1] < r[1])
    BY <1>1, <2>1
  <2> QED
    BY <2>1, <2>2
<1>3. r[2] = q[2]
  BY <1>1, <1>2, RunsSay, OneEnd
<1> QED
  BY <1>2, <1>3, RunsSay
-----------------------------------------------------------------------------
(***************************************************************************)
(* After every record the loop has the runs that are over, and per         *)
(* observer the one that may go on.                                        *)
(***************************************************************************)
\* The runs of which a later record has been seen.
Over(R, m) == {r \in Runs(R) : \E c \in Seen(R, m, R[r[1]].observer) : r[2] < c}

\* What has been seen last of an observer is at b, in a run from a.
Latest(R, m, o, a, b) ==
  /\ b \in Seen(R, m, o) /\ \A i \in Seen(R, m, o) : i <= b
  /\ a \in DOMAIN R /\ R[a].observer = o /\ IsOpen(R, a, b)

\* What the loop has of an observer: x is its episode and y its last record.
Stands(R, m, o, x, y) ==
  \/ Seen(R, m, o) = {} /\ x = NONE /\ y = NONE
  \/ \E a, b \in DOMAIN R : Latest(R, m, o, a, b) /\ x = EpisodeOf(R, a, b) /\ y = R[b]

Follows(R, m, s) ==
  /\ s = [active |-> s.active, previous |-> s.previous, finished |-> s.finished]
  /\ s.active = [o \in Observers |-> s.active[o]]
  /\ s.previous = [o \in Observers |-> s.previous[o]]
  /\ \A o \in Observers : Stands(R, m, o, s.active[o], s.previous[o])
  /\ s.finished = {EpisodeOf(R, r[1], r[2]) : r \in Over(R, m)}

\* Before the first record the loop has nothing, as there is nothing.
LEMMA NothingSeen ==
  ASSUME NEW R \in Seq(Observation)
  PROVE  Follows(R, 1, NoHistory)
<1>1. \A o : Seen(R, 1, o) = {}
  <2>1. \A i \in DOMAIN R : ~ (i < 1)
    BY RecordTypes
  <2> QED
    BY <2>1 DEF Seen, Own
<1>2. Over(R, 1) = {}
  BY <1>1 DEF Over
<1> QED
  BY <1>1, <1>2 DEF Follows, Stands, NoHistory

\* One record more.
LEMMA SeenGrows ==
  ASSUME NEW R \in Seq(Observation), NEW m \in DOMAIN R, NEW o
  PROVE  /\ \A i : i \in Seen(R, m + 1, o)
                   <=> i \in Seen(R, m, o) \/ (i = m /\ R[m].observer = o)
         /\ \A i \in Seen(R, m, o) : i \in DOMAIN R /\ i \in Nat /\ i < m /\ R[i].observer = o
<1>1. \A i \in DOMAIN R : i \in Nat
  BY RecordTypes
<1>2. \A i : i \in Own(R, o) <=> i \in DOMAIN R /\ R[i].observer = o
  BY DEF Own
<1>3. \A i \in Nat : i < m + 1 <=> i < m \/ i = m
  BY <1>1
<1> QED
  BY <1>1, <1>2, <1>3 DEF Seen

\* What has been seen of an observer before its record is what came before it.
LEMMA LastBefore ==
  ASSUME NEW R \in Seq(Observation), NEW m \in DOMAIN R,
         NEW a, NEW b, Latest(R, m, R[m].observer, a, b)
  PROVE  /\ b \in DOMAIN R /\ b \in Nat /\ b < m /\ R[b].observer = R[m].observer
         /\ \A i \in Own(R, R[m].observer) : i < m => i <= b
<1> DEFINE o == R[m].observer
<1>1. b \in Seen(R, m, o) /\ \A i \in Seen(R, m, o) : i <= b
  BY DEF Latest
<1>2. \A i \in Own(R, o) : i < m => i \in Seen(R, m, o)
  BY DEF Seen
<1> HIDE DEF o
<1> QED
  BY <1>1, <1>2, SeenGrows DEF o

\* A record of the key its observer had goes on with the run.
LEMMA RunGoesOn ==
  ASSUME NEW R \in Seq(Observation), NEW m \in DOMAIN R,
         NEW a, NEW b, Latest(R, m, R[m].observer, a, b), ContextKey(R[m]) = ContextKey(R[a])
  PROVE  /\ IsOpen(R, a, m)
         /\ \A i : i \in Stretch(R, a, m) <=> i \in Stretch(R, a, b) \/ i = m
         /\ m \notin Stretch(R, a, b)
         /\ \A q : q \in Successions(R, a, m) <=> q \in Successions(R, a, b) \/ q = <<b, m>>
<1> DEFINE own == Own(R, R[m].observer)
<1>1. /\ a \in DOMAIN R /\ R[a].observer = R[m].observer /\ IsOpen(R, a, b)
      /\ b \in DOMAIN R /\ b \in Nat /\ b < m /\ R[b].observer = R[m].observer
      /\ \A i \in own : i < m => i <= b
  BY LastBefore DEF Latest
<1>2. /\ a \in Nat \ {0} /\ m \in Nat /\ a <= b /\ a < m
      /\ \A i \in own : i \in DOMAIN R /\ i \in Nat \ {0} /\ R[i].observer = R[m].observer
      /\ a \in own /\ b \in own /\ m \in own
  BY <1>1, OpenSays, RecordTypes DEF Own
<1>3. \A i \in own : a <= i /\ i <= b => ContextKey(R[i]) = ContextKey(R[a])
  BY <1>1, OpenSays
<1> HIDE DEF own
<1>4. \A i \in own : i <= m => i <= b \/ i = m
  BY <1>1, <1>2
<1>5. IsOpen(R, a, m)
  <2>1. \A i \in own : i < a => \E j \in OtherKey(R, a) : i <= j /\ j < a
    BY <1>1 DEF IsOpen, own
  <2>2. \A i \in own : a <= i /\ i <= m => ContextKey(R[i]) = ContextKey(R[a])
    BY <1>3, <1>4
  <2>3. OtherKey(R, a) \cap (a .. m) = {}
    BY <1>1, <1>2, <2>2 DEF OtherKey, own
  <2> QED
    BY <1>1, <1>2, <2>1, <2>3 DEF IsOpen, own
<1>6. \A i : i \in Stretch(R, a, m) <=> i \in own /\ a <= i /\ i <= m
  BY <1>1, <1>2 DEF Stretch, own
<1>7. \A i : i \in Stretch(R, a, b) <=> i \in own /\ a <= i /\ i <= b
  BY <1>1, <1>2 DEF Stretch, own
<1>8. /\ \A i : i \in Stretch(R, a, m) <=> i \in Stretch(R, a, b) \/ i = m
      /\ m \notin Stretch(R, a, b)
  BY <1>1, <1>2, <1>4, <1>6, <1>7
<1>9. Stretch(R, b, m) = {b, m}
  <2>1. \A i : i \in Stretch(R, b, m) <=> i \in own /\ b <= i /\ i <= m
    BY <1>1, <1>2 DEF Stretch, own
  <2> QED
    BY <1>1, <1>2, <1>4, <2>1
<1>10. \A q : q \in Successions(R, a, m) <=> q \in Successions(R, a, b) \/ q = <<b, m>>
  <2>1. ASSUME NEW q \in Successions(R, a, m), q[2] # m
        PROVE  q \in Successions(R, a, b)
    <3>1. /\ q \in (1 .. m) \X Stretch(R, a, m) /\ q[1] < q[2]
          /\ Stretch(R, q[1], q[2]) = {q[1], q[2]} /\ R[q[1]].observer = R[q[2]].observer
      BY DEF Successions
    <3>2. q[1] \in 1 .. m /\ q[2] \in Stretch(R, a, b) /\ q = <<q[1], q[2]>>
      BY <1>8, <2>1, <3>1
    <3>3. q[2] <= b /\ q[2] \in Nat
      BY <1>2, <1>7, <3>2
    <3>4. q[1] \in 1 .. b
      BY <1>1, <3>1, <3>2, <3>3
    <3> QED
      BY <3>1, <3>2, <3>4 DEF Successions
  <2>2. ASSUME NEW q \in Successions(R, a, m), q[2] = m
        PROVE  q = <<b, m>>
    <3>1. /\ q \in (1 .. m) \X Stretch(R, a, m) /\ q[1] < m
          /\ Stretch(R, q[1], m) = {q[1], m} /\ R[q[1]].observer = R[m].observer
      BY <2>2 DEF Successions
    <3>2. q[1] \in 1 .. m /\ q = <<q[1], m>>
      BY <2>2, <3>1
    <3>3. q[1] \in Stretch(R, q[1], m)
      BY <3>1
    <3>4. q[1] \in own
      BY <3>1, <3>3 DEF Stretch, own
    <3>5. q[1] <= b
      BY <1>1, <3>1, <3>4
    <3>6. b \in Stretch(R, q[1], m)
      BY <1>1, <1>2, <3>1, <3>2, <3>5 DEF Stretch, own
    <3> QED
      BY <1>1, <3>1, <3>2, <3>6
  <2>3. <<b, m>> \in Successions(R, a, m)
    BY <1>1, <1>2, <1>8, <1>9 DEF Successions
  <2>4. ASSUME NEW q \in Successions(R, a, b)
        PROVE  q \in Successions(R, a, m)
    <3>1. q \in (1 .. b) \X Stretch(R, a, b)
      BY DEF Successions
    <3>2. q \in (1 .. m) \X Stretch(R, a, m)
      BY <1>1, <1>2, <1>8, <3>1
    <3> QED
      BY <3>2 DEF Successions
  <2> QED
    BY <2>1, <2>2, <2>3, <2>4
<1> QED
  BY <1>5, <1>8, <1>10

\* What a record adds to an episode.
LEMMA ContinuedSays ==
  ASSUME NEW observer, NEW key, NEW kind, NEW onset, NEW latest, NEW recovery,
         NEW observations, NEW prior, NEW changed, NEW previous, NEW record
  PROVE  Continued([observer |-> observer, key |-> key, kind |-> kind, onset |-> onset,
                    latest |-> latest, recovery |-> recovery,
                    observations |-> observations, prior |-> prior,
                    changed |-> changed], previous, record)
           = [observer |-> observer, key |-> key, kind |-> kind, onset |-> onset,
              latest |-> record.time, recovery |-> recovery,
              observations |-> observations + 1, prior |-> prior,
              changed |-> changed \cup Changes(previous, record)]
<1> DEFINE e == [observer |-> observer, key |-> key, kind |-> kind, onset |-> onset,
                 latest |-> latest, recovery |-> recovery, observations |-> observations,
                 prior |-> prior, changed |-> changed]
           x == changed \cup Changes(previous, record)
           y == record.time
           z == observations + 1
           f == [e EXCEPT !.changed = x, !.latest = y, !.observations = z]
<1>1. Continued(e, previous, record) = f
  BY DEF Continued
<1> HIDE DEF x, y, z
<1> DEFINE g == [e EXCEPT !.changed = x]
           h == [g EXCEPT !.latest = y]
<1>2. f = [h EXCEPT !.observations = z]
  OBVIOUS
<1>3. g = [observer |-> observer, key |-> key, kind |-> kind, onset |-> onset,
           latest |-> latest, recovery |-> recovery, observations |-> observations,
           prior |-> prior, changed |-> x]
  OBVIOUS
<1> HIDE DEF f, g
<1>4. h = [observer |-> observer, key |-> key, kind |-> kind, onset |-> onset,
           latest |-> y, recovery |-> recovery, observations |-> observations,
           prior |-> prior, changed |-> x]
  BY <1>3
<1> HIDE DEF h
<1>5. f = [observer |-> observer, key |-> key, kind |-> kind, onset |-> onset,
           latest |-> y, recovery |-> recovery, observations |-> z,
           prior |-> prior, changed |-> x]
  BY <1>2, <1>4
<1> QED
  BY <1>1, <1>5 DEF x, y, z

\* The episode of a run that goes on is the one before, continued.
LEMMA EpisodeGoesOn ==
  ASSUME NEW R \in Seq(Observation), NEW m \in DOMAIN R,
         NEW a, NEW b, Latest(R, m, R[m].observer, a, b), ContextKey(R[m]) = ContextKey(R[a])
  PROVE  EpisodeOf(R, a, m) = Continued(EpisodeOf(R, a, b), R[b], R[m])
<1>1. /\ \A i : i \in Stretch(R, a, m) <=> i \in Stretch(R, a, b) \/ i = m
      /\ m \notin Stretch(R, a, b)
      /\ \A q : q \in Successions(R, a, m) <=> q \in Successions(R, a, b) \/ q = <<b, m>>
  BY RunGoesOn
<1>2. b \in DOMAIN R /\ R[b] # NONE /\ a \in DOMAIN R
  BY LastBefore, RecordTypes DEF Latest
<1>3. Cardinality(Stretch(R, a, m)) = Cardinality(Stretch(R, a, b)) + 1
  <2>1. IsFiniteSet(Stretch(R, a, b))
    <3>1. Stretch(R, a, b) \in SUBSET (DOMAIN R)
      BY DEF Stretch, Own
    <3> QED
      BY <3>1, FinitelyMany
  <2> QED
    <3>1. Stretch(R, a, m) = Stretch(R, a, b) \cup {m}
      BY <1>1
    <3> QED
      BY <1>1, <2>1, <3>1, FS_AddElement
<1>4. ChangedIn(R, a, m) = ChangedIn(R, a, b) \cup ChangedDimensions(R[b], R[m])
  <2> DEFINE G(q) == ChangedDimensions(R[q[1]], R[q[2]])
             A == Successions(R, a, b)
             B == Successions(R, a, m)
             p == <<b, m>>
  <2>1. G(p) = ChangedDimensions(R[b], R[m])
    OBVIOUS
  <2>2. \A q : q \in B <=> q \in A \/ q = p
    BY <1>1
  <2>3. ChangedIn(R, a, m) = UNION {G(q) : q \in B} /\ ChangedIn(R, a, b) = UNION {G(q) : q \in A}
    BY DEF ChangedIn
  <2> HIDE DEF G, A, B, p
  <2>4. \A x : x \in UNION {G(q) : q \in B} <=> \E q \in B : x \in G(q)
    OBVIOUS
  <2>5. \A x : x \in UNION {G(q) : q \in A} <=> \E q \in A : x \in G(q)
    OBVIOUS
  <2>6. \A x : x \in ChangedIn(R, a, m) <=> x \in ChangedIn(R, a, b) \cup G(p)
    BY <2>2, <2>3, <2>4, <2>5, Zenon
  <2> QED
    BY <2>1, <2>6
<1>5. Changes(R[b], R[m]) = ChangedDimensions(R[b], R[m])
  BY <1>2 DEF Changes
<1> DEFINE e == EpisodeOf(R, a, b)
           f == EpisodeOf(R, a, m)
<1>a. f = [observer     |-> R[a].observer,
            key          |-> ContextKey(R[a]),
            kind         |-> KindOf(R, a),
            onset        |-> R[a].time,
            latest       |-> R[m].time,
            recovery     |-> IF KindOf(R, a) = "Returned" THEN R[a].time ELSE NONE,
            observations |-> Cardinality(Stretch(R, a, m)),
            prior        |-> Cardinality(Earlier(R, a)),
            changed      |-> ChangedIn(R, a, m)]
  BY <1>2, EpisodeSays
<1>b. e = [observer     |-> R[a].observer,
            key          |-> ContextKey(R[a]),
            kind         |-> KindOf(R, a),
            onset        |-> R[a].time,
            latest       |-> R[b].time,
            recovery     |-> IF KindOf(R, a) = "Returned" THEN R[a].time ELSE NONE,
            observations |-> Cardinality(Stretch(R, a, b)),
            prior        |-> Cardinality(Earlier(R, a)),
            changed      |-> ChangedIn(R, a, b)]
  BY <1>2, EpisodeSays
<1> HIDE DEF e, f
<1>6. f = Continued(e, R[b], R[m])
  <2>1. Continued(e, R[b], R[m]) =
          [observer     |-> R[a].observer,
           key          |-> ContextKey(R[a]),
           kind         |-> KindOf(R, a),
           onset        |-> R[a].time,
           latest       |-> R[m].time,
           recovery     |-> IF KindOf(R, a) = "Returned" THEN R[a].time ELSE NONE,
           observations |-> Cardinality(Stretch(R, a, b)) + 1,
           prior        |-> Cardinality(Earlier(R, a)),
           changed      |-> ChangedIn(R, a, b) \cup Changes(R[b], R[m])]
    BY <1>b, ContinuedSays
  <2> QED
    BY <1>3, <1>4, <1>5, <1>a, <2>1
<1> QED
  BY <1>6 DEF e, f

\* The finished episodes of an observer and a key are its earlier runs of that
\* key, each once.
LEMMA PriorIsEarlier ==
  ASSUME NEW R, Chronological(R), NEW m \in DOMAIN R,
         NEW s, Follows(R, m, s)
  PROVE  PriorExactEpisodes(s, R[m].observer, ContextKey(R[m])) = Cardinality(Earlier(R, m))
<1> DEFINE o == R[m].observer
           k == ContextKey(R[m])
           S == {e \in s.finished : e.observer = o /\ e.key = k}
           T == Earlier(R, m)
           f == [r \in T |-> EpisodeOf(R, r[1], r[2])]
<1>1. R \in Seq(Observation) /\ m \in Nat
  BY RecordTypes DEF Chronological
<1>2. s.finished = {EpisodeOf(R, r[1], r[2]) : r \in Over(R, m)}
  BY DEF Follows, Stands
<1>3. \A r \in T : /\ r \in Runs(R) /\ r[2] < m /\ R[r[1]].observer = o
                   /\ ContextKey(R[r[1]]) = k
  BY DEF Earlier
<1>4. ASSUME NEW r \in T
      PROVE  r \in Over(R, m)
  <2>1. r \in Runs(R) /\ IsClosed(R, r[1], r[2]) /\ r[1] \in DOMAIN R
    BY <1>3, RunsSay, RunParts
  <2>2. m \in Own(R, R[r[1]].observer)
    BY <1>3 DEF Own
  <2>3. PICK j \in OtherKey(R, r[1]) : r[2] < j /\ j <= m
    BY <1>3, <2>1, <2>2 DEF IsClosed
  <2>4. j \in Own(R, R[r[1]].observer) /\ ContextKey(R[j]) # k /\ j \in DOMAIN R
    BY <1>3, <2>3 DEF OtherKey, Own
  <2>5. j # m
    BY <2>4
  <2>6. j \in Nat \ {0}
    BY <1>1, <2>4, RecordTypes
  <2>7. j < m
    BY <1>1, <2>3, <2>5, <2>6
  <2> QED
    BY <2>1, <2>3, <2>4, <2>7 DEF Over, Seen
<1>5. ASSUME NEW r \in Over(R, m), R[r[1]].observer = o, ContextKey(R[r[1]]) = k
      PROVE  r \in T
  <2>1. r \in Runs(R) /\ r[2] \in DOMAIN R
    BY RunsSay DEF Over
  <2>2. PICK c \in Seen(R, m, R[r[1]].observer) : r[2] < c
    BY DEF Over
  <2>3. c < m /\ c \in Nat /\ r[2] \in Nat
    BY <1>1, <2>1, <2>2, RecordTypes DEF Seen, Own
  <2>4. r[2] < m
    BY <1>1, <2>2, <2>3
  <2> QED
    BY <1>5, <2>1, <2>4 DEF Earlier
<1>6. \A r \in Runs(R) : LET e == EpisodeOf(R, r[1], r[2]) IN
        /\ e.observer = R[r[1]].observer /\ e.key = ContextKey(R[r[1]])
        /\ e.onset = R[r[1]].time
  BY <1>1, RunsSay, EpisodeSays
<1>7. \A r \in Over(R, m) : r \in Runs(R)
  BY DEF Over
<1> HIDE DEF o, k
<1>8. f \in Bijection(T, S)
  <2>1. ASSUME NEW r \in T
        PROVE  f[r] \in S
    <3>1. f[r] = EpisodeOf(R, r[1], r[2])
      OBVIOUS
    <3> HIDE DEF T, f
    <3> QED
      BY <1>2, <1>3, <1>4, <1>6, <3>1
  <2>2. ASSUME NEW e \in S
        PROVE  \E r \in T : f[r] = e
    <3>1. PICK r \in Over(R, m) : e = EpisodeOf(R, r[1], r[2])
      BY <1>2
    <3>2. r \in T
      BY <1>5, <1>6, <1>7, <3>1
    <3> QED
      BY <3>1, <3>2
  <2>3. ASSUME NEW r \in T, NEW q \in T, f[r] = f[q]
        PROVE  r = q
    <3>1. EpisodeOf(R, r[1], r[2]) = EpisodeOf(R, q[1], q[2])
      BY <2>3
    <3>2. R[r[1]].time = R[q[1]].time
      BY <1>3, <1>6, <3>1
    <3> QED
      BY <1>3, <3>2, OnsetTells
  <2>4. f \in [T -> S]
    BY <2>1
  <2> HIDE DEF S, T, f
  <2> QED
    BY <2>2, <2>3, <2>4 DEF Bijection, Injection, Surjection, IsInjective
<1>9. IsFiniteSet(T)
  <2>1. T \in SUBSET Runs(R)
    BY DEF Earlier
  <2> QED
    BY <1>1, <2>1, FinitelyMany
<1>10. Cardinality(S) = Cardinality(T)
  <2> HIDE DEF S, T, f
  <2> QED
    BY <1>8, <1>9, FS_Bijection DEF ExistsBijection
<1> QED
  BY <1>10 DEF PriorExactEpisodes, o, k

\* A record of another key than its observer had, or its first, begins a run.
LEMMA EpisodeBegins ==
  ASSUME NEW R, Chronological(R), NEW m \in DOMAIN R,
         NEW s, Follows(R, m, s),
         \/ Seen(R, m, R[m].observer) = {}
         \/ \E a, b \in DOMAIN R : /\ Latest(R, m, R[m].observer, a, b)
                                   /\ ContextKey(R[m]) # ContextKey(R[a])
  PROVE  IsOpen(R, m, m) /\ EpisodeOf(R, m, m) = NewEpisode(s, R[m])
<1> DEFINE o == R[m].observer
           own == Own(R, o)
<1>1. /\ R \in Seq(Observation) /\ m \in DOMAIN R /\ m \in Nat \ {0} /\ o \in Observers
      /\ \A i \in own : i \in DOMAIN R /\ i \in Nat \ {0}
      /\ m \in own
  BY RecordTypes DEF Chronological, Own
<1>2. \A i \in own : i < m <=> i \in Seen(R, m, o)
  BY DEF Seen
<1>3. IsOpen(R, m, m)
  <2>1. OtherKey(R, m) \cap (m .. m) = {}
    BY <1>1 DEF OtherKey
  <2>2. ASSUME NEW i \in own, i < m
        PROVE  \E j \in OtherKey(R, m) : i <= j /\ j < m
    <3>1. PICK a, b \in DOMAIN R : /\ Latest(R, m, o, a, b)
                                   /\ ContextKey(R[m]) # ContextKey(R[a])
      BY <1>2, <2>2
    <3>2. /\ b \in DOMAIN R /\ b < m /\ R[b].observer = R[m].observer
          /\ \A j \in Own(R, R[m].observer) : j < m => j <= b
      BY <1>1, <3>1, LastBefore
    <3>3. ContextKey(R[b]) = ContextKey(R[a])
      BY <1>1, <3>1, OpenSays DEF Latest
    <3>4. b \in OtherKey(R, m)
      BY <3>1, <3>2, <3>3 DEF OtherKey, Own
    <3> QED
      BY <2>2, <3>2, <3>4
  <2> QED
    BY <1>1, <2>1, <2>2 DEF IsOpen
<1>4. Stretch(R, m, m) = {m}
  BY <1>1 DEF Stretch
<1>5. s.previous[o] = NONE <=> Seen(R, m, o) = {}
  <2>1. \/ Seen(R, m, o) = {} /\ s.previous[o] = NONE
        \/ \E a, b \in DOMAIN R : Latest(R, m, o, a, b) /\ s.previous[o] = R[b]
    BY <1>1 DEF Follows, Stands
  <2>2. \A b \in DOMAIN R : R[b] # NONE
    BY <1>1, RecordTypes
  <2> QED
    BY <2>1, <2>2 DEF Latest
<1>6. /\ PriorExactEpisodes(s, o, ContextKey(R[m])) = Cardinality(Earlier(R, m))
      /\ Cardinality(Earlier(R, m)) > 0 <=> Earlier(R, m) # {}
  <2>1. IsFiniteSet(Earlier(R, m)) /\ Cardinality(Earlier(R, m)) \in Nat
    <3>1. Earlier(R, m) \in SUBSET Runs(R)
      BY DEF Earlier
    <3> QED
      BY <1>1, <3>1, FinitelyMany
  <2>2. Cardinality(Earlier(R, m)) = 0 <=> Earlier(R, m) = {}
    BY <2>1, FS_EmptySet
  <2> QED
    BY <2>1, <2>2, PriorIsEarlier
<1>7. ChangedIn(R, m, m) = Changes(s.previous[o], R[m])
  <2>1. ASSUME NEW q \in Successions(R, m, m)
        PROVE  /\ q = <<q[1], m>> /\ q[1] \in own /\ q[1] < m
               /\ Stretch(R, q[1], m) = {q[1], m}
    <3>1. /\ q \in (1 .. m) \X Stretch(R, m, m) /\ q[1] < q[2]
          /\ Stretch(R, q[1], q[2]) = {q[1], q[2]} /\ R[q[1]].observer = R[q[2]].observer
      BY DEF Successions
    <3>2. q[2] = m /\ q = <<q[1], m>>
      BY <1>4, <3>1
    <3>3. q[1] \in Stretch(R, q[1], m) /\ R[q[1]].observer = o
      BY <3>1, <3>2
    <3> QED
      BY <3>1, <3>2, <3>3 DEF Stretch
  <2>2. CASE Seen(R, m, o) = {}
    <3>1. Successions(R, m, m) = {}
      BY <1>2, <2>1, <2>2
    <3> QED
      BY <1>5, <2>2, <3>1 DEF Changes, ChangedIn
  <2>3. CASE Seen(R, m, o) # {}
    <3>1. PICK a, b \in DOMAIN R : Latest(R, m, o, a, b) /\ s.previous[o] = R[b]
      BY <1>1, <2>3 DEF Follows, Stands
    <3>a. /\ b \in DOMAIN R /\ b \in Nat /\ b < m /\ R[b].observer = R[m].observer
          /\ \A j \in Own(R, R[m].observer) : j < m => j <= b
      BY <1>1, <3>1, LastBefore
    <3>2. /\ b \in DOMAIN R /\ b \in Nat \ {0} /\ b < m /\ R[b].observer = o /\ b \in own
          /\ \A j \in own : j < m => j <= b
      BY <1>1, <3>a, RecordTypes DEF Own
    <3>3. Stretch(R, b, m) = {b, m}
      <4>1. \A i : i \in Stretch(R, b, m) <=> i \in own /\ b <= i /\ i <= m
        BY <1>1, <3>2 DEF Stretch
      <4>2. \A i \in own : i < m \/ i = m \/ m < i
        BY <1>1
      <4> HIDE DEF own, o
      <4> QED
        BY <1>1, <3>2, <4>1, <4>2
    <3>4. <<b, m>> \in Successions(R, m, m)
      BY <1>1, <1>4, <3>2, <3>3 DEF Successions
    <3>5. ASSUME NEW q \in Successions(R, m, m)
          PROVE  q = <<b, m>>
      <4>1. q = <<q[1], m>> /\ q[1] <= b /\ q[1] \in Nat /\ Stretch(R, q[1], m) = {q[1], m}
        BY <1>1, <2>1, <3>2
      <4>2. b \in Stretch(R, q[1], m)
        <5>1. R[q[1]].observer = o
          BY <2>1 DEF Own
        <5> QED
          BY <1>1, <3>2, <4>1, <5>1 DEF Stretch
      <4> QED
        BY <3>2, <4>1, <4>2
    <3>6. Successions(R, m, m) = {<<b, m>>}
      BY <3>4, <3>5
    <3>7. R[b] # NONE
      BY <1>1, <3>2, RecordTypes
    <3>8. Changes(s.previous[o], R[m]) = ChangedDimensions(R[b], R[m])
      BY <3>1, <3>7 DEF Changes
    <3> DEFINE G(q) == ChangedDimensions(R[q[1]], R[q[2]])
               p == <<b, m>>
    <3>9. G(p) = ChangedDimensions(R[b], R[m])
      OBVIOUS
    <3> HIDE DEF G, p
    <3>10. \A q : q \in Successions(R, m, m) <=> q = p
      BY <3>6 DEF p
    <3>11. ChangedIn(R, m, m) = UNION {G(q) : q \in Successions(R, m, m)}
      BY DEF ChangedIn, G
    <3>12. \A x : x \in UNION {G(q) : q \in Successions(R, m, m)}
                  <=> \E q \in Successions(R, m, m) : x \in G(q)
      OBVIOUS
    <3> DEFINE A == Successions(R, m, m)
               C == ChangedIn(R, m, m)
    <3> HIDE DEF A, C
    <3>13. \A x : x \in C <=> x \in G(p)
      BY <3>10, <3>11, <3>12 DEF A, C
    <3> QED
      BY <3>8, <3>9, <3>13 DEF C
  <2> QED
    BY <2>2, <2>3
<1>8. /\ KindOf(R, m) = IF s.previous[o] = NONE THEN "Initial"
                        ELSE IF Cardinality(Earlier(R, m)) > 0 THEN "Returned" ELSE "Changed"
      /\ Cardinality(Stretch(R, m, m)) = 1
  <2>2. Cardinality(Stretch(R, m, m)) = 1
    BY <1>4, FS_Singleton
  <2> QED
    BY <1>5, <1>6, <2>2 DEF KindOf
<1>9. R[m].observer = o
  OBVIOUS
<1> HIDE DEF o
<1>10. EpisodeOf(R, m, m) = NewEpisode(s, R[m])
  BY <1>1, <1>6, <1>7, <1>8, <1>9, EpisodeSays DEF NewEpisode
<1> QED
  BY <1>3, <1>10

\* What is over before the next place.
LEMMA OverGrows ==
  ASSUME NEW R \in Seq(Observation), NEW m \in DOMAIN R
  PROVE  \A r \in Runs(R) :
           r \in Over(R, m + 1) <=>
             \/ r \in Over(R, m)
             \/ R[r[1]].observer = R[m].observer /\ r[2] < m
<1> TAKE r \in Runs(R)
<1> DEFINE o == R[r[1]].observer
<1>1. \A i : i \in Seen(R, m + 1, o) <=> i \in Seen(R, m, o) \/ (i = m /\ R[m].observer = o)
  BY SeenGrows
<1>2. /\ r \in Over(R, m) <=> \E c \in Seen(R, m, o) : r[2] < c
      /\ r \in Over(R, m + 1) <=> \E c \in Seen(R, m + 1, o) : r[2] < c
  BY DEF Over
<1> HIDE DEF o
<1> QED
  BY <1>1, <1>2 DEF o

\* A run of the observer that was over before its record was over before the
\* last of it, or is the one that its record may end.
LEMMA OverOrLatest ==
  ASSUME NEW R \in Seq(Observation), NEW m \in DOMAIN R, NEW a, NEW b,
         Latest(R, m, R[m].observer, a, b),
         NEW r \in Runs(R), R[r[1]].observer = R[m].observer, r[2] < m
  PROVE  r \in Over(R, m) \/ r = <<a, b>>
<1> DEFINE o == R[m].observer
<1>1. /\ r[1] \in DOMAIN R /\ r[2] \in DOMAIN R /\ r = <<r[1], r[2]>>
      /\ IsOpen(R, r[1], r[2])
  BY RunsSay, RunParts
<1>2. r[2] \in Own(R, o)
  BY <1>1 DEF IsOpen
<1>3. r[2] <= b /\ b \in DOMAIN R /\ a \in DOMAIN R /\ b \in Seen(R, m, o) /\ IsOpen(R, a, b)
  BY <1>2, LastBefore DEF Latest
<1>4. CASE r[2] = b
  <2>1. r[1] = a
    BY <1>1, <1>3, <1>4, OneBeginning
  <2> QED
    BY <1>1, <1>4, <2>1
<1>5. CASE r[2] # b
  <2>1. r[2] < b
    BY <1>1, <1>3, <1>5, RecordTypes
  <2> QED
    BY <1>3, <2>1 DEF Over
<1> QED
  BY <1>4, <1>5

\* The run that a record of another key ends is over, and was not before.
LEMMA RunEnds ==
  ASSUME NEW R \in Seq(Observation), NEW m \in DOMAIN R, NEW a, NEW b,
         Latest(R, m, R[m].observer, a, b), ContextKey(R[m]) # ContextKey(R[a])
  PROVE  <<a, b>> \in Runs(R) /\ b < m
<1>1. /\ a \in DOMAIN R /\ R[a].observer = R[m].observer /\ IsOpen(R, a, b)
      /\ b \in DOMAIN R /\ b < m /\ b \in Nat
      /\ \A i \in Own(R, R[m].observer) : i < m => i <= b
  BY LastBefore DEF Latest
<1>2. IsClosed(R, a, b)
  <2>1. m \in OtherKey(R, a)
    BY <1>1 DEF OtherKey, Own
  <2>2. \A i \in Own(R, R[a].observer) : b < i => m <= i
    <3> TAKE i \in Own(R, R[a].observer)
    <3>1. i \in Nat /\ m \in Nat /\ (i < m => i <= b)
      BY <1>1, RecordTypes
    <3> QED
      BY <1>1, <3>1
  <2> QED
    BY <1>1, <2>1, <2>2 DEF IsClosed
<1>3. IsRun(R, a, b)
  BY <1>1, <1>2, RunParts
<1> QED
  BY <1>1, <1>3 DEF Runs

\* A run that may go on is not over.
LEMMA RunIsNotOver ==
  ASSUME NEW R \in Seq(Observation), NEW m \in DOMAIN R, NEW a, NEW b,
         Latest(R, m, R[m].observer, a, b), ContextKey(R[m]) = ContextKey(R[a]),
         NEW r \in Runs(R), R[r[1]].observer = R[m].observer, r[2] < m
  PROVE  r \in Over(R, m)
<1>1. /\ a \in DOMAIN R /\ R[a].observer = R[m].observer
      /\ b < m /\ b \in DOMAIN R /\ \A i \in Own(R, R[m].observer) : i < m => i <= b
  BY LastBefore DEF Latest
<1>2. r # <<a, b>>
  <2> SUFFICES ASSUME r = <<a, b>> PROVE FALSE
    OBVIOUS
  <2>1. IsClosed(R, a, b)
    BY RunsSay, RunParts
  <2>2. m \in Own(R, R[a].observer)
    BY <1>1 DEF Own
  <2>3. PICK j \in OtherKey(R, a) : b < j /\ j <= m
    BY <1>1, <2>1, <2>2 DEF IsClosed
  <2>4. j \in Own(R, R[m].observer) /\ j \in DOMAIN R /\ ContextKey(R[j]) # ContextKey(R[a])
    BY <1>1, <2>3 DEF OtherKey, Own
  <2>5. j # m
    BY <2>4
  <2>6. j \in Nat /\ m \in Nat /\ b \in Nat
    BY <1>1, <2>4, RecordTypes
  <2>7. j < m
    BY <2>3, <2>5, <2>6
  <2> QED
    BY <1>1, <2>3, <2>4, <2>6, <2>7
<1> QED
  BY <1>2, OverOrLatest

\* Of the other observers nothing is new.
LEMMA OthersStay ==
  ASSUME NEW R \in Seq(Observation), NEW m \in DOMAIN R, NEW o, o # R[m].observer,
         NEW x, NEW y, Stands(R, m, o, x, y)
  PROVE  Stands(R, m + 1, o, x, y)
<1>1. \A i : i \in Seen(R, m + 1, o) <=> i \in Seen(R, m, o)
  BY SeenGrows
<1>2. Seen(R, m + 1, o) = Seen(R, m, o)
  BY <1>1
<1> QED
  BY <1>2 DEF Latest, Stands

\* The record of an observer is its latest.
LEMMA RecordIsLatest ==
  ASSUME NEW R \in Seq(Observation), NEW m \in DOMAIN R, NEW a \in DOMAIN R,
         R[a].observer = R[m].observer, IsOpen(R, a, m)
  PROVE  Stands(R, m + 1, R[m].observer, EpisodeOf(R, a, m), R[m])
<1> DEFINE o == R[m].observer
<1>1. \A i : i \in Seen(R, m + 1, o) <=> i \in Seen(R, m, o) \/ i = m
  BY SeenGrows
<1>2. \A i \in Seen(R, m, o) : i \in Nat /\ i < m
  BY SeenGrows
<1>3. m \in Nat
  BY RecordTypes
<1> HIDE DEF o
<1>4. m \in Seen(R, m + 1, o) /\ \A i \in Seen(R, m + 1, o) : i <= m
  BY <1>1, <1>2, <1>3
<1>5. Latest(R, m + 1, o, a, m)
  BY <1>4 DEF Latest, o
<1> QED
  BY <1>5 DEF Stands, o

\* What the loop has follows the log on when the record is in a run from a
\* and the runs that are over are finished.
LEMMA FollowsOn ==
  ASSUME NEW R \in Seq(Observation), NEW m \in DOMAIN R, NEW s, Follows(R, m, s),
         NEW t, NEW a \in DOMAIN R, R[a].observer = R[m].observer, IsOpen(R, a, m),
         t = [active |-> t.active, previous |-> t.previous, finished |-> t.finished],
         t.active = [s.active EXCEPT ![R[m].observer] = EpisodeOf(R, a, m)],
         t.previous = [s.previous EXCEPT ![R[m].observer] = R[m]],
         t.finished = {EpisodeOf(R, r[1], r[2]) : r \in Over(R, m + 1)}
  PROVE  Follows(R, m + 1, t)
<1> DEFINE o == R[m].observer
<1>1. /\ s.active = [p \in Observers |-> s.active[p]]
      /\ s.previous = [p \in Observers |-> s.previous[p]]
      /\ \A p \in Observers : Stands(R, m, p, s.active[p], s.previous[p])
  BY Zenon DEF Follows
<1>2. o \in Observers
  BY RecordTypes
<1> DEFINE e == EpisodeOf(R, a, m)
<1>3. Stands(R, m + 1, o, e, R[m])
  BY RecordIsLatest
<1> HIDE DEF o, e
<1>4. /\ t.active = [p \in Observers |-> t.active[p]] /\ t.active[o] = e
      /\ t.previous = [p \in Observers |-> t.previous[p]] /\ t.previous[o] = R[m]
      /\ \A p \in Observers : p # o =>
           t.active[p] = s.active[p] /\ t.previous[p] = s.previous[p]
  BY <1>1, <1>2 DEF o, e
<1>5. \A p \in Observers : Stands(R, m + 1, p, t.active[p], t.previous[p])
  <2> TAKE p \in Observers
  <2>1. CASE p # o
    BY <1>1, <1>4, <2>1, OthersStay DEF o
  <2>2. CASE p = o
    BY <1>3, <1>4, <2>2
  <2> QED
    BY <2>1, <2>2
<1> QED
  BY <1>4, <1>5, Zenon DEF Follows

\* One record takes the loop from what follows the log before it to what follows
\* the log with it.
LEMMA LoopStep ==
  ASSUME NEW R, Chronological(R), NEW m \in DOMAIN R, NEW s, Follows(R, m, s)
  PROVE  Follows(R, m + 1, Reduce(s, R[m]))
<1> DEFINE t == Reduce(s, R[m])
           o == R[m].observer
           k == ContextKey(R[m])
           ends == s.active[o] # NONE /\ s.active[o].key # k
           episode == IF s.active[o] = NONE \/ ends
                      THEN NewEpisode(s, R[m])
                      ELSE Continued(s.active[o], s.previous[o], R[m])
<1>1. R \in Seq(Observation) /\ o \in Observers /\ m \in Nat
  BY RecordTypes DEF Chronological
<1>2. /\ s.finished = {EpisodeOf(R, r[1], r[2]) : r \in Over(R, m)}
      /\ Stands(R, m, o, s.active[o], s.previous[o])
  BY <1>1, Zenon DEF Follows
<1>3. /\ t = [active |-> t.active, previous |-> t.previous, finished |-> t.finished]
      /\ t.active = [s.active EXCEPT ![o] = episode]
      /\ t.previous = [s.previous EXCEPT ![o] = R[m]]
      /\ t.finished = IF ends THEN s.finished \cup {s.active[o]} ELSE s.finished
  BY DEF Reduce
<1> HIDE DEF t, episode
<1>4. \A r \in Runs(R) : r \in Over(R, m + 1) <=>
                           r \in Over(R, m) \/ (R[r[1]].observer = o /\ r[2] < m)
  BY <1>1, OverGrows
<1>5. Over(R, m) \subseteq Runs(R) /\ Over(R, m + 1) \subseteq Runs(R)
  BY DEF Over
<1>6. ASSUME Seen(R, m, o) = {}
      PROVE  /\ t.finished = {EpisodeOf(R, r[1], r[2]) : r \in Over(R, m + 1)}
             /\ \E x \in DOMAIN R :
                  /\ R[x].observer = o /\ IsOpen(R, x, m) /\ episode = EpisodeOf(R, x, m)
  <2>1. s.active[o] = NONE /\ episode = NewEpisode(s, R[m]) /\ t.finished = s.finished
    BY <1>2, <1>3, <1>6 DEF episode, Latest, Stands
  <2>2. IsOpen(R, m, m) /\ episode = EpisodeOf(R, m, m)
    BY <1>6, <2>1, EpisodeBegins
  <2>3. \A r \in Runs(R) : ~ (R[r[1]].observer = o /\ r[2] < m)
    <3> TAKE r \in Runs(R)
    <3>1. r[2] \in Own(R, R[r[1]].observer)
      BY RunsSay, RunParts DEF IsOpen
    <3> QED
      BY <1>6, <3>1 DEF Seen
  <2>4. Over(R, m + 1) = Over(R, m)
    BY <1>4, <1>5, <2>3
  <2>5. t.finished = {EpisodeOf(R, r[1], r[2]) : r \in Over(R, m + 1)}
    BY <1>2, <2>1, <2>4
  <2> QED
    BY <2>2, <2>5, Zenon
<1>7. ASSUME Seen(R, m, o) # {}
       PROVE  /\ t.finished = {EpisodeOf(R, r[1], r[2]) : r \in Over(R, m + 1)}
              /\ \E x \in DOMAIN R :
                   /\ R[x].observer = o /\ IsOpen(R, x, m) /\ episode = EpisodeOf(R, x, m)
  <2>1. PICK a, b \in DOMAIN R :
          /\ Latest(R, m, o, a, b) /\ s.active[o] = EpisodeOf(R, a, b) /\ s.previous[o] = R[b]
    BY <1>2, <1>7 DEF Stands
  <2>2. EpisodeOf(R, a, b) # NONE /\ EpisodeOf(R, a, b).key = ContextKey(R[a])
    BY <1>1, EpisodeType, EpisodeSays
  <2>3. CASE k = ContextKey(R[a])
    <3>1. episode = Continued(EpisodeOf(R, a, b), R[b], R[m]) /\ t.finished = s.finished
      BY <1>3, <2>1, <2>2, <2>3 DEF episode
    <3>2. episode = EpisodeOf(R, a, m)
      BY <1>1, <2>1, <2>3, <3>1, EpisodeGoesOn
    <3>3. IsOpen(R, a, m)
      BY <1>1, <2>1, <2>3, RunGoesOn
    <3>4. \A r \in Runs(R) : R[r[1]].observer = o /\ r[2] < m => r \in Over(R, m)
      BY <1>1, <2>1, <2>3, RunIsNotOver
    <3>5. Over(R, m + 1) = Over(R, m)
      BY <1>4, <1>5, <3>4
    <3>6. t.finished = {EpisodeOf(R, r[1], r[2]) : r \in Over(R, m + 1)}
      BY <1>2, <3>1, <3>5
    <3>7. R[a].observer = o
      BY <2>1 DEF Latest
    <3> QED
      BY <3>2, <3>3, <3>6, <3>7, Zenon
  <2>4. CASE k # ContextKey(R[a])
    <3>1. /\ episode = NewEpisode(s, R[m])
          /\ t.finished = s.finished \cup {EpisodeOf(R, a, b)}
      BY <1>3, <2>1, <2>2, <2>4 DEF episode
    <3>2. IsOpen(R, m, m) /\ episode = EpisodeOf(R, m, m)
      BY <2>1, <2>4, <3>1, EpisodeBegins
    <3>3. <<a, b>> \in Runs(R) /\ b < m
      BY <1>1, <2>1, <2>4, RunEnds
    <3>4. \A r \in Runs(R) : R[r[1]].observer = o /\ r[2] < m =>
                               r \in Over(R, m) \/ r = <<a, b>>
      BY <1>1, <2>1, OverOrLatest
    <3>5. R[a].observer = o
      BY <2>1 DEF Latest
    <3>6. \A r : r \in Over(R, m + 1) <=> r \in Over(R, m) \/ r = <<a, b>>
      BY <1>4, <1>5, <3>3, <3>4, <3>5
    <3>7. t.finished = {EpisodeOf(R, r[1], r[2]) : r \in Over(R, m + 1)}
      <4> DEFINE G(r) == EpisodeOf(R, r[1], r[2])
                 A == Over(R, m)
                 B == Over(R, m + 1)
                 p == <<a, b>>
      <4>1. G(p) = EpisodeOf(R, a, b)
        OBVIOUS
      <4>2. /\ \A e : e \in t.finished <=> e \in s.finished \/ e = G(p)
            /\ s.finished = {G(r) : r \in A}
            /\ \A r : r \in B <=> r \in A \/ r = p
        BY <1>2, <3>1, <3>6, <4>1
      <4> HIDE DEF G, A, B, p
      <4>3. \A e : e \in t.finished <=> e \in {G(r) : r \in B}
        BY <4>2
      <4>4. t.finished = {G(r) : r \in B}
        <5>1. t.finished = s.finished \cup {EpisodeOf(R, a, b)}
          BY <3>1
        <5> QED
          BY <4>3, <5>1
      <4> QED
        BY <4>4 DEF G, B
    <3> QED
      BY <3>2, <3>7, Zenon
  <2> QED
    BY <2>3, <2>4
<1>8. PICK a \in DOMAIN R : R[a].observer = o /\ IsOpen(R, a, m) /\ episode = EpisodeOf(R, a, m)
  BY <1>6, <1>7
<1>9. t.finished = {EpisodeOf(R, r[1], r[2]) : r \in Over(R, m + 1)}
  BY <1>6, <1>7, Zenon
<1>10. t.active = [s.active EXCEPT ![o] = EpisodeOf(R, a, m)]
  BY <1>3, <1>8
<1>11. Follows(R, m + 1, t)
  BY <1>1, <1>3, <1>8, <1>9, <1>10, FollowsOn
<1> QED
  BY <1>11 DEF t

\* After every record the loop has what the log has up to there.
LEMMA LoopFollows ==
  ASSUME NEW R, Chronological(R)
  PROVE  \A n \in 0 .. Len(R) : Follows(R, n + 1, Reduced(R)[n])
<1> DEFINE C == {n \in 0 .. Len(R) : ~ Follows(R, n + 1, Reduced(R)[n])}
<1>1. R \in Seq(Observation) /\ Len(R) \in Nat /\ DOMAIN R = 1 .. Len(R)
  BY RecordTypes DEF Chronological
<1>2. SUFFICES ASSUME C # {} PROVE FALSE
  OBVIOUS
<1>3. PICK n \in C : \A i \in C : ~ (i < n)
  <2>1. C \in SUBSET Nat
    OBVIOUS
  <2> HIDE DEF C
  <2> QED
    BY <1>2, <2>1, LeastNumber
<1>4. n \in 0 .. Len(R) /\ ~ Follows(R, n + 1, Reduced(R)[n])
  OBVIOUS
<1>5. n # 0
  BY <1>1, <1>4, NothingSeen, ReducedByOne
<1>6. n \in 1 .. Len(R) /\ n \in DOMAIN R /\ n - 1 \in 0 .. Len(R) /\ n - 1 < n /\ (n - 1) + 1 = n
  BY <1>1, <1>4, <1>5
<1>7. Follows(R, n, Reduced(R)[n - 1])
  BY <1>3, <1>6
<1>8. Reduced(R)[n] = Reduce(Reduced(R)[n - 1], R[n])
  BY <1>1, <1>6, ReducedByOne
<1>9. Follows(R, n + 1, Reduce(Reduced(R)[n - 1], R[n]))
  BY <1>6, <1>7, LoopStep
<1> QED
  BY <1>4, <1>8, <1>9

\* Behind the last record every run is over, or is its observer's latest one.
LEMMA EveryRun ==
  ASSUME NEW R \in Seq(Observation), NEW m, m = Len(R) + 1
  PROVE  /\ \A o : Seen(R, m, o) = Own(R, o)
         /\ \A o, a, b : Latest(R, m, o, a, b) => <<a, b>> \in Runs(R)
         /\ \A r \in Runs(R) : r \in Over(R, m) \/ Latest(R, m, R[r[1]].observer, r[1], r[2])
<1>1. \A o : Seen(R, m, o) = Own(R, o)
  <2>1. \A i \in DOMAIN R : i < m
    BY RecordTypes
  <2> QED
    BY <2>1 DEF Seen, Own
<1>2. ASSUME NEW o, NEW a, NEW b, Latest(R, m, o, a, b)
      PROVE  <<a, b>> \in Runs(R)
  <2>1. /\ b \in Own(R, o) /\ \A i \in Own(R, o) : i <= b
        /\ a \in DOMAIN R /\ R[a].observer = o /\ IsOpen(R, a, b)
    BY <1>1, <1>2 DEF Latest
  <2>2. \A i \in Own(R, o) : ~ (b < i)
    <3> TAKE i \in Own(R, o)
    <3>1. i \in Nat /\ b \in Nat /\ i <= b
      BY <2>1, RecordTypes
    <3> QED
      BY <3>1
  <2>3. IsClosed(R, a, b)
    BY <2>1, <2>2 DEF IsClosed
  <2>4. IsRun(R, a, b) /\ b \in DOMAIN R
    BY <2>1, <2>3, RunParts, RecordTypes
  <2> QED
    BY <2>1, <2>4 DEF Runs
<1>3. ASSUME NEW r \in Runs(R), r \notin Over(R, m)
      PROVE  Latest(R, m, R[r[1]].observer, r[1], r[2])
  <2> DEFINE o == R[r[1]].observer
  <2>1. r[1] \in DOMAIN R /\ r[2] \in DOMAIN R /\ IsOpen(R, r[1], r[2])
    BY RunsSay, RunParts
  <2>2. r[2] \in Own(R, o)
    BY <2>1 DEF IsOpen
  <2>3. \A c \in Own(R, o) : ~ (r[2] < c)
    BY <1>1, <1>3 DEF Over
  <2>4. \A c \in Own(R, o) : c <= r[2]
    <3> TAKE c \in Own(R, o)
    <3>1. c \in Nat /\ r[2] \in Nat
      BY <2>1, RecordTypes
    <3> QED
      BY <2>3, <3>1
  <2> QED
    BY <1>1, <2>1, <2>2, <2>4 DEF Latest
<1> QED
  BY <1>1, <1>2, <1>3

\* The loop has found the episodes there are by definition.
LEMMA LoopFinds ==
  ASSUME NEW R, Chronological(R), NEW s, s = Reduced(R)[Len(R)]
  PROVE  s.finished \cup ({s.active[o] : o \in Observers} \ {NONE})
           = {EpisodeOf(R, r[1], r[2]) : r \in Runs(R)}
<1> DEFINE m == Len(R) + 1
           found == s.finished \cup ({s.active[o] : o \in Observers} \ {NONE})
<1>1. R \in Seq(Observation) /\ Len(R) \in Nat
  BY RecordTypes DEF Chronological
<1>2. Follows(R, m, s)
  BY <1>1, LoopFollows
<1>3. /\ s.finished = {EpisodeOf(R, r[1], r[2]) : r \in Over(R, m)}
      /\ \A o \in Observers : Stands(R, m, o, s.active[o], s.previous[o])
  BY <1>2, Zenon DEF Follows
<1>4. /\ \A o, a, b : Latest(R, m, o, a, b) => <<a, b>> \in Runs(R)
      /\ \A r \in Runs(R) : r \in Over(R, m) \/ Latest(R, m, R[r[1]].observer, r[1], r[2])
  BY <1>1, EveryRun
<1>5. Over(R, m) \subseteq Runs(R)
  BY DEF Over
<1> HIDE DEF m
<1>6. ASSUME NEW e \in found
      PROVE  \E r \in Runs(R) : e = EpisodeOf(R, r[1], r[2])
  <2>1. CASE e \in s.finished
    BY <1>3, <1>5, <2>1
  <2>2. CASE e \notin s.finished
    <3>1. PICK o \in Observers : e = s.active[o] /\ e # NONE
      BY <2>2
    <3>2. PICK a, b \in DOMAIN R : Latest(R, m, o, a, b) /\ e = EpisodeOf(R, a, b)
      BY <1>3, <3>1 DEF Stands
    <3>3. <<a, b>> \in Runs(R)
      BY <1>4, <3>2
    <3>4. <<a, b>>[1] = a /\ <<a, b>>[2] = b
      OBVIOUS
    <3> QED
      BY <3>2, <3>3, <3>4
  <2> QED
    BY <2>1, <2>2
<1>7. ASSUME NEW r \in Runs(R)
      PROVE  EpisodeOf(R, r[1], r[2]) \in found
  <2>1. CASE r \in Over(R, m)
    BY <1>3, <2>1
  <2>2. CASE r \notin Over(R, m)
    <3> DEFINE o == R[r[1]].observer
    <3>1. Latest(R, m, o, r[1], r[2]) /\ r[1] \in DOMAIN R /\ r[2] \in DOMAIN R
      BY <1>4, <2>2, RunsSay
    <3>2. o \in Observers
      BY <1>1, <3>1, RecordTypes
    <3>3. Seen(R, m, o) # {}
      BY <3>1 DEF Latest
    <3> HIDE DEF o
    <3>4. PICK a, b \in DOMAIN R : Latest(R, m, o, a, b) /\ s.active[o] = EpisodeOf(R, a, b)
      BY <1>3, <3>2, <3>3 DEF Stands
    <3>5. b = r[2]
      <4>1. b <= r[2] /\ r[2] <= b
        BY <3>1, <3>4 DEF Latest
      <4> QED
        BY <1>1, <3>1, <3>4, <4>1, RecordTypes
    <3>6. a = r[1]
      BY <1>1, <3>1, <3>4, <3>5, OneBeginning DEF Latest
    <3>7. s.active[o] = EpisodeOf(R, r[1], r[2]) /\ s.active[o] # NONE
      BY <1>1, <3>1, <3>4, <3>5, <3>6, EpisodeType
    <3> QED
      BY <3>2, <3>7
  <2> QED
    BY <2>1, <2>2
<1> HIDE DEF found
<1>8. found = {EpisodeOf(R, r[1], r[2]) : r \in Runs(R)}
  BY <1>6, <1>7
<1> QED
  BY <1>8 DEF found
-----------------------------------------------------------------------------
(***************************************************************************)
(* The report of a log.                                                    *)
(***************************************************************************)
\* Of a log without two records of one time the report lists the episodes
\* there are, in the order of their beginnings.
LEMMA ReportSorts ==
  ASSUME NEW records \in Seq(Observation), TimesDiffer(records), NEW report,
         report = SummarizeEpisodes(records)
  PROVE  /\ {report[i] : i \in DOMAIN report} = EpisodesByDefinition(records)
         /\ \A i, j \in DOMAIN report : i < j => report[i].onset < report[j].onset
<1> DEFINE R == Replay(records)
           s == Reduced(R)[Len(records)]
           E == s.finished \cup ({s.active[o] : o \in Observers} \ {NONE})
           before == {pair \in E \X E : pair[1].onset < pair[2].onset}
           D == {EpisodeOf(R, r[1], r[2]) : r \in Runs(R)}
<1>1. Chronological(R) /\ R \in Seq(Observation) /\ Len(R) = Len(records)
  BY ReplaySorts
<1>2. E = D
  BY <1>1, LoopFinds
<1>3. report = InOrder(E, before)
  BY DEF SummarizeEpisodes
<1>4. D = EpisodesByDefinition(records)
  BY DEF EpisodesByDefinition
<1>5. \A x, y \in E : <<x, y>> \in before <=> x.onset < y.onset
  OBVIOUS
<1> HIDE DEF R, E, before
<1>6. IsFiniteSet(E)
  <2> DEFINE f == [r \in Runs(R) |-> EpisodeOf(R, r[1], r[2])]
  <2>1. f \in Surjection(Runs(R), E)
    BY <1>2 DEF Surjection
  <2>2. IsFiniteSet(Runs(R))
    BY <1>1, FinitelyMany
  <2> HIDE DEF f
  <2> QED
    BY <2>1, <2>2, FS_Surjection
<1>7. \A x \in E : x.onset \in Nat
  <2>1. \A r \in Runs(R) : EpisodeOf(R, r[1], r[2]) \in Episode
    BY <1>1, RunsSay, EpisodeType
  <2>2. \A e \in Episode : e.onset \in Nat
    BY DEF Episode
  <2> QED
    BY <1>2, <2>1, <2>2
<1>8. \A x, y \in E : x.onset = y.onset => x = y
  <2>1. \A r \in Runs(R) : EpisodeOf(R, r[1], r[2]).onset = R[r[1]].time
    BY <1>1, RunsSay, EpisodeSays
  <2>2. \A r, q \in Runs(R) :
          EpisodeOf(R, r[1], r[2]).onset = EpisodeOf(R, q[1], q[2]).onset => r = q
    BY <1>1, <2>1, OnsetTells
  <2> QED
    BY <1>2, <2>2
<1>9. Orders(before, E)
  BY <1>5, <1>7, <1>8 DEF Orders
<1> HIDE DEF D
<1>10. /\ DOMAIN report = 1 .. Cardinality(E) /\ report \in [1 .. Cardinality(E) -> E]
       /\ \A x \in E : \E i \in 1 .. Cardinality(E) : report[i] = x
       /\ \A i, j \in 1 .. Cardinality(E) : i < j => <<report[i], report[j]>> \in before
  BY <1>3, <1>6, <1>9, Sorted
<1>11. {report[i] : i \in DOMAIN report} = E
  BY <1>10
<1>12. \A i, j \in DOMAIN report : i < j => report[i].onset < report[j].onset
  BY <1>5, <1>10
<1> QED
  BY <1>2, <1>4, <1>11, <1>12
-----------------------------------------------------------------------------
(***************************************************************************)
(* The last record of a log, and the report of it.                         *)
(***************************************************************************)
\* What has been seen last of an observer is in a run.
LEMMA LastSeen ==
  ASSUME NEW R, Chronological(R), NEW m \in DOMAIN R, NEW o \in Observers,
         Seen(R, m, o) # {}
  PROVE  \E a, b \in DOMAIN R : Latest(R, m, o, a, b)
<1>1. R \in Seq(Observation) /\ m - 1 \in 0 .. Len(R) /\ (m - 1) + 1 = m
  BY RecordTypes DEF Chronological
<1>2. Follows(R, m, Reduced(R)[m - 1])
  BY <1>1, LoopFollows
<1> DEFINE s == Reduced(R)[m - 1]
<1>3. Stands(R, m, o, s.active[o], s.previous[o])
  BY <1>2, Zenon DEF Follows
<1> HIDE DEF s
<1> QED
  BY <1>3 DEF Stands

\* Every record is in a run.
LEMMA RecordInRun ==
  ASSUME NEW R, Chronological(R), NEW m \in DOMAIN R
  PROVE  \E a \in DOMAIN R : R[a].observer = R[m].observer /\ IsOpen(R, a, m)
<1> DEFINE o == R[m].observer
           s == Reduced(R)[m]
<1>1. R \in Seq(Observation) /\ m \in 0 .. Len(R) /\ o \in Observers /\ m \in Nat
  BY RecordTypes DEF Chronological
<1>2. Follows(R, m + 1, s)
  BY <1>1, LoopFollows
<1>3. Stands(R, m + 1, o, s.active[o], s.previous[o])
  BY <1>1, <1>2, Zenon DEF Follows
<1>4. /\ m \in Seen(R, m + 1, o)
      /\ \A i \in Seen(R, m + 1, o) : i = m \/ (i \in Nat /\ i < m)
  BY <1>1, SeenGrows
<1> HIDE DEF s, o
<1>5. PICK a, b \in DOMAIN R : Latest(R, m + 1, o, a, b)
  BY <1>3, <1>4 DEF Stands
<1>6. b = m
  <2>1. b \in Seen(R, m + 1, o) /\ m <= b
    BY <1>4, <1>5 DEF Latest
  <2> QED
    BY <1>1, <1>4, <2>1
<1> QED
  BY <1>5, <1>6 DEF Latest, o

\* A key that was seen before, with another between, is the key of a run that
\* was over.
LEMMA SeenBefore ==
  ASSUME NEW R, Chronological(R), NEW m \in DOMAIN R, IsOpen(R, m, m),
         NEW i \in Seen(R, m, R[m].observer), ContextKey(R[i]) = ContextKey(R[m])
  PROVE  Earlier(R, m) # {}
<1> DEFINE o == R[m].observer
           C == {j \in OtherKey(R, m) : i < j}
<1>1. /\ R \in Seq(Observation) /\ o \in Observers /\ m \in Nat
      /\ i \in Own(R, o) /\ i < m /\ i \in DOMAIN R /\ i \in Nat
  BY RecordTypes DEF Chronological, Seen
<1>2. \A j \in OtherKey(R, m) :
        /\ j \in Own(R, o) /\ j \in DOMAIN R /\ j \in Nat
        /\ ContextKey(R[j]) # ContextKey(R[m])
  BY <1>1, RecordTypes DEF OtherKey
<1>3. PICK j \in C : j < m
  <2>1. PICK j \in OtherKey(R, m) : i <= j /\ j < m
    BY <1>1 DEF IsOpen
  <2>2. i < j
    BY <1>1, <1>2, <2>1
  <2> QED
    BY <2>1, <2>2
<1>4. PICK c \in C : \A x \in C : ~ (x < c)
  <2>1. C \in SUBSET Nat /\ C # {}
    BY <1>2, <1>3
  <2> HIDE DEF C
  <2> QED
    BY <2>1, LeastNumber
<1>5. /\ c \in DOMAIN R /\ c \in Nat /\ c <= j /\ c < m /\ i < c /\ R[c].observer = o
      /\ ContextKey(R[c]) # ContextKey(R[m])
  <2>1. j \in Nat /\ j < m /\ c \in Nat /\ i < c /\ ~ (j < c)
    BY <1>2, <1>3, <1>4
  <2> QED
    BY <1>1, <1>2, <1>4, <2>1 DEF Own
<1>6. i \in Seen(R, c, o)
  BY <1>1, <1>5 DEF Seen
<1>7. PICK a, b \in DOMAIN R : Latest(R, c, o, a, b)
  BY <1>1, <1>5, <1>6, LastSeen
<1>8. /\ b \in Own(R, o) /\ b < c /\ i <= b /\ b \in Nat
      /\ R[a].observer = o /\ ContextKey(R[b]) = ContextKey(R[a])
  BY <1>1, <1>6, <1>7, OpenSays, RecordTypes DEF Latest, Seen
<1>9. ContextKey(R[b]) = ContextKey(R[m])
  <2>1. CASE b = i
    BY <2>1
  <2>2. CASE b # i
    <3>1. i < b /\ b \notin C
      BY <1>1, <1>4, <1>8, <2>2
    <3> QED
      BY <1>8, <3>1 DEF OtherKey
  <2> QED
    BY <2>1, <2>2
<1>10. <<a, b>> \in Runs(R)
  <2>1. Latest(R, c, R[c].observer, a, b) /\ ContextKey(R[c]) # ContextKey(R[a])
    BY <1>5, <1>7, <1>8, <1>9
  <2> QED
    BY <1>1, <1>5, <2>1, RunEnds
<1>11. b < m
  BY <1>1, <1>5, <1>8
<1>12. <<a, b>> \in Earlier(R, m)
  <2>1. <<a, b>>[1] = a /\ <<a, b>>[2] = b
    OBVIOUS
  <2> QED
    BY <1>8, <1>9, <1>10, <1>11, <2>1 DEF Earlier
<1> QED
  BY <1>12

\* The last episode of an observer is the run of its last record.
LEMMA LastEpisode ==
  ASSUME NEW R, Chronological(R), NEW n \in DOMAIN R, n = Len(R),
         NEW a \in DOMAIN R, R[a].observer = R[n].observer, IsOpen(R, a, n)
  PROVE  /\ <<a, n>> \in Runs(R)
         /\ \A r \in Runs(R) : R[r[1]].observer = R[n].observer =>
              r[1] <= a /\ R[r[1]].time <= R[a].time
<1> DEFINE o == R[n].observer
<1>1. /\ R \in Seq(Observation) /\ a \in Nat /\ n \in Nat /\ a <= n
      /\ \A i \in DOMAIN R : i \in Nat /\ i <= n /\ R[i].time \in Nat
      /\ \A i, j \in DOMAIN R : i < j => R[i].time < R[j].time
  BY RecordTypes, OpenSays DEF Chronological
<1>2. <<a, n>> \in Runs(R)
  <2>1. \A i \in Own(R, o) : ~ (n < i)
    BY <1>1 DEF Own
  <2>2. IsClosed(R, a, n)
    BY <2>1 DEF IsClosed
  <2> QED
    BY <2>2, RunParts DEF Runs
<1>3. ASSUME NEW r \in Runs(R), R[r[1]].observer = o
      PROVE  r[1] <= a
  <2>1. r[1] \in DOMAIN R /\ IsOpen(R, r[1], r[2])
    BY RunsSay, RunParts
  <2> DEFINE x == r[1]
  <2> SUFFICES ASSUME a < x PROVE FALSE
    BY <1>1, <2>1
  <2>2. a \in Own(R, R[x].observer) /\ x \in Own(R, o)
    BY <1>3, <2>1 DEF Own
  <2>3. PICK j \in OtherKey(R, x) : a <= j /\ j < x
    BY <2>1, <2>2 DEF IsOpen
  <2>4. j \in Own(R, o) /\ j \in DOMAIN R /\ ContextKey(R[j]) # ContextKey(R[x])
    BY <1>3, <2>3 DEF OtherKey, Own
  <2>5. j <= n /\ x <= n /\ a <= x
    BY <1>1, <2>1, <2>4
  <2>6. /\ \A i \in Own(R, o) : a <= i /\ i <= n => ContextKey(R[i]) = ContextKey(R[a])
    BY <1>1, OpenSays
  <2> QED
    BY <2>2, <2>3, <2>4, <2>5, <2>6
<1>4. ASSUME NEW r \in Runs(R), R[r[1]].observer = o
      PROVE  R[r[1]].time <= R[a].time
  <2>1. r[1] <= a /\ r[1] \in DOMAIN R
    BY <1>3, <1>4, RunsSay
  <2>2. r[1] = a \/ r[1] < a
    BY <1>1, <2>1
  <2> QED
    BY <1>1, <2>1, <2>2
<1> QED
  BY <1>2, <1>3, <1>4
-----------------------------------------------------------------------------
(***************************************************************************)
(* What is said of a record when it is written, and what the report says   *)
(* of its episode.                                                         *)
(***************************************************************************)
\* A log of n records, the last of them written to the prior ones.
WrittenTo(R, n, prior, record) == R = Append(prior, record) /\ n = Len(R)

LEMMA AppendSays ==
  ASSUME NEW prior \in Seq(Observation), NEW record \in Observation,
         NEW R, NEW n, WrittenTo(R, n, prior, record)
  PROVE  /\ R \in Seq(Observation) /\ n \in DOMAIN R /\ R[n] = record
         /\ \A i \in DOMAIN prior : R[i] = prior[i]
         /\ \A o : Seen(R, n, o) = Own(prior, o)
<1>1. /\ R \in Seq(Observation) /\ n = Len(prior) + 1 /\ R[n] = record
      /\ \A i \in 1 .. Len(prior) : R[i] = prior[i]
      /\ Len(prior) \in Nat /\ DOMAIN prior = 1 .. Len(prior) /\ DOMAIN R = 1 .. n
  <2>1. /\ R \in Seq(Observation) /\ Len(R) = Len(prior) + 1
        /\ \A i \in 1 .. Len(prior) : R[i] = prior[i]
        /\ R[Len(prior) + 1] = record
    BY AppendProperties DEF WrittenTo
  <2> QED
    BY <2>1 DEF WrittenTo
<1>2. ASSUME NEW o, NEW i
      PROVE  i \in Seen(R, n, o) <=> i \in Own(prior, o)
  <2>1. i \in DOMAIN R /\ i < n <=> i \in DOMAIN prior
    BY <1>1
  <2> QED
    BY <1>1, <2>1 DEF Seen, Own
<1>3. \A o : Seen(R, n, o) = Own(prior, o)
  <2> TAKE o
  <2>1. \A i : i \in Seen(R, n, o) <=> i \in Own(prior, o)
    BY <1>2
  <2> QED
    BY <2>1
<1> QED
  BY <1>1, <1>3

\* What a record is compared with.
LEMMA ComparedWith ==
  ASSUME NEW prior \in Seq(Observation), NEW record \in Observation,
         NEW R, NEW n, WrittenTo(R, n, prior, record)
  PROVE  /\ Seen(R, n, record.observer) = {} => Previous(prior, record) = NONE
         /\ \A p \in Seen(R, n, record.observer) :
              (\A i \in Seen(R, n, record.observer) : i <= p) =>
                Previous(prior, record) = R[p] /\ R[p] # NONE
         /\ ExactMatch(prior, record) = "NoPriorExactKeyMatch" <=>
              \A i \in Seen(R, n, record.observer) : ContextKey(R[i]) # ContextKey(record)
         /\ ExactMatch(prior, record) = "AnchoredExactRecurrence" <=>
              /\ record.path.mac # NONE
              /\ \E i \in Seen(R, n, record.observer) : ContextKey(R[i]) = ContextKey(record)
<1> DEFINE own == Own(prior, record.observer)
<1>1. /\ own = Seen(R, n, record.observer)
      /\ \A i \in own : i \in DOMAIN prior /\ i \in Nat /\ R[i] = prior[i] /\ prior[i] # NONE
  BY AppendSays, RecordTypes
<1>2. own = {} => Previous(prior, record) = NONE
  BY DEF Previous
<1>3. ASSUME NEW p \in own, \A i \in own : i <= p
      PROVE  Previous(prior, record) = prior[p]
  <2>1. \A q \in own : (\A j \in own : j <= q) => q = p
    BY <1>1, <1>3
  <2> HIDE DEF own
  <2>2. (CHOOSE i \in own : \A j \in own : j <= i) = p
    BY <1>3, <2>1
  <2> QED
    BY <1>3, <2>2 DEF Previous, own
<1>4. /\ ExactMatch(prior, record) = "NoPriorExactKeyMatch" <=>
           \A i \in own : ContextKey(prior[i]) # ContextKey(record)
      /\ ExactMatch(prior, record) = "AnchoredExactRecurrence" <=>
           record.path.mac # NONE /\ \E i \in own : ContextKey(prior[i]) = ContextKey(record)
  BY DEF ExactMatch
<1> HIDE DEF own
<1> QED
  BY <1>1, <1>2, <1>3, <1>4 DEF own

\* Records of two keys differ in a dimension.
LEMMA KeysDiffer ==
  ASSUME NEW x \in Observation, NEW y \in Observation, ContextKey(x) # ContextKey(y)
  PROVE  ChangedDimensions(x, y) # {}
<1>1. x.path \in HostPath /\ y.path \in HostPath /\ x.path # y.path
  BY DEF Observation, ContextKey
<1>2. ASSUME NEW p \in HostPath, NEW q \in HostPath, p # q
      PROVE  \E d \in DOMAIN q : p[d] # q[d]
  <2>1. /\ p = [interface |-> p.interface, ssid |-> p.ssid, gateway |-> p.gateway,
                mac |-> p.mac, resolvers |-> p.resolvers]
        /\ q = [interface |-> q.interface, ssid |-> q.ssid, gateway |-> q.gateway,
                mac |-> q.mac, resolvers |-> q.resolvers]
        /\ DOMAIN q = {"interface", "ssid", "gateway", "mac", "resolvers"}
    BY DEF HostPath
  <2> QED
    BY <1>2, <2>1
<1> QED
  BY <1>1, <1>2 DEF ChangedDimensions

\* The run of a record whose observer had another key before began with it.
LEMMA BeginsAnew ==
  ASSUME NEW R \in Seq(Observation), NEW n \in DOMAIN R,
         NEW a \in DOMAIN R, R[a].observer = R[n].observer, IsOpen(R, a, n),
         NEW p \in Seen(R, n, R[n].observer),
         \A i \in Seen(R, n, R[n].observer) : i <= p,
         ContextKey(R[p]) # ContextKey(R[n])
  PROVE  a = n
<1> DEFINE own == Own(R, R[n].observer)
<1>1. /\ a \in Nat /\ n \in Nat /\ a <= n /\ a \in own /\ ContextKey(R[n]) = ContextKey(R[a])
      /\ \A i \in own : a <= i /\ i <= n => ContextKey(R[i]) = ContextKey(R[a])
      /\ p \in own /\ p \in Nat /\ p < n
  BY OpenSays, RecordTypes DEF Seen
<1>2. a # n => a <= p
  BY <1>1 DEF Seen
<1> QED
  BY <1>1, <1>2

\* The kind of an episode that began with a record.
LEMMA KindSays ==
  ASSUME NEW R, Chronological(R), NEW n \in DOMAIN R, IsOpen(R, n, n)
  PROVE  /\ KindOf(R, n) = "Initial" <=> Seen(R, n, R[n].observer) = {}
         /\ KindOf(R, n) = "Returned" <=>
              \E i \in Seen(R, n, R[n].observer) : ContextKey(R[i]) = ContextKey(R[n])
<1>1. ASSUME Earlier(R, n) # {}
      PROVE  \E i \in Seen(R, n, R[n].observer) : ContextKey(R[i]) = ContextKey(R[n])
  <2>1. PICK r \in Runs(R) : /\ r[2] < n /\ R[r[1]].observer = R[n].observer
                             /\ ContextKey(R[r[1]]) = ContextKey(R[n])
    BY <1>1 DEF Earlier
  <2>2. R \in Seq(Observation)
    BY DEF Chronological
  <2>3. /\ r[1] \in DOMAIN R /\ r[2] \in DOMAIN R /\ IsOpen(R, r[1], r[2])
    BY RunsSay, RunParts
  <2>4. r[1] <= r[2] /\ r[1] \in Nat /\ r[2] \in Nat /\ n \in Nat
    BY <2>2, <2>3, OpenSays, RecordTypes
  <2>5. r[1] < n
    BY <2>1, <2>4
  <2> QED
    BY <2>1, <2>3, <2>5 DEF Seen, Own
<1>2. (\E i \in Seen(R, n, R[n].observer) : ContextKey(R[i]) = ContextKey(R[n]))
        => Earlier(R, n) # {}
  BY SeenBefore
<1> QED
  BY <1>1, <1>2 DEF KindOf

\* What a process says of the record and which episode the report has for it.
Told(said, prior, record, e, R, a, n) ==
  said = Summarize(prior, record) /\ e = EpisodeOf(R, a, n)

\* What a process said of a record and what the report says of its episode.
LEMMA SaidAndReported ==
  ASSUME NEW prior \in Seq(Observation), NEW record \in Observation,
         NEW R, NEW n, WrittenTo(R, n, prior, record), Chronological(R),
         NEW a \in DOMAIN R, R[a].observer = record.observer, IsOpen(R, a, n),
         NEW said, NEW e, Told(said, prior, record, e, R, a, n)
  PROVE  /\ said = "FirstObservation" => e.kind = "Initial"
         /\ said = "Returned" => e.kind = "Returned" /\ e.recovery = record.time
         /\ said = "Recurring" =>
              record.path.mac # NONE /\ (e.kind = "Returned" \/ e.observations > 1)
         /\ said = "Changed" =>
              e.onset = record.time /\ (e.kind = "Returned" => record.path.mac = NONE)
         /\ said = "Compatible" => e.changed # {} \/ record.path.mac = NONE
<1> DEFINE seen == Seen(R, n, record.observer)
           met == \E i \in seen : ContextKey(R[i]) = ContextKey(record)
           relation == CompareContexts(Previous(prior, record), record)
           anchored == record.path.mac # NONE /\ met
<1>1. /\ R \in Seq(Observation) /\ n \in DOMAIN R /\ R[n] = record
      /\ a \in Nat /\ n \in Nat /\ a <= n /\ ContextKey(R[a]) = ContextKey(record)
  BY AppendSays, OpenSays, RecordTypes
<1>2. /\ e.kind = KindOf(R, a) /\ e.onset = R[a].time
      /\ e.recovery = IF KindOf(R, a) = "Returned" THEN R[a].time ELSE NONE
      /\ e.observations = Cardinality(Stretch(R, a, n)) /\ e.changed = ChangedIn(R, a, n)
  BY <1>1, EpisodeSays DEF Told
<1>3. a = n => /\ KindOf(R, a) = "Initial" <=> seen = {}
               /\ KindOf(R, a) = "Returned" <=> met
  BY <1>1, KindSays
<1>4. /\ said = "FirstObservation" => relation = "FirstObservation"
      /\ said = "Returned" => relation = "ContextChanged" /\ anchored
      /\ said = "Changed" => relation = "ContextChanged" /\ ~ anchored
      /\ said = "Recurring" => relation \in {"SameContext", "CompatibleContext"} /\ anchored
      /\ said = "Compatible" => relation \in {"SameContext", "CompatibleContext"} /\ ~ anchored
  <2>1. anchored <=> ExactMatch(prior, record) = "AnchoredExactRecurrence"
    BY ComparedWith
  <2>2. relation \in {"FirstObservation", "SameContext", "CompatibleContext", "ContextChanged"}
    BY DEF CompareContexts
  <2> HIDE DEF anchored
  <2> QED
    BY <2>1, <2>2 DEF Summarize, Told, relation
<1>5. seen # {} =>
        \E p \in seen : /\ \A i \in seen : i <= p
                        /\ Previous(prior, record) = R[p] /\ R[p] # NONE
  <2> SUFFICES ASSUME seen # {}
               PROVE  \E p \in seen : /\ \A i \in seen : i <= p
                                      /\ Previous(prior, record) = R[p] /\ R[p] # NONE
    OBVIOUS
  <2>1. record.observer \in Observers
    BY DEF Observation
  <2>2. PICK x, p \in DOMAIN R : Latest(R, n, record.observer, x, p)
    BY <1>1, <2>1, LastSeen
  <2>3. p \in seen /\ \A i \in seen : i <= p
    BY <2>2 DEF Latest
  <2> QED
    BY <2>3, ComparedWith
<1>6. seen = {} <=> relation = "FirstObservation"
  <2>1. seen = {} => Previous(prior, record) = NONE
    BY ComparedWith
  <2>2. seen # {} => Previous(prior, record) # NONE
    BY <1>5
  <2> QED
    BY <2>1, <2>2 DEF CompareContexts
<1> HIDE DEF seen
<1>7. ASSUME relation \in {"ContextChanged", "CompatibleContext"}
      PROVE  /\ a = n
             /\ \E p \in seen : /\ \A i \in seen : i <= p
                                /\ ContextKey(R[p]) # ContextKey(record)
  <2>1. PICK p \in seen : (\A i \in seen : i <= p) /\ Previous(prior, record) = R[p] /\ R[p] # NONE
    BY <1>5, <1>6, <1>7
  <2>2. ContextKey(R[p]) # ContextKey(record)
    BY <1>7, <2>1 DEF CompareContexts
  <2>3. a = n
    BY <1>1, <2>1, <2>2, BeginsAnew DEF seen
  <2> QED
    BY <2>1, <2>2, <2>3
<1>8. ASSUME relation = "SameContext"
      PROVE  met
  <2>1. PICK p \in seen : Previous(prior, record) = R[p] /\ R[p] # NONE
    BY <1>5, <1>6, <1>8
  <2>2. ContextKey(R[p]) = ContextKey(record)
    BY <1>8, <2>1 DEF CompareContexts
  <2> QED
    BY <2>1, <2>2
<1> HIDE DEF relation
<1>9. ASSUME seen = {}
      PROVE  a = n
  <2>1. a \in Own(R, record.observer)
    BY DEF Own
  <2>2. ~ (a < n)
    BY <1>9, <2>1 DEF Seen, seen
  <2> QED
    BY <1>1, <2>2
<1>10. ASSUME a # n
       PROVE  Cardinality(Stretch(R, a, n)) > 1
  <2>1. a \in Stretch(R, a, n) /\ n \in Stretch(R, a, n)
    BY <1>1 DEF Stretch, Own
  <2> DEFINE S == Stretch(R, a, n)
  <2>2. S \in SUBSET (DOMAIN R)
    BY DEF Stretch, Own
  <2>3. IsFiniteSet(S) /\ Cardinality(S) \in Nat
    BY <1>1, <2>2, FinitelyMany
  <2> HIDE DEF S
  <2>4. a \in S /\ n \in S \ {a}
    BY <1>10, <2>1 DEF S
  <2> DEFINE rest == S \ {a}
  <2>5. IsFiniteSet(rest) /\ Cardinality(rest) = Cardinality(S) - 1
    BY <2>3, <2>4, FS_RemoveElement
  <2>6. rest # {}
    BY <2>4
  <2> HIDE DEF rest
  <2>7. Cardinality(rest) # 0 /\ Cardinality(rest) \in Nat
    BY <2>5, <2>6, FS_EmptySet, FS_CardinalityType
  <2> QED
    BY <2>3, <2>5, <2>7 DEF S
<1>11. ASSUME relation = "CompatibleContext"
       PROVE  ChangedIn(R, a, n) # {}
  <2>1. PICK p \in seen : (\A i \in seen : i <= p) /\ ContextKey(R[p]) # ContextKey(record)
    BY <1>7, <1>11
  <2>2. /\ a = n /\ p \in DOMAIN R /\ p \in Nat \ {0} /\ p < n /\ R[p].observer = record.observer
        /\ R[p] \in Observation
    BY <1>1, <1>7, <1>11, RecordTypes DEF Seen, seen
  <2>3. \A i : i \in Stretch(R, p, n) <=> i = p \/ i = n
    <3>1. \A i : i \in Stretch(R, p, n) <=> i \in Own(R, record.observer) /\ i \in p .. n
      BY <2>2 DEF Stretch
    <3>2. \A i \in Own(R, record.observer) : i \in Nat /\ (i < n => i <= p)
      BY <1>1, <2>1, RecordTypes DEF Seen, seen
    <3>3. p \in Own(R, record.observer) /\ n \in Own(R, record.observer)
      BY <1>1, <2>2 DEF Own
    <3> QED
      BY <1>1, <2>2, <3>1, <3>2, <3>3
  <2>4. Stretch(R, p, n) = {p, n}
    BY <2>3
  <2>5. n \in Stretch(R, a, n)
    BY <1>1, <2>2 DEF Stretch, Own
  <2>6. p \in 1 .. n
    BY <1>1, <2>2
  <2>7. <<p, n>> \in Successions(R, a, n)
    BY <1>1, <2>2, <2>4, <2>5, <2>6 DEF Successions
  <2>8. ChangedDimensions(R[p], R[n]) # {}
    BY <1>1, <2>1, <2>2, KeysDiffer
  <2>9. <<p, n>>[1] = p /\ <<p, n>>[2] = n
    OBVIOUS
  <2> QED
    BY <2>7, <2>8, <2>9 DEF ChangedIn
<1> HIDE DEF met
<1>12. said = "FirstObservation" => e.kind = "Initial"
  BY <1>2, <1>3, <1>4, <1>6, <1>9
<1>13. said = "Returned" => e.kind = "Returned" /\ e.recovery = record.time
  BY <1>1, <1>2, <1>3, <1>4, <1>7
<1>14. said = "Recurring" =>
         record.path.mac # NONE /\ (e.kind = "Returned" \/ e.observations > 1)
  BY <1>2, <1>3, <1>4, <1>10
<1>15. said = "Changed" =>
         e.onset = record.time /\ (e.kind = "Returned" => record.path.mac = NONE)
  BY <1>1, <1>2, <1>3, <1>4, <1>7
<1>16. said = "Compatible" => e.changed # {} \/ record.path.mac = NONE
  BY <1>2, <1>4, <1>8, <1>11
<1> QED
  BY <1>12, <1>13, <1>14, <1>15, <1>16
-----------------------------------------------------------------------------
(***************************************************************************)
(* A log and what is said of it, where no two records of the logs found    *)
(* first were taken at one time.                                           *)
(***************************************************************************)
InitialTimesDiffer == \A f \in InitialFiles : TimesDiffer(f.records)

\* No record is appended at a time there is one of.
LEMMA TimesStay ==
  ASSUME LogTyped, TimesDiffer(file.records), NEW record \in Observation,
         record.time \in Readings,
         \/ file'.records = file.records
         \/ file'.records = Append(file.records, record)
  PROVE  TimesDiffer(file.records)'
<1> DEFINE old == file.records
           new == file'.records
<1>1. CASE new = old
  BY <1>1 DEF TimesDiffer
<1>2. CASE new = Append(old, record)
  <2>1. old \in Seq(Observation)
    BY DEF LogTyped
  <2>2. /\ new \in Seq(Observation) /\ Len(new) = Len(old) + 1
        /\ \A i \in 1 .. Len(old) : new[i] = old[i]
        /\ new[Len(old) + 1] = record
    BY <1>2, <2>1, AppendProperties
  <2>3. \A i \in DOMAIN old : old[i].time # record.time
    BY DEF Readings
  <2>4. \A i, j \in DOMAIN old : old[i].time = old[j].time => i = j
    BY DEF TimesDiffer
  <2> HIDE DEF old, new
  <2>5. /\ DOMAIN old = 1 .. Len(old) /\ DOMAIN new = 1 .. Len(old) + 1
        /\ Len(old) \in Nat
    BY <2>1, <2>2
  <2>6. \A i \in DOMAIN new : (i \in DOMAIN old /\ new[i] = old[i]) \/ i = Len(old) + 1
    BY <2>2, <2>5
  <2>7. \A i, j \in DOMAIN new : new[i].time = new[j].time => i = j
    BY <2>2, <2>3, <2>4, <2>6
  <2> QED
    BY <2>7 DEF TimesDiffer, new
<1> QED
  BY <1>1, <1>2

LEMMA NextTimes ==
  ASSUME HistoryInvariant, TimesDiffer(file.records), [Next]_vars
  PROVE  TimesDiffer(file.records)'
<1>1. LogTyped /\ AppTyped
  BY DEF HistoryInvariant
<1>2. ASSUME file'.records = file.records
      PROVE  TimesDiffer(file.records)'
  BY <1>2 DEF TimesDiffer
<1>3. ASSUME NEW u \in Updates, NEW entry \in Neighbors, AcceptsUpdate(app, u), NEW t \in Readings,
             file'.records = Append(file.records, Observed(Apply(app, u), NeighborAfter(u, entry), t))
      PROVE  TimesDiffer(file.records)'
  <2> DEFINE record == Observed(Apply(app, u), NeighborAfter(u, entry), t)
  <2>1. NeighborAfter(u, entry) \in Neighbor \cup {NONE}
    BY <1>1 DEF NeighborAfter, AppTyped, Neighbors, OfGateways, OfOthers
  <2>2. record \in Observation
    BY <1>1, <1>3, <2>1, ObservedType
  <2>3. record.time = t
    BY DEF Observed
  <2> HIDE DEF record
  <2> QED
    BY <1>1, <1>3, <2>2, <2>3, TimesStay DEF record
<1>4. CASE Start \/ End \/ UNCHANGED vars
  BY <1>2, <1>4 DEF Start, End, vars
<1>5. ASSUME NEW u \in Updates, NEW entry \in Neighbors,
             ReceiveOnly(u, entry) \/ AssessPrefix(u, entry) \/ RecordFails(u, entry)
      PROVE  TimesDiffer(file.records)'
  <2>1. CASE ReceiveOnly(u, entry) \/ AssessPrefix(u, entry)
    BY <1>2, <2>1 DEF ReceiveOnly, AssessPrefix
  <2>2. CASE RecordFails(u, entry)
    BY <1>1, <1>2, <1>3, <2>2, FailureLeaves DEF AppendJsonl
  <2> QED
    BY <1>5, <2>1, <2>2
<1>6. ASSUME NEW u \in Updates, NEW entry \in Neighbors, Record(u, entry)
      PROVE  TimesDiffer(file.records)'
  <2>1. /\ AcceptsUpdate(app, u) /\ app' = Apply(app, u)
        /\ neighbor' = NeighborAfter(u, entry)
    BY <1>6 DEF Record, Complete, Admit
  <2>2. PICK t \in Readings :
          file'.records = Append(file.records, Observed(Apply(app, u), NeighborAfter(u, entry), t))
    BY <1>6, <2>1 DEF Record, AppendJsonl
  <2> QED
    BY <1>3, <2>1, <2>2
<1>7. ASSUME NEW u \in Updates, NEW entry \in Neighbors, DieInAppend(u, entry)
      PROVE  TimesDiffer(file.records)'
  <2>1. AcceptsUpdate(app, u)
    BY <1>7 DEF DieInAppend
  <2>2. PICK t \in Readings :
          \/ file'.records = file.records
          \/ file'.records = Append(file.records, Observed(Apply(app, u), NeighborAfter(u, entry), t))
    BY <1>7 DEF DieInAppend, Unfinished, AppendJsonl, Touched, Torn
  <2> QED
    BY <1>2, <1>3, <2>1, <2>2
<1>8. CASE OtherWrites
  <2>1. \/ file'.records = file.records
        \/ \E record \in Observation :
             record.time \in Readings /\ file'.records = Append(file.records, record)
    BY <1>8, OthersRecord DEF Torn, AppendJsonl
  <2> QED
    BY <1>1, <1>2, <2>1, TimesStay
<1> QED
  BY <1>4, <1>5, <1>6, <1>7, <1>8 DEF Next, Receive

LEMMA TimesInductive ==
  ASSUME InitialTimesDiffer
  PROVE  Spec => [](HistoryInvariant /\ TimesDiffer(file.records))
<1>1. Init => TimesDiffer(file.records)
  BY DEF Init, InitialTimesDiffer
<1>2. HistoryInvariant /\ TimesDiffer(file.records) /\ [Next]_vars
        => TimesDiffer(file.records)'
  BY NextTimes
<1> QED
  BY <1>1, <1>2, HistoryInductive, PTL DEF Spec

\* Whatever was appended, by whom and between which crashes, the offline report
\* of a log is its partition into stretches of one context per observer, each
\* with the number of earlier stretches of that context, in their order.
THEOREM EpisodesAreRuns ==
  ASSUME InitialTimesDiffer
  PROVE  Spec => []EpisodesAgree
<1>1. ASSUME HistoryInvariant, TimesDiffer(file.records)
      PROVE  EpisodesAgree
  <2>1. file.records \in Seq(Observation)
    BY <1>1 DEF HistoryInvariant, LogTyped
  <2> DEFINE report == SummarizeEpisodes(file.records)
  <2>2. /\ {report[i] : i \in DOMAIN report} = EpisodesByDefinition(file.records)
        /\ \A i, j \in DOMAIN report : i < j => report[i].onset < report[j].onset
    BY <1>1, <2>1, ReportSorts
  <2> QED
    BY <2>2 DEF EpisodesAgree, Reported
<1> QED
  BY <1>1, TimesInductive, PTL

\* What is on display of a record is what it was compared with before it.
Assessed ==
  running /\ context \in Assessments =>
    \E prior \in Seq(Observation), record \in Observation :
      /\ session.records = Append(prior, record)
      /\ record.observer = ThisHost
      /\ context = Summarize(prior, record)

LEMMA NextAssessed ==
  ASSUME HistoryInvariant, MemoryInvariant, Assessed, [Next]_vars
  PROVE  Assessed'
<1>1. LogTyped /\ AppTyped /\ SessionTyped /\ session.records \in Seq(Observation)
  BY DEF HistoryInvariant, MemoryInvariant
<1>2. CASE UNCHANGED <<running, session, context>>
  BY <1>2 DEF Assessed
<1>3. CASE context' \notin Assessments \/ ~running'
  BY <1>3 DEF Assessed
<1>4. CASE Start
  <2>1. context' \notin Assessments
    BY <1>1, <1>4 DEF Start, InitialContext, Assessments, LogTyped, FileStates
  <2> QED
    BY <1>3, <2>1
<1>5. CASE End \/ OtherWrites \/ UNCHANGED vars
           \/ \E u \in Updates, entry \in Neighbors : DieInAppend(u, entry)
  BY <1>2, <1>3, <1>5 DEF End, Gone, OtherWrites, vars, DieInAppend
<1>6. ASSUME NEW u \in Updates, NEW entry \in Neighbors,
             ReceiveOnly(u, entry) \/ AssessPrefix(u, entry) \/ RecordFails(u, entry)
      PROVE  Assessed'
  BY <1>2, <1>3, <1>6 DEF ReceiveOnly, AssessPrefix, RecordFails, Assessments
<1>7. ASSUME NEW u \in Updates, NEW entry \in Neighbors, Record(u, entry)
      PROVE  Assessed'
  <2>1. /\ Admit(u, entry) /\ AcceptsUpdate(app, u) /\ app' = Apply(app, u)
        /\ neighbor' = NeighborAfter(u, entry)
    BY <1>7 DEF Record, Complete, Admit
  <2>2. PICK t \in Readings :
          /\ session' = [session EXCEPT
                           !.recorded_generation = app'.path_generation,
                           !.records = Append(@, Observed(app', neighbor', t))]
          /\ context' = Summarize(session.records, Observed(app', neighbor', t))
    BY <1>7 DEF Record
  <2> DEFINE record == Observed(Apply(app, u), NeighborAfter(u, entry), t)
  <2>3. NeighborAfter(u, entry) \in Neighbor \cup {NONE}
    BY <1>1 DEF NeighborAfter, AppTyped, Neighbors, OfGateways, OfOthers
  <2>4. record \in Observation /\ record.observer = ThisHost
    BY <1>1, <2>1, <2>3, ObservedType DEF Observed
  <2>5. /\ session'.records = Append(session.records, record)
        /\ context' = Summarize(session.records, record)
    BY <1>1, <2>1, <2>2 DEF SessionTyped
  <2> HIDE DEF record
  <2> QED
    BY <1>1, <2>4, <2>5 DEF Assessed
<1> QED
  BY <1>4, <1>5, <1>6, <1>7 DEF Next, Receive

\* The episode of this host that the report lists last is the run of the record
\* on display.
LEMMA LatestIsRun ==
  ASSUME file.records \in Seq(Observation), TimesDiffer(file.records),
         file.records = Replay(file.records), Chronological(file.records),
         NEW n \in DOMAIN file.records, n = Len(file.records),
         file.records[n].observer = ThisHost,
         NEW a \in DOMAIN file.records, file.records[a].observer = ThisHost,
         IsOpen(file.records, a, n)
  PROVE  LatestEpisode = EpisodeOf(file.records, a, n)
<1> DEFINE R == file.records
           own == {x \in Reported(SummarizeEpisodes(R)) : x.observer = ThisHost}
           e == EpisodeOf(R, a, n)
<1>1. Reported(SummarizeEpisodes(R)) = {EpisodeOf(R, r[1], r[2]) : r \in Runs(R)}
  <2> DEFINE report == SummarizeEpisodes(R)
  <2>1. {report[i] : i \in DOMAIN report} = EpisodesByDefinition(R)
    BY ReportSorts
  <2>2. Replay(R) = R
    OBVIOUS
  <2>3. EpisodesByDefinition(R) = {EpisodeOf(R, r[1], r[2]) : r \in Runs(R)}
    BY <2>2 DEF EpisodesByDefinition
  <2> HIDE DEF report, R
  <2>4. {report[i] : i \in DOMAIN report} = {EpisodeOf(R, r[1], r[2]) : r \in Runs(R)}
    BY <2>1, <2>3
  <2> QED
    BY <2>4 DEF report, Reported
<1>2. /\ <<a, n>> \in Runs(R)
      /\ \A r \in Runs(R) : R[r[1]].observer = ThisHost => R[r[1]].time <= R[a].time
  BY LastEpisode
<1>3. \A r \in Runs(R) : /\ EpisodeOf(R, r[1], r[2]).observer = R[r[1]].observer
                         /\ EpisodeOf(R, r[1], r[2]).onset = R[r[1]].time
                         /\ R[r[1]].time \in Nat
  BY RunsSay, EpisodeSays, RecordTypes
<1>4. <<a, n>>[1] = a /\ <<a, n>>[2] = n
  OBVIOUS
<1>5. /\ e.observer = ThisHost /\ e.onset = R[a].time /\ R[a].time \in Nat
      /\ e \in Reported(SummarizeEpisodes(R))
  BY <1>1, <1>2, <1>3, <1>4
<1>6. \A r \in Runs(R) : R[r[1]].time = R[a].time => EpisodeOf(R, r[1], r[2]) = e
  <2> TAKE r \in Runs(R)
  <2> HAVE R[r[1]].time = R[a].time
  <2>1. r = <<a, n>>
    BY <1>2, <1>4, OnsetTells
  <2> QED
    BY <1>4, <2>1
<1> HIDE DEF R, e
<1>7. e \in own /\ \A f \in own : f.onset <= e.onset
  BY <1>1, <1>2, <1>3, <1>5
<1>8. \A f \in own : f.onset \in Nat /\ (f.onset = e.onset => f = e)
  BY <1>1, <1>3, <1>5, <1>6
<1>9. \A f \in own : (\A g \in own : g.onset <= f.onset) => f = e
  BY <1>7, <1>8
<1>10. LatestEpisode = CHOOSE f \in own : \A g \in own : g.onset <= f.onset
  BY DEF LatestEpisode, R
<1> HIDE DEF own
<1>11. LatestEpisode = e
  BY <1>7, <1>9, <1>10
<1> QED
  BY <1>11 DEF e, R

\* A process that says of a network what it is says nothing that the report of
\* the same log contradicts.
LEMMA SurfacesMeet ==
  ASSUME LogTyped, TimesDiffer(file.records), Assessed
  PROVE  SurfacesAgree
<1> SUFFICES ASSUME JustAssessed
             PROVE  /\ context = "FirstObservation" => LatestEpisode.kind = "Initial"
                    /\ context = "Returned" =>
                         /\ LatestEpisode.kind = "Returned"
                         /\ LatestEpisode.recovery = LatestRecord.time
                    /\ context = "Recurring" =>
                         /\ LatestRecord.path.mac # NONE
                         /\ LatestEpisode.kind = "Returned" \/ LatestEpisode.observations > 1
                    /\ context = "Changed" =>
                         /\ LatestEpisode.onset = LatestRecord.time
                         /\ LatestEpisode.kind = "Returned" => LatestRecord.path.mac = NONE
                    /\ context = "Compatible" =>
                         LatestEpisode.changed # {} \/ LatestRecord.path.mac = NONE
  BY DEF SurfacesAgree, JustAssessed, Assessments
<1> DEFINE R == file.records
           n == Len(R)
<1>1. /\ R \in Seq(Observation) /\ session.records = R /\ R = Replay(R)
      /\ running /\ context \in Assessments
  BY DEF JustAssessed, LogTyped
<1>2. Chronological(R)
  BY <1>1, ReplaySorts
<1>3. PICK prior \in Seq(Observation), record \in Observation :
        R = Append(prior, record) /\ record.observer = ThisHost
        /\ context = Summarize(prior, record)
  BY <1>1 DEF Assessed
<1>4. WrittenTo(R, n, prior, record)
  BY <1>3 DEF WrittenTo
<1>5. n \in DOMAIN R /\ R[n] = record
  BY <1>4, AppendSays
<1>6. PICK a \in DOMAIN R : R[a].observer = ThisHost /\ IsOpen(R, a, n)
  BY <1>2, <1>3, <1>5, RecordInRun
<1>7. LatestEpisode = EpisodeOf(R, a, n)
  BY <1>1, <1>2, <1>3, <1>5, <1>6, LatestIsRun
<1>8. LatestRecord = record
  BY <1>5 DEF LatestRecord
<1>9. Told(context, prior, record, LatestEpisode, R, a, n)
  BY <1>3, <1>7 DEF Told
<1> DEFINE said == context
           e == LatestEpisode
<1>10. Told(said, prior, record, e, R, a, n)
  BY <1>9
<1>11. R[a].observer = record.observer
  BY <1>3, <1>6
<1> HIDE DEF R, n, said, e
<1>12. /\ said = "FirstObservation" => e.kind = "Initial"
       /\ said = "Returned" => e.kind = "Returned" /\ e.recovery = record.time
       /\ said = "Recurring" =>
            record.path.mac # NONE /\ (e.kind = "Returned" \/ e.observations > 1)
       /\ said = "Changed" =>
            e.onset = record.time /\ (e.kind = "Returned" => record.path.mac = NONE)
       /\ said = "Compatible" => e.changed # {} \/ record.path.mac = NONE
  BY <1>2, <1>4, <1>6, <1>10, <1>11, SaidAndReported
<1> QED
  BY <1>8, <1>12 DEF said, e

\* What a process says of a network when it records it and what the report says
\* of the same log later do not contradict each other.
THEOREM SaidAsReported ==
  ASSUME InitialTimesDiffer
  PROVE  Spec => []SurfacesAgree
<1>1. Init => Assessed
  BY DEF Init, Assessed
<1>2. HistoryInvariant /\ MemoryInvariant /\ Assessed /\ [Next]_vars => Assessed'
  BY NextAssessed
<1>3. Spec => [](HistoryInvariant /\ MemoryInvariant /\ Assessed)
  BY <1>1, <1>2, MemoryInductive, PTL DEF Spec
<1>4. HistoryInvariant /\ TimesDiffer(file.records) /\ Assessed => SurfacesAgree
  BY SurfacesMeet DEF HistoryInvariant
<1> QED
  BY <1>3, <1>4, TimesInductive, PTL
=============================================================================
