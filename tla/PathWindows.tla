---------------------------- MODULE PathWindows ----------------------------
(***************************************************************************)
(* What a session keeps of each path it has been on (model.rs: PathDwell,  *)
(* CompletedPathDwell, latest_completed_path_window): sums over the counter*)
(* readings, extremes of radio and processes, the neighbour sources, and   *)
(* what the window of a path that is over may claim from them.             *)
(*                                                                         *)
(* The four collectors share nothing but the path, so a session here is    *)
(* one of a single collector, its `subject`.  An update of a path that is  *)
(* over is refused (Session); counters are those of one interface, since   *)
(* all readings of a path name the interface it was published with.        *)
(***************************************************************************)
EXTENDS Absent, Assessment

CONSTANTS
  MaxWindows,   \* MAX_COMPLETED_PATH_DWELLS
  Loads,        \* bytes the interface may carry at once, received and sent
  Telemetry,    \* radio readings: [signal, channel], either may be missing
  Tops,         \* rates of the busiest process of a workload window
  CacheSources, \* native sources of neighbours
  MaxPaths,     \* bound: paths
  MaxReceived,  \* bound: updates of all paths
  MaxReadings,  \* bound: readings of the counters, failed or late ones too
  MaxInstant    \* bound: the clock

Directions == {"rx", "tx"}
None == [d \in Directions |-> 0]

Counts == [Directions -> Nat]
Counters == [bytes : Counts, carried : Counts, resets : Nat]
Rates == [Directions -> [bytes : Nat, elapsed : Nat]]

\* InterfaceDwell, WifiDwell and WorkloadDwell.
InterfaceDwell ==
  [samples : Nat, intervals : Nat, resets : Nat, delta : Counts,
   rate : Rates \cup {NONE}, peak : Rates \cup {NONE}]
Radio == [signal : Int \cup {NONE}, channel : Int \cup {NONE}]
RadioDwell ==
  [settled : BOOLEAN, samples : Nat, latest : Int \cup {NONE}, worst : Int \cup {NONE},
   channel : Int \cup {NONE}, changes : Nat]
WorkloadDwell ==
  [sampled : Nat, latest : Nat \cup {NONE}, peak : Nat \cup {NONE},
   health : {"queued", "ok", "unavailable"}]

ASSUME WindowsAssumption ==
  /\ MaxWindows \in Nat \ {0}
  /\ Loads \subseteq Counts /\ Tops \subseteq Nat \ {0} /\ Telemetry \subseteq Radio

ASSUME NoneIsNoEvidence ==
  /\ NONE \notin Int /\ NONE \notin Counts /\ NONE \notin Counters /\ NONE \notin Rates
  /\ NONE \notin [reading : Counters \cup {NONE}, at : Nat]
  /\ NONE \notin [health : {"ok", "unavailable"}, top : Nat \cup {NONE}]
  /\ NONE \notin Radio /\ NONE \notin InterfaceDwell /\ NONE \notin RadioDwell
  /\ NONE \notin [sampled : BOOLEAN, latest : Nat \cup {NONE}, peak : Nat \cup {NONE}]
  /\ NONE \notin [direction : {"none", "receive", "transmit", "both"},
                  peak : Rates, mean : Rates \cup {NONE}]

VARIABLES
  subject,  \* the collector, "none" if there is no session
  counters, \* the interface: its counters now, and what it carried in all
  worker,   \* the reading under way of the interface's counters
  instant,  \* the clock of the session
  current,  \* path_generation, path_observed_since, path_dwell and the like
  windows,  \* completed_path_dwells
  past      \* per generation, what was received of it (for the properties)
windowVars == <<subject, counters, worker, instant, current, windows, past>>

\* InterfaceDwell, WifiDwell, WorkloadDwell and the peer window of a new path.
NewDwell ==
  [interface |-> [samples |-> 0, intervals |-> 0, resets |-> 0, delta |-> None,
                  rate |-> NONE, peak |-> NONE],
   radio |-> [settled |-> FALSE, samples |-> 0, latest |-> NONE, worst |-> NONE,
              channel |-> NONE, changes |-> 0],
   workload |-> [sampled |-> 0, latest |-> NONE, peak |-> NONE, health |-> "queued"],
   neighbors |-> [snapshots |-> 0, sources |-> {}, failed |-> {},
                  health |-> "queued"]]

NoPath == [generation |-> 0, since |-> 0, wifi |-> FALSE,
           reading |-> NONE, at |-> 0, dwell |-> NewDwell]

WorkerFree(number) == [generation |-> 0, reading |-> NONE, number |-> number]

WindowsOff ==
  /\ counters = [bytes |-> None, carried |-> None, resets |-> 0]
  /\ worker = WorkerFree(0) /\ instant = 0 /\ windows = <<>>

WindowsIdle ==
  /\ WindowsOff
  /\ subject = "none" /\ current = NoPath /\ past = <<>>

\* A session begins with the first path: nothing is collected before it.
WindowsInit ==
  /\ WindowsOff
  /\ subject \in {"interface", "wifi", "workload", "peers"}
  /\ \E wifi \in BOOLEAN :
       /\ subject # "wifi" => ~wifi
       /\ current = [NoPath EXCEPT !.generation = 1, !.wifi = wifi]
       /\ past = <<[since |-> 0, wifi |-> wifi, log |-> <<>>]>>

-----------------------------------------------------------------------------
(***************************************************************************)
(* The interface, and time.                                                *)
(***************************************************************************)
\* The interface since the reading before: it carried a load, perhaps after its
\* counters had been reset.
Carried(load, reset) ==
  [bytes |-> [d \in Directions |-> load[d] + (IF reset THEN 0 ELSE counters.bytes[d])],
   carried |-> [d \in Directions |-> load[d] + counters.carried[d]],
   resets |-> counters.resets + (IF reset THEN 1 ELSE 0)]

\* Time matters to the counters only.
TimePasses ==
  /\ subject = "interface" /\ instant < MaxInstant
  /\ instant' = instant + 1
  /\ UNCHANGED <<subject, counters, worker, current, windows, past>>

-----------------------------------------------------------------------------
(***************************************************************************)
(* What an update adds to the dwell.                                       *)
(***************************************************************************)
Rate(bytes, elapsed) == [d \in Directions |-> [bytes |-> bytes[d], elapsed |-> elapsed]]

Faster(a, b) == a.bytes * b.elapsed > b.bytes * a.elapsed

\* counters_replaced_or_reset.
Reset(before, after) == \E d \in Directions : after[d] < before[d]

\* Traffic: an interval needs a reading before this one, time between their
\* receipts and counters that did not go back.
TrafficObserved(path, reading) ==
  LET dwell == path.dwell.interface
      pair == path.reading # NONE /\ reading # NONE
      elapsed == instant - path.at
      reset == pair /\ Reset(path.reading, reading)
      interval == pair /\ ~reset /\ elapsed > 0
      bytes == [d \in Directions |-> reading[d] - path.reading[d]]
      rate == IF interval THEN Rate(bytes, elapsed) ELSE NONE
  IN [path EXCEPT
        !.reading = reading,
        !.at = IF reading = NONE THEN 0 ELSE instant,
        !.dwell.interface =
           [samples |-> IF reading = NONE THEN dwell.samples ELSE dwell.samples + 1,
            intervals |-> IF interval THEN dwell.intervals + 1 ELSE dwell.intervals,
            resets |-> IF reset THEN dwell.resets + 1 ELSE dwell.resets,
            delta |-> IF interval
                      THEN [d \in Directions |-> dwell.delta[d] + bytes[d]]
                      ELSE dwell.delta,
            rate |-> rate,
            peak |-> IF ~interval THEN dwell.peak
                     ELSE IF dwell.peak = NONE THEN rate
                     ELSE [d \in Directions |->
                             IF Faster(rate[d], dwell.peak[d]) THEN rate[d]
                             ELSE dwell.peak[d]]]]

\* observe_wifi; a result without telemetry only settles the radio.
RadioObserved(path, telemetry) ==
  LET radio == path.dwell.radio
      signal == telemetry.signal
      channel == telemetry.channel
  IN IF telemetry = NONE THEN [path EXCEPT !.dwell.radio.settled = TRUE]
     ELSE [path EXCEPT !.dwell.radio =
             [settled |-> TRUE,
              samples |-> radio.samples + 1,
              latest |-> IF signal = NONE THEN radio.latest ELSE signal,
              worst |-> IF signal = NONE THEN radio.worst
                        ELSE IF radio.worst = NONE \/ signal < radio.worst THEN signal
                        ELSE radio.worst,
              channel |-> IF channel = NONE THEN radio.channel ELSE channel,
              changes |-> IF channel # NONE /\ radio.channel \notin {NONE, channel}
                          THEN radio.changes + 1 ELSE radio.changes]]

\* observe_workload: only a window that was sampled counts; `top` is its
\* busiest process, NONE if no process had traffic.
WorkloadObserved(path, health, top) ==
  LET workload == path.dwell.workload
      peak == IF top # NONE /\ (workload.peak = NONE \/ top > workload.peak)
              THEN top ELSE workload.peak
  IN [path EXCEPT !.dwell.workload =
        IF health # "ok" THEN [workload EXCEPT !.health = health]
        ELSE [sampled |-> workload.sampled + 1, latest |-> top, peak |-> peak,
              health |-> health]]

\* Peers: every source that completed or failed during the path.
NeighborsObserved(path, health, completed) ==
  [path EXCEPT !.dwell.neighbors =
     [snapshots |-> @.snapshots + 1,
      sources |-> @.sources \cup completed,
      failed |-> @.failed \cup (CacheSources \ completed),
      health |-> health]]

-----------------------------------------------------------------------------
(***************************************************************************)
(* The reducer.                                                            *)
(***************************************************************************)
CompletedWindow(path) ==
  [generation |-> path.generation, observed |-> instant - path.since,
   ended |-> instant, next |-> path.generation + 1, wifi |-> path.wifi,
   dwell |-> path.dwell]

\* What remains of a path on the next one: nothing.
OpenedWindow(wifi) ==
  [NoPath EXCEPT !.generation = current.generation + 1, !.since = instant,
                 !.wifi = wifi]

\* Fault: the newest makes room (pop_back).
Retained_Older(window) ==
  Append(IF Len(windows) = MaxWindows THEN SubSeq(windows, 1, MaxWindows - 1)
         ELSE windows, window)

\* The oldest window makes room.
Retained(window) ==
  Append(IF Len(windows) = MaxWindows THEN Tail(windows) ELSE windows, window)

\* Link of a new generation.
PathOpens ==
  /\ subject # "none" /\ current.generation < MaxPaths
  /\ \E wifi \in BOOLEAN :
       /\ subject # "wifi" => ~wifi
       /\ current' = OpenedWindow(wifi)
       /\ past' = Append(past, [since |-> instant, wifi |-> wifi, log |-> <<>>])
  /\ windows' = Retained(CompletedWindow(current))
  /\ UNCHANGED <<subject, counters, worker, instant>>

Received == {x \in (DOMAIN past) \X (1 .. MaxReceived) : x[2] <= Len(past[x[1]].log)}

Logged(entry) ==
  /\ Cardinality(Received) < MaxReceived
  /\ past' = [past EXCEPT ![current.generation].log = Append(@, entry)]

\* The worker of the interface's counters reads them, or fails to.
ReadCounters ==
  /\ subject = "interface"
  /\ worker.generation = 0 /\ worker.number < MaxReadings
  /\ \/ \E load \in {None} \cup Loads, reset \in BOOLEAN :
          /\ counters' = Carried(load, reset)
          /\ worker' = [worker EXCEPT !.generation = current.generation,
                                  !.reading = counters']
     \/ /\ worker' = [worker EXCEPT !.generation = current.generation]
        /\ UNCHANGED counters
  /\ UNCHANGED <<subject, instant, current, windows, past>>

ReceiveTraffic ==
  /\ worker.generation # 0
  /\ worker' = WorkerFree(worker.number + 1)
  /\ LET reading == worker.reading
     IN IF worker.generation # current.generation
        THEN UNCHANGED <<current, past>>
        ELSE /\ current' = TrafficObserved(current, IF reading = NONE THEN NONE
                                                    ELSE reading.bytes)
             /\ Logged([reading |-> reading, at |-> instant])
  /\ UNCHANGED <<subject, counters, instant, windows>>

ReceiveRadio ==
  /\ subject = "wifi"
  /\ \E telemetry \in {NONE} \cup (IF current.wifi THEN Telemetry ELSE {}) :
       /\ current' = RadioObserved(current, telemetry)
       /\ Logged(telemetry)
  /\ UNCHANGED <<subject, counters, worker, instant, windows>>

ReceiveWorkload ==
  /\ subject = "workload"
  /\ \E health \in {"ok", "unavailable"}, top \in {NONE} \cup Tops :
       /\ health = "unavailable" => top = NONE
       /\ current' = WorkloadObserved(current, health, top)
       /\ Logged([health |-> health, top |-> top])
  /\ UNCHANGED <<subject, counters, worker, instant, windows>>

\* evidence_health; sources that contradict one another degrade it as well.
ReceiveNeighbors ==
  /\ subject = "peers"
  /\ \E completed \in SUBSET CacheSources, conflict \in BOOLEAN :
       LET health == IF completed = {} THEN "unavailable"
                     ELSE IF completed # CacheSources \/ conflict THEN "degraded"
                     ELSE "ok"
       IN /\ current' = NeighborsObserved(current, health, completed)
          /\ Logged([health |-> health, completed |-> completed])
  /\ UNCHANGED <<subject, counters, worker, instant, windows>>

WindowsNext ==
  \/ TimePasses \/ PathOpens \/ ReadCounters \/ ReceiveTraffic
  \/ ReceiveRadio \/ ReceiveWorkload \/ ReceiveNeighbors

-----------------------------------------------------------------------------
(***************************************************************************)
(* What the window of a path that is over claims.                          *)
(***************************************************************************)
\* latest_completed_path_window: the support each collector gives.
Support(window, mode) ==
  LET dwell == window.dwell
      within(collector, state) ==
        IF collector \in Scope(mode) THEN state ELSE "not_collected"
  IN [interface |-> within("interface",
        IF dwell.interface.samples = 0 THEN "unavailable"
        ELSE IF dwell.interface.intervals = 0 THEN "partial" ELSE "available"),
      wifi |-> within("wifi",
        IF ~window.wifi THEN "unsupported"
        ELSE IF dwell.radio.samples > 0 THEN "available" ELSE "unavailable"),
      workload |-> within("workload",
        IF dwell.workload.sampled = 0 THEN "unavailable"
        ELSE IF dwell.workload.health = "ok" THEN "available" ELSE "partial"),
      peers |-> within("peers",
        IF dwell.neighbors.snapshots = 0 \/ dwell.neighbors.sources = {}
        THEN "unavailable"
        ELSE IF dwell.neighbors.failed # {} \/ dwell.neighbors.health # "ok"
        THEN "partial" ELSE "available")]

\* What limits each of them, besides what a collector can never show.
Limitations(window, mode) ==
  LET dwell == window.dwell
      within(collector, limits) ==
        IF collector \in Scope(mode) THEN limits ELSE {"outside_scope"}
      If(condition, limit) == IF condition THEN {limit} ELSE {}
  IN [interface |-> within("interface",
        If(dwell.interface.samples = 0, "no_observation")
          \cup If(dwell.interface.intervals = 0, "no_interval")),
      wifi |-> within("wifi",
        If(window.wifi /\ dwell.radio.samples = 0,
           IF dwell.radio.settled THEN "no_telemetry" ELSE "no_observation")),
      workload |-> within("workload",
        If(dwell.workload.sampled = 0, "no_observation")),
      peers |-> within("peers",
        If(dwell.neighbors.snapshots = 0, "no_observation")
          \cup If(dwell.neighbors.failed # {}, "sources_failed"))]

\* traffic_shape_candidate_from_dwell: the direction and the mean rate.
Dominates(bytes, d, other) == bytes[other] = 0 \/ bytes[d] >= 3 * bytes[other]

Direction(bytes) ==
  IF bytes = None THEN "none"
  ELSE IF Dominates(bytes, "rx", "tx") THEN "receive"
  ELSE IF Dominates(bytes, "tx", "rx") THEN "transmit"
  ELSE "both"

Shape(window) ==
  LET dwell == window.dwell.interface
  IN IF dwell.intervals = 0 THEN NONE
     ELSE [direction |-> Direction(dwell.delta), peak |-> dwell.peak,
           mean |-> IF window.observed = 0 THEN NONE
                    ELSE Rate(dwell.delta, window.observed)]

\* The window of the path before this one, as a mode reports it: of a collector
\* the mode does not read, nothing.
LatestWindow(mode) ==
  LET window == windows[Len(windows)]
      shown(collector, part, empty) == IF collector \in Scope(mode) THEN part ELSE empty
  IN IF windows = <<>> THEN NONE
     ELSE [generation |-> window.generation, next |-> window.next,
           observed |-> window.observed, ended |-> window.ended,
           support |-> Support(window, mode), limits |-> Limitations(window, mode),
           shape |-> shown("interface", Shape(window), NONE),
           interface |-> shown("interface", window.dwell.interface, NewDwell.interface),
           radio |-> shown("wifi", window.dwell.radio, NewDwell.radio),
           workload |-> shown("workload", window.dwell.workload, NewDwell.workload),
           neighbors |-> shown("peers", window.dwell.neighbors, NewDwell.neighbors)]

\* format_generation_dwell: the plain lines of one path, whether it is over.
GenerationLines(generation, dwell, mode) ==
  LET within(collector, said) == IF collector \in Scope(mode) THEN said ELSE NONE
  IN [generation |-> generation,
      interface |-> within("interface", dwell.interface),
      wifi |-> within("wifi", dwell.radio),
      workload |-> within("workload",
        [sampled |-> dwell.workload.sampled > 0, latest |-> dwell.workload.latest,
         peak |-> dwell.workload.peak]),
      peers |-> within("peers", dwell.neighbors.snapshots)]

\* format_dwell_summary, at the end of a bounded run.
DwellSummary(mode) ==
  Append([i \in DOMAIN windows |->
            GenerationLines(windows[i].generation, windows[i].dwell, mode)],
         GenerationLines(current.generation, current.dwell, mode))

-----------------------------------------------------------------------------
(***************************************************************************)
(* Properties.                                                             *)
(***************************************************************************)
Log(generation) == past[generation].log

\* The places of a log that have a value of a field.
Places(log, field) == {i \in DOMAIN log : log[i] # NONE /\ log[i][field] # NONE}

Newest(places) == CHOOSE i \in places : \A j \in places : j <= i
Oldest(places) == CHOOSE i \in places : \A j \in places : i <= j

LatestOf(log, field) ==
  IF Places(log, field) = {} THEN NONE ELSE log[Newest(Places(log, field))][field]

Values(log, field) == {log[i][field] : i \in Places(log, field)}

\* A value that no other beats.
Extreme(values, Beats(_, _)) ==
  IF values = {} THEN NONE
  ELSE CHOOSE v \in values : \A other \in values : ~Beats(other, v)

\* The values that differ from the one told before them.
Switches(log, field) ==
  LET places == Places(log, field)
  IN {i \in places : \E j \in places :
        /\ j < i /\ \A k \in places : k <= j \/ i <= k
        /\ log[j][field] # log[i][field]}

\* What a path's counters add up to is what its interface carried: never more
\* than between the first and the last reading of the path, however the
\* counters were reset, readings failed or the path was left and entered, all
\* of it if every pair of readings gave an interval and nothing was reset; and
\* the mean rate over a window is never above its peak.
WindowsCounted ==
  LET Counted(generation, dwell) ==
        LET log == Log(generation)
            read == Places(log, "reading")
            first == log[Oldest(read)].reading
            last == log[Newest(read)].reading
        IN /\ dwell.intervals = 0 => dwell.delta = None
           /\ dwell.intervals > 0 => read # {} /\ \A d \in Directions :
                /\ dwell.delta[d] <= last.carried[d] - first.carried[d]
                /\ dwell.intervals = dwell.samples - 1 /\ last.resets = first.resets
                     => dwell.delta[d] = last.carried[d] - first.carried[d]
  IN subject = "interface" =>
       /\ Counted(current.generation, current.dwell.interface)
       /\ \A i \in DOMAIN windows :
            /\ Counted(windows[i].generation, windows[i].dwell.interface)
            /\ LET shape == Shape(windows[i])
               IN shape # NONE =>
                    /\ shape.mean # NONE
                    /\ \A d \in Directions : ~Faster(shape.mean[d], shape.peak[d])

\* The dwell of a path, by definition, from everything received of it.
RadioRemembered(log, radio) ==
  /\ radio.settled = (log # <<>>)
  /\ radio.samples = Cardinality({i \in DOMAIN log : log[i] # NONE})
  /\ radio.latest = LatestOf(log, "signal")
  /\ radio.worst = Extreme(Values(log, "signal"), LAMBDA a, b : a < b)
  /\ radio.channel = LatestOf(log, "channel")
  /\ radio.changes = Cardinality(Switches(log, "channel"))

WorkloadRemembered(log, workload) ==
  LET sampled == {i \in DOMAIN log : log[i].health = "ok"}
  IN /\ workload.sampled = Cardinality(sampled)
     /\ workload.latest = (IF sampled = {} THEN NONE ELSE log[Newest(sampled)].top)
     /\ workload.peak = Extreme(Values(log, "top"), LAMBDA a, b : a > b)

\* A window is kept whole: the last MaxWindows paths that are over, without a
\* gap between one and the next, each with what its own updates add up to.
\* The one that is reported claims of a collector, and blames for what it lacks,
\* what was received of it; only a workload is said not to have been observed
\* when it was and could not be read.  (It is asked between two readings of the
\* counters: one under way changes neither windows nor dwell.)
WindowsRemember ==
  LET retained == IF current.generation <= MaxWindows THEN current.generation - 1
                  ELSE MaxWindows
      Remembered(generation, dwell) ==
        /\ subject = "wifi" => RadioRemembered(Log(generation), dwell.radio)
        /\ subject = "workload" => WorkloadRemembered(Log(generation), dwell.workload)
      Complete(log) ==
        /\ log # <<>>
        /\ \A i \in DOMAIN log : log[i].completed = CacheSources
        /\ log[Len(log)].health = "ok"
      Claims(mode, log) ==
        LET report == LatestWindow(mode)
            support == report.support[subject]
            limits == report.limits[subject]
            received == {log[i] : i \in DOMAIN log}
        IN /\ subject \notin Scope(mode) => support = "not_collected" /\ report.shape = NONE
           /\ subject \in Scope(mode) =>
                /\ subject = "interface" =>
                     /\ support = "available" => \E i \in 2 .. Len(log) :
                          /\ NONE \notin {log[i].reading, log[i - 1].reading}
                          /\ log[i].at > log[i - 1].at
                     /\ "no_observation" \in limits <=> Places(log, "reading") = {}
                     /\ "no_interval" \in limits <=> report.shape = NONE
                /\ subject = "wifi" =>
                     /\ support = IF ~past[report.generation].wifi THEN "unsupported"
                                  ELSE IF received \subseteq {NONE} THEN "unavailable"
                                  ELSE "available"
                     /\ limits = IF support # "unavailable" THEN {}
                                 ELSE IF log = <<>> THEN {"no_observation"}
                                 ELSE {"no_telemetry"}
                /\ subject = "workload" =>
                     /\ support = "available" <=> log # <<>> /\ log[Len(log)].health = "ok"
                     /\ limits = {} <=> \E entry \in received : entry.health = "ok"
                /\ subject = "peers" =>
                     /\ support = "available" <=> Complete(log)
                     /\ "no_observation" \in limits <=> log = <<>>
                     /\ support = "available" => limits = {}
  IN worker.generation = 0 =>
     /\ WindowsCounted
     /\ subject # "none" =>
       /\ Len(windows) = retained
       /\ Remembered(current.generation, current.dwell)
       /\ \A mode \in Modes :
            LET summary == DwellSummary(mode)
            IN /\ Len(summary) = retained + 1
               /\ \A i \in DOMAIN summary :
                    /\ summary[i].generation = current.generation - 1 - retained + i
                    /\ summary[i][subject] = NONE <=> subject \notin Scope(mode)
       /\ retained > 0 => \A mode \in Modes : Claims(mode, Log(current.generation - 1))
       /\ \A i \in DOMAIN windows :
            LET window == windows[i]
                generation == current.generation - 1 - retained + i
            IN /\ window.generation = generation /\ window.next = generation + 1
               /\ window.ended - window.observed = past[generation].since
               /\ window.ended = past[generation + 1].since
               /\ window.wifi = past[generation].wifi
               /\ Remembered(generation, window.dwell)
=============================================================================
