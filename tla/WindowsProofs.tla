----------------------------- MODULE WindowsProofs -----------------------------
(***************************************************************************)
(* What a session keeps of a path is what was received of it, and what the *)
(* window of a path that is over claims follows from that: for any loads,  *)
(* telemetry, programs and sources, and any number of paths, readings and  *)
(* updates.                                                                *)
(***************************************************************************)
EXTENDS PathWindows, FiniteSetTheorems, SequenceTheorems, WellFoundedInduction, TLAPS

-----------------------------------------------------------------------------
(***************************************************************************)
(* Places of a log.                                                        *)
(***************************************************************************)
LEMMA NoneIsNoNumber == NONE \notin Nat /\ NONE \notin Int
<1>1. NONE \notin Int
  BY NoneIsNoEvidence, Zenon
<1> QED
  BY <1>1

LEMMA LeastPlace ==
  ASSUME NEW S \in SUBSET Nat, S # {}
  PROVE  \E n \in S : \A m \in S : ~ (m < n)
<1> DEFINE R == OpToRel(<, Nat)
<1>1. PICK n \in S : \A m \in S : ~ (<<m, n>> \in R)
  <2>1. IsWellFoundedOn(R, Nat)
    BY NatLessThanWellFounded
  <2> HIDE DEF R
  <2> QED
    BY <2>1, WFMin
<1> QED
  BY <1>1 DEF OpToRel

LEMMA OldestPlace ==
  ASSUME NEW places \in SUBSET Nat, places # {}
  PROVE  Oldest(places) \in places /\ \A i \in places : Oldest(places) <= i
<1>1. PICK n \in places : \A m \in places : ~ (m < n)
  BY LeastPlace
<1>2. \A m \in places : n <= m
  BY <1>1
<1> QED
  BY <1>2 DEF Oldest

LEMMA NewestPlace ==
  ASSUME NEW n \in Nat, NEW places \in SUBSET (1 .. n), places # {}
  PROVE  Newest(places) \in places /\ \A i \in places : i <= Newest(places)
<1> DEFINE fromEnd == {k \in Nat : n - k \in places}
<1>1. fromEnd \in SUBSET Nat /\ fromEnd # {}
  <2>1. PICK i \in places : TRUE
    OBVIOUS
  <2>2. n - i \in Nat /\ n - (n - i) = i
    BY <2>1
  <2> QED
    BY <2>1, <2>2
<1>2. PICK k \in fromEnd : \A m \in fromEnd : ~ (m < k)
  BY <1>1, LeastPlace
<1>3. n - k \in places
  BY <1>2
<1>4. ASSUME NEW i \in places
      PROVE  i <= n - k
  <2>1. n - i \in fromEnd
    OBVIOUS
  <2> QED
    BY <1>2, <2>1
<1> QED
  BY <1>3, <1>4 DEF Newest

\* What is appended is the newest, and the oldest only of a log without places.
LEMMA PlaceAdded ==
  ASSUME NEW n \in Nat, NEW places \in SUBSET (1 .. n)
  PROVE  /\ Newest(places \cup {n + 1}) = n + 1
         /\ places # {} => Oldest(places \cup {n + 1}) = Oldest(places)
         /\ Oldest({n + 1}) = n + 1 /\ Newest({n + 1}) = n + 1
<1> DEFINE more == places \cup {n + 1}
<1>1. more \in SUBSET (1 .. n + 1) /\ more \in SUBSET Nat /\ n + 1 \in Nat
  OBVIOUS
<1>2. Newest(more) = n + 1
  <2>1. Newest(more) \in more /\ \A i \in more : i <= Newest(more)
    BY <1>1, NewestPlace
  <2>2. n + 1 \in more
    OBVIOUS
  <2> HIDE DEF more
  <2>3. Newest(more) \in 1 .. n + 1 /\ n + 1 <= Newest(more)
    BY <2>1, <2>2, <1>1
  <2> QED
    BY <2>3
<1>3. ASSUME places # {}
      PROVE  Oldest(more) = Oldest(places)
  <2>1. Oldest(more) \in more /\ \A i \in more : Oldest(more) <= i
    BY <1>1, OldestPlace
  <2>2. Oldest(places) \in places /\ \A i \in places : Oldest(places) <= i
    BY <1>3, OldestPlace
  <2> DEFINE a == Oldest(more)
             b == Oldest(places)
  <2>3. a \in places \/ a = n + 1
    BY <2>1
  <2>4. b \in more /\ b \in 1 .. n /\ a \in Nat /\ a <= b
    BY <2>1, <2>2, <1>1
  <2> HIDE DEF a, b, more
  <2>5. a \in places
    BY <2>3, <2>4
  <2>6. b <= a
    BY <2>2, <2>5 DEF b
  <2>7. a = b
    BY <2>4, <2>6
  <2> QED
    BY <2>7 DEF a, b
<1>4. Oldest({n + 1}) = n + 1 /\ Newest({n + 1}) = n + 1
  BY DEF Oldest, Newest
<1> QED
  BY <1>2, <1>3, <1>4

LEMMA AppendedLog ==
  ASSUME NEW Entry, NEW log \in Seq(Entry), NEW entry \in Entry
  PROVE  /\ Append(log, entry) \in Seq(Entry)
         /\ Len(log) \in Nat
         /\ Len(Append(log, entry)) = Len(log) + 1
         /\ DOMAIN log = 1 .. Len(log)
         /\ DOMAIN Append(log, entry) = 1 .. Len(log) + 1
         /\ \A i \in 1 .. Len(log) : log[i] \in Entry /\ Append(log, entry)[i] = log[i]
         /\ Append(log, entry)[Len(log) + 1] = entry
         /\ Append(log, entry) # <<>>
OBVIOUS

\* Only the places before it keep what they say, and it has one if it says more.
LEMMA PlacesAppended ==
  ASSUME NEW Entry, NEW log \in Seq(Entry), NEW entry \in Entry, NEW field
  PROVE  /\ Places(log, field) \in SUBSET (1 .. Len(log))
         /\ Places(Append(log, entry), field) =
              IF entry # NONE /\ entry[field] # NONE
              THEN Places(log, field) \cup {Len(log) + 1}
              ELSE Places(log, field)
         /\ \A i \in Places(log, field) :
              Append(log, entry)[i] = log[i] /\ log[i][field] # NONE
<1> DEFINE longer == Append(log, entry)
<1>1. /\ DOMAIN longer = 1 .. Len(log) + 1 /\ DOMAIN log = 1 .. Len(log)
      /\ Len(log) \in Nat
      /\ \A i \in 1 .. Len(log) : longer[i] = log[i]
      /\ longer[Len(log) + 1] = entry
  BY AppendedLog
<1> HIDE DEF longer
<1>2. 1 .. Len(log) + 1 = (1 .. Len(log)) \cup {Len(log) + 1}
  BY <1>1
<1>3. Len(log) + 1 \notin 1 .. Len(log)
  BY <1>1
<1>4. ASSUME NEW i
      PROVE  i \in Places(longer, field) <=>
               \/ i \in Places(log, field)
               \/ i = Len(log) + 1 /\ entry # NONE /\ entry[field] # NONE
  BY <1>1, <1>2, <1>3, Zenon DEF Places
<1>5. Places(log, field) \in SUBSET (1 .. Len(log))
  BY <1>1, Zenon DEF Places
<1>6. \A i \in Places(log, field) : longer[i] = log[i] /\ log[i][field] # NONE
  BY <1>1, Zenon DEF Places
<1>7. CASE entry # NONE /\ entry[field] # NONE
  BY <1>4, <1>5, <1>6, <1>7, Zenon DEF longer
<1>8. CASE ~(entry # NONE /\ entry[field] # NONE)
  BY <1>4, <1>5, <1>6, <1>8, Zenon DEF longer
<1> QED
  BY <1>7, <1>8

-----------------------------------------------------------------------------
(***************************************************************************)
(* The counters of the interface.                                          *)
(***************************************************************************)
\* What counters may show after others: what was carried is not lost, and what
\* they do not show of it was lost by resets.
Onward(a, b) ==
  /\ a.resets <= b.resets
  /\ \A d \in Directions :
       /\ a.carried[d] <= b.carried[d]
       /\ a.carried[d] - a.bytes[d] <= b.carried[d] - b.bytes[d]
       /\ a.resets = b.resets => a.carried[d] - a.bytes[d] = b.carried[d] - b.bytes[d]

LEMMA OnwardItself ==
  ASSUME NEW a \in Counters
  PROVE  Onward(a, a)
BY DEF Onward, Counters, Counts

LEMMA OnwardAgain ==
  ASSUME NEW a \in Counters, NEW b \in Counters, NEW c \in Counters,
         Onward(a, b), Onward(b, c)
  PROVE  Onward(a, c)
BY DEF Onward, Counters, Counts

LEMMA CarriedOnward ==
  ASSUME counters \in Counters, NEW load \in Counts, NEW reset \in BOOLEAN
  PROVE  Carried(load, reset) \in Counters /\ Onward(counters, Carried(load, reset))
<1> DEFINE next == Carried(load, reset)
<1>1. /\ \A d \in Directions : /\ counters.bytes[d] \in Nat
                               /\ counters.carried[d] \in Nat /\ load[d] \in Nat
      /\ counters.resets \in Nat
  BY DEF Counters, Counts
<1>2. next = [bytes |-> next.bytes, carried |-> next.carried, resets |-> next.resets]
  BY DEF Carried
<1>3. /\ next.bytes = [d \in Directions |->
                         load[d] + (IF reset THEN 0 ELSE counters.bytes[d])]
      /\ next.carried = [d \in Directions |-> load[d] + counters.carried[d]]
      /\ next.resets = counters.resets + (IF reset THEN 1 ELSE 0)
  BY DEF Carried
<1> HIDE DEF next
<1>4. next.bytes \in Counts /\ next.carried \in Counts /\ next.resets \in Nat
  BY <1>1, <1>3 DEF Counts
<1>5. next \in Counters
  BY <1>2, <1>4 DEF Counters
<1>6. Onward(counters, next)
  BY <1>1, <1>3 DEF Onward
<1> QED
  BY <1>5, <1>6 DEF next

\* The mean of a longer time is not above the peak: neither with a rate that is
\* the new peak nor with one that is not.
LEMMA MeanBelowPeak ==
  ASSUME NEW total \in Nat, NEW span \in Nat, NEW bytes \in Nat, NEW elapsed \in Nat,
         NEW more \in Nat, NEW time \in Nat, time > 0, elapsed > 0,
         total * elapsed <= bytes * span
  PROVE  /\ more * elapsed > bytes * time => (total + more) * time <= more * (span + time)
         /\ ~(more * elapsed > bytes * time)
              => (total + more) * elapsed <= bytes * (span + time)
<1>1. ASSUME ~(more * elapsed > bytes * time)
      PROVE  (total + more) * elapsed <= bytes * (span + time)
  <2>1. (total + more) * elapsed = total * elapsed + more * elapsed
    OBVIOUS
  <2>2. bytes * (span + time) = bytes * span + bytes * time
    OBVIOUS
  <2>3. more * elapsed <= bytes * time
    BY <1>1
  <2> QED
    BY <2>1, <2>2, <2>3
<1>2. ASSUME more * elapsed > bytes * time
      PROVE  (total + more) * time <= more * (span + time)
  <2>1. total * elapsed * time <= bytes * span * time
    OBVIOUS
  <2>2. bytes * time * span <= more * elapsed * span
    BY <1>2
  <2>3. (total * time) * elapsed <= (more * span) * elapsed
    BY <2>1, <2>2
  <2>4. total * time <= more * span
    BY <2>3
  <2>5. (total + more) * time = total * time + more * time
    OBVIOUS
  <2>6. more * (span + time) = more * span + more * time
    OBVIOUS
  <2> QED
    BY <2>4, <2>5, <2>6
<1> QED
  BY <1>1, <1>2

NeighborDwell ==
  [snapshots : Nat, sources : SUBSET CacheSources, failed : SUBSET CacheSources,
   health : {"queued", "ok", "degraded", "unavailable"}]
Dwell ==
  [interface : InterfaceDwell, radio : RadioDwell, workload : WorkloadDwell,
   neighbors : NeighborDwell]
Path ==
  [generation : Nat, since : Nat, wifi : BOOLEAN, reading : Counts \cup {NONE}, at : Nat,
   dwell : Dwell]

LEMMA NewDwellTyped == NewDwell \in Dwell
<1>1. None \in Counts
  BY DEF None, Counts
<1> QED
  BY <1>1 DEF NewDwell, Dwell, InterfaceDwell, RadioDwell, WorkloadDwell, NeighborDwell

\* A path after a reading, with its sums.
Summed(path, reading, at, sums) ==
  [path EXCEPT !.reading = reading, !.at = at, !.dwell.interface = sums]

LEMMA SummedParts ==
  ASSUME NEW path \in Path, NEW reading, NEW at, NEW sums
  PROVE  LET next == Summed(path, reading, at, sums)
         IN
         /\ next.generation = path.generation /\ next.since = path.since
         /\ next.wifi = path.wifi /\ next.reading = reading /\ next.at = at
         /\ next.dwell.interface = sums
         /\ reading \in Counts \cup {NONE} /\ at \in Nat /\ sums \in InterfaceDwell
              => next \in Path
<1> DEFINE next == Summed(path, reading, at, sums)
<1>1. next.dwell.interface = sums
  BY DEF Path, Dwell, Summed
<1>2. ASSUME reading \in Counts \cup {NONE}, at \in Nat, sums \in InterfaceDwell
      PROVE  next \in Path
  BY <1>2 DEF Path, Dwell, Summed
<1> QED
  BY <1>1, <1>2 DEF Path, Summed

\* What a reading changes of a path, part by part.
LEMMA TrafficParts ==
  ASSUME NEW path \in Path, NEW reading
  PROVE  LET next == TrafficObserved(path, reading)
             was == path.dwell.interface
             is == next.dwell.interface
             elapsed == instant - path.at
             reset == path.reading # NONE /\ reading # NONE /\ Reset(path.reading, reading)
             interval == path.reading # NONE /\ reading # NONE /\ ~reset /\ elapsed > 0
             bytes == [d \in Directions |-> reading[d] - path.reading[d]]
         IN /\ next.generation = path.generation /\ next.since = path.since
            /\ next.wifi = path.wifi /\ next.reading = reading
            /\ next.at = IF reading = NONE THEN 0 ELSE instant
            /\ reading \in Counts \cup {NONE} /\ instant \in Nat /\ is \in InterfaceDwell
                 => next \in Path
            /\ is = [samples |-> is.samples, intervals |-> is.intervals,
                     resets |-> is.resets, delta |-> is.delta, rate |-> is.rate,
                     peak |-> is.peak]
            /\ is.samples = IF reading = NONE THEN was.samples ELSE was.samples + 1
            /\ is.intervals = IF interval THEN was.intervals + 1 ELSE was.intervals
            /\ is.resets = IF reset THEN was.resets + 1 ELSE was.resets
            /\ is.delta = IF interval THEN [d \in Directions |-> was.delta[d] + bytes[d]]
                          ELSE was.delta
            /\ is.rate = IF interval THEN Rate(bytes, elapsed) ELSE NONE
            /\ is.peak = IF ~interval THEN was.peak
                         ELSE IF was.peak = NONE THEN is.rate
                         ELSE [d \in Directions |->
                                 IF Faster(is.rate[d], was.peak[d]) THEN is.rate[d]
                                 ELSE was.peak[d]]
<1> DEFINE next == TrafficObserved(path, reading)
           was == path.dwell.interface
           elapsed == instant - path.at
           reset == path.reading # NONE /\ reading # NONE /\ Reset(path.reading, reading)
           interval == path.reading # NONE /\ reading # NONE /\ ~reset /\ elapsed > 0
           bytes == [d \in Directions |-> reading[d] - path.reading[d]]
           rate == IF interval THEN Rate(bytes, elapsed) ELSE NONE
           samples == IF reading = NONE THEN was.samples ELSE was.samples + 1
           intervals == IF interval THEN was.intervals + 1 ELSE was.intervals
           resets == IF reset THEN was.resets + 1 ELSE was.resets
           delta == IF interval THEN [d \in Directions |-> was.delta[d] + bytes[d]]
                    ELSE was.delta
           peak == IF ~interval THEN was.peak
                   ELSE IF was.peak = NONE THEN rate
                   ELSE [d \in Directions |->
                           IF Faster(rate[d], was.peak[d]) THEN rate[d] ELSE was.peak[d]]
           at == IF reading = NONE THEN 0 ELSE instant
           is == [samples |-> samples, intervals |-> intervals, resets |-> resets,
                  delta |-> delta, rate |-> rate, peak |-> peak]
<1>1. next = Summed(path, reading, at, is)
  BY DEF TrafficObserved, Summed
<1>2. /\ is.samples = samples /\ is.intervals = intervals /\ is.resets = resets
      /\ is.delta = delta /\ is.rate = rate /\ is.peak = peak
  OBVIOUS
<1>3. is = [samples |-> is.samples, intervals |-> is.intervals, resets |-> is.resets,
            delta |-> is.delta, rate |-> is.rate, peak |-> is.peak]
  BY <1>2
<1>a. instant \in Nat => at \in Nat
  OBVIOUS
<1> HIDE DEF next, is, at
<1>4. /\ next.generation = path.generation /\ next.since = path.since
      /\ next.wifi = path.wifi /\ next.reading = reading /\ next.at = at
      /\ next.dwell.interface = is
      /\ reading \in Counts \cup {NONE} /\ at \in Nat /\ is \in InterfaceDwell
           => next \in Path
  BY <1>1, SummedParts
<1> QED
  BY <1>2, <1>3, <1>4, <1>a, Zenon DEF next, at
\* A reading leaves a path's generation, its age and its radio as they were.
LEMMA TrafficLeaves ==
  ASSUME NEW path \in Path, NEW reading
  PROVE  /\ TrafficObserved(path, reading).generation = path.generation
         /\ TrafficObserved(path, reading).since = path.since
         /\ TrafficObserved(path, reading).wifi = path.wifi
BY TrafficParts, ZenonT(40)

-----------------------------------------------------------------------------
(***************************************************************************)
(* What the counters add up to.                                            *)
(***************************************************************************)
CounterEntry == [reading : Counters \cup {NONE}, at : Nat]

FirstRead(log) == log[Oldest(Places(log, "reading"))].reading
LastRead(log) == log[Newest(Places(log, "reading"))].reading

\* Two readings that follow one another without a failure, some time apart.
Consecutive(log, i) ==
  NONE \notin {log[i].reading, log[i - 1].reading} /\ log[i].at > log[i - 1].at

\* The sums of the counters after a log, if its intervals lie within a span.
InterfaceSums(dwell, log, span) ==
  /\ dwell \in InterfaceDwell
  /\ dwell.samples = 0 <=> Places(log, "reading") = {}
  /\ dwell.samples = 0 => dwell.intervals = 0
  /\ dwell.intervals = 0 => dwell.delta = None /\ dwell.peak = NONE
  /\ dwell.samples > 0 =>
       /\ dwell.intervals <= dwell.samples - 1
       /\ Onward(FirstRead(log), LastRead(log))
       /\ \A d \in Directions :
            /\ dwell.delta[d] <= LastRead(log).carried[d] - FirstRead(log).carried[d]
            /\ dwell.intervals = dwell.samples - 1 /\ LastRead(log).resets = FirstRead(log).resets
                 => dwell.delta[d] = LastRead(log).carried[d] - FirstRead(log).carried[d]
  /\ dwell.intervals > 0 =>
       /\ span > 0 /\ dwell.peak \in Rates
       /\ \A d \in Directions :
            /\ dwell.peak[d].elapsed > 0
            /\ dwell.delta[d] * dwell.peak[d].elapsed <= dwell.peak[d].bytes * span
       /\ \E i \in 2 .. Len(log) : Consecutive(log, i)

\* Until when the intervals of a path last.
Reach(path, now) == IF path.reading = NONE THEN now ELSE path.at

\* What the path one is on holds of its log: the last reading, if it did not fail.
TrafficKept(path, log, now) ==
  /\ log \in Seq(CounterEntry)
  /\ path.since <= now
  /\ path.reading # NONE =>
       /\ path.since <= path.at /\ path.at <= now
       /\ log # <<>> /\ log[Len(log)].reading # NONE
       /\ path.reading = log[Len(log)].reading.bytes /\ path.at = log[Len(log)].at
  /\ InterfaceSums(path.dwell.interface, log, Reach(path, now) - path.since)

LEMMA ReadsTyped ==
  ASSUME NEW log \in Seq(CounterEntry), Places(log, "reading") # {}
  PROVE  /\ FirstRead(log) \in Counters /\ LastRead(log) \in Counters
         /\ Places(log, "reading") \in SUBSET (1 .. Len(log))
<1> DEFINE read == Places(log, "reading")
<1>1. Len(log) \in Nat /\ DOMAIN log = 1 .. Len(log) /\ \A i \in DOMAIN log : log[i] \in CounterEntry
  OBVIOUS
<1>2. read \in SUBSET (1 .. Len(log)) /\ \A i \in read : log[i].reading # NONE
  BY <1>1, Zenon DEF Places
<1>3. \A i \in read : log[i].reading \in Counters
  BY <1>1, <1>2 DEF CounterEntry
<1>4. Oldest(read) \in read
  BY <1>1, <1>2, OldestPlace
<1>5. Newest(read) \in read
  BY <1>1, <1>2, NewestPlace
<1> QED
  BY <1>2, <1>3, <1>4, <1>5, Zenon DEF FirstRead, LastRead

\* A longer span holds the same intervals, and so does a log after more failures.
LEMMA SumsLast ==
  ASSUME NEW dwell, NEW log \in Seq(CounterEntry), NEW span \in Nat, NEW longer \in Nat,
         span <= longer, InterfaceSums(dwell, log, span)
  PROVE  InterfaceSums(dwell, log, longer)
<1>1. SUFFICES ASSUME dwell.intervals > 0
               PROVE  /\ longer > 0
                      /\ \A d \in Directions :
                           dwell.delta[d] * dwell.peak[d].elapsed <= dwell.peak[d].bytes * longer
  BY DEF InterfaceSums
<1>2. longer > 0
  BY <1>1 DEF InterfaceSums
<1>3. ASSUME NEW d \in Directions
      PROVE  dwell.delta[d] * dwell.peak[d].elapsed <= dwell.peak[d].bytes * longer
  <2> DEFINE total == dwell.delta[d]
             elapsed == dwell.peak[d].elapsed
             bytes == dwell.peak[d].bytes
  <2>1. total \in Nat /\ elapsed \in Nat /\ bytes \in Nat /\ total * elapsed <= bytes * span
    BY <1>1 DEF InterfaceSums, InterfaceDwell, Counts, Rates
  <2> HIDE DEF total, elapsed, bytes
  <2>2. bytes * span <= bytes * longer
    BY <2>1
  <2>3. total * elapsed <= bytes * longer
    BY <2>1, <2>2
  <2> QED
    BY <2>3 DEF total, elapsed, bytes
<1> QED
  BY <1>2, <1>3

LEMMA EntryTyped ==
  ASSUME NEW got \in Counters \cup {NONE}, instant \in Nat
  PROVE  LET entry == [reading |-> got, at |-> instant]
         IN /\ entry \in CounterEntry /\ entry # NONE
            /\ entry.reading = got /\ entry["reading"] = got /\ entry.at = instant
BY NoneIsNoEvidence DEF CounterEntry

\* A failed reading is logged and nothing else changes.
LEMMA FailureAdds ==
  ASSUME NEW path \in Path, NEW log, instant \in Nat, TrafficKept(path, log, instant)
  PROVE  LET next == TrafficObserved(path, NONE)
             longer == Append(log, [reading |-> NONE, at |-> instant])
         IN next \in Path /\ TrafficKept(next, longer, instant)
<1> DEFINE next == TrafficObserved(path, NONE)
           entry == [reading |-> NONE, at |-> instant]
           longer == Append(log, entry)
           was == path.dwell.interface
           is == next.dwell.interface
           read == Places(log, "reading")
<1>1. log \in Seq(CounterEntry)
  BY DEF TrafficKept
<1>2. entry \in CounterEntry /\ entry["reading"] = NONE
  BY EntryTyped
<1>3. /\ next.since = path.since /\ next.reading = NONE
      /\ is \in InterfaceDwell => next \in Path
      /\ is.samples = was.samples /\ is.intervals = was.intervals /\ is.resets = was.resets
      /\ is.delta = was.delta /\ is.rate = NONE /\ is.peak = was.peak
      /\ is = [samples |-> is.samples, intervals |-> is.intervals, resets |-> is.resets,
               delta |-> is.delta, rate |-> is.rate, peak |-> is.peak]
  BY TrafficParts
<1>4. was \in InterfaceDwell
  BY DEF Path, Dwell
<1>5. is \in InterfaceDwell
  BY <1>3, <1>4 DEF InterfaceDwell
<1> HIDE DEF entry
<1>6. /\ longer \in Seq(CounterEntry) /\ Len(longer) = Len(log) + 1 /\ Len(log) \in Nat
      /\ \A i \in 1 .. Len(log) : longer[i] = log[i]
  BY <1>1, <1>2, AppendedLog
<1>7. /\ Places(longer, "reading") = read
      /\ read \in SUBSET (1 .. Len(log)) /\ \A i \in read : longer[i] = log[i]
  BY <1>1, <1>2, PlacesAppended
<1> HIDE DEF longer, next, read
<1>8. read # {} => FirstRead(longer) = FirstRead(log) /\ LastRead(longer) = LastRead(log)
  <2> SUFFICES ASSUME read # {}
               PROVE  FirstRead(longer) = FirstRead(log) /\ LastRead(longer) = LastRead(log)
    OBVIOUS
  <2>1. Oldest(read) \in read
    BY <1>6, <1>7, OldestPlace
  <2>2. Newest(read) \in read
    BY <1>6, <1>7, NewestPlace
  <2> QED
    BY <1>7, <2>1, <2>2 DEF FirstRead, LastRead, read
<1> DEFINE span == Reach(path, instant) - path.since
<1>9. span \in Nat /\ instant - path.since \in Nat /\ span <= instant - path.since
  BY DEF TrafficKept, Reach, Path
<1>10. InterfaceSums(was, log, instant - path.since)
  BY <1>1, <1>9, SumsLast DEF TrafficKept
<1>11. ASSUME \E i \in 2 .. Len(log) : Consecutive(log, i)
       PROVE  \E i \in 2 .. Len(longer) : Consecutive(longer, i)
  <2>1. PICK i \in 2 .. Len(log) : Consecutive(log, i)
    BY <1>11
  <2>2. i \in 1 .. Len(log) /\ i - 1 \in 1 .. Len(log) /\ i \in 2 .. Len(longer)
    BY <1>6
  <2>3. Consecutive(longer, i)
    BY <1>6, <2>1, <2>2 DEF Consecutive
  <2> QED
    BY <2>2, <2>3
<1>12. InterfaceSums(is, longer, instant - path.since)
  BY <1>3, <1>5, <1>7, <1>8, <1>10, <1>11 DEF InterfaceSums, read
<1>13. TrafficKept(next, longer, instant)
  BY <1>3, <1>6, <1>12 DEF TrafficKept, Reach
<1> QED
  BY <1>3, <1>5, <1>13 DEF next, longer, entry

\* A reading that is not the first of a path may end an interval: what it adds
\* is what the counters show, no more than was carried since the one before.
LEMMA ReadingAdds ==
  ASSUME NEW path \in Path, NEW log, instant \in Nat, TrafficKept(path, log, instant),
         NEW got \in Counters,
         Places(log, "reading") # {} => Onward(LastRead(log), got)
  PROVE  LET next == TrafficObserved(path, got.bytes)
             longer == Append(log, [reading |-> got, at |-> instant])
         IN next \in Path /\ TrafficKept(next, longer, instant)
<1> DEFINE reading == got.bytes
           next == TrafficObserved(path, reading)
           entry == [reading |-> got, at |-> instant]
           longer == Append(log, entry)
           was == path.dwell.interface
           is == next.dwell.interface
           read == Places(log, "reading")
           elapsed == instant - path.at
           reset == path.reading # NONE /\ Reset(path.reading, reading)
           interval == path.reading # NONE /\ ~reset /\ elapsed > 0
           bytes == [d \in Directions |-> reading[d] - path.reading[d]]
           span == Reach(path, instant) - path.since
           time == instant - path.since
<1>1. log \in Seq(CounterEntry)
  BY DEF TrafficKept
<1>2. got # NONE /\ reading \in Counts /\ reading # NONE
  BY NoneIsNoEvidence DEF Counters
<1>3. entry \in CounterEntry /\ entry # NONE /\ entry["reading"] = got /\ entry.at = instant
  BY EntryTyped
<1>4. /\ next.since = path.since /\ next.reading = reading /\ next.at = instant
      /\ is \in InterfaceDwell => next \in Path
      /\ is = [samples |-> is.samples, intervals |-> is.intervals, resets |-> is.resets,
               delta |-> is.delta, rate |-> is.rate, peak |-> is.peak]
      /\ is.samples = was.samples + 1
      /\ is.intervals = IF interval THEN was.intervals + 1 ELSE was.intervals
      /\ is.resets = IF reset THEN was.resets + 1 ELSE was.resets
      /\ is.delta = IF interval THEN [d \in Directions |-> was.delta[d] + bytes[d]]
                    ELSE was.delta
      /\ is.rate = IF interval THEN Rate(bytes, elapsed) ELSE NONE
      /\ is.peak = IF ~interval THEN was.peak
                   ELSE IF was.peak = NONE THEN is.rate
                   ELSE [d \in Directions |->
                           IF Faster(is.rate[d], was.peak[d]) THEN is.rate[d]
                           ELSE was.peak[d]]
  BY <1>2, TrafficParts
<1>5. /\ was \in InterfaceDwell /\ path.since \in Nat /\ path.at \in Nat
      /\ path.reading \in Counts \cup {NONE}
  BY DEF Path, Dwell
<1> HIDE DEF entry, next
<1>6. /\ longer \in Seq(CounterEntry) /\ Len(longer) = Len(log) + 1 /\ Len(log) \in Nat
      /\ DOMAIN log = 1 .. Len(log)
      /\ \A i \in 1 .. Len(log) : longer[i] = log[i] /\ log[i] \in CounterEntry
      /\ longer[Len(log) + 1] = entry /\ longer # <<>>
  BY <1>1, <1>3, AppendedLog
<1>7. /\ Places(longer, "reading") = read \cup {Len(log) + 1}
      /\ read \in SUBSET (1 .. Len(log)) /\ \A i \in read : longer[i] = log[i]
  BY <1>1, <1>2, <1>3, PlacesAppended
<1> HIDE DEF longer, read
<1>8. /\ LastRead(longer) = got
      /\ FirstRead(longer) = IF read = {} THEN got ELSE FirstRead(log)
  <2>1. Newest(Places(longer, "reading")) = Len(log) + 1
    BY <1>6, <1>7, PlaceAdded
  <2>2. LastRead(longer) = got
    BY <1>3, <1>6, <2>1, Zenon DEF LastRead
  <2>3. CASE read = {}
    <3>1. Places(longer, "reading") = {Len(log) + 1}
      BY <1>7, <2>3
    <3>2. Oldest(Places(longer, "reading")) = Len(log) + 1
      BY <1>6, <1>7, <3>1, PlaceAdded
    <3> QED
      BY <1>3, <1>6, <2>2, <2>3, <3>2, Zenon DEF FirstRead
  <2>4. CASE read # {}
    <3>1. Oldest(Places(longer, "reading")) = Oldest(read)
      BY <1>6, <1>7, <2>4, PlaceAdded
    <3>2. Oldest(read) \in read
      BY <1>6, <1>7, <2>4, OldestPlace
    <3> QED
      BY <1>7, <2>2, <2>4, <3>1, <3>2, Zenon DEF FirstRead, read
  <2> QED
    BY <2>3, <2>4
<1>9. /\ span \in Nat /\ time \in Nat /\ span <= time
      /\ InterfaceSums(was, log, span)
  BY <1>5 DEF TrafficKept, Reach
<1>10. read # {} => FirstRead(log) \in Counters /\ LastRead(log) \in Counters
  BY <1>1, ReadsTyped DEF read
<1>11. Onward(FirstRead(longer), LastRead(longer))
  <2>1. CASE read = {}
    BY <1>8, <2>1, OnwardItself
  <2>2. CASE read # {}
    <3>1. Onward(FirstRead(log), LastRead(log))
      BY <1>5, <1>9, <2>2 DEF InterfaceSums, InterfaceDwell, read
    <3> QED
      BY <1>8, <1>10, <2>2, <3>1, OnwardAgain DEF read
  <2> QED
    BY <2>1, <2>2
<1>12. Places(longer, "reading") # {}
  BY <1>7
<1>13. \A d \in Directions : /\ got.bytes[d] \in Nat /\ got.carried[d] \in Nat
                             /\ was.delta[d] \in Nat
  BY <1>5 DEF Counters, Counts, InterfaceDwell
<1>14. ASSUME ~interval
      PROVE  is \in InterfaceDwell /\ InterfaceSums(is, longer, time)
  <2>1. is \in InterfaceDwell
    BY <1>4, <1>5, <1>14 DEF InterfaceDwell
  <2>2. ASSUME NEW d \in Directions
        PROVE  /\ was.delta[d] <= got.carried[d] - FirstRead(longer).carried[d]
               /\ is.intervals = is.samples - 1 /\ got.resets = FirstRead(longer).resets
                    => was.delta[d] = got.carried[d] - FirstRead(longer).carried[d]
    <3>1. CASE read = {}
      BY <1>4, <1>8, <1>9, <1>13, <1>14, <3>1 DEF InterfaceSums, read, None
    <3>2. CASE read # {}
      <4>1. was.samples \in Nat /\ was.intervals \in Nat
        BY <1>5 DEF InterfaceDwell
      <4>2. /\ was.intervals <= was.samples - 1
            /\ was.delta[d] <= LastRead(log).carried[d] - FirstRead(log).carried[d]
        BY <1>9, <3>2, <4>1 DEF InterfaceSums, read
      <4>3. LastRead(log).carried[d] <= got.carried[d]
        BY <3>2 DEF Onward, read
      <4>4. LastRead(log).carried[d] \in Nat /\ FirstRead(log).carried[d] \in Nat
        BY <1>10, <3>2 DEF Counters, Counts
      <4> QED
        BY <1>4, <1>8, <1>13, <1>14, <3>2, <4>1, <4>2, <4>3, <4>4
    <3> QED
      BY <3>1, <3>2
  <2>3. /\ is.samples = was.samples + 1 /\ is.intervals = was.intervals
        /\ is.delta = was.delta /\ is.peak = was.peak /\ was.samples \in Nat
        /\ was.intervals \in Nat
    BY <1>4, <1>5, <1>14 DEF InterfaceDwell
  <2>4. was.intervals <= was.samples
    BY <1>9, <2>3 DEF InterfaceSums
  <2>5. ASSUME was.intervals > 0
        PROVE  /\ time > 0 /\ was.peak \in Rates
               /\ \A d \in Directions :
                    /\ was.peak[d].elapsed > 0
                    /\ was.delta[d] * was.peak[d].elapsed <= was.peak[d].bytes * time
               /\ \E i \in 2 .. Len(longer) : Consecutive(longer, i)
    <3>1. InterfaceSums(was, log, time)
      BY <1>1, <1>9, SumsLast
    <3>2. PICK i \in 2 .. Len(log) : Consecutive(log, i)
      BY <2>5, <3>1 DEF InterfaceSums
    <3>3. i \in 1 .. Len(log) /\ i - 1 \in 1 .. Len(log) /\ i \in 2 .. Len(longer)
      BY <1>6
    <3>4. Consecutive(longer, i)
      BY <1>6, <3>2, <3>3 DEF Consecutive
    <3> QED
      BY <2>5, <3>1, <3>3, <3>4 DEF InterfaceSums
  <2>6. was.intervals = 0 => was.delta = None /\ was.peak = NONE
    BY <1>9 DEF InterfaceSums
  <2> HIDE DEF is, was, time, interval, reset
  <2>7. InterfaceSums(is, longer, time)
    BY <1>8, <1>11, <1>12, <2>1, <2>2, <2>3, <2>4, <2>5, <2>6 DEF InterfaceSums
  <2> QED
    BY <2>1, <2>7
<1>15. ASSUME interval
      PROVE  is \in InterfaceDwell /\ InterfaceSums(is, longer, time)
  <2>1. /\ path.reading # NONE /\ ~Reset(path.reading, reading) /\ elapsed > 0
        /\ elapsed \in Nat
    BY <1>5, <1>15
  <2>2. /\ log # <<>> /\ log[Len(log)].reading # NONE /\ path.since <= path.at
        /\ path.at <= instant
        /\ path.reading = log[Len(log)].reading.bytes /\ path.at = log[Len(log)].at
    BY <2>1 DEF TrafficKept
  <2>3. Len(log) \in 1 .. Len(log)
    BY <1>1, <1>6, <2>2
  <2>4. Len(log) \in read
    <3>1. log[Len(log)] \in CounterEntry
      BY <1>6, <2>3
    <3>2. log[Len(log)] # NONE
      BY <3>1, NoneIsNoEvidence DEF CounterEntry
    <3> QED
      BY <1>6, <2>2, <2>3, <3>2 DEF Places, read
  <2>5. LastRead(log) = log[Len(log)].reading
    <3>1. Newest(read) \in read /\ \A i \in read : i <= Newest(read)
      BY <1>6, <1>7, <2>4, NewestPlace
    <3> DEFINE newest == Newest(read)
    <3>2. newest \in 1 .. Len(log) /\ Len(log) <= newest
      BY <1>7, <2>4, <3>1
    <3>3. Newest(read) = Len(log)
      BY <1>6, <3>2
    <3> QED
      BY <3>3 DEF LastRead, read
  <2> DEFINE last == LastRead(log)
             first == FirstRead(log)
  <2>6. /\ first \in Counters /\ last \in Counters /\ Onward(last, got)
        /\ path.reading = last.bytes
    BY <1>10, <2>2, <2>4, <2>5 DEF read
  <2> HIDE DEF first, last
  <2>7. \A d \in Directions :
          /\ first.carried[d] \in Nat /\ last.carried[d] \in Nat /\ last.bytes[d] \in Nat
          /\ first.resets \in Nat /\ last.resets \in Nat /\ got.resets \in Nat
    BY <2>6 DEF Counters, Counts
  <2>8. \A d \in Directions :
          /\ bytes[d] = got.bytes[d] - last.bytes[d] /\ bytes[d] \in Nat
          /\ bytes[d] <= got.carried[d] - last.carried[d]
          /\ got.resets = last.resets => bytes[d] = got.carried[d] - last.carried[d]
    <3> TAKE d \in Directions
    <3>1. bytes[d] = got.bytes[d] - last.bytes[d]
      BY <2>6
    <3>2. ~ (got.bytes[d] < last.bytes[d])
      BY <2>1, <2>6 DEF Reset
    <3> QED
      BY <1>13, <2>6, <2>7, <3>1, <3>2 DEF Onward
  <2>9. /\ was.samples \in Nat /\ was.intervals \in Nat /\ was.samples > 0
        /\ was.intervals <= was.samples - 1
        /\ is.samples = was.samples + 1 /\ is.intervals = was.intervals + 1
    BY SMTT(40), <1>4, <1>5, <1>9, <1>15, <2>4 DEF InterfaceSums, InterfaceDwell, read
  <2>10. \A d \in Directions : is.delta[d] = was.delta[d] + bytes[d] /\ is.delta[d] \in Nat
    BY <1>4, <1>13, <1>15, <2>8
  <2>11. is.rate = Rate(bytes, elapsed) /\ is.rate \in Rates
    <3>1. is.rate = Rate(bytes, elapsed)
      BY <1>4, <1>15
    <3>2. \A d \in Directions : [bytes |-> bytes[d], elapsed |-> elapsed]
                                  \in [bytes : Nat, elapsed : Nat]
      BY <2>1, <2>8
    <3> HIDE DEF bytes, elapsed
    <3> QED
      BY <3>1, <3>2 DEF Rate, Rates
  <2>12. \A d \in Directions : is.rate[d].bytes = bytes[d] /\ is.rate[d].elapsed = elapsed
    <3> HIDE DEF bytes, elapsed
    <3> QED
      BY <2>11 DEF Rate
  <2>13. was.peak \in Rates \cup {NONE} /\ NONE \notin Rates
    BY <1>5, NoneIsNoEvidence DEF InterfaceDwell
  <2>14. is.peak = IF was.peak = NONE THEN is.rate
                   ELSE [d \in Directions |->
                           IF Faster(is.rate[d], was.peak[d]) THEN is.rate[d]
                           ELSE was.peak[d]]
    BY <1>4, <1>15
  <2>15. is.peak \in Rates
    <3> HIDE DEF is
    <3> QED
      BY <2>11, <2>13, <2>14 DEF Rates
  <2>16. span + elapsed = time /\ time > 0
    BY <1>5, <2>1, <2>2 DEF Reach
  <2>17. ASSUME NEW d \in Directions
         PROVE  /\ is.delta[d] <= got.carried[d] - first.carried[d]
                /\ is.intervals = is.samples - 1 /\ got.resets = first.resets
                     => is.delta[d] = got.carried[d] - first.carried[d]
    <3>1. /\ was.delta[d] <= last.carried[d] - first.carried[d]
          /\ was.intervals = was.samples - 1 /\ last.resets = first.resets
               => was.delta[d] = last.carried[d] - first.carried[d]
          /\ first.resets <= last.resets
      BY <1>9, <2>9 DEF InterfaceSums, Onward, first, last
    <3>2. last.resets <= got.resets
      BY <2>6 DEF Onward
    <3> HIDE DEF is, was, bytes
    <3> QED
      BY <1>13, <2>7, <2>8, <2>9, <2>10, <3>1, <3>2
  <2>18. ASSUME NEW d \in Directions
         PROVE  /\ is.peak[d].elapsed > 0
                /\ is.delta[d] * is.peak[d].elapsed <= is.peak[d].bytes * time
    <3> DEFINE total == was.delta[d]
               more == bytes[d]
    <3>1. total \in Nat /\ more \in Nat /\ is.delta[d] = total + more
      BY <1>13, <2>8, <2>10
    <3>2. CASE was.peak = NONE
      <4>1. was.intervals = 0
        BY <1>9, <2>9, <2>13, <3>2 DEF InterfaceSums
      <4>2. total = 0
        BY <1>9, <4>1 DEF InterfaceSums, None
      <4>3. is.peak[d].bytes = more /\ is.peak[d].elapsed = elapsed
        BY <2>12, <2>14, <3>2
      <4> HIDE DEF total, more, is, elapsed, time, span
      <4>4. elapsed <= time
        BY <1>9, <2>1, <2>16
      <4>5. more * elapsed <= more * time
        BY <1>9, <2>1, <3>1, <4>4
      <4> QED
        BY <2>1, <3>1, <4>2, <4>3, <4>5
    <3>3. CASE was.peak # NONE
      <4> DEFINE peakBytes == was.peak[d].bytes
                 peakTime == was.peak[d].elapsed
      <4>1. was.intervals > 0
        BY <1>9, <2>9, <3>3 DEF InterfaceSums
      <4>2. /\ peakBytes \in Nat /\ peakTime \in Nat /\ peakTime > 0
            /\ total * peakTime <= peakBytes * span
        BY <1>9, <2>13, <3>3, <4>1 DEF InterfaceSums, Rates
      <4>3. Faster(is.rate[d], was.peak[d]) <=> more * peakTime > peakBytes * elapsed
        <5> HIDE DEF bytes, elapsed, is, was
        <5> QED
          BY <2>12 DEF Faster
      <4>4. /\ more * peakTime > peakBytes * elapsed
                 => is.peak[d].bytes = more /\ is.peak[d].elapsed = elapsed
            /\ ~(more * peakTime > peakBytes * elapsed)
                 => is.peak[d].bytes = peakBytes /\ is.peak[d].elapsed = peakTime
        <5>1. is.peak[d] = IF Faster(is.rate[d], was.peak[d]) THEN is.rate[d]
                           ELSE was.peak[d]
          BY <2>14, <3>3
        <5> HIDE DEF bytes, elapsed, is, was
        <5> QED
          BY <2>12, <4>3, <5>1
      <4> HIDE DEF total, more, is, elapsed, time, span, peakBytes, peakTime
      <4>5. /\ more * peakTime > peakBytes * elapsed
                 => (total + more) * elapsed <= more * (span + elapsed)
            /\ ~(more * peakTime > peakBytes * elapsed)
                 => (total + more) * peakTime <= peakBytes * (span + elapsed)
        BY <1>9, <2>1, <3>1, <4>2, MeanBelowPeak
      <4> QED
        BY <2>1, <2>16, <3>1, <4>2, <4>4, <4>5
    <3> QED
      BY <3>2, <3>3
  <2>19. is \in InterfaceDwell
    <3>1. /\ is.samples \in Nat /\ is.intervals \in Nat /\ is.resets \in Nat
          /\ is.rate \in Rates /\ is.peak \in Rates
      BY SMTT(40), <1>4, <1>5, <1>15, <2>9, <2>11, <2>15 DEF InterfaceDwell
    <3>2. is.delta \in Counts
      <4>1. is.delta = [d \in Directions |-> was.delta[d] + bytes[d]]
        BY <1>4, <1>15
      <4> HIDE DEF is, was, bytes
      <4> QED
        BY <2>10, <4>1 DEF Counts
    <3> QED
      BY <1>4, <3>1, <3>2 DEF InterfaceDwell
  <2>20. \E i \in 2 .. Len(longer) : Consecutive(longer, i)
    <3>1. Len(longer) \in 2 .. Len(longer) /\ Len(longer) - 1 = Len(log)
      BY <1>6, <2>3
    <3>2. /\ longer[Len(longer)].reading = got /\ longer[Len(longer)].at = instant
          /\ longer[Len(longer) - 1] = log[Len(log)]
      BY <1>3, <1>6, <2>3, <3>1
    <3>3. log[Len(log)].at < instant
      BY <1>5, <2>1, <2>2
    <3>4. Consecutive(longer, Len(longer))
      BY <1>2, <2>2, <3>2, <3>3 DEF Consecutive
    <3> QED
      BY <3>1, <3>4
  <2>21. FirstRead(longer) = first
    BY <1>8, <2>4 DEF first
  <2> HIDE DEF is, was, time, interval, reset, span, bytes, elapsed
  <2>22. InterfaceSums(is, longer, time)
    BY <1>8, <1>11, <1>12, <2>9, <2>15, <2>16, <2>17, <2>18, <2>19, <2>20, <2>21
       DEF InterfaceSums
  <2> QED
    BY <2>19, <2>22
<1>16. is \in InterfaceDwell /\ InterfaceSums(is, longer, time)
  BY <1>14, <1>15
<1>17. TrafficKept(next, longer, instant)
  <2>1. longer[Len(longer)].reading = got /\ longer[Len(longer)].at = instant
    BY <1>3, <1>6
  <2>2. path.since <= instant
    BY DEF TrafficKept
  <2> QED
    BY <1>2, <1>4, <1>6, <1>16, <2>1, <2>2 DEF TrafficKept, Reach
<1> QED
  BY <1>4, <1>2, <1>16, <1>17 DEF next, longer, entry

-----------------------------------------------------------------------------
(***************************************************************************)
(* What a log says at last, at most and how often, after one more entry.   *)
(***************************************************************************)
Has(entry, field) == entry # NONE /\ entry[field] # NONE

LEMMA LatestAppended ==
  ASSUME NEW Entry, NEW log \in Seq(Entry), NEW entry \in Entry, NEW field
  PROVE  /\ LatestOf(Append(log, entry), field) =
              IF Has(entry, field) THEN entry[field] ELSE LatestOf(log, field)
         /\ LatestOf(log, field) = NONE <=> Places(log, field) = {}
<1> DEFINE longer == Append(log, entry)
           places == Places(log, field)
<1>1. /\ Len(log) \in Nat /\ longer[Len(log) + 1] = entry
  BY AppendedLog
<1>2. /\ places \in SUBSET (1 .. Len(log))
      /\ Places(longer, field) = IF Has(entry, field) THEN places \cup {Len(log) + 1} ELSE places
      /\ \A i \in places : longer[i] = log[i] /\ log[i][field] # NONE
  BY PlacesAppended DEF Has
<1> HIDE DEF longer, places
<1>3. places # {} => Newest(places) \in places
  BY <1>1, <1>2, NewestPlace
<1>4. ASSUME Has(entry, field)
      PROVE  LatestOf(longer, field) = entry[field]
  <2>1. Newest(Places(longer, field)) = Len(log) + 1 /\ Places(longer, field) # {}
    BY <1>1, <1>2, <1>4, PlaceAdded
  <2> QED
    BY <1>1, <1>4, <2>1, Zenon DEF LatestOf
<1>5. ASSUME ~Has(entry, field)
      PROVE  LatestOf(longer, field) = LatestOf(log, field)
  <2>1. Places(longer, field) = places
    BY <1>2, <1>5
  <2>2. CASE places = {}
    BY <2>1, <2>2, Zenon DEF LatestOf, places
  <2>3. CASE places # {}
    BY <1>2, <1>3, <2>1, <2>3, Zenon DEF LatestOf, places
  <2> QED
    BY <2>2, <2>3
<1>6. LatestOf(log, field) = NONE <=> places = {}
  BY <1>2, <1>3, Zenon DEF LatestOf, places
<1> QED
  BY <1>4, <1>5, <1>6, Zenon DEF longer, places

LEMMA ValuesAppended ==
  ASSUME NEW Entry, NEW log \in Seq(Entry), NEW entry \in Entry, NEW field
  PROVE  /\ Values(Append(log, entry), field) =
              IF Has(entry, field) THEN Values(log, field) \cup {entry[field]}
              ELSE Values(log, field)
         /\ Values(log, field) = {} <=> Places(log, field) = {}
<1> DEFINE longer == Append(log, entry)
           places == Places(log, field)
<1>1. Len(log) \in Nat /\ longer[Len(log) + 1] = entry
  BY AppendedLog
<1>2. /\ Places(longer, field) = IF Has(entry, field) THEN places \cup {Len(log) + 1} ELSE places
      /\ \A i \in places : longer[i] = log[i]
  BY PlacesAppended DEF Has
<1> HIDE DEF longer, places
<1>3. ASSUME NEW v
      PROVE  v \in Values(longer, field) <=>
               v \in Values(log, field) \/ (Has(entry, field) /\ v = entry[field])
  BY <1>1, <1>2, Zenon DEF Values, places
<1>4. Values(log, field) = {} <=> places = {}
  BY Zenon DEF Values, places
<1>5. CASE Has(entry, field)
  BY <1>3, <1>4, <1>5, Zenon DEF longer, places
<1>6. CASE ~Has(entry, field)
  BY <1>3, <1>4, <1>6, Zenon DEF longer, places
<1> QED
  BY <1>5, <1>6, Zenon

\* How many places of a log are of a kind: one more if the new one is.
LEMMA CountAppended ==
  ASSUME NEW n \in Nat, NEW places \in SUBSET (1 .. n)
  PROVE  /\ IsFiniteSet(places) /\ Cardinality(places) \in Nat
         /\ Cardinality(places \cup {n + 1}) = Cardinality(places) + 1
         /\ Cardinality(places) = 0 <=> places = {}
<1>1. IsFiniteSet(1 .. n)
  BY FS_Interval
<1>2. IsFiniteSet(places)
  BY <1>1, FS_Subset
<1>3. n + 1 \notin places
  OBVIOUS
<1>4. Cardinality(places \cup {n + 1}) = Cardinality(places) + 1
  BY <1>2, <1>3, FS_AddElement
<1>5. Cardinality(places) \in Nat
  BY <1>2, FS_CardinalityType
<1>6. Cardinality(places) = 0 <=> places = {}
  BY <1>2, FS_EmptySet
<1> QED
  BY <1>2, <1>4, <1>5, <1>6

\* A value that differs from the one told last is one more that does.
LEMMA SwitchesAppended ==
  ASSUME NEW Entry, NEW log \in Seq(Entry), NEW entry \in Entry, NEW field
  PROVE  /\ Switches(log, field) \in SUBSET (1 .. Len(log))
         /\ Switches(Append(log, entry), field) =
              IF Has(entry, field) /\ LatestOf(log, field) \notin {NONE, entry[field]}
              THEN Switches(log, field) \cup {Len(log) + 1}
              ELSE Switches(log, field)
<1> DEFINE longer == Append(log, entry)
           places == Places(log, field)
           last == Len(log) + 1
<1>1. Len(log) \in Nat /\ longer[last] = entry
  BY AppendedLog
<1>2. /\ places \in SUBSET (1 .. Len(log))
      /\ Places(longer, field) = IF Has(entry, field) THEN places \cup {last} ELSE places
      /\ \A i \in places : longer[i] = log[i] /\ log[i][field] # NONE
  BY PlacesAppended DEF Has
<1>3. last \notin places /\ \A i \in places : i < last /\ i \in Nat /\ i # last
  BY <1>1, <1>2
<1> HIDE DEF longer, places, last
<1>4. Switches(log, field) \in SUBSET places
  BY DEF Switches, places
<1>5. CASE ~Has(entry, field)
  <2>1. Switches(longer, field) = Switches(log, field)
    BY <1>2, <1>5, Zenon DEF Switches, places
  <2> QED
    BY <1>2, <1>4, <1>5, <2>1 DEF longer, places
<1>6. CASE Has(entry, field)
  <2>1. ASSUME NEW i \in places
        PROVE  i \in Switches(longer, field) <=> i \in Switches(log, field)
    <3>1. ASSUME NEW j \in places
          PROVE  (\A k \in Places(longer, field) : k <= j \/ i <= k)
                   <=> (\A k \in places : k <= j \/ i <= k)
      <4>1. Places(longer, field) = places \cup {last} /\ i <= last
        BY <1>1, <1>2, <1>3, <1>6 DEF last
      <4> QED
        BY <4>1
    <3>2. ~ (last < i)
      BY <1>1, <1>3 DEF last
    <3>3. Places(longer, field) = places \cup {last}
      BY <1>2, <1>6
    <3>4. \A j \in places \cup {last} : j < i => j \in places
      BY <3>2
    <3>5. i \in Switches(longer, field) <=> \E j \in places :
            /\ j < i /\ \A k \in places : k <= j \/ i <= k
            /\ log[j][field] # log[i][field]
      <4>1. i \in Switches(longer, field) <=> \E j \in places \cup {last} :
              /\ j < i /\ \A k \in places \cup {last} : k <= j \/ i <= k
              /\ longer[j][field] # longer[i][field]
        BY <3>3, Zenon DEF Switches
      <4> QED
        BY <1>2, <3>1, <3>3, <3>4, <4>1
    <3>6. i \in Switches(log, field) <=> \E j \in places :
            /\ j < i /\ \A k \in places : k <= j \/ i <= k
            /\ log[j][field] # log[i][field]
      BY Zenon DEF Switches, places
    <3> QED
      BY <3>5, <3>6
  <2>2. last \in Switches(longer, field) <=> LatestOf(log, field) \notin {NONE, entry[field]}
    <3>1. CASE places = {}
      <4>1. LatestOf(log, field) = NONE
        BY <3>1 DEF LatestOf, places
      <4>2. ~ (last < last)
        BY <1>1 DEF last
      <4>3. Places(longer, field) = {last}
        BY <1>2, <1>6, <3>1
      <4> QED
        BY <4>1, <4>2, <4>3, Zenon DEF Switches
    <3>2. CASE places # {}
      <4> DEFINE newest == Newest(places)
      <4>1. newest \in places /\ \A i \in places : i <= newest
        BY <1>1, <1>2, <3>2, NewestPlace
      <4> HIDE DEF newest
      <4>2. LatestOf(log, field) = log[newest][field] /\ log[newest][field] # NONE
        BY <1>2, <3>2, <4>1 DEF LatestOf, places, newest
      <4>3. /\ newest < last
            /\ \A k \in Places(longer, field) : k <= newest \/ last <= k
        BY <1>1, <1>2, <1>3, <1>6, <4>1 DEF last
      <4>4. ASSUME NEW j \in Places(longer, field), j < last,
                   \A k \in Places(longer, field) : k <= j \/ last <= k
            PROVE  j = newest
        <5>1. j \in places
          BY <1>1, <1>2, <1>6, <4>4 DEF last
        <5>2. newest \in Places(longer, field)
          BY <1>2, <1>6, <4>1
        <5>3. newest <= j
          BY <1>1, <1>3, <4>1, <4>4, <5>2 DEF last
        <5>4. j <= newest
          BY <4>1, <5>1
        <5> QED
          BY <1>3, <4>1, <5>1, <5>3, <5>4
      <4>5. newest \in Places(longer, field) /\ last \in Places(longer, field)
        BY <1>2, <1>6, <4>1
      <4>6. longer[newest] = log[newest] /\ longer[last] = entry
        BY <1>1, <1>2, <4>1
      <4> QED
        BY <4>2, <4>3, <4>4, <4>5, <4>6, Zenon DEF Switches
    <3> QED
      BY <3>1, <3>2
  <2>3. Switches(longer, field) \subseteq places \cup {last}
    BY <1>2, <1>6, Zenon DEF Switches
  <2>4. ASSUME NEW i
        PROVE  i \in Switches(longer, field) <=>
                 \/ i \in Switches(log, field)
                 \/ i = last /\ LatestOf(log, field) \notin {NONE, entry[field]}
    BY <1>3, <1>4, <2>1, <2>2, <2>3
  <2>5. CASE LatestOf(log, field) \notin {NONE, entry[field]}
    BY <1>2, <1>4, <1>6, <2>4, <2>5, Zenon DEF longer, places, last
  <2>6. CASE ~ (LatestOf(log, field) \notin {NONE, entry[field]})
    BY <1>2, <1>4, <1>6, <2>4, <2>6, Zenon DEF longer, places, last
  <2> QED
    BY <2>5, <2>6
<1> QED
  BY <1>5, <1>6

-----------------------------------------------------------------------------
(***************************************************************************)
(* What is remembered of the radio.                                        *)
(***************************************************************************)
Lowest(values) == Extreme(values, LAMBDA a, b : a < b)

LEMMA LowestIs ==
  ASSUME NEW values \in SUBSET Int, NEW lowest \in values, \A v \in values : lowest <= v
  PROVE  Lowest(values) = lowest
<1>1. \A other \in values : ~ (other < lowest)
  OBVIOUS
<1>2. ASSUME NEW v \in values, \A other \in values : ~ (other < v)
      PROVE  v = lowest
  <2>1. ~ (lowest < v) /\ lowest <= v
    BY <1>2
  <2> QED
    BY <2>1
<1>3. Lowest(values) = CHOOSE v \in values : \A other \in values : ~ (other < v)
  BY DEF Lowest, Extreme
<1> QED
  BY <1>1, <1>2, <1>3

RadioSums(radio, log) ==
  /\ log \in Seq(Radio \cup {NONE}) /\ radio \in RadioDwell
  /\ RadioRemembered(log, radio)
  /\ Values(log, "signal") \subseteq Int
  /\ Values(log, "signal") # {} =>
       radio.worst \in Values(log, "signal") /\ \A v \in Values(log, "signal") : radio.worst <= v

RadioSaid(log, radio) ==
  /\ radio.settled = (log # <<>>)
  /\ radio.samples = Cardinality({i \in DOMAIN log : log[i] # NONE})
  /\ radio.latest = LatestOf(log, "signal")
  /\ radio.worst = Lowest(Values(log, "signal"))
  /\ radio.channel = LatestOf(log, "channel")
  /\ radio.changes = Cardinality(Switches(log, "channel"))

LEMMA RadioIsSaid ==
  ASSUME NEW log, NEW radio
  PROVE  RadioRemembered(log, radio) <=> RadioSaid(log, radio)
BY DEF RadioRemembered, RadioSaid, Lowest

\* A path with another part of its dwell.
WithRadio(path, radio) == [path EXCEPT !.dwell.radio = radio]
WithWorkload(path, workload) == [path EXCEPT !.dwell.workload = workload]
WithNeighbors(path, neighbors) == [path EXCEPT !.dwell.neighbors = neighbors]

SamePath(next, path) ==
  /\ next.generation = path.generation /\ next.since = path.since /\ next.wifi = path.wifi
  /\ next.reading = path.reading /\ next.at = path.at
  /\ next.dwell.interface = path.dwell.interface

LEMMA WithRadioParts ==
  ASSUME NEW path \in Path, NEW radio
  PROVE  /\ SamePath(WithRadio(path, radio), path)
         /\ WithRadio(path, radio).dwell.radio = radio
         /\ radio \in RadioDwell => WithRadio(path, radio) \in Path
<1>1. WithRadio(path, radio).dwell.radio = radio
  BY DEF WithRadio, Path, Dwell
<1>2. radio \in RadioDwell => WithRadio(path, radio) \in Path
  BY DEF WithRadio, Path, Dwell
<1>3. SamePath(WithRadio(path, radio), path)
  BY DEF SamePath, WithRadio, Path, Dwell
<1> QED
  BY <1>1, <1>2, <1>3

LEMMA WithWorkloadParts ==
  ASSUME NEW path \in Path, NEW workload
  PROVE  /\ SamePath(WithWorkload(path, workload), path)
         /\ WithWorkload(path, workload).dwell.workload = workload
         /\ workload \in WorkloadDwell => WithWorkload(path, workload) \in Path
<1>1. WithWorkload(path, workload).dwell.workload = workload
  BY DEF WithWorkload, Path, Dwell
<1>2. workload \in WorkloadDwell => WithWorkload(path, workload) \in Path
  BY DEF WithWorkload, Path, Dwell
<1>3. SamePath(WithWorkload(path, workload), path)
  BY DEF SamePath, WithWorkload, Path, Dwell
<1> QED
  BY <1>1, <1>2, <1>3

LEMMA WithNeighborsParts ==
  ASSUME NEW path \in Path, NEW neighbors
  PROVE  /\ SamePath(WithNeighbors(path, neighbors), path)
         /\ WithNeighbors(path, neighbors).dwell.neighbors = neighbors
         /\ neighbors \in NeighborDwell => WithNeighbors(path, neighbors) \in Path
<1>1. WithNeighbors(path, neighbors).dwell.neighbors = neighbors
  BY DEF WithNeighbors, Path, Dwell
<1>2. neighbors \in NeighborDwell => WithNeighbors(path, neighbors) \in Path
  BY DEF WithNeighbors, Path, Dwell
<1>3. SamePath(WithNeighbors(path, neighbors), path)
  BY DEF SamePath, WithNeighbors, Path, Dwell
<1> QED
  BY <1>1, <1>2, <1>3

\* A result of the radio.
RadioAfter(radio, telemetry) ==
  IF telemetry = NONE THEN [radio EXCEPT !.settled = TRUE]
  ELSE [settled |-> TRUE,
        samples |-> radio.samples + 1,
        latest |-> IF telemetry.signal = NONE THEN radio.latest ELSE telemetry.signal,
        worst |-> IF telemetry.signal = NONE THEN radio.worst
                  ELSE IF radio.worst = NONE \/ telemetry.signal < radio.worst
                  THEN telemetry.signal ELSE radio.worst,
        channel |-> IF telemetry.channel = NONE THEN radio.channel ELSE telemetry.channel,
        changes |-> IF telemetry.channel # NONE
                       /\ radio.channel \notin {NONE, telemetry.channel}
                    THEN radio.changes + 1 ELSE radio.changes]

LEMMA RadioAfterParts ==
  ASSUME NEW radio \in RadioDwell, NEW telemetry \in Radio \cup {NONE}
  PROVE  LET next == RadioAfter(radio, telemetry)
         IN /\ next \in RadioDwell
            /\ next.settled = TRUE
            /\ next.samples = IF telemetry = NONE THEN radio.samples ELSE radio.samples + 1
            /\ next.latest = IF Has(telemetry, "signal") THEN telemetry.signal ELSE radio.latest
            /\ next.worst = IF ~Has(telemetry, "signal") THEN radio.worst
                            ELSE IF radio.worst = NONE \/ telemetry.signal < radio.worst
                            THEN telemetry.signal ELSE radio.worst
            /\ next.channel = IF Has(telemetry, "channel") THEN telemetry.channel
                              ELSE radio.channel
            /\ next.changes = IF Has(telemetry, "channel")
                                 /\ radio.channel \notin {NONE, telemetry.channel}
                              THEN radio.changes + 1 ELSE radio.changes
<1>1. CASE telemetry = NONE
  BY <1>1 DEF RadioAfter, RadioDwell, Has
<1>2. CASE telemetry # NONE
  <2>1. telemetry \in Radio
    BY <1>2
  <2> QED
    BY <1>2, <2>1 DEF RadioAfter, RadioDwell, Radio, Has
<1> QED
  BY <1>1, <1>2

LEMMA RadioAdds ==
  ASSUME NEW radio, NEW log, RadioSums(radio, log), NEW telemetry \in Radio \cup {NONE}
  PROVE  RadioSums(RadioAfter(radio, telemetry), Append(log, telemetry))
<1> DEFINE Entry == Radio \cup {NONE}
           longer == Append(log, telemetry)
           next == RadioAfter(radio, telemetry)
           there == {i \in DOMAIN log : log[i] # NONE}
           signals == Values(log, "signal")
           signal == telemetry["signal"]
<1>1. log \in Seq(Entry) /\ radio \in RadioDwell /\ RadioSaid(log, radio)
  BY RadioIsSaid DEF RadioSums
<1>2. /\ next \in RadioDwell
      /\ next.settled = TRUE
      /\ next.samples = IF telemetry = NONE THEN radio.samples ELSE radio.samples + 1
      /\ next.latest = IF Has(telemetry, "signal") THEN signal ELSE radio.latest
      /\ next.worst = IF ~Has(telemetry, "signal") THEN radio.worst
                      ELSE IF radio.worst = NONE \/ signal < radio.worst
                      THEN signal ELSE radio.worst
      /\ next.channel = IF Has(telemetry, "channel") THEN telemetry["channel"]
                        ELSE radio.channel
      /\ next.changes = IF Has(telemetry, "channel")
                           /\ radio.channel \notin {NONE, telemetry["channel"]}
                        THEN radio.changes + 1 ELSE radio.changes
  BY <1>1, RadioAfterParts
<1> HIDE DEF next, signal
<1>3. /\ longer \in Seq(Entry) /\ longer # <<>> /\ Len(log) \in Nat
      /\ DOMAIN log = 1 .. Len(log) /\ DOMAIN longer = 1 .. Len(log) + 1
      /\ \A i \in 1 .. Len(log) : longer[i] = log[i]
      /\ longer[Len(log) + 1] = telemetry
  BY <1>1, AppendedLog
<1>4. /\ LatestOf(longer, "signal") =
           IF Has(telemetry, "signal") THEN signal ELSE LatestOf(log, "signal")
      /\ LatestOf(longer, "channel") =
           IF Has(telemetry, "channel") THEN telemetry["channel"] ELSE LatestOf(log, "channel")
  BY <1>1, LatestAppended DEF signal
<1>5. Values(longer, "signal") = IF Has(telemetry, "signal") THEN signals \cup {signal} ELSE signals
  BY <1>1, ValuesAppended DEF signal
<1>6. /\ Switches(log, "channel") \in SUBSET (1 .. Len(log))
      /\ Switches(longer, "channel") =
           IF Has(telemetry, "channel") /\ LatestOf(log, "channel") \notin {NONE, telemetry["channel"]}
           THEN Switches(log, "channel") \cup {Len(log) + 1}
           ELSE Switches(log, "channel")
  BY <1>1, SwitchesAppended
<1>7. Has(telemetry, "signal") => signal \in Int
  BY DEF Has, Radio, signal
<1> HIDE DEF longer
<1>8. /\ next.settled = (longer # <<>>)
      /\ next.latest = LatestOf(longer, "signal")
      /\ next.channel = LatestOf(longer, "channel")
  BY <1>1, <1>2, <1>3, <1>4 DEF RadioSaid
<1>9. next.changes = Cardinality(Switches(longer, "channel"))
  <2>1. Cardinality(Switches(log, "channel") \cup {Len(log) + 1}) =
          Cardinality(Switches(log, "channel")) + 1
    BY <1>3, <1>6, CountAppended
  <2> QED
    BY <1>1, <1>2, <1>6, <2>1 DEF RadioSaid
<1>10. next.samples = Cardinality({i \in DOMAIN longer : longer[i] # NONE})
  <2> DEFINE now == {i \in DOMAIN longer : longer[i] # NONE}
  <2>1. there \in SUBSET (1 .. Len(log))
    BY <1>3
  <2>2. Cardinality(there \cup {Len(log) + 1}) = Cardinality(there) + 1
    BY <1>3, <2>1, CountAppended
  <2>3. now = IF telemetry = NONE THEN there ELSE there \cup {Len(log) + 1}
    BY <1>3
  <2>4. radio.samples = Cardinality(there)
    BY <1>1 DEF RadioSaid
  <2> HIDE DEF there, now
  <2> QED
    BY <1>2, <2>2, <2>3, <2>4 DEF now
<1>11. signals \subseteq Int /\ Values(longer, "signal") \subseteq Int
  BY <1>5, <1>7 DEF RadioSums
<1>12. /\ signals # {} => radio.worst \in signals /\ \A v \in signals : radio.worst <= v
       /\ signals = {} => radio.worst = NONE
  BY <1>1 DEF RadioSums, RadioSaid, Lowest, Extreme
<1> HIDE DEF signals
<1>13. Values(longer, "signal") # {} =>
         /\ next.worst \in Values(longer, "signal")
         /\ \A v \in Values(longer, "signal") : next.worst <= v
  <2>1. CASE ~Has(telemetry, "signal")
    BY <1>2, <1>5, <1>12, <2>1
  <2>2. CASE Has(telemetry, "signal")
    <3>1. CASE signals = {}
      BY <1>2, <1>5, <1>7, <1>12, <2>2, <3>1
    <3>2. CASE signals # {}
      <4>1. radio.worst \in Int /\ radio.worst # NONE /\ signal \in Int
        BY <1>7, <1>11, <1>12, <2>2, <3>2, NoneIsNoEvidence
      <4>2. CASE signal < radio.worst
        BY <1>2, <1>5, <1>11, <1>12, <2>2, <3>2, <4>1, <4>2
      <4>3. CASE ~ (signal < radio.worst)
        BY <1>2, <1>5, <1>11, <1>12, <2>2, <3>2, <4>1, <4>3
      <4> QED
        BY <4>2, <4>3
    <3> QED
      BY <3>1, <3>2
  <2> QED
    BY <2>1, <2>2
<1>14. next.worst = Lowest(Values(longer, "signal"))
  <2>1. CASE Values(longer, "signal") = {}
    <3>1. ~Has(telemetry, "signal") /\ signals = {}
      BY <1>5, <2>1
    <3>2. Lowest(Values(longer, "signal")) = NONE
      BY <2>1 DEF Lowest, Extreme
    <3> QED
      BY <1>2, <1>12, <3>1, <3>2
  <2>2. CASE Values(longer, "signal") # {}
    BY <1>11, <1>13, <2>2, LowestIs
  <2> QED
    BY <2>1, <2>2
<1>15. RadioSaid(longer, next)
  BY <1>8, <1>9, <1>10, <1>14 DEF RadioSaid
<1> QED
  BY <1>2, <1>3, <1>11, <1>13, <1>15, RadioIsSaid DEF RadioSums, longer, next

LEMMA RadioStep ==
  ASSUME NEW path \in Path, NEW log, RadioSums(path.dwell.radio, log),
         NEW telemetry \in Radio \cup {NONE}
  PROVE  LET next == RadioObserved(path, telemetry)
         IN /\ next \in Path /\ SamePath(next, path)
            /\ RadioSums(next.dwell.radio, Append(log, telemetry))
<1> DEFINE radio == path.dwell.radio
<1>1. RadioObserved(path, telemetry) = WithRadio(path, RadioAfter(radio, telemetry))
  BY DEF RadioObserved, WithRadio, RadioAfter
<1>2. RadioAfter(radio, telemetry) \in RadioDwell
  BY RadioAfterParts DEF RadioSums
<1>3. RadioSums(RadioAfter(radio, telemetry), Append(log, telemetry))
  BY RadioAdds
<1> QED
  BY <1>1, <1>2, <1>3, WithRadioParts

-----------------------------------------------------------------------------
(***************************************************************************)
(* What is remembered of the workload.                                     *)
(***************************************************************************)
Highest(values) == Extreme(values, LAMBDA a, b : a > b)

LEMMA HighestIs ==
  ASSUME NEW values \in SUBSET Nat, NEW highest \in values, \A v \in values : v <= highest
  PROVE  Highest(values) = highest
<1>1. \A other \in values : ~ (other > highest)
  OBVIOUS
<1>2. ASSUME NEW v \in values, \A other \in values : ~ (other > v)
      PROVE  v = highest
  <2>1. ~ (highest > v) /\ v <= highest
    BY <1>2
  <2> QED
    BY <2>1
<1>3. Highest(values) = CHOOSE v \in values : \A other \in values : ~ (other > v)
  BY DEF Highest, Extreme
<1> QED
  BY <1>1, <1>2, <1>3

WorkloadEntry == [health : {"ok", "unavailable"}, top : Nat \cup {NONE}]

Sampled(log) == {i \in DOMAIN log : log[i].health = "ok"}

WorkloadSaid(log, workload) ==
  /\ workload.sampled = Cardinality(Sampled(log))
  /\ workload.latest = IF Sampled(log) = {} THEN NONE ELSE log[Newest(Sampled(log))].top
  /\ workload.peak = Highest(Values(log, "top"))

WorkloadSums(workload, log) ==
  /\ log \in Seq(WorkloadEntry) /\ workload \in WorkloadDwell
  /\ WorkloadRemembered(log, workload)
  /\ workload.health = IF log = <<>> THEN "queued" ELSE log[Len(log)].health
  /\ Values(log, "top") \subseteq Nat
  /\ Values(log, "top") # {} =>
       workload.peak \in Values(log, "top") /\ \A v \in Values(log, "top") : v <= workload.peak

LEMMA WorkloadIsSaid ==
  ASSUME NEW log, NEW workload
  PROVE  WorkloadRemembered(log, workload) <=> WorkloadSaid(log, workload)
BY DEF WorkloadRemembered, WorkloadSaid, Sampled, Highest

\* A workload window, sampled or not.
WorkloadAfter(workload, health, top) ==
  IF health # "ok" THEN [workload EXCEPT !.health = health]
  ELSE [sampled |-> workload.sampled + 1, latest |-> top,
        peak |-> IF top # NONE /\ (workload.peak = NONE \/ top > workload.peak)
                 THEN top ELSE workload.peak,
        health |-> health]

LEMMA WorkloadAfterParts ==
  ASSUME NEW workload \in WorkloadDwell, NEW health \in {"ok", "unavailable"},
         NEW top \in Nat \cup {NONE}
  PROVE  LET next == WorkloadAfter(workload, health, top)
         IN /\ next \in WorkloadDwell
            /\ next.health = health
            /\ next.sampled = IF health = "ok" THEN workload.sampled + 1 ELSE workload.sampled
            /\ next.latest = IF health = "ok" THEN top ELSE workload.latest
            /\ next.peak = IF health = "ok" /\ top # NONE
                              /\ (workload.peak = NONE \/ top > workload.peak)
                           THEN top ELSE workload.peak
<1>1. CASE health = "ok"
  BY <1>1 DEF WorkloadAfter, WorkloadDwell
<1>2. CASE health # "ok"
  BY <1>2 DEF WorkloadAfter, WorkloadDwell
<1> QED
  BY <1>1, <1>2

LEMMA WorkloadAdds ==
  ASSUME NEW workload, NEW log, WorkloadSums(workload, log),
         NEW health \in {"ok", "unavailable"}, NEW top \in Nat \cup {NONE},
         health = "unavailable" => top = NONE
  PROVE  WorkloadSums(WorkloadAfter(workload, health, top),
                      Append(log, [health |-> health, top |-> top]))
<1> DEFINE entry == [health |-> health, top |-> top]
           longer == Append(log, entry)
           next == WorkloadAfter(workload, health, top)
           tops == Values(log, "top")
           given == top # NONE
<1>1. log \in Seq(WorkloadEntry) /\ workload \in WorkloadDwell /\ WorkloadSaid(log, workload)
  BY WorkloadIsSaid DEF WorkloadSums
<1>2. /\ next \in WorkloadDwell
      /\ next.health = health
      /\ next.sampled = IF health = "ok" THEN workload.sampled + 1 ELSE workload.sampled
      /\ next.latest = IF health = "ok" THEN top ELSE workload.latest
      /\ next.peak = IF given /\ (workload.peak = NONE \/ top > workload.peak)
                     THEN top ELSE workload.peak
  BY ZenonT(40), <1>1, WorkloadAfterParts
<1>3. /\ entry \in WorkloadEntry /\ entry["top"] = top /\ entry.health = health
      /\ entry # NONE
  BY NoneIsNoEvidence DEF WorkloadEntry
<1>4. Has(entry, "top") <=> given
  BY <1>3 DEF Has
<1> HIDE DEF next, entry
<1>5. /\ longer \in Seq(WorkloadEntry) /\ longer # <<>> /\ Len(log) \in Nat
      /\ Len(longer) = Len(log) + 1
      /\ DOMAIN log = 1 .. Len(log) /\ DOMAIN longer = 1 .. Len(log) + 1
      /\ \A i \in 1 .. Len(log) : longer[i] = log[i]
      /\ longer[Len(log) + 1] = entry
  BY <1>1, <1>3, AppendedLog
<1>6. Values(longer, "top") = IF given THEN tops \cup {top} ELSE tops
  BY <1>1, <1>3, <1>4, ValuesAppended
<1> HIDE DEF longer
<1>7. next.health = IF longer = <<>> THEN "queued" ELSE longer[Len(longer)].health
  BY <1>2, <1>3, <1>5
<1>8. Sampled(longer) = IF health = "ok" THEN Sampled(log) \cup {Len(log) + 1} ELSE Sampled(log)
  BY <1>3, <1>5 DEF Sampled
<1>9. Sampled(log) \in SUBSET (1 .. Len(log))
  BY <1>5 DEF Sampled
<1>10. next.sampled = Cardinality(Sampled(longer))
  <2>1. Cardinality(Sampled(log) \cup {Len(log) + 1}) = Cardinality(Sampled(log)) + 1
    BY <1>5, <1>9, CountAppended
  <2> QED
    BY <1>1, <1>2, <1>8, <2>1 DEF WorkloadSaid
<1>11. next.latest = IF Sampled(longer) = {} THEN NONE ELSE longer[Newest(Sampled(longer))].top
  <2>1. CASE health = "ok"
    <3>1. Newest(Sampled(longer)) = Len(log) + 1 /\ Sampled(longer) # {}
      BY <1>5, <1>8, <1>9, <2>1, PlaceAdded
    <3>2. entry.top = top
      BY <1>3
    <3> QED
      BY <1>2, <1>5, <2>1, <3>1, <3>2
  <2>2. CASE health # "ok"
    <3>1. Sampled(log) # {} => Newest(Sampled(log)) \in Sampled(log)
      BY <1>5, <1>9, NewestPlace
    <3>2. Sampled(log) # {} => longer[Newest(Sampled(log))] = log[Newest(Sampled(log))]
      BY <1>5, <1>9, <3>1
    <3> QED
      BY <1>1, <1>2, <1>8, <2>2, <3>2 DEF WorkloadSaid
  <2> QED
    BY <2>1, <2>2
<1>12. tops \subseteq Nat /\ Values(longer, "top") \subseteq Nat
  BY <1>6 DEF WorkloadSums
<1>13. /\ tops # {} => workload.peak \in tops /\ \A v \in tops : v <= workload.peak
       /\ tops = {} => workload.peak = NONE
  BY <1>1 DEF WorkloadSums, WorkloadSaid, Highest, Extreme
<1> HIDE DEF tops
<1>14. Values(longer, "top") # {} =>
         /\ next.peak \in Values(longer, "top")
         /\ \A v \in Values(longer, "top") : v <= next.peak
  <2>1. CASE ~given
    BY <1>2, <1>6, <1>13, <2>1
  <2>2. CASE given
    <3>1. CASE tops = {}
      BY <1>2, <1>6, <1>13, <2>2, <3>1
    <3>2. CASE tops # {}
      <4>1. workload.peak \in Nat /\ workload.peak # NONE /\ top \in Nat
        <5>1. workload.peak \in Nat /\ NONE \notin Nat
          BY <1>12, <1>13, <3>2, NoneIsNoNumber
        <5> QED
          BY <2>2, <5>1
      <4>2. CASE top > workload.peak
        BY <1>2, <1>6, <1>12, <1>13, <2>2, <3>2, <4>1, <4>2
      <4>3. CASE ~ (top > workload.peak)
        BY <1>2, <1>6, <1>12, <1>13, <2>2, <3>2, <4>1, <4>3
      <4> QED
        BY <4>2, <4>3
    <3> QED
      BY <3>1, <3>2
  <2> QED
    BY <2>1, <2>2
<1>15. next.peak = Highest(Values(longer, "top"))
  <2>1. CASE Values(longer, "top") = {}
    <3>1. ~given /\ tops = {}
      BY <1>6, <2>1
    <3>2. Highest(Values(longer, "top")) = NONE
      BY <2>1 DEF Highest, Extreme
    <3> QED
      BY <1>2, <1>13, <3>1, <3>2
  <2>2. CASE Values(longer, "top") # {}
    BY <1>12, <1>14, <2>2, HighestIs
  <2> QED
    BY <2>1, <2>2
<1>16. WorkloadSaid(longer, next)
  BY <1>10, <1>11, <1>15 DEF WorkloadSaid
<1> QED
  BY <1>2, <1>5, <1>7, <1>12, <1>14, <1>16, WorkloadIsSaid DEF WorkloadSums, longer, next, entry

LEMMA WorkloadStep ==
  ASSUME NEW path \in Path, NEW log, WorkloadSums(path.dwell.workload, log),
         NEW health \in {"ok", "unavailable"}, NEW top \in Nat \cup {NONE},
         health = "unavailable" => top = NONE
  PROVE  LET next == WorkloadObserved(path, health, top)
         IN /\ next \in Path /\ SamePath(next, path)
            /\ WorkloadSums(next.dwell.workload, Append(log, [health |-> health, top |-> top]))
<1> DEFINE workload == path.dwell.workload
<1>1. WorkloadObserved(path, health, top) =
        WithWorkload(path, WorkloadAfter(workload, health, top))
  BY DEF WorkloadObserved, WithWorkload, WorkloadAfter
<1>2. WorkloadAfter(workload, health, top) \in WorkloadDwell
  BY WorkloadAfterParts DEF WorkloadSums
<1>3. WorkloadSums(WorkloadAfter(workload, health, top),
                   Append(log, [health |-> health, top |-> top]))
  BY WorkloadAdds
<1> QED
  BY <1>1, <1>2, <1>3, WithWorkloadParts

-----------------------------------------------------------------------------
(***************************************************************************)
(* What is remembered of the neighbours' sources.                          *)
(***************************************************************************)
NeighborEntry ==
  [health : {"ok", "degraded", "unavailable"}, completed : SUBSET CacheSources]

NeighborSums(neighbors, log) ==
  /\ log \in Seq(NeighborEntry) /\ neighbors \in NeighborDwell
  /\ neighbors.snapshots = Len(log)
  /\ neighbors.failed = {} <=> \A i \in DOMAIN log : log[i].completed = CacheSources
  /\ neighbors.health = IF log = <<>> THEN "queued" ELSE log[Len(log)].health
  /\ neighbors.health = "ok" => neighbors.sources # {}

NeighborsAfter(neighbors, health, completed) ==
  [snapshots |-> neighbors.snapshots + 1, sources |-> neighbors.sources \cup completed,
   failed |-> neighbors.failed \cup (CacheSources \ completed), health |-> health]

LEMMA NeighborsAdds ==
  ASSUME NEW neighbors, NEW log, NeighborSums(neighbors, log),
         NEW health \in {"ok", "degraded", "unavailable"},
         NEW completed \in SUBSET CacheSources, health = "ok" => completed # {}
  PROVE  NeighborSums(NeighborsAfter(neighbors, health, completed),
                      Append(log, [health |-> health, completed |-> completed]))
<1> DEFINE entry == [health |-> health, completed |-> completed]
           longer == Append(log, entry)
           next == NeighborsAfter(neighbors, health, completed)
<1>1. log \in Seq(NeighborEntry) /\ neighbors \in NeighborDwell
  BY DEF NeighborSums
<1>2. /\ next \in NeighborDwell
      /\ next.snapshots = neighbors.snapshots + 1
      /\ next.sources = neighbors.sources \cup completed
      /\ next.failed = neighbors.failed \cup (CacheSources \ completed)
      /\ next.health = health
  BY <1>1 DEF NeighborsAfter, NeighborDwell
<1>3. entry \in NeighborEntry /\ entry.health = health /\ entry.completed = completed
  BY DEF NeighborEntry
<1> HIDE DEF next, entry
<1>4. /\ longer \in Seq(NeighborEntry) /\ longer # <<>> /\ Len(log) \in Nat
      /\ Len(longer) = Len(log) + 1
      /\ DOMAIN log = 1 .. Len(log) /\ DOMAIN longer = 1 .. Len(log) + 1
      /\ \A i \in 1 .. Len(log) : longer[i] = log[i]
      /\ longer[Len(log) + 1] = entry
  BY <1>1, <1>3, AppendedLog
<1> HIDE DEF longer
<1>5. (\A i \in DOMAIN longer : longer[i].completed = CacheSources) <=>
        (\A i \in DOMAIN log : log[i].completed = CacheSources) /\ completed = CacheSources
  BY <1>3, <1>4
<1>6. next.failed = {} <=> neighbors.failed = {} /\ completed = CacheSources
  BY <1>2
<1>7. next.health = IF longer = <<>> THEN "queued" ELSE longer[Len(longer)].health
  BY <1>2, <1>3, <1>4
<1>8. next.health = "ok" => next.sources # {}
  BY <1>2
<1>9. next.snapshots = Len(longer)
  BY <1>2, <1>4 DEF NeighborSums
<1>10. next.failed = {} <=> \A i \in DOMAIN longer : longer[i].completed = CacheSources
  BY <1>5, <1>6 DEF NeighborSums
<1> QED
  BY <1>2, <1>4, <1>7, <1>8, <1>9, <1>10 DEF NeighborSums, longer, next, entry

LEMMA NeighborsStep ==
  ASSUME NEW path \in Path, NEW log, NeighborSums(path.dwell.neighbors, log),
         NEW health \in {"ok", "degraded", "unavailable"},
         NEW completed \in SUBSET CacheSources, health = "ok" => completed # {}
  PROVE  LET next == NeighborsObserved(path, health, completed)
         IN /\ next \in Path /\ SamePath(next, path)
            /\ NeighborSums(next.dwell.neighbors,
                            Append(log, [health |-> health, completed |-> completed]))
<1> DEFINE neighbors == path.dwell.neighbors
<1>1. neighbors \in NeighborDwell
  BY DEF NeighborSums
<1>2. NeighborsObserved(path, health, completed) =
        WithNeighbors(path, NeighborsAfter(neighbors, health, completed))
  BY DEF NeighborsObserved, WithNeighbors, NeighborsAfter
<1>3. NeighborSums(NeighborsAfter(neighbors, health, completed),
                   Append(log, [health |-> health, completed |-> completed]))
  BY NeighborsAdds
<1>4. NeighborsAfter(neighbors, health, completed) \in NeighborDwell
  BY <1>3 DEF NeighborSums
<1> QED
  BY <1>2, <1>3, <1>4, WithNeighborsParts

-----------------------------------------------------------------------------
(***************************************************************************)
(* The invariant of a session.                                             *)
(***************************************************************************)
WindowCollectors == {"interface", "wifi", "workload", "peers"}

\* The dwell of a path over, from the log of its updates.
Sums(collector, dwell, log, span) ==
  /\ dwell \in Dwell
  /\ collector = "interface" => InterfaceSums(dwell.interface, log, span)
  /\ collector # "interface" => dwell.interface = NewDwell.interface
  /\ collector = "wifi" => RadioSums(dwell.radio, log)
  /\ collector = "workload" => WorkloadSums(dwell.workload, log)
  /\ collector = "peers" => NeighborSums(dwell.neighbors, log)

AnyEntry == CounterEntry \cup Radio \cup {NONE} \cup WorkloadEntry \cup NeighborEntry
PathRecord == [since : Nat, wifi : BOOLEAN, log : Seq(AnyEntry)]
CompletedDwell ==
  [generation : Nat, observed : Nat, ended : Nat, next : Nat, wifi : BOOLEAN, dwell : Dwell]

\* The window of a generation, from what was received of it and when it was left.
WindowHolds(collector, window, generation, record, left) ==
  /\ window.generation = generation /\ window.next = generation + 1
  /\ window.ended - window.observed = record.since
  /\ window.ended = left
  /\ window.wifi = record.wifi
  /\ Sums(collector, window.dwell, record.log, window.observed)

WindowsKept ==
  IF current.generation <= MaxWindows THEN current.generation - 1 ELSE MaxWindows

\* The path one is on; of the counters also what the worker may have read.
CurrentHolds ==
  LET log == past[current.generation].log
  IN /\ current.since = past[current.generation].since /\ current.since <= instant
     /\ current.wifi = past[current.generation].wifi
     /\ subject # "interface" => Sums(subject, current.dwell, log, 0)
     /\ subject = "interface" =>
          /\ TrafficKept(current, log, instant)
          /\ Places(log, "reading") # {} =>
               /\ Onward(LastRead(log), counters)
               /\ worker.generation = current.generation /\ worker.reading # NONE =>
                    Onward(LastRead(log), worker.reading)

WorkerHolds ==
  /\ worker \in [generation : Nat, reading : Counters \cup {NONE}, number : Nat]
  /\ worker.generation <= current.generation
  /\ worker.generation = 0 => worker.reading = NONE
  /\ worker.generation # 0 => subject = "interface"
  /\ worker.reading # NONE => Onward(worker.reading, counters)

SessionHolds ==
  /\ subject \in WindowCollectors /\ instant \in Nat /\ counters \in Counters
  /\ current \in Path /\ current.generation > 0
  /\ past \in Seq(PathRecord) /\ Len(past) = current.generation
  /\ windows \in Seq(CompletedDwell) /\ Len(windows) = WindowsKept
  /\ WorkerHolds
  /\ CurrentHolds
  /\ \A i \in 1 .. Len(windows) :
       LET generation == current.generation - 1 - WindowsKept + i
       IN WindowHolds(subject, windows[i], generation, past[generation],
                      past[generation + 1].since)

WindowsInvariant ==
  \/ subject = "none" /\ worker.generation = 0
  \/ SessionHolds

LEMMA NoPlaces ==
  ASSUME NEW field
  PROVE  /\ Places(<<>>, field) = {} /\ Values(<<>>, field) = {}
         /\ LatestOf(<<>>, field) = NONE /\ Switches(<<>>, field) = {}
         /\ Cardinality({}) = 0
<1>1. Places(<<>>, field) = {}
  BY DEF Places
<1>2. Cardinality({}) = 0
  BY FS_EmptySet
<1> QED
  BY <1>1, <1>2 DEF Values, LatestOf, Switches

\* A new path has received nothing.
LEMMA NewSums ==
  ASSUME NEW collector, NEW span \in Nat
  PROVE  /\ Sums(collector, NewDwell, <<>>, span)
         /\ InterfaceSums(NewDwell.interface, <<>>, span)
<1>1. NewDwell \in Dwell
  BY NewDwellTyped
<1>2. InterfaceSums(NewDwell.interface, <<>>, span)
  <2>1. NewDwell.interface \in InterfaceDwell
    BY <1>1 DEF Dwell
  <2>2. /\ NewDwell.interface.samples = 0 /\ NewDwell.interface.intervals = 0
        /\ NewDwell.interface.delta = None /\ NewDwell.interface.peak = NONE
    BY DEF NewDwell
  <2> QED
    BY <2>1, <2>2, NoPlaces DEF InterfaceSums
<1>3. RadioSums(NewDwell.radio, <<>>)
  <2>1. NewDwell.radio \in RadioDwell
    BY <1>1 DEF Dwell
  <2>2. /\ NewDwell.radio.settled = FALSE /\ NewDwell.radio.samples = 0
        /\ NewDwell.radio.latest = NONE /\ NewDwell.radio.worst = NONE
        /\ NewDwell.radio.channel = NONE /\ NewDwell.radio.changes = 0
    BY DEF NewDwell
  <2>3. {i \in DOMAIN <<>> : <<>>[i] # NONE} = {}
    OBVIOUS
  <2>4. Lowest({}) = NONE
    BY DEF Lowest, Extreme
  <2>5. RadioSaid(<<>>, NewDwell.radio)
    BY <2>2, <2>3, <2>4, NoPlaces DEF RadioSaid
  <2> QED
    BY <2>1, <2>5, NoPlaces, RadioIsSaid DEF RadioSums
<1>4. WorkloadSums(NewDwell.workload, <<>>)
  <2>1. NewDwell.workload \in WorkloadDwell
    BY <1>1 DEF Dwell
  <2>2. /\ NewDwell.workload.sampled = 0 /\ NewDwell.workload.latest = NONE
        /\ NewDwell.workload.peak = NONE /\ NewDwell.workload.health = "queued"
    BY DEF NewDwell
  <2>3. Sampled(<<>>) = {}
    BY DEF Sampled
  <2>4. Highest({}) = NONE
    BY DEF Highest, Extreme
  <2>5. WorkloadSaid(<<>>, NewDwell.workload)
    BY <2>2, <2>3, <2>4, NoPlaces DEF WorkloadSaid
  <2> QED
    BY <2>1, <2>2, <2>5, NoPlaces, WorkloadIsSaid DEF WorkloadSums
<1>5. NeighborSums(NewDwell.neighbors, <<>>)
  <2>1. NewDwell.neighbors \in NeighborDwell
    BY <1>1 DEF Dwell
  <2>2. /\ NewDwell.neighbors.snapshots = 0 /\ NewDwell.neighbors.failed = {}
        /\ NewDwell.neighbors.health = "queued"
    BY DEF NewDwell
  <2> QED
    BY <2>1, <2>2 DEF NeighborSums
<1> QED
  BY <1>1, <1>2, <1>3, <1>4, <1>5 DEF Sums

LEMMA OpenedParts ==
  ASSUME NEW wifi \in BOOLEAN, current.generation \in Nat, instant \in Nat
  PROVE  LET path == OpenedWindow(wifi)
         IN /\ path \in Path
            /\ path.generation = current.generation + 1
            /\ path.since = instant /\ path.wifi = wifi
            /\ path.reading = NONE /\ path.dwell = NewDwell
<1>1. NewDwell \in Dwell
  BY NewDwellTyped
<1>2. NoPath \in Path /\ NoPath.reading = NONE /\ NoPath.dwell = NewDwell
  BY <1>1 DEF NoPath, Path
<1> DEFINE generation == current.generation + 1
<1>3. generation \in Nat
  OBVIOUS
<1>4. OpenedWindow(wifi) =
        [NoPath EXCEPT !.generation = generation, !.since = instant, !.wifi = wifi]
  BY DEF OpenedWindow
<1> HIDE DEF NoPath, generation
<1>5. LET path == OpenedWindow(wifi)
      IN /\ path \in Path
         /\ path.generation = generation
         /\ path.since = instant /\ path.wifi = wifi
         /\ path.reading = NONE /\ path.dwell = NewDwell
  BY <1>2, <1>3, <1>4 DEF Path
<1> QED
  BY <1>5 DEF generation

LEMMA FirstPathParts ==
  ASSUME NEW wifi \in BOOLEAN, NEW generation \in Nat
  PROVE  LET path == [NoPath EXCEPT !.generation = generation, !.wifi = wifi]
         IN /\ path \in Path
            /\ path.generation = generation /\ path.since = 0 /\ path.wifi = wifi
            /\ path.reading = NONE /\ path.dwell = NewDwell
<1>1. NewDwell \in Dwell
  BY NewDwellTyped
<1>2. /\ NoPath \in Path /\ NoPath.since = 0
      /\ NoPath.reading = NONE /\ NoPath.dwell = NewDwell
  BY <1>1 DEF NoPath, Path
<1> HIDE DEF NoPath
<1> QED
  BY <1>2 DEF Path

LEMMA NewPathKept ==
  ASSUME NEW path, path.reading = NONE, path.dwell = NewDwell,
         path.since \in Nat, path.since = instant
  PROVE  TrafficKept(path, <<>>, instant)
<1>1. InterfaceSums(NewDwell.interface, <<>>, 0)
  BY NewSums
<1> QED
  BY <1>1 DEF TrafficKept, Reach

LEMMA WindowsInitially ==
  /\ WindowsIdle => WindowsInvariant
  /\ WindowsInit => WindowsInvariant
<1>1. WindowsIdle => WindowsInvariant
  BY DEF WindowsIdle, WindowsOff, WorkerFree, WindowsInvariant
<1>2. ASSUME WindowsInit
      PROVE  SessionHolds
  <2>1. PICK wifi \in BOOLEAN :
          /\ current = [NoPath EXCEPT !.generation = 1, !.wifi = wifi]
          /\ past = <<[since |-> 0, wifi |-> wifi, log |-> <<>>]>>
    BY <1>2 DEF WindowsInit
  <2>2. /\ current \in Path
        /\ current.generation = 1 /\ current.since = 0 /\ current.wifi = wifi
        /\ current.reading = NONE /\ current.dwell = NewDwell
    BY ZenonT(40), <2>1, FirstPathParts
  <2>3. /\ counters = [bytes |-> None, carried |-> None, resets |-> 0]
        /\ worker = [generation |-> 0, reading |-> NONE, number |-> 0]
        /\ instant = 0 /\ windows = <<>>
    BY <1>2 DEF WindowsInit, WindowsOff, WorkerFree
  <2>4. subject \in WindowCollectors
    BY <1>2 DEF WindowsInit, WindowCollectors
  <2>5. None \in Counts
    BY DEF None, Counts
  <2>6. counters \in Counters
    BY <2>3, <2>5 DEF Counters
  <2>7. WorkerHolds
    BY <2>2, <2>3 DEF WorkerHolds
  <2>8. past \in Seq(PathRecord) /\ Len(past) = 1 /\ past[1].since = 0 /\ past[1].wifi = wifi
        /\ past[1].log = <<>>
    BY <2>1 DEF PathRecord
  <2>9. CurrentHolds
    <3>1. Sums(subject, current.dwell, <<>>, 0)
      BY <2>2, NewSums
    <3>2. TrafficKept(current, <<>>, instant)
      BY <2>2, <2>3, NewPathKept
    <3> QED
      BY <2>2, <2>3, <2>8, <3>1, <3>2, NoPlaces DEF CurrentHolds
  <2>10. Len(windows) = WindowsKept /\ windows \in Seq(CompletedDwell)
    BY <2>2, <2>3, WindowsAssumption DEF WindowsKept
  <2> QED
    BY <2>2, <2>3, <2>4, <2>6, <2>7, <2>8, <2>9, <2>10 DEF SessionHolds
<1> QED
  BY <1>1, <1>2 DEF WindowsInvariant

-----------------------------------------------------------------------------
(***************************************************************************)
(* The steps of a session.                                                 *)
(***************************************************************************)
LEMMA KeptWindows ==
  ASSUME current.generation \in Nat, current.generation > 0
  PROVE  /\ WindowsKept \in 0 .. MaxWindows /\ WindowsKept <= current.generation - 1
         /\ WindowsKept < MaxWindows => WindowsKept = current.generation - 1
         /\ \A i \in 1 .. WindowsKept :
              current.generation - 1 - WindowsKept + i \in 1 .. current.generation - 1
BY WindowsAssumption DEF WindowsKept

\* An update is logged with the path one is on and changes no other.
LEMMA LoggedPast ==
  ASSUME SessionHolds, NEW entry \in AnyEntry, NEW record,
         record = [past EXCEPT ![current.generation].log = Append(@, entry)]
  PROVE  LET log == past[current.generation].log
         IN /\ record \in Seq(PathRecord) /\ Len(record) = current.generation
            /\ record[current.generation].since = past[current.generation].since
            /\ record[current.generation].wifi = past[current.generation].wifi
            /\ record[current.generation].log = Append(log, entry)
            /\ log \in Seq(AnyEntry)
            /\ \A i \in 1 .. current.generation - 1 : record[i] = past[i]
<1> DEFINE g == current.generation
           was == past[g]
           is == record[g]
<1>1. /\ past \in Seq(PathRecord) /\ Len(past) = g /\ g \in 1 .. Len(past)
      /\ DOMAIN past = 1 .. Len(past)
  BY DEF SessionHolds, Path
<1>2. was \in PathRecord
  BY <1>1
<1>3. was.log \in Seq(AnyEntry) /\ Append(was.log, entry) \in Seq(AnyEntry)
  BY <1>2 DEF PathRecord
<1>4. is = [was EXCEPT !.log = Append(@, entry)]
  BY <1>1
<1>5. /\ is.since = was.since /\ is.wifi = was.wifi
      /\ is.log = Append(was.log, entry)
  <2> HIDE DEF was, is
  <2> QED
    BY <1>2, <1>4 DEF PathRecord
<1>6. is \in PathRecord
  <2> HIDE DEF was, is
  <2> QED
    BY <1>2, <1>3, <1>4 DEF PathRecord
<1>7. record = [past EXCEPT ![g] = is]
  BY <1>1
<1> HIDE DEF is, was
<1>8. record \in Seq(PathRecord) /\ Len(record) = Len(past)
  BY <1>1, <1>6, <1>7
<1>9. \A i \in 1 .. g - 1 : record[i] = past[i]
  BY <1>1
<1> QED
  BY <1>1, <1>3, <1>5, <1>8, <1>9 DEF is, was

\* The windows are as before an update, which is not one of theirs.
LEMMA LoggedHolds ==
  ASSUME SessionHolds, NEW entry \in AnyEntry,
         past' = [past EXCEPT ![current.generation].log = Append(@, entry)],
         UNCHANGED <<subject, counters, instant, windows>>,
         current' \in Path, current'.generation = current.generation,
         WorkerHolds', CurrentHolds'
  PROVE  SessionHolds'
<1> DEFINE g == current.generation
<1>1. /\ past' \in Seq(PathRecord) /\ Len(past') = g
      /\ past'[g].since = past[g].since
      /\ \A i \in 1 .. g - 1 : past'[i] = past[i]
  BY LoggedPast
<1>2. g \in Nat /\ g > 0
  BY DEF SessionHolds, Path
<1>3. WindowsKept' = WindowsKept
  BY DEF WindowsKept
<1>4. ASSUME NEW i \in 1 .. Len(windows), NEW generation,
             generation = g - 1 - WindowsKept + i
      PROVE  WindowHolds(subject, windows[i], generation, past'[generation],
                         past'[generation + 1].since)
  <2>1. generation \in 1 .. g - 1
    BY <1>2, <1>4, KeptWindows DEF SessionHolds
  <2>2. WindowHolds(subject, windows[i], generation, past[generation],
                    past[generation + 1].since)
    BY <1>4 DEF SessionHolds
  <2>3. generation + 1 \in 1 .. g - 1 \/ generation + 1 = g
    BY <1>2, <2>1
  <2>4. /\ past'[generation] = past[generation]
        /\ past'[generation + 1].since = past[generation + 1].since
    BY <1>1, <2>1, <2>3
  <2> QED
    BY <2>2, <2>4
<1> QED
  BY <1>1, <1>2, <1>3, <1>4 DEF SessionHolds

\* What is retained: the windows before, without the oldest once there are so many.
LEMMA RetainedParts ==
  ASSUME windows \in Seq(CompletedDwell), NEW window \in CompletedDwell,
         Len(windows) <= MaxWindows
  PROVE  LET next == Retained(window)
             n == Len(windows)
         IN /\ next \in Seq(CompletedDwell)
            /\ n # MaxWindows =>
                 /\ Len(next) = n + 1 /\ next[n + 1] = window
                 /\ \A i \in 1 .. n : next[i] = windows[i]
            /\ n = MaxWindows =>
                 /\ Len(next) = MaxWindows /\ next[MaxWindows] = window
                 /\ \A i \in 1 .. MaxWindows - 1 : next[i] = windows[i + 1]
<1>1. CASE Len(windows) # MaxWindows
  BY <1>1 DEF Retained
<1>2. CASE Len(windows) = MaxWindows
  <2> DEFINE rest == Tail(windows)
  <2>1. windows # <<>> /\ MaxWindows \in Nat \ {0}
    BY <1>2, WindowsAssumption
  <2>2. /\ rest \in Seq(CompletedDwell) /\ Len(rest) = MaxWindows - 1
        /\ \A i \in 1 .. MaxWindows - 1 : rest[i] = windows[i + 1]
    BY <1>2, <2>1
  <2>3. Retained(window) = Append(rest, window)
    BY <1>2 DEF Retained
  <2> HIDE DEF rest
  <2> QED
    BY <1>2, <2>1, <2>2, <2>3
<1> QED
  BY <1>1, <1>2

\* The window of the path one leaves holds what the path did.
LEMMA CompletedHolds ==
  ASSUME SessionHolds
  PROVE  LET window == CompletedWindow(current)
             log == past[current.generation].log
         IN /\ window \in CompletedDwell
            /\ window.generation = current.generation
            /\ window.next = current.generation + 1
            /\ window.ended = instant
            /\ window.ended - window.observed = past[current.generation].since
            /\ window.wifi = past[current.generation].wifi
            /\ Sums(subject, window.dwell, log, window.observed)
<1> DEFINE window == CompletedWindow(current)
           log == past[current.generation].log
           since == current.since
<1>1. /\ current \in Path /\ current.generation \in Nat /\ since \in Nat
      /\ instant \in Nat /\ since <= instant /\ current.dwell \in Dwell
      /\ since = past[current.generation].since
      /\ current.wifi = past[current.generation].wifi /\ current.wifi \in BOOLEAN
  BY DEF SessionHolds, CurrentHolds, Path
<1>2. window.observed = instant - since /\ window.dwell = current.dwell
  BY DEF CompletedWindow
<1>3. instant - since \in Nat
  BY <1>1
<1>4. window \in CompletedDwell
  BY <1>1, <1>3 DEF CompletedWindow, CompletedDwell
<1>5. Sums(subject, current.dwell, log, instant - since)
  <2>1. CASE subject = "interface"
    <3>1. TrafficKept(current, log, instant)
      BY <2>1 DEF SessionHolds, CurrentHolds
    <3>2. /\ log \in Seq(CounterEntry)
          /\ InterfaceSums(current.dwell.interface, log, Reach(current, instant) - since)
          /\ Reach(current, instant) - since \in Nat
          /\ Reach(current, instant) - since <= instant - since
      BY <1>1, <3>1 DEF TrafficKept, Reach, Path
    <3>3. InterfaceSums(current.dwell.interface, log, instant - since)
      BY <1>3, <3>2, SumsLast
    <3> QED
      BY <1>1, <2>1, <3>3 DEF Sums
  <2>2. CASE subject # "interface"
    BY <2>2 DEF SessionHolds, CurrentHolds, Sums
  <2> QED
    BY <2>1, <2>2
<1>6. /\ window.generation = current.generation
      /\ window.next = current.generation + 1 /\ window.ended = instant
      /\ window.wifi = current.wifi
  BY DEF CompletedWindow
<1> HIDE DEF window
<1>7. window.ended - window.observed = since
  BY <1>1, <1>2, <1>6
<1> QED
  BY <1>1, <1>2, <1>4, <1>5, <1>6, <1>7 DEF window

LEMMA PathOpensHolds ==
  ASSUME SessionHolds, PathOpens
  PROVE  SessionHolds'
<1> DEFINE g == current.generation
           n == Len(windows)
           window == CompletedWindow(current)
<1>1. PICK wifi \in BOOLEAN :
        /\ current' = OpenedWindow(wifi)
        /\ past' = Append(past, [since |-> instant, wifi |-> wifi, log |-> <<>>])
  BY DEF PathOpens
<1>2. windows' = Retained(window) /\ UNCHANGED <<subject, counters, worker, instant>>
  BY DEF PathOpens
<1>3. /\ g \in Nat /\ g > 0 /\ instant \in Nat
      /\ past \in Seq(PathRecord) /\ Len(past) = g
      /\ windows \in Seq(CompletedDwell) /\ n = WindowsKept
      /\ n \in 0 .. MaxWindows
      /\ n < MaxWindows => n = g - 1
      /\ n <= g - 1 /\ MaxWindows \in Nat
  BY KeptWindows, WindowsAssumption DEF SessionHolds, Path
<1>4. /\ current' \in Path /\ current'.generation = g + 1 /\ current'.since = instant
      /\ current'.wifi = wifi /\ current'.reading = NONE /\ current'.dwell = NewDwell
  BY <1>1, <1>3, OpenedParts
<1>5. /\ past' \in Seq(PathRecord) /\ Len(past') = g + 1
      /\ \A i \in 1 .. g : past'[i] = past[i]
      /\ past'[g + 1].since = instant /\ past'[g + 1].wifi = wifi
      /\ past'[g + 1].log = <<>>
  <2> DEFINE added == [since |-> instant, wifi |-> wifi, log |-> <<>>]
  <2>1. /\ added \in PathRecord
        /\ added.since = instant /\ added.wifi = wifi /\ added.log = <<>>
    BY <1>3 DEF PathRecord
  <2> HIDE DEF added
  <2> QED
    BY <1>1, <1>3, <2>1 DEF added
<1>6. /\ window \in CompletedDwell /\ window.generation = g /\ window.next = g + 1
      /\ window.ended = instant /\ window.ended - window.observed = past[g].since
      /\ window.wifi = past[g].wifi
      /\ Sums(subject, window.dwell, past[g].log, window.observed)
  BY CompletedHolds
<1> HIDE DEF window
<1>7. /\ windows' \in Seq(CompletedDwell)
      /\ n # MaxWindows =>
           /\ Len(windows') = n + 1 /\ windows'[n + 1] = window
           /\ \A i \in 1 .. n : windows'[i] = windows[i]
      /\ n = MaxWindows =>
           /\ Len(windows') = MaxWindows /\ windows'[MaxWindows] = window
           /\ \A i \in 1 .. MaxWindows - 1 : windows'[i] = windows[i + 1]
  <2>1. Len(windows) <= MaxWindows
    BY <1>3
  <2> QED
    BY <1>2, <1>3, <1>6, <2>1, RetainedParts, Zenon
<1>8. WindowsKept' = IF n # MaxWindows THEN n + 1 ELSE MaxWindows
  BY <1>3, <1>4 DEF WindowsKept
<1>9. Len(windows') = WindowsKept'
  BY <1>7, <1>8
<1>10. \A i \in 1 .. n, generation \in Int : generation = g - 1 - n + i =>
         WindowHolds(subject, windows[i], generation, past[generation],
                     past[generation + 1].since)
  BY <1>3 DEF SessionHolds
<1>11. WindowHolds(subject, window, g, past'[g], past'[g + 1].since)
  <2>1. g \in 1 .. g
    BY <1>3
  <2>2. past'[g] = past[g]
    BY <1>5, <2>1
  <2> QED
    BY <1>5, <1>6, <2>2 DEF WindowHolds
<1>12. ASSUME NEW i \in 1 .. Len(windows'), NEW generation,
              generation = g + 1 - 1 - WindowsKept' + i
       PROVE  WindowHolds(subject, windows'[i], generation, past'[generation],
                          past'[generation + 1].since)
  <2>1. CASE i = Len(windows')
    <3>1. generation = g /\ windows'[i] = window
      BY <1>3, <1>7, <1>9, <1>12, <2>1
    <3> QED
      BY <1>11, <3>1
  <2>2. CASE i # Len(windows')
    <3>1. PICK j \in 1 .. n : windows'[i] = windows[j] /\ generation = g - 1 - n + j
      <4>1. CASE n # MaxWindows
        <5>1. i \in 1 .. n /\ generation = g - 1 - n + i
          BY <1>3, <1>7, <1>8, <1>12, <2>2, <4>1
        <5> QED
          BY <1>7, <4>1, <5>1
      <4>2. CASE n = MaxWindows
        <5>1. i \in 1 .. MaxWindows - 1 /\ i + 1 \in 1 .. n
          BY <1>3, <1>7, <2>2, <4>2
        <5>2. g + 1 - 1 - n + i = g - 1 - n + (i + 1)
          BY <1>3, <5>1
        <5> QED
          BY <1>7, <1>8, <1>12, <4>2, <5>1, <5>2
      <4> QED
        BY <4>1, <4>2
    <3>2. generation \in 1 .. g - 1 /\ generation + 1 \in 1 .. g
      BY <1>3, <3>1
    <3>3. past'[generation] = past[generation] /\ past'[generation + 1] = past[generation + 1]
      BY <1>5, <3>2, <1>3
    <3>4. WindowHolds(subject, windows[j], generation, past[generation],
                      past[generation + 1].since)
      BY <1>10, <3>1, <3>2
    <3> QED
      BY <3>1, <3>3, <3>4
  <2> QED
    BY <2>1, <2>2
<1>13. WorkerHolds'
  BY <1>2, <1>3, <1>4 DEF SessionHolds, WorkerHolds
<1>14. CurrentHolds'
  <2>1. Sums(subject, NewDwell, <<>>, 0)
    BY NewSums
  <2>2. TrafficKept(current', <<>>, instant)
    BY <1>3, <1>4, NewPathKept
  <2> QED
    BY <1>2, <1>3, <1>4, <1>5, <2>1, <2>2, NoPlaces DEF CurrentHolds
<1>15. \A i \in 1 .. Len(windows') :
         LET generation == current'.generation - 1 - WindowsKept' + i
         IN WindowHolds(subject, windows'[i], generation, past'[generation],
                        past'[generation + 1].since)
  <2> TAKE i \in 1 .. Len(windows')
  <2> DEFINE generation == current'.generation - 1 - WindowsKept' + i
  <2>1. generation = g + 1 - 1 - WindowsKept' + i
    BY <1>3, <1>4, <1>8
  <2> QED
    BY <1>12, <2>1
<1>16. subject' \in WindowCollectors /\ counters' \in Counters /\ instant' \in Nat
  BY <1>2 DEF SessionHolds
<1>17. current'.generation > 0 /\ Len(past') = current'.generation
  BY <1>3, <1>4, <1>5
<1>18. UNCHANGED subject
  BY <1>2
<1> QED
  BY <1>4, <1>5, <1>7, <1>9, <1>13, <1>14, <1>15, <1>16, <1>17, <1>18, Zenon DEF SessionHolds


\* The newest reading of a log.
LEMMA LastReadAppended ==
  ASSUME NEW log \in Seq(CounterEntry), NEW got \in Counters \cup {NONE}, instant \in Nat,
         Places(Append(log, [reading |-> got, at |-> instant]), "reading") # {}
  PROVE  LET longer == Append(log, [reading |-> got, at |-> instant])
         IN /\ got # NONE => LastRead(longer) = got
            /\ got = NONE => Places(log, "reading") # {} /\ LastRead(longer) = LastRead(log)
<1> DEFINE entry == [reading |-> got, at |-> instant]
           longer == Append(log, entry)
<1>1. entry \in CounterEntry /\ entry["reading"] = got /\ entry # NONE
  BY EntryTyped
<1> HIDE DEF entry
<1>2. LatestOf(longer, "reading") = IF got # NONE THEN got ELSE LatestOf(log, "reading")
  BY <1>1, LatestAppended DEF Has
<1>3. LastRead(longer) = LatestOf(longer, "reading")
  BY Zenon DEF LastRead, LatestOf, entry
<1>4. got = NONE => Places(longer, "reading") = Places(log, "reading")
  BY <1>1, PlacesAppended
<1>5. Places(log, "reading") # {} => LastRead(log) = LatestOf(log, "reading")
  BY Zenon DEF LastRead, LatestOf
<1> QED
  BY <1>2, <1>3, <1>4, <1>5 DEF longer, entry

LEMMA TimePassesHolds ==
  ASSUME SessionHolds, TimePasses
  PROVE  SessionHolds'
<1> DEFINE log == past[current.generation].log
<1>1. /\ subject = "interface" /\ instant' = instant + 1
      /\ UNCHANGED <<subject, counters, worker, current, windows, past>>
  BY DEF TimePasses
<1>2. instant \in Nat /\ instant' \in Nat /\ current \in Path
  BY <1>1 DEF SessionHolds
<1>3. TrafficKept(current, log, instant')
  <2>1. TrafficKept(current, log, instant) /\ current.since \in Nat /\ current.at \in Nat
    BY <1>1, <1>2 DEF SessionHolds, CurrentHolds, Path
  <2> DEFINE span == Reach(current, instant) - current.since
             longer == Reach(current, instant') - current.since
  <2>2. span \in Nat /\ longer \in Nat /\ span <= longer
    BY <1>1, <1>2, <2>1 DEF TrafficKept, Reach
  <2>3. InterfaceSums(current.dwell.interface, log, longer)
    BY <2>1, <2>2, SumsLast DEF TrafficKept
  <2>4. current.since <= instant' /\ (current.reading # NONE => current.at <= instant')
    BY <1>1, <1>2, <2>1 DEF TrafficKept
  <2> QED
    BY <2>1, <2>3, <2>4 DEF TrafficKept
<1>4. CurrentHolds'
  <2>1. current.since <= instant'
    BY <1>3 DEF TrafficKept
  <2> QED
    BY <1>1, <1>3, <2>1 DEF SessionHolds, CurrentHolds
<1>5. WorkerHolds' /\ WindowsKept' = WindowsKept
  BY <1>1 DEF SessionHolds, WorkerHolds, WindowsKept
<1> QED
  BY <1>1, <1>2, <1>4, <1>5 DEF SessionHolds

LEMMA ReadCountersHolds ==
  ASSUME SessionHolds, ReadCounters
  PROVE  SessionHolds'
<1> DEFINE log == past[current.generation].log
<1>1. /\ subject = "interface" /\ worker.generation = 0
      /\ UNCHANGED <<subject, instant, current, windows, past>>
  BY DEF ReadCounters
<1>2. /\ worker \in [generation : Nat, reading : Counters \cup {NONE}, number : Nat]
      /\ worker.reading = NONE /\ counters \in Counters
      /\ current.generation \in Nat /\ current.generation > 0
  BY <1>1 DEF SessionHolds, WorkerHolds, Path
<1>3. TrafficKept(current, log, instant)
  BY <1>1 DEF SessionHolds, CurrentHolds
<1>4. /\ counters' \in Counters /\ Onward(counters, counters')
      /\ worker' \in [generation : Nat, reading : Counters \cup {NONE}, number : Nat]
      /\ worker'.generation = current.generation
      /\ worker'.reading \in {NONE, counters'}
  <2>1. CASE \E load \in {None} \cup Loads, reset \in BOOLEAN :
               /\ counters' = Carried(load, reset)
               /\ worker' = [worker EXCEPT !.generation = current.generation,
                                           !.reading = counters']
    <3>1. PICK load \in {None} \cup Loads, reset \in BOOLEAN :
            /\ counters' = Carried(load, reset)
            /\ worker' = [worker EXCEPT !.generation = current.generation,
                                        !.reading = counters']
      BY <2>1
    <3>2. load \in Counts
      BY WindowsAssumption DEF None, Counts
    <3>3. counters' \in Counters /\ Onward(counters, counters')
      BY <1>2, <3>1, <3>2, CarriedOnward
    <3> QED
      BY <1>2, <3>1, <3>3
  <2>2. CASE /\ worker' = [worker EXCEPT !.generation = current.generation]
             /\ UNCHANGED counters
    <3>1. Onward(counters, counters')
      BY <1>2, <2>2, OnwardItself
    <3> QED
      BY <1>2, <2>2, <3>1
  <2> QED
    BY <2>1, <2>2 DEF ReadCounters
<1>5. worker'.reading # NONE => Onward(worker'.reading, counters')
  BY <1>4, OnwardItself
<1>6. WorkerHolds'
  BY <1>1, <1>2, <1>4, <1>5 DEF WorkerHolds
<1>7. CurrentHolds'
  <2>1. ASSUME Places(log, "reading") # {}
        PROVE  Onward(LastRead(log), counters')
    <3>1. Onward(LastRead(log), counters) /\ LastRead(log) \in Counters
      BY <1>1, <1>3, <2>1, ReadsTyped DEF SessionHolds, CurrentHolds, TrafficKept
    <3> QED
      BY <1>2, <1>4, <3>1, OnwardAgain
  <2>2. Places(log, "reading") # {} /\ worker'.reading # NONE =>
          Onward(LastRead(log), worker'.reading)
    BY <1>4, <2>1
  <2> QED
    BY <1>1, <2>1, <2>2 DEF SessionHolds, CurrentHolds
<1>8. WindowsKept' = WindowsKept
  BY <1>1 DEF WindowsKept
<1> QED
  BY <1>1, <1>4, <1>6, <1>7, <1>8 DEF SessionHolds

LEMMA ReceiveTrafficHolds ==
  ASSUME SessionHolds, ReceiveTraffic
  PROVE  SessionHolds'
<1> DEFINE log == past[current.generation].log
           got == worker.reading
           entry == [reading |-> got, at |-> instant]
           longer == Append(log, entry)
<1>1. /\ worker.generation # 0 /\ worker' = WorkerFree(worker.number + 1)
      /\ UNCHANGED <<subject, counters, instant, windows>>
  BY DEF ReceiveTraffic
<1>2. /\ subject = "interface" /\ got \in Counters \cup {NONE} /\ worker.number \in Nat
      /\ instant \in Nat /\ current \in Path /\ current.generation \in Nat
      /\ got # NONE => Onward(got, counters)
  BY <1>1 DEF SessionHolds, WorkerHolds, Path
<1>3. worker' \in [generation : Nat, reading : Counters \cup {NONE}, number : Nat]
      /\ worker'.generation = 0 /\ worker'.reading = NONE
  BY <1>1, <1>2 DEF WorkerFree
<1>4. CASE worker.generation # current.generation
  <2>1. UNCHANGED <<current, past>>
    BY <1>4 DEF ReceiveTraffic
  <2>2. WorkerHolds' /\ WindowsKept' = WindowsKept
    BY <1>2, <1>3, <2>1 DEF WorkerHolds, WindowsKept
  <2>3. CurrentHolds'
    BY <1>1, <1>2, <1>3, <2>1 DEF SessionHolds, CurrentHolds
  <2> QED
    BY <1>1, <2>1, <2>2, <2>3 DEF SessionHolds
<1>5. CASE worker.generation = current.generation
  <2> DEFINE reading == IF got = NONE THEN NONE ELSE got.bytes
  <2>1. /\ current' = TrafficObserved(current, reading)
        /\ past' = [past EXCEPT ![current.generation].log = Append(@, entry)]
    BY <1>5 DEF ReceiveTraffic, Logged
  <2>2. /\ TrafficKept(current, log, instant) /\ log \in Seq(CounterEntry)
        /\ current.since = past[current.generation].since /\ current.since <= instant
        /\ current.wifi = past[current.generation].wifi
        /\ Places(log, "reading") # {} => Onward(LastRead(log), counters)
        /\ Places(log, "reading") # {} /\ got # NONE => Onward(LastRead(log), got)
    BY <1>2, <1>5 DEF SessionHolds, CurrentHolds, TrafficKept
  <2>3. current' \in Path /\ TrafficKept(current', longer, instant)
    <3>1. CASE got = NONE
      BY <1>2, <2>1, <2>2, <3>1, FailureAdds
    <3>2. CASE got # NONE
      BY <1>2, <2>1, <2>2, <3>2, ReadingAdds
    <3> QED
      BY <3>1, <3>2
  <2>4. /\ current'.generation = current.generation /\ current'.since = current.since
        /\ current'.wifi = current.wifi
    BY <1>2, <2>1, TrafficLeaves
  <2>5. ASSUME Places(longer, "reading") # {}
        PROVE  Onward(LastRead(longer), counters)
    <3>1. CASE got = NONE
      BY <1>2, <2>2, <2>5, <3>1, LastReadAppended
    <3>2. CASE got # NONE
      BY <1>2, <2>2, <2>5, <3>2, LastReadAppended
    <3> QED
      BY <3>1, <3>2
  <2>6. entry \in AnyEntry
    BY <1>2, EntryTyped DEF AnyEntry
  <2> HIDE DEF entry
  <2>7. /\ past'[current.generation].log = longer
        /\ past'[current.generation].since = past[current.generation].since
        /\ past'[current.generation].wifi = past[current.generation].wifi
    BY <2>1, <2>6, LoggedPast
  <2>8. WorkerHolds'
    BY <1>2, <1>3, <2>4 DEF WorkerHolds
  <2>9. CurrentHolds'
    BY <1>1, <1>2, <1>3, <2>2, <2>3, <2>4, <2>5, <2>7 DEF CurrentHolds
  <2> QED
    BY <1>1, <2>1, <2>3, <2>4, <2>6, <2>8, <2>9, LoggedHolds
<1> QED
  BY <1>4, <1>5

\* An update of a collector other than the interface's.
LEMMA ObservedHolds ==
  ASSUME SessionHolds, subject # "interface", NEW entry \in AnyEntry,
         past' = [past EXCEPT ![current.generation].log = Append(@, entry)],
         UNCHANGED <<subject, counters, worker, instant, windows>>,
         current' \in Path, SamePath(current', current),
         LET longer == Append(past[current.generation].log, entry)
         IN /\ subject = "wifi" => RadioSums(current'.dwell.radio, longer)
            /\ subject = "workload" => WorkloadSums(current'.dwell.workload, longer)
            /\ subject = "peers" => NeighborSums(current'.dwell.neighbors, longer)
  PROVE  SessionHolds'
<1> DEFINE longer == Append(past[current.generation].log, entry)
<1>1. /\ past'[current.generation].log = longer
      /\ past'[current.generation].since = past[current.generation].since
      /\ past'[current.generation].wifi = past[current.generation].wifi
  BY LoggedPast
<1>2. /\ current'.generation = current.generation /\ current'.since = current.since
      /\ current'.wifi = current.wifi
      /\ current'.dwell.interface = current.dwell.interface
  BY DEF SamePath
<1>3. current.dwell.interface = NewDwell.interface
  BY DEF SessionHolds, CurrentHolds, Sums
<1>4. current'.dwell \in Dwell
  BY DEF Path
<1>5. Sums(subject, current'.dwell, longer, 0)
  BY <1>2, <1>3, <1>4 DEF Sums
<1>6. WorkerHolds'
  BY <1>2 DEF SessionHolds, WorkerHolds
<1> HIDE DEF longer
<1>7. CurrentHolds'
  BY <1>1, <1>2, <1>5 DEF SessionHolds, CurrentHolds
<1> QED
  BY <1>2, <1>6, <1>7, LoggedHolds

LEMMA ReceiveRadioHolds ==
  ASSUME SessionHolds, ReceiveRadio
  PROVE  SessionHolds'
<1>1. PICK telemetry \in {NONE} \cup (IF current.wifi THEN Telemetry ELSE {}) :
        /\ current' = RadioObserved(current, telemetry)
        /\ past' = [past EXCEPT ![current.generation].log = Append(@, telemetry)]
  BY DEF ReceiveRadio, Logged
<1>2. subject = "wifi" /\ UNCHANGED <<subject, counters, worker, instant, windows>>
  BY DEF ReceiveRadio
<1>3. telemetry \in Radio \cup {NONE} /\ telemetry \in AnyEntry
  BY WindowsAssumption DEF AnyEntry
<1>4. current \in Path /\ RadioSums(current.dwell.radio, past[current.generation].log)
  BY <1>2 DEF SessionHolds, CurrentHolds, Sums
<1>5. /\ current' \in Path /\ SamePath(current', current)
      /\ RadioSums(current'.dwell.radio, Append(past[current.generation].log, telemetry))
  BY <1>1, <1>3, <1>4, RadioStep
<1> QED
  BY <1>1, <1>2, <1>3, <1>5, ObservedHolds

LEMMA ReceiveWorkloadHolds ==
  ASSUME SessionHolds, ReceiveWorkload
  PROVE  SessionHolds'
<1>1. PICK health \in {"ok", "unavailable"}, top \in {NONE} \cup Tops :
        /\ health = "unavailable" => top = NONE
        /\ current' = WorkloadObserved(current, health, top)
        /\ past' = [past EXCEPT ![current.generation].log =
                      Append(@, [health |-> health, top |-> top])]
  BY DEF ReceiveWorkload, Logged
<1> DEFINE entry == [health |-> health, top |-> top]
<1>2. subject = "workload" /\ UNCHANGED <<subject, counters, worker, instant, windows>>
  BY DEF ReceiveWorkload
<1>3. top \in Nat \cup {NONE}
  BY WindowsAssumption
<1>4. entry \in AnyEntry
  BY <1>3 DEF AnyEntry, WorkloadEntry
<1>5. current \in Path /\ WorkloadSums(current.dwell.workload, past[current.generation].log)
  BY <1>2 DEF SessionHolds, CurrentHolds, Sums
<1>6. /\ current' \in Path /\ SamePath(current', current)
      /\ WorkloadSums(current'.dwell.workload, Append(past[current.generation].log, entry))
  BY <1>1, <1>3, <1>5, WorkloadStep
<1> HIDE DEF entry
<1>7. past' = [past EXCEPT ![current.generation].log = Append(@, entry)]
  BY <1>1 DEF entry
<1> QED
  BY <1>2, <1>4, <1>6, <1>7, ObservedHolds

LEMMA ReceiveNeighborsHolds ==
  ASSUME SessionHolds, ReceiveNeighbors
  PROVE  SessionHolds'
<1>1. PICK completed \in SUBSET CacheSources, health \in {"ok", "degraded", "unavailable"} :
        /\ health = "ok" => completed # {}
        /\ current' = NeighborsObserved(current, health, completed)
        /\ past' = [past EXCEPT ![current.generation].log =
                      Append(@, [health |-> health, completed |-> completed])]
  <2>1. PICK completed \in SUBSET CacheSources, conflict \in BOOLEAN :
          LET health == IF completed = {} THEN "unavailable"
                        ELSE IF completed # CacheSources \/ conflict THEN "degraded"
                        ELSE "ok"
          IN /\ current' = NeighborsObserved(current, health, completed)
             /\ past' = [past EXCEPT ![current.generation].log =
                           Append(@, [health |-> health, completed |-> completed])]
    BY DEF ReceiveNeighbors, Logged
  <2> DEFINE health == IF completed = {} THEN "unavailable"
                       ELSE IF completed # CacheSources \/ conflict THEN "degraded"
                       ELSE "ok"
  <2>2. health \in {"ok", "degraded", "unavailable"} /\ (health = "ok" => completed # {})
    OBVIOUS
  <2> QED
    BY <2>1, <2>2
<1> DEFINE entry == [health |-> health, completed |-> completed]
<1>2. subject = "peers" /\ UNCHANGED <<subject, counters, worker, instant, windows>>
  BY DEF ReceiveNeighbors
<1>3. entry \in AnyEntry
  BY DEF AnyEntry, NeighborEntry
<1>4. current \in Path /\ NeighborSums(current.dwell.neighbors, past[current.generation].log)
  BY <1>2 DEF SessionHolds, CurrentHolds, Sums
<1>5. /\ current' \in Path /\ SamePath(current', current)
      /\ NeighborSums(current'.dwell.neighbors, Append(past[current.generation].log, entry))
  BY <1>1, <1>4, NeighborsStep
<1> HIDE DEF entry
<1>6. past' = [past EXCEPT ![current.generation].log = Append(@, entry)]
  BY <1>1 DEF entry
<1> QED
  BY <1>2, <1>3, <1>5, <1>6, ObservedHolds

LEMMA WindowsInductive ==
  ASSUME WindowsInvariant, [WindowsNext]_windowVars
  PROVE  WindowsInvariant'
<1>1. CASE UNCHANGED windowVars
  BY <1>1 DEF WindowsInvariant, SessionHolds, WorkerHolds, CurrentHolds, WindowsKept, windowVars
<1>2. CASE WindowsNext /\ SessionHolds
  <2>1. TimePasses => SessionHolds'
    BY <1>2, TimePassesHolds
  <2>2. PathOpens => SessionHolds'
    BY <1>2, PathOpensHolds
  <2>3. ReadCounters => SessionHolds'
    BY <1>2, ReadCountersHolds
  <2>4. ReceiveTraffic => SessionHolds'
    BY <1>2, ReceiveTrafficHolds
  <2>5. ReceiveRadio => SessionHolds'
    BY <1>2, ReceiveRadioHolds
  <2>6. ReceiveWorkload => SessionHolds'
    BY <1>2, ReceiveWorkloadHolds
  <2>7. ReceiveNeighbors => SessionHolds'
    BY <1>2, ReceiveNeighborsHolds
  <2> QED
    BY <1>2, <2>1, <2>2, <2>3, <2>4, <2>5, <2>6, <2>7 DEF WindowsNext, WindowsInvariant
<1>3. CASE WindowsNext /\ subject = "none" /\ worker.generation = 0
  BY <1>3 DEF WindowsNext, TimePasses, PathOpens, ReadCounters, ReceiveTraffic,
              ReceiveRadio, ReceiveWorkload, ReceiveNeighbors
<1> QED
  BY <1>1, <1>2, <1>3 DEF WindowsInvariant

-----------------------------------------------------------------------------
(***************************************************************************)
(* What a window claims, from the invariant.                               *)
(***************************************************************************)
\* The sums of the counters, as the property asks for them.
LEMMA SumsCounted ==
  ASSUME NEW dwell, NEW log, NEW span, InterfaceSums(dwell, log, span)
  PROVE  LET read == Places(log, "reading")
             first == log[Oldest(read)].reading
             last == log[Newest(read)].reading
         IN /\ dwell.intervals = 0 => dwell.delta = None
            /\ dwell.intervals > 0 => read # {} /\ \A d \in Directions :
                 /\ dwell.delta[d] <= last.carried[d] - first.carried[d]
                 /\ dwell.intervals = dwell.samples - 1 /\ last.resets = first.resets
                      => dwell.delta[d] = last.carried[d] - first.carried[d]
<1>1. dwell \in InterfaceDwell
  BY DEF InterfaceSums
<1>2. dwell.samples \in Nat /\ dwell.intervals \in Nat
  BY <1>1 DEF InterfaceDwell
<1>3. dwell.intervals = 0 => dwell.delta = None
  BY DEF InterfaceSums
<1>4. dwell.intervals > 0 => dwell.samples > 0 /\ Places(log, "reading") # {}
  BY <1>2 DEF InterfaceSums
<1>5. dwell.samples > 0 => \A d \in Directions :
        /\ dwell.delta[d] <= LastRead(log).carried[d] - FirstRead(log).carried[d]
        /\ dwell.intervals = dwell.samples - 1 /\ LastRead(log).resets = FirstRead(log).resets
             => dwell.delta[d] = LastRead(log).carried[d] - FirstRead(log).carried[d]
  BY DEF InterfaceSums
<1> QED
  BY <1>3, <1>4, <1>5, Zenon DEF LastRead, FirstRead

\* The shape of the traffic of a window: there is one if it had an interval.
LEMMA ShapeSays ==
  ASSUME NEW window, NEW log, window.observed \in Nat,
         InterfaceSums(window.dwell.interface, log, window.observed)
  PROVE  LET dwell == window.dwell.interface
             shape == Shape(window)
         IN /\ shape = NONE <=> dwell.intervals = 0
            /\ shape # NONE => /\ shape.mean # NONE
                               /\ \A d \in Directions : ~Faster(shape.mean[d], shape.peak[d])
<1> DEFINE dwell == window.dwell.interface
           mean == Rate(dwell.delta, window.observed)
<1>1. dwell \in InterfaceDwell
  BY DEF InterfaceSums
<1>2. CASE dwell.intervals = 0
  BY <1>2 DEF Shape
<1>3. CASE dwell.intervals # 0
  <2>1. dwell.intervals > 0 /\ dwell.delta \in Counts
    BY <1>1, <1>3 DEF InterfaceDwell
  <2>2. /\ window.observed > 0 /\ dwell.peak \in Rates
        /\ \A d \in Directions :
             dwell.delta[d] * dwell.peak[d].elapsed <= dwell.peak[d].bytes * window.observed
    BY <2>1 DEF InterfaceSums
  <2>3. mean = [d \in Directions |-> [bytes |-> dwell.delta[d], elapsed |-> window.observed]]
    BY DEF Rate
  <2>4. mean \in Rates
    <3>1. \A d \in Directions : [bytes |-> dwell.delta[d], elapsed |-> window.observed]
                                 \in [bytes : Nat, elapsed : Nat]
      BY <2>1 DEF Counts
    <3> HIDE DEF dwell, mean
    <3> QED
      BY <2>3, <3>1 DEF Rates
  <2>5. \A d \in Directions :
          mean[d].bytes = dwell.delta[d] /\ mean[d].elapsed = window.observed
    <3> HIDE DEF dwell, mean
    <3> QED
      BY <2>3
  <2>6. Direction(dwell.delta) \in {"none", "receive", "transmit", "both"}
    BY DEF Direction
  <2> DEFINE shape == [direction |-> Direction(dwell.delta), peak |-> dwell.peak, mean |-> mean]
  <2>7. Shape(window) = shape
    BY <1>3, <2>2 DEF Shape
  <2>8. shape # NONE /\ shape.mean = mean /\ shape.peak = dwell.peak
    <3> HIDE DEF dwell, mean
    <3>1. shape \in [direction : {"none", "receive", "transmit", "both"},
                     peak : Rates, mean : Rates \cup {NONE}]
      BY <2>2, <2>4, <2>6
    <3> QED
      BY <3>1, NoneIsNoEvidence, Zenon
  <2>9. mean # NONE
    BY <2>4, NoneIsNoEvidence
  <2>10. ASSUME NEW d \in Directions
         PROVE  ~Faster(mean[d], dwell.peak[d])
    <3>1. /\ dwell.delta[d] \in Nat /\ dwell.peak[d].elapsed \in Nat
          /\ dwell.peak[d].bytes \in Nat
      BY <2>1, <2>2 DEF Counts, Rates
    <3> DEFINE a == dwell.delta[d] * dwell.peak[d].elapsed
               b == dwell.peak[d].bytes * window.observed
    <3>2. a <= b /\ a \in Nat /\ b \in Nat
      BY <2>2, <3>1
    <3>3. Faster(mean[d], dwell.peak[d]) <=> a > b
      <4> HIDE DEF dwell, mean
      <4> QED
        BY <2>5 DEF Faster
    <3> HIDE DEF a, b
    <3> QED
      BY <3>2, <3>3
  <2> HIDE DEF mean, shape
  <2> QED
    BY <1>3, <2>7, <2>8, <2>9, <2>10
<1> QED
  BY <1>2, <1>3

\* The facts of the paths a property asks for.
LEMMA PathFacts ==
  ASSUME SessionHolds
  PROVE  /\ current.generation \in Nat /\ current.generation > 0 /\ current.dwell \in Dwell
         /\ subject \in WindowCollectors
         /\ subject = "wifi" =>
              RadioRemembered(past[current.generation].log, current.dwell.radio)
         /\ subject = "workload" =>
              WorkloadRemembered(past[current.generation].log, current.dwell.workload)
         /\ subject = "interface" => \E span \in Nat :
              InterfaceSums(current.dwell.interface, past[current.generation].log, span)
<1> DEFINE log == past[current.generation].log
<1>1. /\ current \in Path /\ current.generation > 0 /\ subject \in WindowCollectors
  BY DEF SessionHolds
<1>2. current.generation \in Nat /\ current.dwell \in Dwell
      /\ current.since \in Nat /\ current.at \in Nat /\ instant \in Nat
  BY <1>1 DEF Path, SessionHolds
<1>3. ASSUME subject = "interface"
      PROVE  \E span \in Nat : InterfaceSums(current.dwell.interface, log, span)
  <2>1. TrafficKept(current, log, instant)
    BY <1>3 DEF SessionHolds, CurrentHolds
  <2>2. Reach(current, instant) - current.since \in Nat
    BY <1>2, <2>1 DEF TrafficKept, Reach
  <2> QED
    BY <2>1, <2>2 DEF TrafficKept
<1>4. subject # "interface" => Sums(subject, current.dwell, log, 0)
  BY DEF SessionHolds, CurrentHolds
<1> QED
  BY <1>1, <1>2, <1>3, <1>4 DEF Sums, RadioSums, WorkloadSums

LEMMA WindowFacts ==
  ASSUME SessionHolds, NEW i \in 1 .. Len(windows), NEW generation,
         generation = current.generation - 1 - WindowsKept + i
  PROVE  /\ generation \in 1 .. current.generation - 1
         /\ windows[i].generation = generation /\ windows[i].next = generation + 1
         /\ windows[i].ended - windows[i].observed = past[generation].since
         /\ windows[i].ended = past[generation + 1].since
         /\ windows[i].wifi = past[generation].wifi /\ windows[i].wifi \in BOOLEAN
         /\ windows[i].observed \in Nat /\ windows[i].dwell \in Dwell
         /\ past[generation].log \in Seq(AnyEntry)
         /\ Sums(subject, windows[i].dwell, past[generation].log, windows[i].observed)
<1>1. windows[i] \in CompletedDwell
  BY DEF SessionHolds
<1>2. WindowHolds(subject, windows[i], generation, past[generation], past[generation + 1].since)
  BY DEF SessionHolds
<1>3. generation \in 1 .. current.generation - 1
  BY KeptWindows DEF SessionHolds, Path
<1>4. past[generation] \in PathRecord
  <2>1. current.generation \in Nat /\ Len(past) = current.generation /\ past \in Seq(PathRecord)
    BY DEF SessionHolds, Path
  <2> QED
    BY <1>3, <2>1
<1> QED
  BY <1>1, <1>2, <1>3, <1>4 DEF WindowHolds, CompletedDwell, PathRecord

LEMMA CountedHolds ==
  ASSUME SessionHolds
  PROVE  WindowsCounted
<1> SUFFICES ASSUME subject = "interface"
             PROVE  WindowsCounted
  BY DEF WindowsCounted
<1> DEFINE Counted(generation, dwell) ==
             LET log == Log(generation)
                 read == Places(log, "reading")
                 first == log[Oldest(read)].reading
                 last == log[Newest(read)].reading
             IN /\ dwell.intervals = 0 => dwell.delta = None
                /\ dwell.intervals > 0 => read # {} /\ \A d \in Directions :
                     /\ dwell.delta[d] <= last.carried[d] - first.carried[d]
                     /\ dwell.intervals = dwell.samples - 1 /\ last.resets = first.resets
                          => dwell.delta[d] = last.carried[d] - first.carried[d]
<1>1. Counted(current.generation, current.dwell.interface)
  <2> DEFINE log == past[current.generation].log
  <2>1. PICK span \in Nat : InterfaceSums(current.dwell.interface, log, span)
    BY PathFacts
  <2> HIDE DEF log
  <2> QED
    BY <2>1, SumsCounted, Zenon DEF Log, log
<1>2. ASSUME NEW i \in DOMAIN windows
      PROVE  /\ Counted(windows[i].generation, windows[i].dwell.interface)
             /\ LET shape == Shape(windows[i])
                IN shape # NONE =>
                     /\ shape.mean # NONE
                     /\ \A d \in Directions : ~Faster(shape.mean[d], shape.peak[d])
  <2> DEFINE generation == current.generation - 1 - WindowsKept + i
             log == past[generation].log
  <2>1. i \in 1 .. Len(windows)
    BY DEF SessionHolds
  <2>2. /\ windows[i].generation = generation /\ windows[i].observed \in Nat
        /\ Sums(subject, windows[i].dwell, log, windows[i].observed)
    BY <2>1, WindowFacts
  <2>3. InterfaceSums(windows[i].dwell.interface, log, windows[i].observed)
    BY <2>2 DEF Sums
  <2> HIDE DEF log, generation
  <2>4. Counted(windows[i].generation, windows[i].dwell.interface)
    BY <2>2, <2>3, SumsCounted, Zenon DEF Log, log
  <2>5. LET shape == Shape(windows[i])
        IN shape # NONE =>
             /\ shape.mean # NONE
             /\ \A d \in Directions : ~Faster(shape.mean[d], shape.peak[d])
    BY <2>2, <2>3, ShapeSays, Zenon
  <2> QED
    BY <2>4, <2>5, Zenon
<1> QED
  BY <1>1, <1>2, Zenon DEF WindowsCounted

\* The plain lines of every path there is, in order.
LEMMA SummaryHolds ==
  ASSUME SessionHolds, NEW mode \in Modes
  PROVE  LET summary == DwellSummary(mode)
         IN /\ Len(summary) = WindowsKept + 1
            /\ \A i \in DOMAIN summary :
                 /\ summary[i].generation = current.generation - 1 - WindowsKept + i
                 /\ summary[i][subject] = NONE <=> subject \notin Scope(mode)
<1> DEFINE Line(i) == GenerationLines(windows[i].generation, windows[i].dwell, mode)
           end == GenerationLines(current.generation, current.dwell, mode)
           n == Len(windows)
           lines == [i \in DOMAIN windows |-> Line(i)]
           all == {Line(i) : i \in 1 .. n} \cup {end}
           summary == DwellSummary(mode)
<1>1. /\ n = WindowsKept /\ n \in Nat /\ DOMAIN windows = 1 .. n
      /\ current.generation \in Nat /\ subject \in WindowCollectors
  BY PathFacts, KeptWindows DEF SessionHolds
<1>2. ASSUME NEW generation, NEW dwell \in Dwell
      PROVE  LET line == GenerationLines(generation, dwell, mode)
             IN /\ line.generation = generation
                /\ line[subject] = NONE <=> subject \notin Scope(mode)
  <2>1. /\ dwell.interface # NONE /\ dwell.radio # NONE /\ dwell.neighbors.snapshots # NONE
        /\ [sampled |-> dwell.workload.sampled > 0, latest |-> dwell.workload.latest,
            peak |-> dwell.workload.peak] # NONE
    <3>1. dwell.interface \in InterfaceDwell /\ dwell.radio \in RadioDwell
      BY DEF Dwell
    <3>2. dwell.neighbors.snapshots \in Nat
      BY DEF Dwell, NeighborDwell
    <3>3. [sampled |-> dwell.workload.sampled > 0, latest |-> dwell.workload.latest,
           peak |-> dwell.workload.peak]
            \in [sampled : BOOLEAN, latest : Nat \cup {NONE}, peak : Nat \cup {NONE}]
      BY DEF Dwell, WorkloadDwell
    <3> QED
      BY <3>1, <3>2, <3>3, NoneIsNoEvidence, NoneIsNoNumber, Zenon
  <2>2. CASE subject = "interface"
    BY <2>1, <2>2 DEF GenerationLines
  <2>3. CASE subject = "wifi"
    BY <2>1, <2>3 DEF GenerationLines
  <2>4. CASE subject = "workload"
    BY <2>1, <2>4 DEF GenerationLines
  <2>5. CASE subject = "peers"
    BY <2>1, <2>5 DEF GenerationLines
  <2>6. GenerationLines(generation, dwell, mode).generation = generation
    BY DEF GenerationLines
  <2> QED
    BY <1>1, <2>2, <2>3, <2>4, <2>5, <2>6 DEF WindowCollectors
<1>3. summary = Append(lines, end)
  BY DEF DwellSummary
<1> HIDE DEF Line, end, summary
<1>4. lines \in Seq(all) /\ Len(lines) = n /\ end \in all
  BY <1>1
<1> HIDE DEF lines, all
<1>5. /\ Len(summary) = n + 1 /\ DOMAIN summary = 1 .. n + 1
      /\ \A i \in 1 .. n : summary[i] = lines[i]
      /\ summary[n + 1] = end
  BY <1>3, <1>4, AppendedLog
<1>6. ASSUME NEW i \in DOMAIN summary
      PROVE  /\ summary[i].generation = current.generation - 1 - WindowsKept + i
             /\ summary[i][subject] = NONE <=> subject \notin Scope(mode)
  <2>1. CASE i = n + 1
    <3>1. current.generation - 1 - WindowsKept + i = current.generation
      BY <1>1, <2>1
    <3> QED
      BY <1>2, <1>5, <2>1, <3>1, PathFacts DEF end
  <2>2. CASE i # n + 1
    <3>1. i \in 1 .. n /\ i \in DOMAIN windows
      BY <1>1, <1>5, <2>2
    <3>2. summary[i] = Line(i)
      BY <1>5, <3>1 DEF lines
    <3>3. /\ windows[i].generation = current.generation - 1 - WindowsKept + i
          /\ windows[i].dwell \in Dwell
      BY <3>1, WindowFacts
    <3> QED
      BY <1>2, <3>2, <3>3 DEF Line
  <2> QED
    BY <2>1, <2>2
<1> QED
  BY <1>1, <1>5, <1>6 DEF summary

\* What is reported of the window before this path is of its last window.
LEMMA ReportParts ==
  ASSUME NEW mode, windows # <<>>
  PROVE  LET window == windows[Len(windows)]
             report == LatestWindow(mode)
         IN /\ report.generation = window.generation
            /\ report.support = Support(window, mode)
            /\ report.limits = Limitations(window, mode)
            /\ report.shape = IF "interface" \in Scope(mode) THEN Shape(window) ELSE NONE
BY DEF LatestWindow

\* What is claimed of each collector.
LEMMA InterfaceClaims ==
  ASSUME NEW window, NEW mode, "interface" \in Scope(mode)
  PROVE  LET dwell == window.dwell.interface
             support == Support(window, mode)["interface"]
             limits == Limitations(window, mode)["interface"]
         IN /\ support = IF dwell.samples = 0 THEN "unavailable"
                         ELSE IF dwell.intervals = 0 THEN "partial" ELSE "available"
            /\ "no_observation" \in limits <=> dwell.samples = 0
            /\ "no_interval" \in limits <=> dwell.intervals = 0
BY DEF Support, Limitations

LEMMA RadioClaims ==
  ASSUME NEW window, NEW mode, "wifi" \in Scope(mode)
  PROVE  LET radio == window.dwell.radio
             support == Support(window, mode)["wifi"]
             limits == Limitations(window, mode)["wifi"]
         IN /\ support = IF ~window.wifi THEN "unsupported"
                         ELSE IF radio.samples > 0 THEN "available" ELSE "unavailable"
            /\ limits = IF window.wifi /\ radio.samples = 0
                        THEN {IF radio.settled THEN "no_telemetry" ELSE "no_observation"}
                        ELSE {}
BY DEF Support, Limitations

LEMMA WorkloadClaims ==
  ASSUME NEW window, NEW mode, "workload" \in Scope(mode)
  PROVE  LET workload == window.dwell.workload
             support == Support(window, mode)["workload"]
             limits == Limitations(window, mode)["workload"]
         IN /\ support = IF workload.sampled = 0 THEN "unavailable"
                         ELSE IF workload.health = "ok" THEN "available" ELSE "partial"
            /\ limits = {} <=> workload.sampled # 0
BY DEF Support, Limitations

LEMMA PeersClaims ==
  ASSUME NEW window, NEW mode, "peers" \in Scope(mode)
  PROVE  LET neighbors == window.dwell.neighbors
             support == Support(window, mode)["peers"]
             limits == Limitations(window, mode)["peers"]
         IN /\ support = IF neighbors.snapshots = 0 \/ neighbors.sources = {} THEN "unavailable"
                         ELSE IF neighbors.failed # {} \/ neighbors.health # "ok"
                         THEN "partial" ELSE "available"
            /\ "no_observation" \in limits <=> neighbors.snapshots = 0
            /\ limits = {} <=> neighbors.snapshots # 0 /\ neighbors.failed = {}
BY DEF Support, Limitations

LEMMA NothingClaimed ==
  ASSUME NEW window, NEW mode, NEW collector \in WindowCollectors, collector \notin Scope(mode)
  PROVE  Support(window, mode)[collector] = "not_collected"
BY DEF Support, WindowCollectors

\* What the property claims, from the log of the path that was left.
Claimed(mode, log) ==
  LET report == LatestWindow(mode)
      support == report.support[subject]
      limits == report.limits[subject]
      received == {log[i] : i \in DOMAIN log}
  IN /\ subject \notin Scope(mode) => support = "not_collected" /\ report.shape = NONE
     /\ subject \in Scope(mode) =>
          /\ subject = "interface" =>
               /\ support = "available" => \E i \in 2 .. Len(log) :
                    /\ NONE \notin {log[i].reading, log[i - 1].reading}
                    /\ log[i].at > log[i - 1].at
               /\ "no_observation" \in limits <=> Places(log, "reading") = {}
               /\ "no_interval" \in limits <=> report.shape = NONE
          /\ subject = "wifi" =>
               /\ support = IF ~past[report.generation].wifi THEN "unsupported"
                            ELSE IF received \subseteq {NONE} THEN "unavailable"
                            ELSE "available"
               /\ limits = IF support # "unavailable" THEN {}
                           ELSE IF log = <<>> THEN {"no_observation"}
                           ELSE {"no_telemetry"}
          /\ subject = "workload" =>
               /\ support = "available" <=> log # <<>> /\ log[Len(log)].health = "ok"
               /\ limits = {} <=> \E entry \in received : entry.health = "ok"
          /\ subject = "peers" =>
               /\ support = "available" <=>
                    /\ log # <<>>
                    /\ \A i \in DOMAIN log : log[i].completed = CacheSources
                    /\ log[Len(log)].health = "ok"
               /\ "no_observation" \in limits <=> log = <<>>
               /\ support = "available" => limits = {}

LEMMA ClaimsHold ==
  ASSUME SessionHolds, WindowsKept > 0, NEW mode \in Modes
  PROVE  Claimed(mode, past[current.generation - 1].log)
<1> DEFINE n == Len(windows)
           window == windows[n]
           g == current.generation - 1
           log == past[g].log
           report == LatestWindow(mode)
           support == report.support[subject]
           limits == report.limits[subject]
           received == {log[i] : i \in DOMAIN log}
<1>1. n = WindowsKept /\ n \in Nat /\ n \in 1 .. n /\ windows # <<>>
      /\ current.generation \in Nat /\ subject \in WindowCollectors
  BY KeptWindows, PathFacts DEF SessionHolds
<1>2. g = current.generation - 1 - WindowsKept + n
  BY <1>1
<1>3. /\ window.generation = g /\ window.wifi = past[g].wifi /\ window.wifi \in BOOLEAN
      /\ window.observed \in Nat /\ window.dwell \in Dwell
      /\ log \in Seq(AnyEntry)
      /\ Sums(subject, window.dwell, log, window.observed)
  BY <1>1, <1>2, WindowFacts
<1>4. /\ report.generation = g
      /\ report.support = Support(window, mode)
      /\ report.limits = Limitations(window, mode)
      /\ report.shape = IF "interface" \in Scope(mode) THEN Shape(window) ELSE NONE
  BY <1>1, <1>3, ReportParts
<1> HIDE DEF window, g, n, report
<1>5. DOMAIN log = 1 .. Len(log) /\ Len(log) \in Nat /\ (log # <<>> <=> Len(log) # 0)
  BY <1>3
<1>6. ASSUME subject \notin Scope(mode)
      PROVE  support = "not_collected" /\ report.shape = NONE
  <2>1. support = "not_collected"
    BY <1>1, <1>4, <1>6, NothingClaimed
  <2>2. CASE subject = "interface"
    BY <1>4, <1>6, <2>1, <2>2
  <2>3. CASE subject # "interface"
    <3>1. window.dwell.interface.intervals = 0
      BY <1>3, <2>3 DEF Sums, NewDwell
    <3> QED
      BY <1>4, <2>1, <3>1 DEF Shape
  <2> QED
    BY <2>2, <2>3
<1>7. ASSUME subject \in Scope(mode), subject = "interface"
      PROVE  /\ support = "available" => \E i \in 2 .. Len(log) :
                  /\ NONE \notin {log[i].reading, log[i - 1].reading}
                  /\ log[i].at > log[i - 1].at
             /\ "no_observation" \in limits <=> Places(log, "reading") = {}
             /\ "no_interval" \in limits <=> report.shape = NONE
  <2> DEFINE dwell == window.dwell.interface
  <2>1. /\ InterfaceSums(dwell, log, window.observed)
        /\ dwell.intervals \in Nat
    BY <1>3, <1>7 DEF Sums, InterfaceSums, InterfaceDwell
  <2>2. /\ support = IF dwell.samples = 0 THEN "unavailable"
                     ELSE IF dwell.intervals = 0 THEN "partial" ELSE "available"
        /\ "no_observation" \in limits <=> dwell.samples = 0
        /\ "no_interval" \in limits <=> dwell.intervals = 0
    BY <1>4, <1>7, InterfaceClaims
  <2>3. report.shape = NONE <=> dwell.intervals = 0
    BY <1>3, <1>4, <1>7, <2>1, ShapeSays
  <2>4. support = "available" => \E i \in 2 .. Len(log) : Consecutive(log, i)
    BY <2>1, <2>2 DEF InterfaceSums
  <2>5. dwell.samples = 0 <=> Places(log, "reading") = {}
    BY <2>1 DEF InterfaceSums
  <2> HIDE DEF support, limits, dwell, log
  <2> QED
    BY <2>2, <2>3, <2>4, <2>5, Zenon DEF Consecutive
<1>8. ASSUME subject \in Scope(mode), subject = "wifi"
      PROVE  /\ support = IF ~past[report.generation].wifi THEN "unsupported"
                          ELSE IF received \subseteq {NONE} THEN "unavailable"
                          ELSE "available"
             /\ limits = IF support # "unavailable" THEN {}
                         ELSE IF log = <<>> THEN {"no_observation"}
                         ELSE {"no_telemetry"}
  <2> DEFINE radio == window.dwell.radio
             told == {i \in DOMAIN log : log[i] # NONE}
  <2>1. radio.settled = (log # <<>>) /\ radio.samples = Cardinality(told)
    BY <1>3, <1>8, RadioIsSaid DEF Sums, RadioSums, RadioSaid
  <2>2. told \in SUBSET (1 .. Len(log))
    BY <1>5
  <2>3. Cardinality(told) \in Nat /\ (Cardinality(told) = 0 <=> told = {})
    BY <1>5, <2>2, CountAppended
  <2>4. told = {} <=> received \subseteq {NONE}
    OBVIOUS
  <2> HIDE DEF received, log, told
  <2>5. /\ support = IF ~window.wifi THEN "unsupported"
                     ELSE IF radio.samples > 0 THEN "available" ELSE "unavailable"
        /\ limits = IF window.wifi /\ radio.samples = 0
                    THEN {IF radio.settled THEN "no_telemetry" ELSE "no_observation"}
                    ELSE {}
    <3>1. support = Support(window, mode)["wifi"] /\ limits = Limitations(window, mode)["wifi"]
      BY <1>4, <1>8
    <3> HIDE DEF support, limits
    <3> QED
      BY <1>8, <3>1, RadioClaims, Zenon
  <2> HIDE DEF radio
  <2>6. radio.samples > 0 <=> ~(received \subseteq {NONE})
    BY <2>3, <2>4, <2>1
  <2>7. radio.samples = 0 <=> received \subseteq {NONE}
    BY <2>3, <2>4, <2>1
  <2>8. window.wifi = past[report.generation].wifi
    BY <1>3, <1>4
  <2> HIDE DEF support, limits
  <2>9. support = IF ~past[report.generation].wifi THEN "unsupported"
                  ELSE IF received \subseteq {NONE} THEN "unavailable" ELSE "available"
    BY <2>5, <2>6, <2>8
  <2>10. support = "unavailable" <=> window.wifi /\ radio.samples = 0
    BY <2>7, <2>8, <2>9
  <2> QED
    BY <2>1, <2>5, <2>9, <2>10
<1>9. ASSUME subject \in Scope(mode), subject = "workload"
      PROVE  /\ support = "available" <=> log # <<>> /\ log[Len(log)].health = "ok"
             /\ limits = {} <=> \E entry \in received : entry.health = "ok"
  <2> DEFINE workload == window.dwell.workload
  <2>1. /\ workload.sampled = Cardinality(Sampled(log))
        /\ workload.health = IF log = <<>> THEN "queued" ELSE log[Len(log)].health
    BY <1>3, <1>9, WorkloadIsSaid DEF Sums, WorkloadSums, WorkloadSaid
  <2>2. Sampled(log) \in SUBSET (1 .. Len(log))
    BY <1>5 DEF Sampled
  <2>3. Cardinality(Sampled(log)) = 0 <=> Sampled(log) = {}
    BY <1>5, <2>2, CountAppended
  <2>4. Sampled(log) # {} <=> \E entry \in received : entry.health = "ok"
    BY Zenon DEF Sampled
  <2>5. log # <<>> /\ log[Len(log)].health = "ok" => Sampled(log) # {}
    BY <1>5 DEF Sampled
  <2>6. /\ support = IF workload.sampled = 0 THEN "unavailable"
                     ELSE IF workload.health = "ok" THEN "available" ELSE "partial"
        /\ limits = {} <=> workload.sampled # 0
    BY <1>4, <1>9, WorkloadClaims
  <2> HIDE DEF support, limits, workload, received, log
  <2>7. support = "available" <=> log # <<>> /\ log[Len(log)].health = "ok"
    BY <2>1, <2>3, <2>5, <2>6
  <2>8. limits = {} <=> \E entry \in received : entry.health = "ok"
    BY <2>1, <2>3, <2>4, <2>6
  <2> QED
    BY <2>7, <2>8
<1>10. ASSUME subject \in Scope(mode), subject = "peers"
       PROVE  /\ support = "available" <=>
                   /\ log # <<>>
                   /\ \A i \in DOMAIN log : log[i].completed = CacheSources
                   /\ log[Len(log)].health = "ok"
              /\ "no_observation" \in limits <=> log = <<>>
              /\ support = "available" => limits = {}
  <2> DEFINE neighbors == window.dwell.neighbors
             whole == \A i \in DOMAIN log : log[i].completed = CacheSources
  <2>1. /\ neighbors.snapshots = Len(log)
        /\ neighbors.failed = {} <=> whole
        /\ neighbors.health = IF log = <<>> THEN "queued" ELSE log[Len(log)].health
        /\ neighbors.health = "ok" => neighbors.sources # {}
    BY <1>3, <1>10 DEF Sums, NeighborSums
  <2>2. /\ support = IF neighbors.snapshots = 0 \/ neighbors.sources = {} THEN "unavailable"
                     ELSE IF neighbors.failed # {} \/ neighbors.health # "ok"
                     THEN "partial" ELSE "available"
        /\ "no_observation" \in limits <=> neighbors.snapshots = 0
        /\ limits = {} <=> neighbors.snapshots # 0 /\ neighbors.failed = {}
    BY <1>4, <1>10, PeersClaims
  <2> HIDE DEF support, limits, neighbors, log, whole
  <2>3. support = "available" <=> log # <<>> /\ whole /\ log[Len(log)].health = "ok"
    BY <1>5, <2>1, <2>2
  <2>4. "no_observation" \in limits <=> log = <<>>
    BY <1>5, <2>1, <2>2
  <2>5. support = "available" => limits = {}
    BY <1>5, <2>1, <2>2
  <2> QED
    BY <2>3, <2>4, <2>5 DEF whole
<1> HIDE DEF support, limits, received, log
<1>11. /\ subject \notin Scope(mode) => support = "not_collected" /\ report.shape = NONE
       /\ subject \in Scope(mode) =>
          /\ subject = "interface" =>
               /\ support = "available" => \E i \in 2 .. Len(log) :
                    /\ NONE \notin {log[i].reading, log[i - 1].reading}
                    /\ log[i].at > log[i - 1].at
               /\ "no_observation" \in limits <=> Places(log, "reading") = {}
               /\ "no_interval" \in limits <=> report.shape = NONE
          /\ subject = "wifi" =>
               /\ support = IF ~past[report.generation].wifi THEN "unsupported"
                            ELSE IF received \subseteq {NONE} THEN "unavailable"
                            ELSE "available"
               /\ limits = IF support # "unavailable" THEN {}
                           ELSE IF log = <<>> THEN {"no_observation"}
                           ELSE {"no_telemetry"}
          /\ subject = "workload" =>
               /\ support = "available" <=> log # <<>> /\ log[Len(log)].health = "ok"
               /\ limits = {} <=> \E entry \in received : entry.health = "ok"
          /\ subject = "peers" =>
               /\ support = "available" <=>
                    /\ log # <<>>
                    /\ \A i \in DOMAIN log : log[i].completed = CacheSources
                    /\ log[Len(log)].health = "ok"
               /\ "no_observation" \in limits <=> log = <<>>
               /\ support = "available" => limits = {}
  BY <1>6, <1>7, <1>8, <1>9, <1>10, Zenon
<1> QED
  BY <1>11, Zenon DEF Claimed, support, limits, received, report, log, g

LEMMA WindowsFollow == WindowsInvariant => WindowsRemember
<1> SUFFICES ASSUME WindowsInvariant, worker.generation = 0
             PROVE  WindowsRemember
  BY DEF WindowsRemember
<1>1. CASE subject = "none"
  BY <1>1 DEF WindowsRemember, WindowsCounted
<1>2. CASE SessionHolds
  <2>1. WindowsCounted
    BY <1>2, CountedHolds
  <2>2. Len(windows) = WindowsKept
    BY <1>2 DEF SessionHolds
  <2>3. /\ subject = "wifi" => RadioRemembered(Log(current.generation), current.dwell.radio)
        /\ subject = "workload" =>
             WorkloadRemembered(Log(current.generation), current.dwell.workload)
    BY <1>2, PathFacts DEF Log
  <2>4. \A mode \in Modes :
          LET summary == DwellSummary(mode)
          IN /\ Len(summary) = WindowsKept + 1
             /\ \A i \in DOMAIN summary :
                  /\ summary[i].generation = current.generation - 1 - WindowsKept + i
                  /\ summary[i][subject] = NONE <=> subject \notin Scope(mode)
    BY <1>2, SummaryHolds
  <2>5. WindowsKept > 0 =>
          \A mode \in Modes : Claimed(mode, Log(current.generation - 1))
    BY <1>2, ClaimsHold DEF Log
  <2>6. ASSUME NEW i \in DOMAIN windows
        PROVE  LET window == windows[i]
                   generation == current.generation - 1 - WindowsKept + i
               IN /\ window.generation = generation /\ window.next = generation + 1
                  /\ window.ended - window.observed = past[generation].since
                  /\ window.ended = past[generation + 1].since
                  /\ window.wifi = past[generation].wifi
                  /\ subject = "wifi" => RadioRemembered(Log(generation), window.dwell.radio)
                  /\ subject = "workload" =>
                       WorkloadRemembered(Log(generation), window.dwell.workload)
    <3> DEFINE generation == current.generation - 1 - WindowsKept + i
    <3>1. i \in 1 .. Len(windows)
      BY <1>2 DEF SessionHolds
    <3> HIDE DEF generation
    <3>2. /\ windows[i].generation = generation /\ windows[i].next = generation + 1
          /\ windows[i].ended - windows[i].observed = past[generation].since
          /\ windows[i].ended = past[generation + 1].since
          /\ windows[i].wifi = past[generation].wifi
          /\ Sums(subject, windows[i].dwell, past[generation].log, windows[i].observed)
      BY <1>2, <3>1, WindowFacts DEF generation
    <3>3. /\ subject = "wifi" =>
               RadioRemembered(past[generation].log, windows[i].dwell.radio)
          /\ subject = "workload" =>
               WorkloadRemembered(past[generation].log, windows[i].dwell.workload)
      BY <3>2 DEF Sums, RadioSums, WorkloadSums
    <3> QED
      BY <3>2, <3>3 DEF Log, generation
  <2> QED
    BY <2>1, <2>2, <2>3, <2>4, <2>5, <2>6, Zenon DEF WindowsRemember, WindowsKept, Claimed
<1> QED
  BY <1>1, <1>2 DEF WindowsInvariant

=============================================================================
