------------------------------ MODULE PeerProofs ------------------------------
(***************************************************************************)
(* The ledger of neighbours, the snapshot on display and the plain stream  *)
(* agree, churn is not invented, and the selection stays on its neighbour: *)
(* for every neighbourhood, every set of sources and every interleaving of *)
(* the kernel, the collector and the operator.                             *)
(***************************************************************************)
EXTENDS PeerSession, FiniteSetTheorems, FunctionTheorems, SequenceTheorems, WellFoundedInduction, TLAPS

-----------------------------------------------------------------------------
(***************************************************************************)
(* The ledger.                                                             *)
(***************************************************************************)
\* An entry of the ledger, whatever the row it holds.
Entry(d) ==
  /\ d = [observations |-> d.observations, state_changes |-> d.state_changes,
          binding_changes |-> d.binding_changes,
          cache_disappearances |-> d.cache_disappearances,
          cache_returns |-> d.cache_returns, currently_cached |-> d.currently_cached,
          latest |-> d.latest, recent |-> d.recent]
  /\ d.observations \in Nat /\ d.state_changes \in Nat /\ d.binding_changes \in Nat
  /\ d.cache_disappearances \in Nat /\ d.cache_returns \in Nat
  /\ d.currently_cached \in BOOLEAN

\* What a read makes of one entry.
LEMMA EntrySeen ==
  ASSUME NEW peer
  PROVE  /\ Entry(FirstDwell(peer))
         /\ FirstDwell(peer).currently_cached /\ FirstDwell(peer).latest = peer
         /\ FirstDwell(peer).cache_disappearances = FirstDwell(peer).cache_returns
BY DEF Entry, FirstDwell

LEMMA EntrySeenAgain ==
  ASSUME NEW d, Entry(d), NEW peer
  PROVE  /\ Entry(Observed(d, peer))
         /\ Observed(d, peer).currently_cached /\ Observed(d, peer).latest = peer
         /\ Observed(d, peer).cache_disappearances = d.cache_disappearances
         /\ Observed(d, peer).cache_returns = d.cache_returns + One(~d.currently_cached)
         /\ Observed(d, peer).binding_changes =
              d.binding_changes + One(BindingChanged(d, peer))
         /\ Observed(d, peer).state_changes =
              d.state_changes + One(d.latest.state # peer.state)
BY DEF Entry, Observed, One

LEMMA EntryGone ==
  ASSUME NEW d, Entry(d)
  PROVE  /\ Entry(Absent(d))
         /\ ~Absent(d).currently_cached /\ Absent(d).latest = d.latest
         /\ Absent(d).cache_disappearances = d.cache_disappearances + 1
         /\ Absent(d).cache_returns = d.cache_returns
         /\ Absent(d).binding_changes = d.binding_changes
         /\ Absent(d).state_changes = d.state_changes
<1>1. Absent(d) =
        [[observations |-> d.observations, state_changes |-> d.state_changes,
          binding_changes |-> d.binding_changes,
          cache_disappearances |-> d.cache_disappearances,
          cache_returns |-> d.cache_returns, currently_cached |-> d.currently_cached,
          latest |-> d.latest, recent |-> d.recent]
         EXCEPT !.currently_cached = FALSE,
                !.cache_disappearances = d.cache_disappearances + 1]
  BY Zenon DEF Entry, Absent
<1>2. Absent(d) =
        [observations |-> d.observations, state_changes |-> d.state_changes,
         binding_changes |-> d.binding_changes,
         cache_disappearances |-> d.cache_disappearances + 1,
         cache_returns |-> d.cache_returns, currently_cached |-> FALSE,
         latest |-> d.latest, recent |-> d.recent]
  BY <1>1
<1> QED
  BY <1>2 DEF Entry

Ledger ==
  /\ peer_dwell = [k \in DOMAIN peer_dwell |-> peer_dwell[k]]
  /\ \A k \in DOMAIN peer_dwell : Entry(peer_dwell[k])

\* What an accepted read makes of the ledger, neighbour by neighbour.
EntryOf(new, dwells, snapshot, k) ==
  /\ Entry(new[k])
  /\ \/ /\ k \in DOMAIN snapshot.peers /\ k \notin DOMAIN dwells
        /\ new[k] = FirstDwell(snapshot.peers[k])
     \/ /\ k \in DOMAIN snapshot.peers /\ k \in DOMAIN dwells
        /\ Entry(dwells[k])
        /\ new[k] = Observed(dwells[k], snapshot.peers[k])
     \/ /\ k \notin DOMAIN snapshot.peers /\ k \in DOMAIN dwells
        /\ Entry(dwells[k]) /\ Complete(snapshot) /\ dwells[k].currently_cached
        /\ new[k] = Absent(dwells[k])
     \/ /\ k \notin DOMAIN snapshot.peers /\ k \in DOMAIN dwells
        /\ Entry(dwells[k]) /\ ~(Complete(snapshot) /\ dwells[k].currently_cached)
        /\ new[k] = dwells[k]

LEMMA ReducedEntries ==
  ASSUME NEW dwells, NEW snapshot, NEW new, new = Reduced(dwells, snapshot),
         \A k \in DOMAIN dwells : Entry(dwells[k])
  PROVE  /\ new = [k \in DOMAIN new |-> new[k]]
         /\ DOMAIN new = DOMAIN dwells \cup DOMAIN snapshot.peers
         /\ \A k \in DOMAIN new : EntryOf(new, dwells, snapshot, k)
<1>1. DOMAIN new = DOMAIN dwells \cup DOMAIN snapshot.peers /\ new = [k \in DOMAIN new |-> new[k]]
  BY DEF Reduced
<1>2. ASSUME NEW k \in DOMAIN new
      PROVE  EntryOf(new, dwells, snapshot, k)
  <2> DEFINE p == snapshot.peers[k]
             d == dwells[k]
  <2>1. new[k] = IF k \in DOMAIN snapshot.peers
                 THEN IF k \in DOMAIN dwells THEN Observed(d, p) ELSE FirstDwell(p)
                 ELSE IF Complete(snapshot) /\ d.currently_cached THEN Absent(d) ELSE d
    BY <1>1, <1>2 DEF Reduced
  <2>2. k \in DOMAIN dwells => Entry(d)
    OBVIOUS
  <2>3. k \in DOMAIN dwells \/ k \in DOMAIN snapshot.peers
    BY <1>1, <1>2
  <2>4. CASE k \in DOMAIN snapshot.peers /\ k \notin DOMAIN dwells
    <3>1. Entry(FirstDwell(p))
      BY EntrySeen
    <3> QED
      BY <2>1, <2>4, <3>1 DEF EntryOf
  <2>5. CASE k \in DOMAIN snapshot.peers /\ k \in DOMAIN dwells
    <3>1. Entry(Observed(d, p))
      BY <2>2, <2>5, EntrySeenAgain
    <3> QED
      BY <2>1, <2>2, <2>5, <3>1 DEF EntryOf
  <2>6. CASE k \notin DOMAIN snapshot.peers
    <3>1. Entry(Absent(d))
      BY <2>2, <2>3, <2>6, EntryGone
    <3> QED
      BY <2>1, <2>2, <2>3, <2>6, <3>1 DEF EntryOf
  <2> QED
    BY <2>4, <2>5, <2>6
<1> QED
  BY <1>1, <1>2

\* A window of attention ends: nothing else of the entry changes.
LEMMA ExpiredEntries ==
  ASSUME Ledger, AttentionExpires
  PROVE  /\ DOMAIN peer_dwell' = DOMAIN peer_dwell
         /\ \A k \in DOMAIN peer_dwell :
              /\ Entry(peer_dwell'[k])
              /\ peer_dwell'[k].currently_cached = peer_dwell[k].currently_cached
              /\ peer_dwell'[k].latest = peer_dwell[k].latest
              /\ peer_dwell'[k].cache_disappearances = peer_dwell[k].cache_disappearances
              /\ peer_dwell'[k].cache_returns = peer_dwell[k].cache_returns
              /\ peer_dwell'[k].binding_changes = peer_dwell[k].binding_changes
              /\ peer_dwell'[k].state_changes = peer_dwell[k].state_changes
         /\ peer_dwell' = [k \in DOMAIN peer_dwell' |-> peer_dwell'[k]]
<1>0. PICK l \in DOMAIN peer_dwell : \E change \in peer_dwell[l].recent :
        peer_dwell' = [peer_dwell EXCEPT ![l].recent = @ \ {change}]
  BY DEF AttentionExpires
<1>1. PICK change : peer_dwell' = [peer_dwell EXCEPT ![l].recent = @ \ {change}]
  BY <1>0
<1> DEFINE d == peer_dwell[l]
           less == [observations |-> d.observations, state_changes |-> d.state_changes,
                    binding_changes |-> d.binding_changes,
                    cache_disappearances |-> d.cache_disappearances,
                    cache_returns |-> d.cache_returns,
                    currently_cached |-> d.currently_cached,
                    latest |-> d.latest, recent |-> d.recent \ {change}]
<1>2. d = [observations |-> d.observations, state_changes |-> d.state_changes,
           binding_changes |-> d.binding_changes,
           cache_disappearances |-> d.cache_disappearances,
           cache_returns |-> d.cache_returns, currently_cached |-> d.currently_cached,
           latest |-> d.latest, recent |-> d.recent]
  BY DEF Ledger, Entry
<1>3. [d EXCEPT !.recent = d.recent \ {change}] = less
  <2>1. [d EXCEPT !.recent = d.recent \ {change}] =
          [[observations |-> d.observations, state_changes |-> d.state_changes,
            binding_changes |-> d.binding_changes,
            cache_disappearances |-> d.cache_disappearances,
            cache_returns |-> d.cache_returns, currently_cached |-> d.currently_cached,
            latest |-> d.latest, recent |-> d.recent]
           EXCEPT !.recent = d.recent \ {change}]
    BY Zenon, <1>2
  <2> HIDE DEF d
  <2> QED
    BY <2>1
<1>4. peer_dwell' = [peer_dwell EXCEPT ![l] = [d EXCEPT !.recent = d.recent \ {change}]]
  BY <1>1
<1>5. peer_dwell' = [k \in DOMAIN peer_dwell |-> IF k = l THEN less ELSE peer_dwell[k]]
  BY <1>3, <1>4 DEF Ledger
<1>6. Entry(d)
  BY DEF Ledger
<1>7. /\ Entry(less) /\ less.currently_cached = d.currently_cached
      /\ less.latest = d.latest /\ less.cache_disappearances = d.cache_disappearances
      /\ less.cache_returns = d.cache_returns /\ less.binding_changes = d.binding_changes
      /\ less.state_changes = d.state_changes
  <2> HIDE DEF d
  <2> QED
    BY <1>6 DEF Entry
<1> HIDE DEF less
<1> QED
  BY <1>5, <1>7 DEF Ledger

-----------------------------------------------------------------------------
(***************************************************************************)
(* The snapshot on display and the ledger tell one story.                  *)
(***************************************************************************)
CachedInvariant == Ledger /\ CachedAgrees

\* The steps of a session that touch what the App holds of neighbours.
LEMMA AppSteps ==
  ASSUME [Next]_vars
  PROVE  \/ UNCHANGED appVars
         \/ AttentionExpires /\ UNCHANGED peers
         \/ /\ ReceivePeers /\ job.generation = generation
            /\ \E snapshot : peers' = snapshot /\ peer_dwell' = Reduced(peer_dwell, snapshot)
         \/ /\ ReceiveLink /\ peers' = Pending /\ peer_dwell' = <<>>
BY DEF Next, vars, TableChanges, Launch, AttentionExpires, ReadSource, TuiStep, ReceivePeers,
       ReceiveLink, Normalize, Draw, NoKey, Press, appVars

LEMMA CachedStep ==
  ASSUME CachedInvariant, [Next]_vars
  PROVE  CachedInvariant'
<1>1. CASE UNCHANGED appVars
  BY <1>1 DEF CachedInvariant, Ledger, CachedAgrees, appVars
<1>2. CASE AttentionExpires /\ UNCHANGED peers
  BY <1>2, ExpiredEntries DEF CachedInvariant, Ledger, CachedAgrees
<1>3. ASSUME NEW snapshot, peers' = snapshot, peer_dwell' = Reduced(peer_dwell, snapshot)
      PROVE  CachedInvariant'
  <2>1. /\ peer_dwell' = [k \in DOMAIN peer_dwell' |-> peer_dwell'[k]]
        /\ DOMAIN peer_dwell' = DOMAIN peer_dwell \cup DOMAIN snapshot.peers
        /\ \A k \in DOMAIN peer_dwell' : EntryOf(peer_dwell', peer_dwell, snapshot, k)
    BY <1>3, ReducedEntries DEF CachedInvariant, Ledger
  <2>2. ASSUME NEW k \in DOMAIN peer_dwell'
        PROVE  /\ Entry(peer_dwell'[k])
               /\ k \in DOMAIN snapshot.peers =>
                    /\ peer_dwell'[k].currently_cached
                    /\ peer_dwell'[k].latest = snapshot.peers[k]
               /\ Complete(snapshot) /\ peer_dwell'[k].currently_cached =>
                    k \in DOMAIN snapshot.peers
               /\ peer_dwell'[k].cache_disappearances =
                    peer_dwell'[k].cache_returns + One(~peer_dwell'[k].currently_cached)
    <3> DEFINE new == peer_dwell'[k]
               d == peer_dwell[k]
               p == snapshot.peers[k]
    <3>1. EntryOf(peer_dwell', peer_dwell, snapshot, k)
      BY <2>1
    <3>2. Entry(new)
      BY <3>1 DEF EntryOf
    <3>3. k \in DOMAIN peer_dwell =>
            /\ d.cache_disappearances = d.cache_returns + One(~d.currently_cached)
            /\ d.cache_returns \in Nat /\ d.currently_cached \in BOOLEAN
      BY DEF CachedInvariant, Ledger, CachedAgrees, Entry
    <3>4. CASE k \in DOMAIN snapshot.peers /\ new = FirstDwell(p)
      <4>1. /\ new.currently_cached /\ new.latest = p /\ new.cache_returns = 0
            /\ new.cache_disappearances = 0
        BY <3>4 DEF FirstDwell
      <4> QED
        BY <3>2, <3>4, <4>1 DEF One
    <3>5. CASE /\ k \in DOMAIN snapshot.peers /\ k \in DOMAIN peer_dwell
               /\ Entry(d) /\ new = Observed(d, p)
      <4>1. /\ new.currently_cached /\ new.latest = p
            /\ new.cache_disappearances = d.cache_disappearances
            /\ new.cache_returns = d.cache_returns + One(~d.currently_cached)
        BY <3>5 DEF Observed
      <4> QED
        BY <3>2, <3>3, <3>5, <4>1 DEF One
    <3>6. CASE /\ k \notin DOMAIN snapshot.peers /\ k \in DOMAIN peer_dwell
               /\ Entry(d) /\ d.currently_cached /\ new = Absent(d)
      <4>1. /\ ~new.currently_cached
            /\ new.cache_disappearances = d.cache_disappearances + 1
            /\ new.cache_returns = d.cache_returns
        BY <3>6, EntryGone
      <4> QED
        BY <3>2, <3>3, <3>6, <4>1 DEF One
    <3>7. CASE /\ k \notin DOMAIN snapshot.peers /\ k \in DOMAIN peer_dwell
               /\ ~(Complete(snapshot) /\ d.currently_cached) /\ new = d
      BY <3>2, <3>3, <3>7
    <3> QED
      BY <3>1, <3>4, <3>5, <3>6, <3>7 DEF EntryOf
  <2>3. \A k \in DOMAIN snapshot.peers : k \in DOMAIN peer_dwell'
    BY <2>1
  <2> QED
    BY <1>3, <2>1, <2>2, <2>3 DEF CachedInvariant, Ledger, CachedAgrees
<1>4. CASE peers' = Pending /\ peer_dwell' = <<>>
  BY <1>4 DEF CachedInvariant, Ledger, CachedAgrees, Pending, Complete
<1> QED
  BY <1>1, <1>2, <1>3, <1>4, AppSteps

LEMMA CachedInit == Init => CachedInvariant
BY DEF Init, CachedInvariant, Ledger, CachedAgrees, Pending, Complete

\* What is on display is what the ledger holds as cached and as last observed,
\* and every return undoes one disappearance (apply_peer_snapshot), through
\* partial, cut, failed and late reads.
THEOREM LedgerTellsTheSame == Spec => []CachedAgrees
<1>1. Spec => []CachedInvariant
  BY CachedInit, CachedStep, PTL DEF Spec
<1>2. CachedInvariant => CachedAgrees
  BY DEF CachedInvariant
<1> QED
  BY <1>1, <1>2, PTL
-----------------------------------------------------------------------------
(***************************************************************************)
(* What the kernel and the collector hold.                                 *)
(***************************************************************************)
Counts == [rebound : Nat, restated : Nat, printless : Nat]

CollectorTypeOK ==
  /\ table \in Table
  /\ generation \in Nat
  /\ job = [path |-> job.path, generation |-> job.generation, readings |-> job.readings]
  /\ job.generation \in Nat /\ job.generation <= generation
  /\ job.readings \in Seq(Reading)
  /\ past \in [Keys -> Counts]

LEMMA TableRows ==
  ASSUME NEW t
  PROVE  t \in Table <=> /\ DOMAIN t \subseteq Keys
                         /\ t = [k \in DOMAIN t |-> t[k]]
                         /\ \A k \in DOMAIN t : t[k] \in Row
<1>1. ASSUME t \in Table
      PROVE  /\ DOMAIN t \subseteq Keys
             /\ t = [k \in DOMAIN t |-> t[k]]
             /\ \A k \in DOMAIN t : t[k] \in Row
  <2>1. PICK K \in SUBSET Keys : t \in [K -> Row]
    BY <1>1 DEF Table
  <2> QED
    BY <2>1
<1>2. ASSUME /\ DOMAIN t \subseteq Keys
             /\ t = [k \in DOMAIN t |-> t[k]]
             /\ \A k \in DOMAIN t : t[k] \in Row
      PROVE  t \in Table
  <2>1. t \in [DOMAIN t -> Row]
    BY <1>2
  <2> QED
    BY <1>2, <2>1 DEF Table
<1> QED
  BY <1>1, <1>2

\* The rows a source prints of the table, and what a read keeps of them.
LEMMA PrintedRows ==
  ASSUME NEW t \in Table, NEW source, NEW outcome \in Outcomes
  PROVE  /\ DOMAIN Printed(source, t) = DOMAIN t \cap Prints[source].keys
         /\ \A k \in DOMAIN Printed(source, t) :
              /\ Printed(source, t)[k].mac = t[k].mac
              /\ Printed(source, t)[k].state =
                   IF Prints[source].states THEN t[k].state ELSE NONE
         /\ ReadingOf(source, outcome, t) \in Reading
<1>1. /\ DOMAIN t \subseteq Keys /\ \A k \in DOMAIN t : t[k] \in Row
  BY TableRows
<1>2. DOMAIN Printed(source, t) = DOMAIN t \cap Prints[source].keys
  BY DEF Printed
<1>3. ASSUME NEW k \in DOMAIN Printed(source, t)
      PROVE  /\ Printed(source, t)[k].mac = t[k].mac
             /\ Printed(source, t)[k].state =
                  IF Prints[source].states THEN t[k].state ELSE NONE
             /\ Printed(source, t)[k] \in Row
  <2>1. Printed(source, t)[k] =
          IF Prints[source].states THEN t[k] ELSE [t[k] EXCEPT !.state = NONE]
    BY <1>2, <1>3 DEF Printed
  <2>2. t[k] \in Row
    BY <1>1, <1>2, <1>3
  <2> QED
    BY <2>1, <2>2 DEF Row
<1>4. Printed(source, t) \in Table
  <2>1. Printed(source, t) = [k \in DOMAIN Printed(source, t) |-> Printed(source, t)[k]]
    BY DEF Printed
  <2> QED
    BY <1>1, <1>2, <1>3, <2>1, TableRows
<1>5. <<>> \in Table
  <2>1. <<>> \in [{} -> Row] /\ {} \in SUBSET Keys
    OBVIOUS
  <2> QED
    BY <2>1 DEF Table
<1> QED
  BY <1>2, <1>3, <1>4, <1>5 DEF ReadingOf, Reading

\* Two fields of a count at once.
LEMMA CountedTwice ==
  ASSUME NEW p \in Counts, NEW a \in Nat, NEW b
  PROVE  [p EXCEPT !.rebound = a, !.restated = b] =
           [rebound |-> a, restated |-> b, printless |-> p.printless]
<1> DEFINE q == [p EXCEPT !.rebound = a]
<1>1. q = [rebound |-> a, restated |-> p.restated, printless |-> p.printless]
  BY DEF Counts
<1>2. [q EXCEPT !.restated = b] =
        [rebound |-> a, restated |-> b, printless |-> p.printless]
  <2> HIDE DEF q
  <2>1. q \in Counts /\ q.rebound = a /\ q.printless = p.printless
    BY <1>1 DEF Counts
  <2> QED
    BY <2>1 DEF Counts
<1>3. [p EXCEPT !.rebound = a, !.restated = b] = [q EXCEPT !.restated = b]
  BY Zenon
<1> QED
  BY Zenon, <1>2, <1>3

\* The kernel enters or changes a neighbour.
LEMMA KernelSteps ==
  ASSUME CollectorTypeOK, NEW k \in Keys, NEW row \in Row, KernelSet(k, row)
  PROVE  /\ table' \in Table
         /\ DOMAIN table' = DOMAIN table \cup {k}
         /\ table'[k] = row
         /\ \A l \in DOMAIN table \ {k} : table'[l] = table[l]
         /\ past' \in [Keys -> Counts]
         /\ past'[k].rebound =
              past[k].rebound + One(k \notin DOMAIN table \/ table[k].mac # row.mac)
         /\ past'[k].restated =
              past[k].restated + One(k \notin DOMAIN table \/ table[k].state # row.state)
         /\ past'[k].printless = past[k].printless
         /\ \A l \in Keys \ {k} : past'[l] = past[l]
<1> DEFINE a == past[k].rebound + One(k \notin DOMAIN table \/ table[k].mac # row.mac)
           b == past[k].restated + One(k \notin DOMAIN table \/ table[k].state # row.state)
<1>1. /\ DOMAIN table \subseteq Keys /\ \A l \in DOMAIN table : table[l] \in Row
      /\ table = [l \in DOMAIN table |-> table[l]]
  BY TableRows DEF CollectorTypeOK
<1>2. table' = [l \in DOMAIN table \cup {k} |-> IF l = k THEN row ELSE table[l]]
  BY DEF KernelSet
<1>3. table' \in Table
  <2> DEFINE t == table'
  <2>1. /\ DOMAIN t \subseteq Keys /\ \A l \in DOMAIN t : t[l] \in Row
        /\ t = [l \in DOMAIN t |-> t[l]]
    BY <1>1, <1>2
  <2> HIDE DEF t
  <2>2. t \in Table
    BY <2>1, TableRows
  <2> QED
    BY <2>2 DEF t
<1>4. past[k] \in Counts /\ a \in Nat /\ b \in Nat
  BY DEF CollectorTypeOK, Counts, One
<1>5. past' = [past EXCEPT ![k] = [past[k] EXCEPT !.rebound = a, !.restated = b]]
  BY DEF KernelSet, CollectorTypeOK
<1> HIDE DEF a, b
<1>6. [past[k] EXCEPT !.rebound = a, !.restated = b] =
        [rebound |-> a, restated |-> b, printless |-> past[k].printless]
  BY <1>4, CountedTwice
<1>7. past' = [l \in Keys |->
        IF l = k THEN [rebound |-> a, restated |-> b, printless |-> past[k].printless]
                 ELSE past[l]]
  BY <1>5, <1>6 DEF CollectorTypeOK
<1>8. past' \in [Keys -> Counts]
  BY <1>4, <1>7 DEF CollectorTypeOK, Counts
<1> QED
  BY <1>2, <1>3, <1>7, <1>8 DEF a, b

\* The kernel drops one.
LEMMA KernelDrops ==
  ASSUME CollectorTypeOK, NEW k \in Keys, KernelDrop(k)
  PROVE  /\ table' \in Table
         /\ DOMAIN table' = DOMAIN table \ {k}
         /\ \A l \in DOMAIN table' : table'[l] = table[l]
         /\ past' = past
<1>1. /\ DOMAIN table \subseteq Keys /\ \A l \in DOMAIN table : table[l] \in Row
      /\ table' = [l \in DOMAIN table \ {k} |-> table[l]]
  BY TableRows DEF CollectorTypeOK, KernelDrop
<1> DEFINE t == table'
<1>2. /\ DOMAIN t \subseteq Keys /\ \A l \in DOMAIN t : t[l] \in Row
      /\ t = [l \in DOMAIN t |-> t[l]]
  BY <1>1
<1>3. t \in Table
  <2> HIDE DEF t
  <2> QED
    BY <1>2, TableRows
<1> QED
  BY <1>1, <1>3 DEF KernelDrop

\* The collector reads its next source.
LEMMA ReadSteps ==
  ASSUME CollectorTypeOK, NEW outcome \in Outcomes, ReadSource(outcome),
         NEW source, source = Sources[Len(job.readings) + 1]
  PROVE  /\ job' = [path |-> job.path, generation |-> job.generation,
                    readings |-> Append(job.readings, ReadingOf(source, outcome, table))]
         /\ job'.readings \in Seq(Reading)
         /\ past' \in [Keys -> Counts]
         /\ \A k \in Keys :
              /\ past'[k].rebound = past[k].rebound
              /\ past'[k].restated = past[k].restated
              /\ past'[k].printless = past[k].printless +
                   One(outcome # "whole" /\ Prints[source].states /\ k \in Prints[source].keys)
<1> DEFINE more == Append(job.readings, ReadingOf(source, outcome, table))
           c(k) == past[k].printless +
                     One((outcome # "whole" /\ Prints[source].states) /\ k \in Prints[source].keys)
<1>1. job' = [job EXCEPT !.readings = more]
  BY DEF ReadSource
<1>2. job' = [[path |-> job.path, generation |-> job.generation, readings |-> job.readings]
              EXCEPT !.readings = more]
  BY Zenon, <1>1 DEF CollectorTypeOK
<1>3. job' = [path |-> job.path, generation |-> job.generation, readings |-> more]
  <2> HIDE DEF more
  <2> QED
    BY <1>2
<1>4. ReadingOf(source, outcome, table) \in Reading
  BY PrintedRows DEF CollectorTypeOK
<1>5. more \in Seq(Reading)
  BY <1>4 DEF CollectorTypeOK
<1>6. past' = [k \in Keys |-> [past[k] EXCEPT !.printless = c(k)]]
  BY DEF ReadSource
<1>7. ASSUME NEW k \in Keys
      PROVE  past'[k] = [rebound |-> past[k].rebound, restated |-> past[k].restated,
                         printless |-> c(k)] /\ past'[k] \in Counts
  <2>1. past[k] \in Counts /\ c(k) \in Nat
    BY DEF CollectorTypeOK, Counts, One
  <2>2. past'[k] = [past[k] EXCEPT !.printless = c(k)]
    BY <1>6
  <2> HIDE DEF c
  <2> QED
    BY <2>1, <2>2 DEF Counts
<1>8. past' \in [Keys -> Counts]
  BY <1>6, <1>7
<1>9. job'.readings = more
  BY <1>3
<1> HIDE DEF more
<1> QED
  BY <1>3, <1>5, <1>7, <1>8, <1>9 DEF more

LEMMA CollectorInit == Init => CollectorTypeOK
<1>1. ASSUME Init
      PROVE  past \in [Keys -> Counts]
  BY <1>1 DEF Init, Counts
<1>2. ASSUME Init
      PROVE  job.readings \in Seq(Reading)
  BY <1>2 DEF Init, Idle
<1> QED
  BY <1>1, <1>2, PeerSessionAssumption DEF Init, Idle, CollectorTypeOK

LEMMA CollectorStep ==
  ASSUME CollectorTypeOK, [Next]_vars
  PROVE  CollectorTypeOK'
<1>1. CASE TableChanges
  <2>1. ASSUME NEW k \in Keys, NEW row \in KernelRows, KernelSet(k, row)
        PROVE  table' \in Table /\ past' \in [Keys -> Counts]
    BY <2>1, KernelSteps, PeerSessionAssumption
  <2>2. ASSUME NEW k \in Keys, KernelDrop(k)
        PROVE  table' \in Table /\ past' \in [Keys -> Counts]
    BY <2>2, KernelDrops DEF CollectorTypeOK
  <2>3. table' \in Table /\ past' \in [Keys -> Counts]
    BY <1>1, <2>1, <2>2 DEF TableChanges
  <2> QED
    BY <1>1, <2>3 DEF TableChanges, CollectorTypeOK
<1>2. CASE Launch
  <2>1. <<>> \in Seq(Reading)
    OBVIOUS
  <2> QED
    BY <1>2, <2>1 DEF Launch, CollectorTypeOK
<1>3. CASE \E outcome \in Outcomes : ReadSource(outcome)
  <2>1. PICK outcome \in Outcomes : ReadSource(outcome)
    BY <1>3
  <2> DEFINE source == Sources[Len(job.readings) + 1]
             more == Append(job.readings, ReadingOf(source, outcome, table))
  <2>2. /\ job' = [path |-> job.path, generation |-> job.generation, readings |-> more]
        /\ job'.readings \in Seq(Reading)
        /\ past' \in [Keys -> Counts]
    BY <2>1, ReadSteps
  <2>3. UNCHANGED <<table, generation>>
    BY <2>1 DEF ReadSource
  <2> HIDE DEF more
  <2> QED
    BY <2>2, <2>3 DEF CollectorTypeOK
<1>4. CASE ReceivePeers
  <2>1. <<>> \in Seq(Reading)
    OBVIOUS
  <2> QED
    BY <1>4, <2>1 DEF ReceivePeers, CollectorTypeOK, Idle
<1>5. CASE ReceiveLink
  <2>1. past' \in [Keys -> Counts]
    BY <1>5 DEF ReceiveLink, Counts
  <2> QED
    BY <1>5, <2>1 DEF ReceiveLink, CollectorTypeOK
<1>6. CASE UNCHANGED <<table, generation, job, past>>
  BY <1>6 DEF CollectorTypeOK
<1> QED
  BY <1>1, <1>2, <1>3, <1>4, <1>5, <1>6
  DEF Next, vars, TuiStep, AttentionExpires, Normalize, Draw, NoKey, Press

-----------------------------------------------------------------------------
(***************************************************************************)
(* The plain stream and the ledger.                                        *)
(***************************************************************************)
\* A read that was collected is never queued, and unless a source failed it
\* was of use.
LEMMA CollectedHealth ==
  ASSUME NEW readings \in Seq(Reading), Len(readings) = Len(Sources), NEW scope,
         NEW snapshot, snapshot = Collected(scope, readings)
  PROVE  Complete(snapshot) <=> snapshot.failed_sources = {}
<1> DEFINE read == [k \in ReportedKeys(scope, readings) |-> PeerRead(readings, k)]
<1>1. /\ snapshot.health = EvidenceHealth(readings, read)
      /\ snapshot.failed_sources = DOMAIN readings \ Completed(readings)
  BY DEF Collected
<1> HIDE DEF read
<1>2. 1 \in DOMAIN readings
  <2>1. Len(Sources) \in Nat /\ Len(Sources) # 0
    BY SourcesAssumption
  <2> QED
    BY <2>1
<1>3. Completed(readings) \subseteq DOMAIN readings
  BY DEF Completed
<1>4. snapshot.health # "queued"
  BY <1>1 DEF EvidenceHealth
<1>5. ASSUME snapshot.failed_sources = {}
      PROVE  snapshot.health # "unavailable"
  <2>1. Completed(readings) # {}
    BY <1>1, <1>2, <1>5
  <2> QED
    BY <1>1, <2>1 DEF EvidenceHealth
<1> QED
  BY <1>4, <1>5 DEF Complete

\* The steps after which the stream compares two snapshots.
LEMMA AcceptedSteps ==
  ASSUME CollectorTypeOK, [Next]_vars, Accepted
  PROVE  /\ peers.health # "queued"
         /\ peer_dwell' = Reduced(peer_dwell, peers')
         /\ Complete(peers') <=> peers'.failed_sources = {}
<1>1. ReceivePeers /\ job.generation = generation
  <2>1. ~UNCHANGED peers /\ generation' = generation
    BY DEF Accepted
  <2>2. ~ReceiveLink
    BY <2>1 DEF ReceiveLink, CollectorTypeOK
  <2> QED
    BY <2>1, <2>2, AppSteps DEF appVars
<1> DEFINE snapshot == Collected(job.path, job.readings)
<1>2. /\ peers' = snapshot /\ peer_dwell' = Reduced(peer_dwell, snapshot)
      /\ Len(job.readings) = Len(Sources)
  BY <1>1 DEF ReceivePeers
<1>3. Complete(snapshot) <=> snapshot.failed_sources = {}
  BY <1>2, CollectedHealth DEF CollectorTypeOK
<1> HIDE DEF snapshot
<1> QED
  BY <1>2, <1>3 DEF Accepted

LEMMA StreamFollows ==
  ASSUME CachedInvariant, NEW snapshot, peer_dwell' = Reduced(peer_dwell, snapshot),
         Complete(snapshot) <=> snapshot.failed_sources = {},
         peers.health # "queued"
  PROVE  /\ PlainRemoved(peers, snapshot) \subseteq Gone
         /\ Came \subseteq PlainAdded(peers, snapshot)
         /\ PlainRebound(peers, snapshot) \subseteq Rebound
         /\ Complete(peers) =>
              /\ PlainRemoved(peers, snapshot) = Gone
              /\ PlainAdded(peers, snapshot) = Came
              /\ PlainRebound(peers, snapshot) = Rebound \ Came
<1> DEFINE new == peer_dwell'
<1>1. /\ DOMAIN new = DOMAIN peer_dwell \cup DOMAIN snapshot.peers
      /\ \A k \in DOMAIN new : EntryOf(new, peer_dwell, snapshot, k)
  BY ReducedEntries DEF CachedInvariant, Ledger
<1>2. \A k \in DOMAIN peers.peers :
        k \in DOMAIN peer_dwell /\ peer_dwell[k].currently_cached
        /\ peer_dwell[k].latest = peers.peers[k]
  BY DEF CachedInvariant, CachedAgrees
<1>3. Complete(peers) =>
        \A k \in DOMAIN peer_dwell :
          peer_dwell[k].currently_cached => k \in DOMAIN peers.peers
  BY DEF CachedInvariant, CachedAgrees
<1>4. ASSUME NEW k \in DOMAIN new
      PROVE  \* what one entry says, in the terms of the three sets
        /\ k \in DOMAIN peer_dwell /\ peer_dwell[k].currently_cached =>
             (~new[k].currently_cached <=> k \notin DOMAIN snapshot.peers /\ Complete(snapshot))
        /\ new[k].currently_cached /\ (k \in DOMAIN peer_dwell => ~peer_dwell[k].currently_cached)
             <=> /\ k \in DOMAIN snapshot.peers
                 /\ k \in DOMAIN peer_dwell => ~peer_dwell[k].currently_cached
        /\ k \in DOMAIN peer_dwell =>
             (new[k].binding_changes > peer_dwell[k].binding_changes
                <=> /\ k \in DOMAIN snapshot.peers
                    /\ BindingChanged(peer_dwell[k], snapshot.peers[k]))
        /\ k \in DOMAIN snapshot.peers => new[k].currently_cached
  <2> DEFINE e == new[k]
             d == peer_dwell[k]
             p == snapshot.peers[k]
  <2>1. EntryOf(new, peer_dwell, snapshot, k)
    BY <1>1
  <2>2. CASE k \in DOMAIN snapshot.peers /\ k \notin DOMAIN peer_dwell /\ e = FirstDwell(p)
    BY <2>2, EntrySeen
  <2>3. CASE k \in DOMAIN snapshot.peers /\ k \in DOMAIN peer_dwell /\ Entry(d) /\ e = Observed(d, p)
    <3>0. /\ Observed(d, p).currently_cached
          /\ Observed(d, p).binding_changes = d.binding_changes + One(BindingChanged(d, p))
      <4>1. Entry(d)
        BY <2>3
      <4> HIDE DEF d, p
      <4> QED
        BY <4>1, EntrySeenAgain
    <3>1. /\ e.currently_cached
          /\ e.binding_changes = d.binding_changes + One(BindingChanged(d, p))
      BY Zenon, <2>3, <3>0
    <3>2. d.binding_changes \in Nat
      BY <2>3 DEF Entry
    <3>3. e.binding_changes > d.binding_changes <=> BindingChanged(d, p)
      <4> HIDE DEF d, e
      <4> QED
        BY <3>1, <3>2 DEF One
    <3> QED
      BY <2>3, <3>1, <3>3
  <2>4. CASE /\ k \notin DOMAIN snapshot.peers /\ k \in DOMAIN peer_dwell /\ Entry(d)
             /\ Complete(snapshot) /\ d.currently_cached /\ e = Absent(d)
    <3>1. ~e.currently_cached /\ e.binding_changes = d.binding_changes
      BY <2>4, EntryGone
    <3>2. d.binding_changes \in Nat
      BY <2>4 DEF Entry
    <3> QED
      BY <2>4, <3>1, <3>2
  <2>5. CASE /\ k \notin DOMAIN snapshot.peers /\ k \in DOMAIN peer_dwell /\ Entry(d)
             /\ ~(Complete(snapshot) /\ d.currently_cached) /\ e = d
    <3>1. d.binding_changes \in Nat
      BY <2>5 DEF Entry
    <3> QED
      BY <2>5, <3>1
  <2> QED
    BY <2>1, <2>2, <2>3, <2>4, <2>5 DEF EntryOf
<1> HIDE DEF new
<1>5. /\ PlainRemoved(peers, snapshot) =
           IF Complete(snapshot) THEN DOMAIN peers.peers \ DOMAIN snapshot.peers ELSE {}
      /\ PlainAdded(peers, snapshot) = DOMAIN snapshot.peers \ DOMAIN peers.peers
  BY DEF PlainRemoved, PlainAdded
<1>6. ASSUME NEW k
      PROVE  k \in PlainRebound(peers, snapshot) <=>
               /\ k \in DOMAIN peers.peers /\ k \in DOMAIN snapshot.peers
               /\ BindingChanged(peer_dwell[k], snapshot.peers[k])
  BY <1>2 DEF PlainRebound, BindingChanged
<1>7. /\ \A k : k \in Gone <=> /\ k \in DOMAIN peer_dwell /\ k \in DOMAIN new
                               /\ peer_dwell[k].currently_cached /\ ~new[k].currently_cached
      /\ \A k : k \in Came <=> /\ k \in DOMAIN new /\ new[k].currently_cached
                               /\ k \in DOMAIN peer_dwell => ~peer_dwell[k].currently_cached
      /\ \A k : k \in Rebound <=>
                  /\ k \in DOMAIN peer_dwell /\ k \in DOMAIN new
                  /\ new[k].binding_changes > peer_dwell[k].binding_changes
  BY DEF Gone, Came, Rebound, new
<1>8. PlainRemoved(peers, snapshot) \subseteq Gone
  BY <1>1, <1>2, <1>4, <1>5, <1>7
<1>9. Came \subseteq PlainAdded(peers, snapshot)
  BY <1>1, <1>2, <1>4, <1>5, <1>7
<1>10. PlainRebound(peers, snapshot) \subseteq Rebound
  BY <1>1, <1>2, <1>4, <1>6, <1>7
<1>11. ASSUME Complete(peers)
       PROVE  /\ Gone \subseteq PlainRemoved(peers, snapshot)
              /\ PlainAdded(peers, snapshot) \subseteq Came
  BY <1>1, <1>3, <1>4, <1>5, <1>7, <1>11
<1>12. ASSUME Complete(peers)
       PROVE  PlainRebound(peers, snapshot) = Rebound \ Came
  <2>1. PlainRebound(peers, snapshot) \cap Came = {}
    BY <1>2, <1>6, <1>7
  <2>2. Rebound \ Came \subseteq PlainRebound(peers, snapshot)
    <3>1. ASSUME NEW k \in Rebound \ Came
          PROVE  k \in PlainRebound(peers, snapshot)
      <4>1. /\ k \in DOMAIN peer_dwell /\ k \in DOMAIN new /\ k \in DOMAIN snapshot.peers
            /\ BindingChanged(peer_dwell[k], snapshot.peers[k]) /\ new[k].currently_cached
        BY <1>4, <1>7, <3>1
      <4>2. peer_dwell[k].currently_cached
        BY <1>7, <3>1, <4>1
      <4>3. k \in DOMAIN peers.peers
        BY <1>3, <1>12, <4>1, <4>2
      <4> QED
        BY <1>6, <4>1, <4>3
    <3> QED
      BY <3>1
  <2> QED
    BY <1>10, <2>1, <2>2
<1> QED
  BY <1>8, <1>9, <1>10, <1>11, <1>12

\* The plain stream (peer_change_lines), which compares two snapshots, removes
\* and rebinds no neighbour that the ledger does not, misses none it gains, and
\* after a complete read says the same.
THEOREM StreamTellsTheSame == Spec => PlainAgrees
<1>1. CachedInvariant /\ CollectorTypeOK /\ [Next]_vars
        => (CachedInvariant /\ CollectorTypeOK)'
  BY CachedStep, CollectorStep
<1>2. CachedInvariant /\ CollectorTypeOK /\ [Next]_vars =>
        [ Accepted =>
            /\ PlainRemoved(peers, peers') \subseteq Gone
            /\ Came \subseteq PlainAdded(peers, peers')
            /\ PlainRebound(peers, peers') \subseteq Rebound
            /\ Complete(peers) =>
                 /\ PlainRemoved(peers, peers') = Gone
                 /\ PlainAdded(peers, peers') = Came
                 /\ PlainRebound(peers, peers') = Rebound \ Came ]_vars
  <2> SUFFICES ASSUME CachedInvariant, CollectorTypeOK, [Next]_vars, Accepted
               PROVE  /\ PlainRemoved(peers, peers') \subseteq Gone
                      /\ Came \subseteq PlainAdded(peers, peers')
                      /\ PlainRebound(peers, peers') \subseteq Rebound
                      /\ Complete(peers) =>
                           /\ PlainRemoved(peers, peers') = Gone
                           /\ PlainAdded(peers, peers') = Came
                           /\ PlainRebound(peers, peers') = Rebound \ Came
    OBVIOUS
  <2> DEFINE snapshot == peers'
  <2>1. /\ peers.health # "queued"
        /\ peer_dwell' = Reduced(peer_dwell, snapshot)
        /\ Complete(snapshot) <=> snapshot.failed_sources = {}
    BY AcceptedSteps
  <2> HIDE DEF snapshot
  <2>2. /\ PlainRemoved(peers, snapshot) \subseteq Gone
        /\ Came \subseteq PlainAdded(peers, snapshot)
        /\ PlainRebound(peers, snapshot) \subseteq Rebound
        /\ Complete(peers) =>
             /\ PlainRemoved(peers, snapshot) = Gone
             /\ PlainAdded(peers, snapshot) = Came
             /\ PlainRebound(peers, snapshot) = Rebound \ Came
    BY <2>1, StreamFollows
  <2> QED
    BY <2>2 DEF snapshot
<1>3. Init => CachedInvariant /\ CollectorTypeOK
  BY CachedInit, CollectorInit
<1> QED
  BY <1>1, <1>2, <1>3, PTL DEF Spec, PlainAgrees

-----------------------------------------------------------------------------
(***************************************************************************)
(* What the readings add up to for one neighbour.                          *)
(***************************************************************************)
LEMMA LeastNumber ==
  ASSUME NEW S \in SUBSET Nat, S # {}
  PROVE  \E n \in S : \A m \in S : ~ (m < n)
<1> DEFINE R == OpToRel(<, Nat)
<1>1. PICK n \in S : \A m \in S : ~ (<<m, n>> \in R)
  <2>1. IsWellFoundedOn(R, Nat)
    BY NatLessThanWellFounded
  <2> HIDE DEF R
  <2> QED
    BY <2>1, WFMin
<1> QED
  BY <1>1 DEF OpToRel

\* The peer after each reading of the first n (insert_peer_evidence).
Follows(f, readings, k, n) ==
  f = [i \in 0 .. n |->
        IF i = 0 THEN NONE
        ELSE IF Says(readings[i], k) THEN Inserted(f[i - 1], readings[i].rows[k])
        ELSE f[i - 1]]

LEMMA FollowsExists ==
  ASSUME NEW readings, NEW k, NEW n \in Nat
  PROVE  \E f : Follows(f, readings, k, n)
<1> DEFINE bad == {m \in Nat : ~ \E f : Follows(f, readings, k, m)}
<1>1. SUFFICES ASSUME bad # {} PROVE FALSE
  OBVIOUS
<1>2. PICK m \in bad : \A l \in bad : ~ (l < m)
  BY <1>1, LeastNumber
<1>3. CASE m = 0
  <2>1. Follows([i \in 0 .. m |-> NONE], readings, k, m)
    BY <1>3 DEF Follows
  <2> QED
    BY <2>1
<1>4. CASE m # 0
  <2>1. PICK f : Follows(f, readings, k, m - 1)
    <3>1. m - 1 \in Nat /\ m - 1 < m
      BY <1>4
    <3>2. m - 1 \notin bad
      BY <1>2, <3>1
    <3> QED
      BY <3>1, <3>2
  <2> DEFINE next(h, i) ==
               IF i = 0 THEN NONE
               ELSE IF Says(readings[i], k) THEN Inserted(h[i - 1], readings[i].rows[k])
               ELSE h[i - 1]
             g == [i \in 0 .. m |-> IF i = m THEN next(f, m) ELSE f[i]]
  <2>2. \A i \in 0 .. m : g[i] = IF i = m THEN next(f, m) ELSE f[i]
    OBVIOUS
  <2>3. \A i \in 0 .. (m - 1) : f[i] = next(f, i)
    BY <2>1 DEF Follows
  <2>4. ASSUME NEW i \in 0 .. m
        PROVE  g[i] = next(g, i)
    <3>1. i # 0 => g[i - 1] = f[i - 1]
      BY <2>2
    <3>2. g[i] = next(f, i)
      BY <2>2, <2>3
    <3> HIDE DEF g
    <3> QED
      BY <3>1, <3>2
  <2>5. Follows(g, readings, k, m)
    <3>1. g = [i \in 0 .. m |-> g[i]]
      OBVIOUS
    <3> HIDE DEF g
    <3> QED
      BY <2>4, <3>1 DEF Follows
  <2> QED
    BY <2>5
<1> QED
  BY <1>3, <1>4

\* One row merged into what the rows before it say.
LEMMA InsertedRow ==
  ASSUME NEW row \in Row, NEW peer \in Peer \cup {NONE}, NEW merged,
         merged = Inserted(peer, row)
  PROVE  /\ merged \in Peer
         /\ ~merged.binding_conflict =>
              \/ merged.mac = row.mac
              \/ peer # NONE /\ ~peer.binding_conflict /\ merged.mac = peer.mac
         /\ merged.state = IF peer = NONE \/ peer.state = NONE THEN row.state
                                                                ELSE peer.state
<1>1. CASE peer = NONE
  BY <1>1 DEF Inserted, FirstEvidence, Peer, Row
<1>2. CASE peer # NONE
  <2>1. peer \in Peer /\ merged = Merge(peer, row)
    BY <1>2 DEF Inserted
  <2>2. /\ peer.mac \in Macs \cup {NONE} /\ peer.state \in KernelStates \cup {NONE}
        /\ peer.binding_conflict \in BOOLEAN
        /\ row.mac \in Macs \cup {NONE} /\ row.state \in KernelStates \cup {NONE}
    BY <2>1 DEF Peer, Row
  <2> DEFINE conflict == /\ ~peer.binding_conflict
                         /\ peer.mac # NONE /\ row.mac # NONE /\ peer.mac # row.mac
             fills == ~peer.binding_conflict /\ peer.mac = NONE
             m == IF conflict THEN NONE ELSE IF fills THEN row.mac ELSE peer.mac
             s == IF peer.state = NONE THEN row.state ELSE peer.state
             b == peer.binding_conflict \/ conflict
  <2>3. merged = [mac |-> m, state |-> s, binding_conflict |-> b]
    BY <2>1 DEF Merge
  <2>4. m \in Macs \cup {NONE} /\ s \in KernelStates \cup {NONE} /\ b \in BOOLEAN
    BY <2>2
  <2>5. ~b => m = row.mac \/ (~peer.binding_conflict /\ m = peer.mac)
    BY <2>2
  <2>6. s = IF peer = NONE \/ peer.state = NONE THEN row.state ELSE peer.state
    BY <1>2
  <2> HIDE DEF m, s, b
  <2>7. merged \in Peer
    BY <2>3, <2>4 DEF Peer
  <2>8. merged.mac = m /\ merged.state = s /\ merged.binding_conflict = b
    BY <2>3
  <2> QED
    BY <1>2, <2>5, <2>6, <2>7, <2>8
<1> QED
  BY <1>1, <1>2

\* What the readings up to the n-th add up to is no more than their rows say.
Supported(peer, readings, k, n) ==
  /\ peer = NONE => \A i \in 1 .. n : ~Says(readings[i], k)
  /\ peer # NONE =>
       /\ peer \in Peer
       /\ \E i \in 1 .. n : Says(readings[i], k)
       /\ ~peer.binding_conflict =>
            \E i \in 1 .. n : Says(readings[i], k) /\ peer.mac = readings[i].rows[k].mac
       /\ peer.state # NONE =>
            \E i \in 1 .. n : Says(readings[i], k) /\ peer.state = readings[i].rows[k].state
       /\ peer.state = NONE =>
            \A i \in 1 .. n : Says(readings[i], k) => readings[i].rows[k].state = NONE

LEMMA RowsSupport ==
  ASSUME NEW readings \in Seq(Reading), NEW k
  PROVE  Supported(PeerRead(readings, k), readings, k, Len(readings))
<1> DEFINE n == Len(readings)
           f == CHOOSE h : Follows(h, readings, k, n)
<1>1. n \in Nat
  OBVIOUS
<1>2. Follows(f, readings, k, n)
  BY <1>1, FollowsExists
<1>3. PeerRead(readings, k) = f[n]
  BY DEF PeerRead, Follows
<1> HIDE DEF f
<1>4. /\ f[0] = NONE
      /\ \A i \in 1 .. n : f[i] = IF Says(readings[i], k)
                                  THEN Inserted(f[i - 1], readings[i].rows[k]) ELSE f[i - 1]
  BY <1>1, <1>2 DEF Follows
<1>5. ASSUME NEW i \in 1 .. n, Says(readings[i], k)
      PROVE  readings[i].rows[k] \in Row
  <2>1. readings[i] \in Reading
    OBVIOUS
  <2>2. readings[i].rows \in Table /\ k \in DOMAIN readings[i].rows
    BY <1>5, <2>1 DEF Reading, Says
  <2> QED
    BY <2>2, TableRows
<1> DEFINE bad == {m \in 0 .. n : ~Supported(f[m], readings, k, m)}
<1>6. SUFFICES ASSUME bad # {} PROVE FALSE
  <2>1. n \in 0 .. n
    BY <1>1
  <2> QED
    BY <1>3, <1>6, <2>1
<1>7. PICK m \in bad : \A l \in bad : ~ (l < m)
  <2>1. bad \in SUBSET Nat
    BY <1>1
  <2> HIDE DEF bad
  <2> QED
    BY <1>6, <2>1, LeastNumber
<1>8. m # 0
  BY <1>4, <1>7 DEF Supported
<1>9. m \in 1 .. n /\ m - 1 \in 0 .. n /\ m - 1 < m
  BY <1>1, <1>7, <1>8
<1>10. Supported(f[m - 1], readings, k, m - 1)
  BY <1>7, <1>9
<1>11. \A i : i \in 1 .. m <=> i \in 1 .. (m - 1) \/ i = m
  BY <1>9
<1> DEFINE row == readings[m].rows[k]
           before == f[m - 1]
           after == f[m]
<1>12. ~Supported(after, readings, k, m)
  BY <1>7
<1>13. CASE ~Says(readings[m], k)
  <2>1. after = before
    BY <1>4, <1>9, <1>13
  <2> HIDE DEF before, after
  <2>2. Supported(before, readings, k, m)
    BY <1>10, <1>11, <1>13 DEF Supported, before
  <2> QED
    BY <1>12, <2>1, <2>2
<1>14. CASE Says(readings[m], k)
  <2>1. after = Inserted(before, row) /\ row \in Row
    BY <1>4, <1>5, <1>9, <1>14
  <2>2. before \in Peer \cup {NONE}
    BY <1>10 DEF Supported
  <2>3. Supported(before, readings, k, m - 1)
    BY <1>10
  <2> HIDE DEF before, after
  <2>4. /\ after \in Peer
        /\ ~after.binding_conflict =>
             \/ after.mac = row.mac
             \/ before # NONE /\ ~before.binding_conflict /\ after.mac = before.mac
        /\ after.state = IF before = NONE \/ before.state = NONE THEN row.state
                                                                 ELSE before.state
    <3> HIDE DEF row
    <3> QED
      BY <2>1, <2>2, InsertedRow
  <2>5. after # NONE
    BY <2>4, NoneIsNoPeer
  <2>6. ~after.binding_conflict =>
          \E i \in 1 .. m : Says(readings[i], k) /\ after.mac = readings[i].rows[k].mac
    BY <1>11, <1>14, <2>3, <2>4 DEF Supported
  <2>7. after.state # NONE =>
          \E i \in 1 .. m : Says(readings[i], k) /\ after.state = readings[i].rows[k].state
    BY <1>11, <1>14, <2>3, <2>4 DEF Supported
  <2>8. after.state = NONE =>
          \A i \in 1 .. m : Says(readings[i], k) => readings[i].rows[k].state = NONE
    BY <1>11, <1>14, <2>3, <2>4 DEF Supported
  <2> QED
    BY <1>11, <1>12, <1>14, <2>4, <2>5, <2>6, <2>7, <2>8 DEF Supported
<1> QED
  BY <1>13, <1>14

-----------------------------------------------------------------------------
(***************************************************************************)
(* Churn is not invented: what the ledger has counted of a neighbour and   *)
(* what it would count if the kernel, or a row read on the way, reached it *)
(* now never exceed what the kernel did and the reads could not show.      *)
(***************************************************************************)
\* A source that prints the states of the rows of k.
StatesOf(source, k) == Prints[source].states /\ k \in Prints[source].keys

HasStates(k) == \E i \in DOMAIN Sources : StatesOf(Sources[i], k)

\* What the kernel changed since mac, or state, was read of k.
BindingLag(t, k, mac) == One(k \in DOMAIN t /\ t[k].mac # mac)
StateLag(t, k, state) ==
  IF k \in DOMAIN t /\ t[k].state # state
  THEN IF state # NONE THEN 2 ELSE One(HasStates(k))
  ELSE 0

\* What the ledger has counted of k, and what it would count for a row.
Bindings(dwells, k) == IF k \in DOMAIN dwells THEN dwells[k].binding_changes ELSE 0
States(dwells, k) == IF k \in DOMAIN dwells THEN dwells[k].state_changes ELSE 0
BindingCost(dwells, k, mac) ==
  One(/\ k \in DOMAIN dwells
      /\ ~dwells[k].latest.binding_conflict /\ dwells[k].latest.mac # mac)
StateCost(dwells, k, state) ==
  One(k \in DOMAIN dwells /\ dwells[k].latest.state # state)

\* The state changes that past accounts for.
Allowed(count) == 2 * (count.restated + count.printless)

\* An entry leaves room for the change that reading the kernel now would count.
DwellFits(t, k, d, count) ==
  /\ d.binding_changes
       + (IF d.latest.binding_conflict THEN 0 ELSE BindingLag(t, k, d.latest.mac))
       <= count.rebound
  /\ d.state_changes + StateLag(t, k, d.latest.state) <= Allowed(count)
  /\ d.latest.state # NONE => HasStates(k)

\* So does a row that was read and is not yet in the ledger; a source of states
\* that does not say k leaves room for a state lost and found again.
BindingFits(t, dwells, k, row, count) ==
  Bindings(dwells, k) + BindingCost(dwells, k, row.mac) + BindingLag(t, k, row.mac)
    <= count.rebound
StateFits(t, dwells, k, row, count) ==
  States(dwells, k) + StateCost(dwells, k, row.state) + StateLag(t, k, row.state)
    <= Allowed(count)
Spoken(t, k, readings) ==
  k \in DOMAIN t \/ \E i \in DOMAIN readings : Says(readings[i], k)

ReadingsFit(t, dwells, k, readings, count) ==
  \A i \in DOMAIN readings :
    /\ Says(readings[i], k) => BindingFits(t, dwells, k, readings[i].rows[k], count)
    /\ Says(readings[i], k) /\ StatesOf(Sources[i], k) =>
         StateFits(t, dwells, k, readings[i].rows[k], count)
    /\ ~Says(readings[i], k) /\ StatesOf(Sources[i], k) /\ Spoken(t, k, readings) =>
         States(dwells, k) + 2 <= Allowed(count)

\* What a source printed, it prints.
ReadingsPrinted(readings) ==
  /\ Len(readings) <= Len(Sources)
  /\ \A i \in DOMAIN readings : \A k \in Keys : Says(readings[i], k) =>
       /\ k \in Prints[Sources[i]].keys
       /\ readings[i].rows[k].state # NONE => Prints[Sources[i]].states

ChangeInvariant ==
  /\ ReadingsPrinted(job.readings)
  /\ DOMAIN peer_dwell \subseteq Keys
  /\ \A k \in Keys :
       /\ k \in DOMAIN peer_dwell => DwellFits(table, k, peer_dwell[k], past[k])
       /\ job.generation = generation =>
            ReadingsFit(table, peer_dwell, k, job.readings, past[k])

\* What the kernel or a read does to a neighbour pays for what it may cost.
Room(t, count, t2, count2, k) ==
  /\ \A m : BindingLag(t2, k, m) + count.rebound <= BindingLag(t, k, m) + count2.rebound
  /\ \A s : StateLag(t2, k, s) + Allowed(count) <= StateLag(t, k, s) + Allowed(count2)
  /\ count.rebound <= count2.rebound /\ Allowed(count) <= Allowed(count2)
  /\ k \in DOMAIN t2 /\ k \notin DOMAIN t => Allowed(count) + 2 <= Allowed(count2)

LEMMA CountsAllow ==
  ASSUME NEW count \in Counts
  PROVE  /\ count.rebound \in Nat /\ count.restated \in Nat /\ count.printless \in Nat
         /\ Allowed(count) \in Nat
BY DEF Counts, Allowed

LEMMA LagsAreSmall ==
  ASSUME NEW t, NEW k, NEW x
  PROVE  BindingLag(t, k, x) \in {0, 1} /\ StateLag(t, k, x) \in {0, 1, 2}
BY DEF BindingLag, StateLag, One

LEMMA RoomKept ==
  ASSUME NEW count \in Counts, NEW count2 \in Counts, NEW t, NEW t2, NEW k,
         k \in DOMAIN t2 => k \in DOMAIN t /\ t2[k] = t[k],
         count2.rebound = count.rebound, count2.restated = count.restated,
         count2.printless >= count.printless
  PROVE  Room(t, count, t2, count2, k)
<1>1. /\ count.rebound \in Nat /\ Allowed(count) \in Nat /\ Allowed(count2) \in Nat
      /\ Allowed(count) <= Allowed(count2)
  BY CountsAllow DEF Allowed
<1>2. \A x : BindingLag(t2, k, x) \in {0, 1} /\ BindingLag(t, k, x) \in {0, 1}
             /\ BindingLag(t2, k, x) <= BindingLag(t, k, x)
  BY DEF BindingLag, One
<1>3. \A x : StateLag(t2, k, x) \in {0, 1, 2} /\ StateLag(t, k, x) \in {0, 1, 2}
             /\ StateLag(t2, k, x) <= StateLag(t, k, x)
  BY DEF StateLag, One
<1>4. \A m : BindingLag(t2, k, m) + count.rebound <= BindingLag(t, k, m) + count2.rebound
  BY <1>1, <1>2
<1>5. \A s : StateLag(t2, k, s) + Allowed(count) <= StateLag(t, k, s) + Allowed(count2)
  <2>1. SUFFICES ASSUME NEW s
                 PROVE  StateLag(t2, k, s) + Allowed(count)
                          <= StateLag(t, k, s) + Allowed(count2)
    OBVIOUS
  <2>2. /\ StateLag(t2, k, s) \in {0, 1, 2} /\ StateLag(t, k, s) \in {0, 1, 2}
        /\ StateLag(t2, k, s) <= StateLag(t, k, s)
    BY <1>3
  <2> QED
    BY <1>1, <2>2
<1> QED
  BY <1>1, <1>4, <1>5 DEF Room

LEMMA RoomMade ==
  ASSUME NEW count \in Counts, NEW count2 \in Counts, NEW t, NEW t2, NEW k,
         k \in DOMAIN t2,
         count2.rebound = count.rebound + One(k \notin DOMAIN t \/ t[k].mac # t2[k].mac),
         count2.restated = count.restated + One(k \notin DOMAIN t \/ t[k].state # t2[k].state),
         count2.printless = count.printless
  PROVE  Room(t, count, t2, count2, k)
<1>1. /\ count.rebound \in Nat /\ Allowed(count) \in Nat
      /\ count2.rebound = count.rebound + One(k \notin DOMAIN t \/ t[k].mac # t2[k].mac)
      /\ Allowed(count2) =
           Allowed(count) + 2 * One(k \notin DOMAIN t \/ t[k].state # t2[k].state)
  BY CountsAllow DEF Allowed, One
<1>2. \A m : BindingLag(t2, k, m) + count.rebound <= BindingLag(t, k, m) + count2.rebound
  <2>1. SUFFICES ASSUME NEW m
                 PROVE  BindingLag(t2, k, m) + count.rebound
                          <= BindingLag(t, k, m) + count2.rebound
    OBVIOUS
  <2>2. /\ BindingLag(t2, k, m) \in {0, 1} /\ BindingLag(t, k, m) \in {0, 1}
        /\ BindingLag(t2, k, m) <= BindingLag(t, k, m)
                                   + One(k \notin DOMAIN t \/ t[k].mac # t2[k].mac)
    BY DEF BindingLag, One
  <2>3. One(k \notin DOMAIN t \/ t[k].mac # t2[k].mac) \in {0, 1}
    BY DEF One
  <2> QED
    BY <1>1, <2>2, <2>3
<1>3. \A s : StateLag(t2, k, s) + Allowed(count) <= StateLag(t, k, s) + Allowed(count2)
  <2>1. SUFFICES ASSUME NEW s
                 PROVE  StateLag(t2, k, s) + Allowed(count)
                          <= StateLag(t, k, s) + Allowed(count2)
    OBVIOUS
  <2>2. /\ StateLag(t2, k, s) \in {0, 1, 2} /\ StateLag(t, k, s) \in {0, 1, 2}
        /\ StateLag(t2, k, s) <= StateLag(t, k, s)
                                 + 2 * One(k \notin DOMAIN t \/ t[k].state # t2[k].state)
    BY DEF StateLag, One
  <2>3. One(k \notin DOMAIN t \/ t[k].state # t2[k].state) \in {0, 1}
    BY DEF One
  <2> QED
    BY <1>1, <2>2, <2>3
<1>4. k \notin DOMAIN t => Allowed(count) + 2 <= Allowed(count2)
  BY <1>1 DEF One
<1>5. count.rebound <= count2.rebound /\ Allowed(count) <= Allowed(count2)
  BY <1>1 DEF One
<1> QED
  BY <1>2, <1>3, <1>4, <1>5 DEF Room

LEMMA DwellStillFits ==
  ASSUME NEW count \in Counts, NEW count2 \in Counts, NEW t, NEW t2, NEW k,
         Room(t, count, t2, count2, k), NEW d, Entry(d), DwellFits(t, k, d, count)
  PROVE  DwellFits(t2, k, d, count2)
<1> DEFINE m == d.latest.mac
           s == d.latest.state
<1>1. /\ count.rebound \in Nat /\ count2.rebound \in Nat /\ Allowed(count) \in Nat
      /\ Allowed(count2) \in Nat /\ d.binding_changes \in Nat /\ d.state_changes \in Nat
  BY CountsAllow DEF Entry
<1>2. /\ BindingLag(t, k, m) \in {0, 1} /\ BindingLag(t2, k, m) \in {0, 1}
      /\ StateLag(t, k, s) \in {0, 1, 2} /\ StateLag(t2, k, s) \in {0, 1, 2}
  BY LagsAreSmall
<1>3. /\ BindingLag(t2, k, m) + count.rebound <= BindingLag(t, k, m) + count2.rebound
      /\ StateLag(t2, k, s) + Allowed(count) <= StateLag(t, k, s) + Allowed(count2)
      /\ count.rebound <= count2.rebound
  BY DEF Room
<1>4. /\ d.binding_changes + (IF d.latest.binding_conflict THEN 0 ELSE BindingLag(t, k, m))
           <= count.rebound
      /\ d.state_changes + StateLag(t, k, s) <= Allowed(count)
      /\ s # NONE => HasStates(k)
  BY DEF DwellFits
<1>5. d.binding_changes + (IF d.latest.binding_conflict THEN 0 ELSE BindingLag(t2, k, m))
        <= count2.rebound
  BY <1>1, <1>2, <1>3, <1>4
<1>6. d.state_changes + StateLag(t2, k, s) <= Allowed(count2)
  BY <1>1, <1>2, <1>3, <1>4
<1> QED
  BY <1>4, <1>5, <1>6 DEF DwellFits

\* What the ledger has counted stays within what past accounts for.
LEMMA CountedFits ==
  ASSUME NEW count \in Counts, NEW t, NEW k, NEW dwells,
         k \in DOMAIN dwells => Entry(dwells[k]) /\ DwellFits(t, k, dwells[k], count)
  PROVE  /\ Bindings(dwells, k) \in Nat /\ Bindings(dwells, k) <= count.rebound
         /\ States(dwells, k) \in Nat /\ States(dwells, k) <= Allowed(count)
<1>1. count.rebound \in Nat /\ Allowed(count) \in Nat
  BY CountsAllow
<1>2. CASE k \notin DOMAIN dwells
  BY <1>1, <1>2 DEF Bindings, States
<1>3. CASE k \in DOMAIN dwells
  <2> DEFINE d == dwells[k]
             bl == BindingLag(t, k, d.latest.mac)
             sl == StateLag(t, k, d.latest.state)
  <2>1. /\ d.binding_changes \in Nat /\ d.state_changes \in Nat
        /\ d.binding_changes + (IF d.latest.binding_conflict THEN 0 ELSE bl) <= count.rebound
        /\ d.state_changes + sl <= Allowed(count)
    BY <1>3 DEF Entry, DwellFits
  <2>2. bl \in {0, 1} /\ sl \in {0, 1, 2}
    BY LagsAreSmall
  <2> HIDE DEF bl, sl
  <2>3. d.binding_changes <= count.rebound /\ d.state_changes <= Allowed(count)
    BY <1>1, <2>1, <2>2
  <2> QED
    BY <1>3, <2>1, <2>3 DEF Bindings, States
<1> QED
  BY <1>2, <1>3

LEMMA CostsAreSmall ==
  ASSUME NEW dwells, NEW k, NEW x
  PROVE  BindingCost(dwells, k, x) \in {0, 1} /\ StateCost(dwells, k, x) \in {0, 1}
BY DEF BindingCost, StateCost, One

LEMMA ReadingsStillFit ==
  ASSUME NEW count \in Counts, NEW count2 \in Counts, NEW t, NEW t2, NEW k,
         Room(t, count, t2, count2, k), NEW dwells, NEW readings,
         k \in DOMAIN dwells => Entry(dwells[k]) /\ DwellFits(t, k, dwells[k], count),
         ReadingsFit(t, dwells, k, readings, count)
  PROVE  ReadingsFit(t2, dwells, k, readings, count2)
<1>1. /\ count.rebound \in Nat /\ count2.rebound \in Nat /\ Allowed(count) \in Nat
      /\ Allowed(count2) \in Nat
  BY CountsAllow
<1>2. /\ Bindings(dwells, k) \in Nat
      /\ States(dwells, k) \in Nat /\ States(dwells, k) <= Allowed(count)
  BY CountedFits
<1>3. /\ count.rebound <= count2.rebound /\ Allowed(count) <= Allowed(count2)
      /\ k \in DOMAIN t2 /\ k \notin DOMAIN t => Allowed(count) + 2 <= Allowed(count2)
  BY DEF Room
<1>4. ASSUME NEW i \in DOMAIN readings, Says(readings[i], k)
      PROVE  BindingFits(t2, dwells, k, readings[i].rows[k], count2)
  <2> DEFINE m == readings[i].rows[k].mac
             cost == BindingCost(dwells, k, m)
             lag == BindingLag(t, k, m)
             lag2 == BindingLag(t2, k, m)
  <2>1. Bindings(dwells, k) + cost + lag <= count.rebound
    BY <1>4 DEF ReadingsFit, BindingFits
  <2>2. lag2 + count.rebound <= lag + count2.rebound
    BY DEF Room
  <2>3. cost \in {0, 1} /\ lag \in {0, 1} /\ lag2 \in {0, 1}
    BY LagsAreSmall, CostsAreSmall
  <2> HIDE DEF cost, lag, lag2
  <2>4. Bindings(dwells, k) + cost + lag2 <= count2.rebound
    BY <1>1, <1>2, <2>1, <2>2, <2>3
  <2> QED
    BY <2>4 DEF BindingFits, cost, lag2
<1>5. ASSUME NEW i \in DOMAIN readings, Says(readings[i], k), StatesOf(Sources[i], k)
      PROVE  StateFits(t2, dwells, k, readings[i].rows[k], count2)
  <2> DEFINE s == readings[i].rows[k].state
             cost == StateCost(dwells, k, s)
             lag == StateLag(t, k, s)
             lag2 == StateLag(t2, k, s)
  <2>1. States(dwells, k) + cost + lag <= Allowed(count)
    BY <1>5 DEF ReadingsFit, StateFits
  <2>2. lag2 + Allowed(count) <= lag + Allowed(count2)
    BY DEF Room
  <2>3. cost \in {0, 1} /\ lag \in {0, 1, 2} /\ lag2 \in {0, 1, 2}
    BY LagsAreSmall, CostsAreSmall
  <2> HIDE DEF cost, lag, lag2
  <2>4. States(dwells, k) + cost + lag2 <= Allowed(count2)
    BY <1>1, <1>2, <2>1, <2>2, <2>3
  <2> QED
    BY <2>4 DEF StateFits, cost, lag2
<1>6. ASSUME NEW i \in DOMAIN readings, ~Says(readings[i], k), StatesOf(Sources[i], k),
             Spoken(t2, k, readings)
      PROVE  States(dwells, k) + 2 <= Allowed(count2)
  <2>1. CASE Spoken(t, k, readings)
    <3>1. States(dwells, k) + 2 <= Allowed(count)
      BY <1>6, <2>1 DEF ReadingsFit
    <3> QED
      BY <1>1, <1>2, <1>3, <3>1
  <2>2. CASE ~Spoken(t, k, readings)
    <3>1. k \in DOMAIN t2 /\ k \notin DOMAIN t
      BY <1>6, <2>2 DEF Spoken
    <3> QED
      BY <1>1, <1>2, <1>3, <3>1
  <2> QED
    BY <2>1, <2>2
<1> QED
  BY <1>4, <1>5, <1>6 DEF ReadingsFit

\* A row just read of the kernel's table costs no more than the ledger leaves.
LEMMA RowFits ==
  ASSUME NEW count \in Counts, NEW t, NEW k \in DOMAIN t, NEW dwells, NEW row,
         k \in DOMAIN dwells => Entry(dwells[k]) /\ DwellFits(t, k, dwells[k], count),
         row.mac = t[k].mac
  PROVE  /\ BindingFits(t, dwells, k, row, count)
         /\ row.state = t[k].state /\ HasStates(k) => StateFits(t, dwells, k, row, count)
<1>1. count.rebound \in Nat /\ Allowed(count) \in Nat
  BY CountsAllow
<1>2. BindingLag(t, k, row.mac) = 0
  BY DEF BindingLag, One
<1>3. row.state = t[k].state => StateLag(t, k, row.state) = 0
  BY DEF StateLag
<1>4. CASE k \notin DOMAIN dwells
  <2>1. /\ Bindings(dwells, k) = 0 /\ States(dwells, k) = 0
        /\ BindingCost(dwells, k, row.mac) = 0 /\ StateCost(dwells, k, row.state) = 0
    BY <1>4 DEF Bindings, States, BindingCost, StateCost, One
  <2> QED
    BY <1>1, <1>2, <1>3, <2>1 DEF BindingFits, StateFits
<1>5. CASE k \in DOMAIN dwells
  <2> DEFINE d == dwells[k]
  <2>1. /\ d.binding_changes \in Nat /\ d.state_changes \in Nat
        /\ d.binding_changes
             + (IF d.latest.binding_conflict THEN 0 ELSE BindingLag(t, k, d.latest.mac))
             <= count.rebound
        /\ d.state_changes + StateLag(t, k, d.latest.state) <= Allowed(count)
    BY <1>5 DEF Entry, DwellFits
  <2>2. Bindings(dwells, k) = d.binding_changes /\ States(dwells, k) = d.state_changes
    BY <1>5 DEF Bindings, States
  <2>3. BindingCost(dwells, k, row.mac) =
          IF d.latest.binding_conflict THEN 0 ELSE BindingLag(t, k, d.latest.mac)
    BY <1>5 DEF BindingCost, BindingLag, One
  <2>4. /\ row.state = t[k].state /\ HasStates(k) =>
             StateCost(dwells, k, row.state) <= StateLag(t, k, d.latest.state)
        /\ StateCost(dwells, k, row.state) \in {0, 1}
        /\ StateLag(t, k, d.latest.state) \in {0, 1, 2}
    BY <1>5 DEF StateCost, StateLag, One
  <2>5. BindingCost(dwells, k, row.mac) \in {0, 1}
    BY CostsAreSmall
  <2> HIDE DEF d
  <2>6. BindingFits(t, dwells, k, row, count)
    BY <1>1, <1>2, <2>1, <2>2, <2>3, <2>5 DEF BindingFits
  <2>7. row.state = t[k].state /\ HasStates(k) => StateFits(t, dwells, k, row, count)
    BY <1>1, <1>3, <2>1, <2>2, <2>4 DEF StateFits
  <2> QED
    BY <2>6, <2>7
<1> QED
  BY <1>4, <1>5

\* What one source adds: a neighbour in the table whose row it prints, and if it
\* prints states but not this one, a state that may be lost and found again.
LEMMA OneReading ==
  ASSUME NEW t \in Table, NEW source, NEW outcome \in Outcomes, NEW reading,
         reading = ReadingOf(source, outcome, t), NEW k
  PROVE  /\ Says(reading, k) =>
              /\ k \in DOMAIN t /\ k \in Prints[source].keys
              /\ reading.rows[k].mac = t[k].mac
              /\ reading.rows[k].state = IF Prints[source].states THEN t[k].state ELSE NONE
         /\ ~Says(reading, k) /\ k \in Prints[source].keys =>
              k \notin DOMAIN t \/ outcome # "whole"
<1>1. /\ reading.outcome = outcome
      /\ reading.rows = IF outcome = "whole" THEN Printed(source, t) ELSE <<>>
  BY DEF ReadingOf
<1>2. /\ DOMAIN Printed(source, t) = DOMAIN t \cap Prints[source].keys
      /\ \A l \in DOMAIN Printed(source, t) :
           /\ Printed(source, t)[l].mac = t[l].mac
           /\ Printed(source, t)[l].state = IF Prints[source].states THEN t[l].state ELSE NONE
  BY PrintedRows
<1>3. CASE outcome = "whole"
  BY <1>1, <1>2, <1>3 DEF Says
<1>4. CASE outcome # "whole"
  BY <1>1, <1>4 DEF Says
<1> QED
  BY <1>3, <1>4

LEMMA MoreReadings ==
  ASSUME NEW readings \in Seq(Reading), NEW reading
  PROVE  LET more == Append(readings, reading) IN
         /\ DOMAIN readings = 1 .. Len(readings) /\ Len(readings) \in Nat
         /\ Len(more) = Len(readings) + 1
         /\ DOMAIN more = 1 .. (Len(readings) + 1)
         /\ more[Len(readings) + 1] = reading
         /\ \A i \in DOMAIN readings : more[i] = readings[i]
<1>1. /\ DOMAIN readings = 1 .. Len(readings) /\ Len(readings) \in Nat
      /\ \A i \in DOMAIN readings : Append(readings, reading)[i] = readings[i]
  OBVIOUS
<1>2. /\ Append(readings, reading)[Len(readings) + 1] = reading
      /\ Len(Append(readings, reading)) = Len(readings) + 1
      /\ DOMAIN Append(readings, reading) = 1 .. (Len(readings) + 1)
  OBVIOUS
<1> QED
  BY <1>1, <1>2

LEMMA NextPrinted ==
  ASSUME NEW readings \in Seq(Reading), Len(readings) < Len(Sources),
         ReadingsPrinted(readings), NEW t \in Table, NEW outcome \in Outcomes,
         NEW source, source = Sources[Len(readings) + 1],
         NEW reading, reading = ReadingOf(source, outcome, t)
  PROVE  ReadingsPrinted(Append(readings, reading))
<1> DEFINE n == Len(readings)
           more == Append(readings, reading)
<1>1. /\ DOMAIN readings = 1 .. n /\ n \in Nat
      /\ Len(more) = n + 1 /\ DOMAIN more = 1 .. (n + 1)
      /\ more[n + 1] = reading /\ \A i \in DOMAIN readings : more[i] = readings[i]
  BY MoreReadings
<1>2. Len(Sources) \in Nat
  BY SourcesAssumption
<1> HIDE DEF more
<1>3. ASSUME NEW i \in DOMAIN more, NEW k \in Keys, Says(more[i], k)
      PROVE  /\ k \in Prints[Sources[i]].keys
             /\ more[i].rows[k].state # NONE => Prints[Sources[i]].states
  <2>1. CASE i \in DOMAIN readings
    BY <1>1, <1>3, <2>1 DEF ReadingsPrinted
  <2>2. CASE i \notin DOMAIN readings
    <3>1. i = n + 1 /\ more[i] = reading /\ Sources[i] = source
      BY <1>1, <2>2
    <3>2. /\ k \in Prints[source].keys
          /\ reading.rows[k].state = IF Prints[source].states THEN t[k].state ELSE NONE
      BY <1>3, <3>1, OneReading
    <3> QED
      BY <3>1, <3>2
  <2> QED
    BY <2>1, <2>2
<1> QED
  BY <1>1, <1>2, <1>3 DEF ReadingsPrinted, more

LEMMA NextFits ==
  ASSUME NEW readings \in Seq(Reading), Len(readings) < Len(Sources),
         ReadingsPrinted(readings), NEW t \in Table, NEW outcome \in Outcomes,
         NEW source, source = Sources[Len(readings) + 1],
         NEW reading, reading = ReadingOf(source, outcome, t),
         NEW k \in Keys, NEW count \in Counts, NEW count2 \in Counts,
         count2.rebound = count.rebound, count2.restated = count.restated,
         count2.printless = count.printless
           + One(outcome # "whole" /\ Prints[source].states /\ k \in Prints[source].keys),
         NEW dwells,
         k \in DOMAIN dwells => Entry(dwells[k]) /\ DwellFits(t, k, dwells[k], count),
         ReadingsFit(t, dwells, k, readings, count)
  PROVE  /\ k \in DOMAIN dwells => DwellFits(t, k, dwells[k], count2)
         /\ ReadingsFit(t, dwells, k, Append(readings, reading), count2)
<1> DEFINE n == Len(readings)
           more == Append(readings, reading)
<1>1. /\ DOMAIN readings = 1 .. n /\ n \in Nat
      /\ Len(more) = n + 1 /\ DOMAIN more = 1 .. (n + 1)
      /\ more[n + 1] = reading /\ \A i \in DOMAIN readings : more[i] = readings[i]
  BY MoreReadings
<1>2. Len(Sources) \in Nat /\ DOMAIN Sources = 1 .. Len(Sources)
  BY SourcesAssumption
<1> HIDE DEF more
<1>3. Room(t, count, t, count2, k)
  <2>1. count.printless \in Nat /\ count2.printless >= count.printless
    BY CountsAllow DEF One
  <2> QED
    BY <2>1, RoomKept
<1>4. k \in DOMAIN dwells => DwellFits(t, k, dwells[k], count2)
  BY <1>3, DwellStillFits
<1>5. ReadingsFit(t, dwells, k, readings, count2)
  BY <1>3, ReadingsStillFit
<1>6. /\ Says(reading, k) =>
           /\ k \in DOMAIN t /\ k \in Prints[source].keys
           /\ reading.rows[k].mac = t[k].mac
           /\ reading.rows[k].state = IF Prints[source].states THEN t[k].state ELSE NONE
      /\ ~Says(reading, k) /\ k \in Prints[source].keys =>
           k \notin DOMAIN t \/ outcome # "whole"
  BY OneReading
<1>7. Spoken(t, k, more) => Spoken(t, k, readings)
  <2>1. \A i \in DOMAIN more : i \in DOMAIN readings \/ i = n + 1
    BY <1>1
  <2> QED
    BY <1>1, <1>6, <2>1 DEF Spoken
<1>8. Sources[n + 1] = source /\ n + 1 \in DOMAIN Sources
  BY <1>1, <1>2
<1>9. ASSUME Says(reading, k)
      PROVE  /\ BindingFits(t, dwells, k, reading.rows[k], count2)
             /\ StatesOf(source, k) => StateFits(t, dwells, k, reading.rows[k], count2)
  <2> DEFINE row == reading.rows[k]
  <2>1. k \in DOMAIN t /\ row.mac = t[k].mac
    BY <1>6, <1>9
  <2>2. StatesOf(source, k) => row.state = t[k].state /\ HasStates(k)
    BY <1>6, <1>8, <1>9 DEF StatesOf, HasStates
  <2> HIDE DEF row
  <2>3. /\ BindingFits(t, dwells, k, row, count2)
        /\ row.state = t[k].state /\ HasStates(k) => StateFits(t, dwells, k, row, count2)
    BY <1>4, <2>1, RowFits
  <2> QED
    BY <2>2, <2>3 DEF row
<1>10. ASSUME ~Says(reading, k), StatesOf(source, k), Spoken(t, k, readings)
       PROVE  States(dwells, k) + 2 <= Allowed(count2)
  <2>1. /\ States(dwells, k) \in Nat /\ States(dwells, k) <= Allowed(count)
        /\ Allowed(count) \in Nat
    BY CountedFits, CountsAllow
  <2>2. CASE outcome # "whole"
    <3>1. count2.printless = count.printless + 1
      BY <1>10, <2>2 DEF StatesOf, One
    <3>2. Allowed(count2) = Allowed(count) + 2
      BY SMTT(40), <3>1, CountsAllow DEF Allowed
    <3> QED
      BY <2>1, <3>2
  <2>3. CASE outcome = "whole"
    <3>1. k \notin DOMAIN t
      BY <1>6, <1>10, <2>3 DEF StatesOf
    <3>2. PICK i \in DOMAIN readings : Says(readings[i], k)
      BY <1>10, <3>1 DEF Spoken
    <3>3. k \in Prints[Sources[i]].keys /\ i < n + 1 /\ i \in DOMAIN Sources
      BY <1>1, <1>2, <3>2 DEF ReadingsPrinted
    <3>4. Prints[Sources[i]].keys \cap Prints[Sources[n + 1]].keys = {}
      BY <1>8, <1>10, <3>3, SourcesAssumption DEF StatesOf
    <3> QED
      BY <1>8, <1>10, <3>3, <3>4 DEF StatesOf
  <2> QED
    BY <2>2, <2>3
<1>11. ReadingsFit(t, dwells, k, more, count2)
  <2>1. SUFFICES ASSUME NEW i \in DOMAIN more
                 PROVE  /\ Says(more[i], k) =>
                             BindingFits(t, dwells, k, more[i].rows[k], count2)
                        /\ Says(more[i], k) /\ StatesOf(Sources[i], k) =>
                             StateFits(t, dwells, k, more[i].rows[k], count2)
                        /\ ~Says(more[i], k) /\ StatesOf(Sources[i], k) /\ Spoken(t, k, more) =>
                             States(dwells, k) + 2 <= Allowed(count2)
    BY DEF ReadingsFit
  <2>2. CASE i \in DOMAIN readings
    BY <1>1, <1>5, <1>7, <2>2 DEF ReadingsFit
  <2>3. CASE i \notin DOMAIN readings
    <3>1. more[i] = reading /\ Sources[i] = source
      BY <1>1, <1>8, <2>3
    <3> QED
      BY <1>7, <1>9, <1>10, <3>1
  <2> QED
    BY <2>2, <2>3
<1> QED
  BY <1>4, <1>11 DEF more

\* A read that is complete pays for what the ledger counts of it.
LEMMA StatesFit ==
  ASSUME NEW readings \in Seq(Reading), Len(readings) = Len(Sources),
         ReadingsPrinted(readings), NEW t, NEW k \in Keys, NEW count \in Counts, NEW dwells,
         k \in DOMAIN dwells => Entry(dwells[k]) /\ DwellFits(t, k, dwells[k], count),
         ReadingsFit(t, dwells, k, readings, count),
         NEW peer, peer # NONE, Supported(peer, readings, k, Len(readings))
  PROVE  /\ States(dwells, k) + StateCost(dwells, k, peer.state) + StateLag(t, k, peer.state)
              <= Allowed(count)
         /\ peer.state # NONE => HasStates(k)
<1>1. /\ DOMAIN readings = 1 .. Len(readings) /\ DOMAIN Sources = 1 .. Len(Sources)
  BY SourcesAssumption
<1>2. /\ States(dwells, k) \in Nat /\ States(dwells, k) <= Allowed(count)
      /\ Allowed(count) \in Nat
  BY CountedFits, CountsAllow
<1>3. CASE peer.state # NONE
  <2>1. PICK i \in DOMAIN readings :
          Says(readings[i], k) /\ peer.state = readings[i].rows[k].state
    BY <1>1, <1>3 DEF Supported
  <2>2. StatesOf(Sources[i], k)
    BY <1>3, <2>1 DEF ReadingsPrinted, StatesOf
  <2>3. HasStates(k)
    BY <1>1, <2>2 DEF HasStates
  <2>4. StateFits(t, dwells, k, readings[i].rows[k], count)
    BY <2>1, <2>2 DEF ReadingsFit
  <2> QED
    BY <2>1, <2>3, <2>4 DEF StateFits
<1>4. CASE peer.state = NONE /\ HasStates(k)
  <2>1. PICK i \in DOMAIN readings : StatesOf(Sources[i], k)
    BY <1>1, <1>4 DEF HasStates
  <2>2. CASE Says(readings[i], k)
    <3>1. readings[i].rows[k].state = NONE
      BY <1>1, <1>4, <2>2 DEF Supported
    <3>2. StateFits(t, dwells, k, readings[i].rows[k], count)
      BY <2>1, <2>2 DEF ReadingsFit
    <3> QED
      BY <1>4, <3>1, <3>2 DEF StateFits
  <2>3. CASE ~Says(readings[i], k)
    <3>1. Spoken(t, k, readings)
      BY <1>1 DEF Supported, Spoken
    <3>2. States(dwells, k) + 2 <= Allowed(count)
      BY <2>1, <2>3, <3>1 DEF ReadingsFit
    <3>3. StateLag(t, k, NONE) \in {0, 1}
      BY DEF StateLag, One
    <3>4. StateCost(dwells, k, NONE) \in {0, 1}
      BY CostsAreSmall
    <3>5. States(dwells, k) + StateCost(dwells, k, NONE) + StateLag(t, k, NONE)
            <= Allowed(count)
      BY <1>2, <3>2, <3>3, <3>4
    <3> QED
      BY <1>4, <3>5
  <2> QED
    BY <2>2, <2>3
<1>5. CASE peer.state = NONE /\ ~HasStates(k)
  <2>1. StateLag(t, k, NONE) = 0
    BY <1>5 DEF StateLag, One
  <2>2. StateCost(dwells, k, NONE) = 0
    BY <1>5 DEF StateCost, DwellFits, One
  <2> QED
    BY <1>2, <1>5, <2>1, <2>2
<1> QED
  BY <1>3, <1>4, <1>5

LEMMA BindingsFit ==
  ASSUME NEW readings \in Seq(Reading), NEW t, NEW k \in Keys, NEW count \in Counts,
         NEW dwells,
         k \in DOMAIN dwells => Entry(dwells[k]) /\ DwellFits(t, k, dwells[k], count),
         ReadingsFit(t, dwells, k, readings, count),
         NEW peer, peer # NONE, Supported(peer, readings, k, Len(readings))
  PROVE  IF peer.binding_conflict
         THEN Bindings(dwells, k) <= count.rebound
         ELSE Bindings(dwells, k) + BindingCost(dwells, k, peer.mac)
                + BindingLag(t, k, peer.mac) <= count.rebound
<1>1. CASE peer.binding_conflict
  BY <1>1, CountedFits
<1>2. CASE ~peer.binding_conflict
  <2>1. PICK i \in DOMAIN readings :
          Says(readings[i], k) /\ peer.mac = readings[i].rows[k].mac
    <3>1. DOMAIN readings = 1 .. Len(readings)
      OBVIOUS
    <3> QED
      BY <1>2, <3>1 DEF Supported
  <2>2. BindingFits(t, dwells, k, readings[i].rows[k], count)
    BY <2>1 DEF ReadingsFit
  <2> QED
    BY <1>2, <2>1, <2>2 DEF BindingFits
<1> QED
  BY <1>1, <1>2

LEMMA EntryFits ==
  ASSUME NEW readings \in Seq(Reading), Len(readings) = Len(Sources),
         ReadingsPrinted(readings), NEW t, NEW k \in Keys, NEW count \in Counts, NEW dwells,
         k \in DOMAIN dwells => Entry(dwells[k]) /\ DwellFits(t, k, dwells[k], count),
         ReadingsFit(t, dwells, k, readings, count),
         NEW snapshot,
         k \in DOMAIN snapshot.peers =>
           snapshot.peers[k] = PeerRead(readings, k) /\ PeerRead(readings, k) # NONE,
         NEW new, EntryOf(new, dwells, snapshot, k)
  PROVE  DwellFits(t, k, new[k], count)
<1> DEFINE e == new[k]
           d == dwells[k]
           p == snapshot.peers[k]
<1>1. CASE k \notin DOMAIN snapshot.peers
  <2>1. k \in DOMAIN dwells /\ Entry(d) /\ (e = d \/ e = Absent(d))
    BY <1>1 DEF EntryOf
  <2>2. /\ e.binding_changes = d.binding_changes /\ e.state_changes = d.state_changes
        /\ e.latest = d.latest
    <3> HIDE DEF d, e
    <3> QED
      BY <2>1, EntryGone
  <2>3. DwellFits(t, k, d, count)
    BY <2>1
  <2> HIDE DEF d, e
  <2>4. DwellFits(t, k, e, count)
    BY <2>2, <2>3 DEF DwellFits
  <2> QED
    BY <2>4 DEF e
<1>2. CASE k \in DOMAIN snapshot.peers
  <2>1. Supported(p, readings, k, Len(readings)) /\ p # NONE
    BY <1>2, RowsSupport
  <2>2. p \in Peer
    BY <2>1 DEF Supported
  <2>3. p.binding_conflict \in BOOLEAN
    BY <2>2 DEF Peer
  <2>4. IF p.binding_conflict
        THEN Bindings(dwells, k) <= count.rebound
        ELSE Bindings(dwells, k) + BindingCost(dwells, k, p.mac) + BindingLag(t, k, p.mac)
               <= count.rebound
    <3> HIDE DEF p
    <3> QED
      BY <2>1, BindingsFit
  <2>5. /\ States(dwells, k) + StateCost(dwells, k, p.state) + StateLag(t, k, p.state)
             <= Allowed(count)
        /\ p.state # NONE => HasStates(k)
    <3> HIDE DEF p
    <3> QED
      BY <2>1, StatesFit
  <2>6. /\ e.latest = p
        /\ e.binding_changes = Bindings(dwells, k)
             + (IF p.binding_conflict THEN 0 ELSE BindingCost(dwells, k, p.mac))
        /\ e.state_changes = States(dwells, k) + StateCost(dwells, k, p.state)
    <3>1. CASE k \notin DOMAIN dwells /\ e = FirstDwell(p)
      <4>1. e.latest = p /\ e.binding_changes = 0 /\ e.state_changes = 0
        BY <3>1 DEF FirstDwell
      <4>2. /\ Bindings(dwells, k) = 0 /\ States(dwells, k) = 0
            /\ BindingCost(dwells, k, p.mac) = 0 /\ StateCost(dwells, k, p.state) = 0
        BY <3>1 DEF Bindings, States, BindingCost, StateCost, One
      <4> HIDE DEF e, p
      <4> QED
        BY <4>1, <4>2
    <3>2. CASE k \in DOMAIN dwells /\ Entry(d) /\ e = Observed(d, p)
      <4>1. /\ Observed(d, p).latest = p
            /\ Observed(d, p).binding_changes =
                 d.binding_changes + One(BindingChanged(d, p))
            /\ Observed(d, p).state_changes =
                 d.state_changes + One(d.latest.state # p.state)
        <5>1. Entry(d)
          BY <3>2
        <5> HIDE DEF d, p
        <5> QED
          BY <5>1, EntrySeenAgain
      <4>2. Bindings(dwells, k) = d.binding_changes /\ States(dwells, k) = d.state_changes
        BY <3>2 DEF Bindings, States
      <4>3. /\ One(BindingChanged(d, p)) =
                 IF p.binding_conflict THEN 0 ELSE BindingCost(dwells, k, p.mac)
            /\ One(d.latest.state # p.state) = StateCost(dwells, k, p.state)
        BY <3>2 DEF BindingChanged, BindingCost, StateCost, One
      <4>4. e = Observed(d, p)
        BY <3>2
      <4> HIDE DEF d, e, p
      <4> QED
        BY <4>1, <4>2, <4>3, <4>4
    <3> QED
      BY <1>2, <3>1, <3>2 DEF EntryOf
  <2>7. /\ Bindings(dwells, k) \in Nat /\ States(dwells, k) \in Nat
        /\ count.rebound \in Nat /\ Allowed(count) \in Nat
    BY CountedFits, CountsAllow
  <2>8. /\ BindingCost(dwells, k, p.mac) \in {0, 1} /\ StateCost(dwells, k, p.state) \in {0, 1}
        /\ BindingLag(t, k, p.mac) \in {0, 1} /\ StateLag(t, k, p.state) \in {0, 1, 2}
    BY LagsAreSmall, CostsAreSmall
  <2> HIDE DEF e, p
  <2>9. e.binding_changes + (IF p.binding_conflict THEN 0 ELSE BindingLag(t, k, p.mac))
          <= count.rebound
    BY <2>3, <2>4, <2>6, <2>7, <2>8
  <2>10. e.state_changes + StateLag(t, k, p.state) <= Allowed(count)
    BY <2>5, <2>6
  <2>11. DwellFits(t, k, e, count)
    BY <2>5, <2>6, <2>9, <2>10 DEF DwellFits
  <2> QED
    BY <2>11 DEF e
<1> QED
  BY <1>1, <1>2

\* The inductive invariant: with the types, the ledger and what it may count.
PeerInvariant == CollectorTypeOK /\ CachedInvariant /\ ChangeInvariant

LEMMA LedgerFits ==
  ASSUME PeerInvariant, NEW k \in Keys
  PROVE  /\ k \in DOMAIN peer_dwell =>
              Entry(peer_dwell[k]) /\ DwellFits(table, k, peer_dwell[k], past[k])
         /\ job.generation = generation =>
              ReadingsFit(table, peer_dwell, k, job.readings, past[k])
BY DEF PeerInvariant, CachedInvariant, Ledger, ChangeInvariant

\* What was read for an entry is judged alike wherever its counts and its latest
\* row are the same.
LEMMA SameEntriesFit ==
  ASSUME NEW t, NEW k, NEW readings, NEW count, NEW dwells, NEW dwells2,
         k \in DOMAIN dwells2 <=> k \in DOMAIN dwells,
         k \in DOMAIN dwells => /\ dwells2[k].latest = dwells[k].latest
                                /\ dwells2[k].binding_changes = dwells[k].binding_changes
                                /\ dwells2[k].state_changes = dwells[k].state_changes
  PROVE  /\ ReadingsFit(t, dwells, k, readings, count)
              => ReadingsFit(t, dwells2, k, readings, count)
         /\ k \in DOMAIN dwells /\ DwellFits(t, k, dwells[k], count)
              => DwellFits(t, k, dwells2[k], count)
<1>1. /\ Bindings(dwells2, k) = Bindings(dwells, k)
      /\ States(dwells2, k) = States(dwells, k)
      /\ \A x : BindingCost(dwells2, k, x) = BindingCost(dwells, k, x)
      /\ \A x : StateCost(dwells2, k, x) = StateCost(dwells, k, x)
  BY DEF Bindings, States, BindingCost, StateCost
<1>2. k \in DOMAIN dwells /\ DwellFits(t, k, dwells[k], count)
        => DwellFits(t, k, dwells2[k], count)
  BY DEF DwellFits
<1>3. ASSUME NEW row
      PROVE  /\ BindingFits(t, dwells, k, row, count) => BindingFits(t, dwells2, k, row, count)
             /\ StateFits(t, dwells, k, row, count) => StateFits(t, dwells2, k, row, count)
  BY <1>1 DEF BindingFits, StateFits
<1> QED
  BY <1>1, <1>2, <1>3 DEF ReadingsFit

LEMMA NoReadingsFit ==
  /\ ReadingsPrinted(<<>>)
  /\ \A t, dwells, k, count : ReadingsFit(t, dwells, k, <<>>, count)
<1>1. Len(<<>>) = 0 /\ DOMAIN <<>> = {} /\ Len(Sources) \in Nat
  BY SourcesAssumption
<1> QED
  BY <1>1 DEF ReadingsPrinted, ReadingsFit

LEMMA ChangeOfTable ==
  ASSUME PeerInvariant, TableChanges
  PROVE  ChangeInvariant'
<1>1. UNCHANGED <<generation, job, peer_dwell>>
  BY DEF TableChanges, appVars
<1> DEFINE t2 == table'
           p2 == past'
<1>2. /\ CollectorTypeOK /\ p2 \in [Keys -> Counts]
  <2>1. CollectorTypeOK'
    BY CollectorStep DEF PeerInvariant, Next
  <2> QED
    BY <2>1 DEF PeerInvariant, CollectorTypeOK
<1>3. ASSUME NEW k \in Keys
      PROVE  Room(table, past[k], t2, p2[k], k)
  <2>1. past[k] \in Counts /\ p2[k] \in Counts
    BY <1>2 DEF CollectorTypeOK
  <2>2. ASSUME NEW l \in Keys, NEW row \in KernelRows, KernelSet(l, row)
        PROVE  Room(table, past[k], t2, p2[k], k)
    <3>1. /\ DOMAIN t2 = DOMAIN table \cup {l} /\ t2[l] = row
          /\ \A m \in DOMAIN table \ {l} : t2[m] = table[m]
          /\ p2[l].rebound =
               past[l].rebound + One(l \notin DOMAIN table \/ table[l].mac # row.mac)
          /\ p2[l].restated =
               past[l].restated + One(l \notin DOMAIN table \/ table[l].state # row.state)
          /\ p2[l].printless = past[l].printless
          /\ \A m \in Keys \ {l} : p2[m] = past[m]
      BY <1>2, <2>2, KernelSteps, PeerSessionAssumption
    <3> HIDE DEF t2, p2
    <3>2. CASE k = l
      <4>1. /\ k \in DOMAIN t2
            /\ p2[k].rebound =
                 past[k].rebound + One(k \notin DOMAIN table \/ table[k].mac # t2[k].mac)
            /\ p2[k].restated =
                 past[k].restated + One(k \notin DOMAIN table \/ table[k].state # t2[k].state)
            /\ p2[k].printless = past[k].printless
        BY <3>1, <3>2
      <4> QED
        BY <2>1, <4>1, RoomMade
    <3>3. CASE k # l
      <4>1. /\ k \in DOMAIN t2 => k \in DOMAIN table /\ t2[k] = table[k]
            /\ p2[k] = past[k]
        BY <3>1, <3>3
      <4>2. past[k].printless >= past[k].printless
        BY <2>1, CountsAllow
      <4> QED
        BY <2>1, <4>1, <4>2, RoomKept
    <3> QED
      BY <3>2, <3>3
  <2>3. ASSUME NEW l \in Keys, KernelDrop(l)
        PROVE  Room(table, past[k], t2, p2[k], k)
    <3>1. /\ DOMAIN t2 = DOMAIN table \ {l} /\ \A m \in DOMAIN t2 : t2[m] = table[m]
          /\ p2 = past
      BY <1>2, <2>3, KernelDrops
    <3> HIDE DEF t2, p2
    <3>2. past[k].printless >= past[k].printless
      BY <2>1, CountsAllow
    <3> QED
      BY <2>1, <3>1, <3>2, RoomKept
  <2> QED
    BY <2>2, <2>3 DEF TableChanges
<1> HIDE DEF t2, p2
<1>4. ASSUME NEW k \in Keys
      PROVE  /\ k \in DOMAIN peer_dwell => DwellFits(t2, k, peer_dwell[k], p2[k])
             /\ job.generation = generation =>
                  ReadingsFit(t2, peer_dwell, k, job.readings, p2[k])
  <2>1. past[k] \in Counts /\ p2[k] \in Counts
    BY <1>2 DEF CollectorTypeOK
  <2>2. /\ k \in DOMAIN peer_dwell =>
             Entry(peer_dwell[k]) /\ DwellFits(table, k, peer_dwell[k], past[k])
        /\ job.generation = generation =>
             ReadingsFit(table, peer_dwell, k, job.readings, past[k])
    BY LedgerFits
  <2>3. k \in DOMAIN peer_dwell => DwellFits(t2, k, peer_dwell[k], p2[k])
    BY <1>3, <2>1, <2>2, DwellStillFits
  <2>4. job.generation = generation =>
          ReadingsFit(t2, peer_dwell, k, job.readings, p2[k])
    BY <1>3, <2>1, <2>2, ReadingsStillFit
  <2> QED
    BY <2>3, <2>4
<1> QED
  BY <1>1, <1>4 DEF ChangeInvariant, PeerInvariant, t2, p2

LEMMA ChangeOfReading ==
  ASSUME PeerInvariant, NEW outcome \in Outcomes, ReadSource(outcome)
  PROVE  ChangeInvariant'
<1> DEFINE source == Sources[Len(job.readings) + 1]
           reading == ReadingOf(source, outcome, table)
           more == Append(job.readings, reading)
           p2 == past'
<1>1. /\ UNCHANGED <<table, generation, peer_dwell>> /\ Len(job.readings) < Len(Sources)
  BY DEF ReadSource, appVars
<1>2. /\ job' = [path |-> job.path, generation |-> job.generation, readings |-> more]
      /\ p2 \in [Keys -> Counts]
      /\ \A k \in Keys :
           /\ p2[k].rebound = past[k].rebound
           /\ p2[k].restated = past[k].restated
           /\ p2[k].printless = past[k].printless +
                One(outcome # "whole" /\ Prints[source].states /\ k \in Prints[source].keys)
  BY ReadSteps DEF PeerInvariant
<1>3. /\ job'.generation = job.generation /\ job'.readings = more
  <2> HIDE DEF more
  <2> QED
    BY <1>2
<1>4. /\ job.readings \in Seq(Reading) /\ table \in Table /\ past \in [Keys -> Counts]
      /\ ReadingsPrinted(job.readings)
  BY DEF PeerInvariant, CollectorTypeOK, ChangeInvariant
<1>5. ReadingsPrinted(more)
  BY <1>1, <1>4, NextPrinted
<1> HIDE DEF p2
<1>6. ASSUME NEW k \in Keys
      PROVE  /\ k \in DOMAIN peer_dwell => DwellFits(table, k, peer_dwell[k], p2[k])
             /\ job.generation = generation =>
                  ReadingsFit(table, peer_dwell, k, more, p2[k])
  <2>1. past[k] \in Counts /\ p2[k] \in Counts
    BY <1>2, <1>4
  <2>2. /\ k \in DOMAIN peer_dwell =>
             Entry(peer_dwell[k]) /\ DwellFits(table, k, peer_dwell[k], past[k])
        /\ job.generation = generation =>
             ReadingsFit(table, peer_dwell, k, job.readings, past[k])
    BY LedgerFits
  <2>3. Room(table, past[k], table, p2[k], k)
    <3>1. p2[k].printless >= past[k].printless
      BY <1>2, <2>1, CountsAllow DEF One
    <3> QED
      BY <1>2, <2>1, <3>1, RoomKept
  <2>4. k \in DOMAIN peer_dwell => DwellFits(table, k, peer_dwell[k], p2[k])
    BY <2>1, <2>2, <2>3, DwellStillFits
  <2>5. ASSUME job.generation = generation
        PROVE  ReadingsFit(table, peer_dwell, k, more, p2[k])
    <3>1. ReadingsFit(table, peer_dwell, k, job.readings, past[k])
      BY <2>2, <2>5
    <3>2. /\ p2[k].rebound = past[k].rebound
          /\ p2[k].restated = past[k].restated
          /\ p2[k].printless = past[k].printless +
               One(outcome # "whole" /\ Prints[source].states /\ k \in Prints[source].keys)
      BY <1>2
    <3> QED
      BY <1>1, <1>4, <2>1, <2>2, <3>1, <3>2, NextFits
  <2> QED
    BY <2>4, <2>5
<1> HIDE DEF more
<1> QED
  BY <1>1, <1>3, <1>5, <1>6 DEF ChangeInvariant, PeerInvariant, p2

LEMMA ChangeOfLedger ==
  ASSUME PeerInvariant, ReceivePeers
  PROVE  ChangeInvariant'
<1>1. /\ UNCHANGED <<table, generation, past>> /\ Len(job.readings) = Len(Sources)
      /\ job'.readings = <<>>
  BY DEF ReceivePeers, Idle
<1>2. /\ ReadingsPrinted(<<>>)
      /\ \A t, dwells, k, count : ReadingsFit(t, dwells, k, <<>>, count)
  BY NoReadingsFit
<1>3. CASE job.generation # generation
  <2>1. UNCHANGED peer_dwell
    BY <1>3 DEF ReceivePeers, appVars
  <2> QED
    BY <1>1, <1>2, <2>1 DEF ChangeInvariant, PeerInvariant
<1>4. CASE job.generation = generation
  <2> DEFINE snapshot == Collected(job.path, job.readings)
             new == peer_dwell'
  <2>1. new = Reduced(peer_dwell, snapshot)
    BY <1>4 DEF ReceivePeers
  <2>2. /\ DOMAIN snapshot.peers \subseteq Keys
        /\ \A k \in DOMAIN snapshot.peers :
             /\ snapshot.peers[k] = PeerRead(job.readings, k)
             /\ PeerRead(job.readings, k) # NONE
    BY DEF Collected, ReportedKeys
  <2>3. /\ job.readings \in Seq(Reading) /\ past \in [Keys -> Counts]
        /\ ReadingsPrinted(job.readings) /\ DOMAIN peer_dwell \subseteq Keys
        /\ \A k \in DOMAIN peer_dwell : Entry(peer_dwell[k])
    BY DEF PeerInvariant, CollectorTypeOK, ChangeInvariant, CachedInvariant, Ledger
  <2> HIDE DEF snapshot, new
  <2>4. /\ DOMAIN new = DOMAIN peer_dwell \cup DOMAIN snapshot.peers
        /\ \A k \in DOMAIN new : EntryOf(new, peer_dwell, snapshot, k)
    BY <2>1, <2>3, ReducedEntries
  <2>5. ASSUME NEW k \in Keys, k \in DOMAIN new
        PROVE  DwellFits(table, k, new[k], past[k])
    <3>1. /\ k \in DOMAIN peer_dwell =>
               Entry(peer_dwell[k]) /\ DwellFits(table, k, peer_dwell[k], past[k])
          /\ ReadingsFit(table, peer_dwell, k, job.readings, past[k])
      BY <1>4, LedgerFits
    <3>2. EntryOf(new, peer_dwell, snapshot, k) /\ past[k] \in Counts
      BY <2>3, <2>4, <2>5
    <3>3. k \in DOMAIN snapshot.peers =>
            snapshot.peers[k] = PeerRead(job.readings, k) /\ PeerRead(job.readings, k) # NONE
      BY <2>2
    <3> QED
      BY <1>1, <2>3, <3>1, <3>2, <3>3, EntryFits
  <2>6. DOMAIN new \subseteq Keys
    BY <2>2, <2>3, <2>4
  <2> QED
    BY <1>1, <1>2, <2>5, <2>6 DEF ChangeInvariant, new
<1> QED
  BY <1>3, <1>4

LEMMA ChangeStep ==
  ASSUME PeerInvariant, [Next]_vars
  PROVE  ChangeInvariant'
<1>1. /\ ReadingsPrinted(<<>>)
      /\ \A t, dwells, k, count : ReadingsFit(t, dwells, k, <<>>, count)
  BY NoReadingsFit
<1>2. CASE TableChanges
  BY <1>2, ChangeOfTable
<1>3. CASE Launch
  <2>1. UNCHANGED <<table, generation, past, peer_dwell>> /\ job'.readings = <<>>
    BY <1>3 DEF Launch, appVars
  <2> QED
    BY <1>1, <2>1 DEF ChangeInvariant, PeerInvariant
<1>4. CASE AttentionExpires
  <2>1. UNCHANGED <<table, generation, past, job>>
    BY <1>4 DEF AttentionExpires
  <2> DEFINE new == peer_dwell'
  <2>2. /\ DOMAIN new = DOMAIN peer_dwell
        /\ \A k \in DOMAIN peer_dwell :
             /\ new[k].latest = peer_dwell[k].latest
             /\ new[k].binding_changes = peer_dwell[k].binding_changes
             /\ new[k].state_changes = peer_dwell[k].state_changes
    BY <1>4, ExpiredEntries DEF PeerInvariant, CachedInvariant
  <2> HIDE DEF new
  <2>3. ASSUME NEW k \in Keys
        PROVE  /\ k \in DOMAIN new => DwellFits(table, k, new[k], past[k])
               /\ job.generation = generation =>
                    ReadingsFit(table, new, k, job.readings, past[k])
    <3>1. /\ k \in DOMAIN peer_dwell => DwellFits(table, k, peer_dwell[k], past[k])
          /\ job.generation = generation =>
               ReadingsFit(table, peer_dwell, k, job.readings, past[k])
      BY LedgerFits
    <3> QED
      BY <2>2, <3>1, SameEntriesFit
  <2> QED
    BY <2>1, <2>2, <2>3 DEF ChangeInvariant, PeerInvariant, new
<1>5. CASE \E outcome \in Outcomes : ReadSource(outcome)
  BY <1>5, ChangeOfReading
<1>6. CASE ReceivePeers
  BY <1>6, ChangeOfLedger
<1>7. CASE ReceiveLink
  <2>1. /\ peer_dwell' = <<>> /\ UNCHANGED job /\ generation' = generation + 1
    BY <1>7 DEF ReceiveLink
  <2>2. job'.generation # generation'
    BY <2>1 DEF PeerInvariant, CollectorTypeOK
  <2> QED
    BY <2>1, <2>2 DEF ChangeInvariant, PeerInvariant
<1>8. CASE UNCHANGED <<table, generation, job, peer_dwell, past>>
  BY <1>8 DEF ChangeInvariant, PeerInvariant
<1> QED
  BY <1>2, <1>3, <1>4, <1>5, <1>6, <1>7, <1>8
  DEF Next, vars, appVars, TuiStep, Normalize, Draw, NoKey, Press

LEMMA ChangeInit == Init => ChangeInvariant
<1>1. /\ ReadingsPrinted(<<>>)
      /\ \A t, dwells, k, count : ReadingsFit(t, dwells, k, <<>>, count)
  BY NoReadingsFit
<1> QED
  BY <1>1 DEF Init, Idle, ChangeInvariant

\* Churn is not invented: no more binding changes are counted than the kernel
\* made, and no state change without one of the kernel's or a source of states
\* that was not read, whatever is read when (apply_peer_snapshot, collect).
THEOREM ChurnIsReal == Spec => []ChangeIsReal
<1>1. PeerInvariant /\ [Next]_vars => PeerInvariant'
  BY CollectorStep, CachedStep, ChangeStep DEF PeerInvariant
<1>2. Init => PeerInvariant
  BY CollectorInit, CachedInit, ChangeInit DEF PeerInvariant
<1>3. PeerInvariant => ChangeIsReal
  <2> SUFFICES ASSUME PeerInvariant, NEW k \in DOMAIN peer_dwell
               PROVE  /\ peer_dwell[k].binding_changes <= past[k].rebound
                      /\ peer_dwell[k].state_changes
                           <= 2 * (past[k].restated + past[k].printless)
    BY DEF ChangeIsReal
  <2>1. k \in Keys
    BY DEF PeerInvariant, ChangeInvariant
  <2>2. past[k] \in Counts
    BY <2>1 DEF PeerInvariant, CollectorTypeOK
  <2>3. k \in DOMAIN peer_dwell =>
          Entry(peer_dwell[k]) /\ DwellFits(table, k, peer_dwell[k], past[k])
    BY <2>1, LedgerFits
  <2>4. /\ Bindings(peer_dwell, k) <= past[k].rebound
        /\ States(peer_dwell, k) <= Allowed(past[k])
    BY <2>2, <2>3, CountedFits
  <2> QED
    BY <2>4 DEF Bindings, States, Allowed
<1> QED
  BY <1>1, <1>2, <1>3, PTL DEF Spec

-----------------------------------------------------------------------------
(***************************************************************************)
(* The order of the table.                                                 *)
(***************************************************************************)
LEMMA GreatestNumber ==
  ASSUME NEW n \in Nat, NEW S \in SUBSET (0 .. n), S # {}
  PROVE  Max(S) \in S
<1> DEFINE below == {i \in Nat : n - i \in S}
<1>1. below \in SUBSET Nat /\ below # {}
  <2>1. PICK x \in S : TRUE
    OBVIOUS
  <2>2. x \in 0 .. n
    BY <2>1
  <2>3. n - x \in Nat /\ n - (n - x) = x
    BY <2>2
  <2>4. n - x \in below
    BY <2>1, <2>3
  <2> QED
    BY <2>4
<1>2. PICK i \in below : \A j \in below : ~ (j < i)
  <2> HIDE DEF below
  <2> QED
    BY <1>1, LeastNumber
<1>3. \A y \in S : n - i >= y
  <2> TAKE y \in S
  <2>1. y \in 0 .. n /\ n - y \in Nat /\ n - (n - y) = y
    OBVIOUS
  <2>2. n - y \in below
    BY <2>1
  <2>3. i \in Nat /\ ~ (n - y < i)
    BY <1>2, <2>2
  <2> QED
    BY <2>1, <2>3
<1>4. n - i \in S
  BY <1>2
<1> DEFINE max == CHOOSE x \in S : \A y \in S : x >= y
<1>5. max \in S
  BY <1>3, <1>4
<1>6. Max(S) = max
  BY Zenon DEF Max
<1> QED
  BY Zenon, <1>5, <1>6

LEMMA RankIsNumber ==
  ASSUME NEW p, NEW peer, NEW dwell, NEW k
  PROVE  Rank(p, peer, dwell, k) \in Nat
<1> DEFINE all == Attention(p, peer, dwell, k)
           S == {a[1] : a \in {b \in all : b[2]}}
<1>1. \A a \in all : a[1] \in 0 .. 110
  <2>1. SUFFICES ASSUME NEW a \in all PROVE a[1] \in 0 .. 110
    OBVIOUS
  <2>2. \E b : \E n \in {110, 100, 95, 90, 85, 80, 70, 60, 50, 0} : a = <<n, b>>
    BY ZenonT(40) DEF Attention
  <2> HIDE DEF all
  <2> QED
    BY <2>2
<1>2. <<0, TRUE>> \in {b \in all : b[2]}
  BY DEF Attention
<1>3. S \in SUBSET (0 .. 110)
  BY <1>1
<1>4. S # {}
  <2>1. <<0, TRUE>>[1] \in S
    BY <1>2
  <2> QED
    BY <2>1
<1>5. Rank(p, peer, dwell, k) = Max(S)
  BY DEF Rank
<1> HIDE DEF S
<1>6. Max(S) \in S
  <2>1. 110 \in Nat
    OBVIOUS
  <2> QED
    BY <1>3, <1>4, <2>1, GreatestNumber
<1>7. Max(S) \in 0 .. 110
  BY Zenon, <1>3, <1>6
<1>8. \A n \in 0 .. 110 : n \in Nat
  OBVIOUS
<1> QED
  BY Zenon, <1>5, <1>7, <1>8

\* Every row has a place of its own: the number of the rows above it.
LEMMA OrderedRows ==
  ASSUME NEW p, NEW rows, NEW dwells, NEW order, order = Ordered(p, rows, dwells),
         DOMAIN rows \subseteq Nat, IsFiniteSet(DOMAIN rows)
  PROVE  /\ Len(order) \in Nat /\ DOMAIN order = 1 .. Len(order)
         /\ order \in Seq(DOMAIN rows)
         /\ \A k \in DOMAIN rows : \E i \in DOMAIN order : order[i] = k
         /\ \A i, j \in DOMAIN order : order[i] = order[j] => i = j
         /\ order = <<>> <=> DOMAIN rows = {}
<1> DEFINE D == DOMAIN rows
           n == Cardinality(D)
           rank == [k \in D |-> Rank(p, rows[k], dwells[k], k)]
           place == [k \in D |-> Cardinality(Above(rank, k)) + 1]
           At(i) == CHOOSE k \in D : Cardinality(Above(rank, k)) = i - 1
<1>1. order = [i \in 1 .. n |-> At(i)]
  BY DEF Ordered
<1>2. DOMAIN rank = D /\ \A k \in D : rank[k] \in Nat /\ k \in Nat
  BY RankIsNumber
<1>3. n \in Nat /\ IsFiniteSet(D)
  BY FS_CardinalityType
<1> HIDE DEF D, rank
<1>4. \A k \in D : /\ Above(rank, k) \in SUBSET (D \ {k})
                   /\ IsFiniteSet(Above(rank, k))
                   /\ Cardinality(Above(rank, k)) \in Nat
                   /\ Cardinality(Above(rank, k)) < n
  <2> TAKE k \in D
  <2>1. Above(rank, k) \in SUBSET (D \ {k})
    BY <1>2 DEF Above
  <2>2. IsFiniteSet(D \ {k}) /\ Cardinality(D \ {k}) = n - 1
    BY <1>3, FS_RemoveElement
  <2>3. IsFiniteSet(Above(rank, k)) /\ Cardinality(Above(rank, k)) <= n - 1
    BY <2>1, <2>2, FS_Subset
  <2> QED
    BY <1>3, <2>1, <2>3, FS_CardinalityType
<1>5. ASSUME NEW k \in D, NEW l \in D, k \in Above(rank, l)
      PROVE  Cardinality(Above(rank, k)) < Cardinality(Above(rank, l))
  <2>1. Above(rank, k) \in SUBSET Above(rank, l)
    BY <1>2, <1>5 DEF Above
  <2>2. k \notin Above(rank, k)
    BY <1>4
  <2>3. /\ Cardinality(Above(rank, k)) <= Cardinality(Above(rank, l))
        /\ Cardinality(Above(rank, l)) # Cardinality(Above(rank, k))
    BY <1>4, <1>5, <2>1, <2>2, FS_Subset
  <2> QED
    BY <1>4, <2>3
<1>6. ASSUME NEW k \in D, NEW l \in D, k # l
      PROVE  Cardinality(Above(rank, k)) # Cardinality(Above(rank, l))
  <2>1. k \in Above(rank, l) \/ l \in Above(rank, k)
    BY <1>2, <1>6 DEF Above
  <2> QED
    BY <1>4, <1>5, <2>1
<1>7. place \in Injection(D, 1 .. n)
  <2>1. place \in [D -> 1 .. n]
    BY <1>3, <1>4
  <2>2. \A k, l \in D : place[k] = place[l] => k = l
    BY <1>4, <1>6
  <2> QED
    BY <2>1, <2>2 DEF Injection, IsInjective
<1>8. place \in Surjection(D, 1 .. n)
  <2>1. IsFiniteSet(1 .. n) /\ Cardinality(1 .. n) = n
    BY <1>3, FS_Interval
  <2> QED
    BY <1>3, <1>7, <2>1, FS_Injection
<1>9. \A i \in 1 .. n : \E k \in D : Cardinality(Above(rank, k)) = i - 1
  <2> TAKE i \in 1 .. n
  <2>1. PICK k \in D : place[k] = i
    BY <1>8 DEF Surjection
  <2>2. Cardinality(Above(rank, k)) = i - 1
    BY <1>4, <2>1
  <2> QED
    BY <2>2
<1>10. \A i \in 1 .. n : At(i) \in D /\ Cardinality(Above(rank, At(i))) = i - 1
  BY <1>9
<1>11. \A k \in D : \E i \in 1 .. n : At(i) = k
  <2> TAKE k \in D
  <2> DEFINE i == Cardinality(Above(rank, k)) + 1
  <2>1. i \in 1 .. n /\ i - 1 = Cardinality(Above(rank, k))
    BY <1>3, <1>4
  <2>2. At(i) \in D /\ Cardinality(Above(rank, At(i))) = Cardinality(Above(rank, k))
    BY <1>10, <2>1
  <2>3. At(i) = k
    BY <1>6, <2>2
  <2> QED
    BY <2>1, <2>3
<1> HIDE DEF At, n
<1>12. order \in Seq(D) /\ Len(order) = n /\ DOMAIN order = 1 .. n
  BY <1>1, <1>3, <1>10
<1>13. \A i, j \in 1 .. n : order[i] = order[j] => i = j
  BY <1>1, <1>3, <1>10
<1>14. order = <<>> <=> D = {}
  BY SMTT(40), <1>1, <1>3, <1>10, <1>11, <1>12
<1>15. \A k \in D : \E i \in 1 .. n : order[i] = k
  BY <1>1, <1>11
<1> QED
  BY <1>3, <1>12, <1>13, <1>14, <1>15 DEF D

-----------------------------------------------------------------------------
(***************************************************************************)
(* The operator's selection.                                               *)
(***************************************************************************)
InteractionOK(i) ==
  /\ i = [active_mode |-> i.active_mode, peer_offset |-> i.peer_offset,
          peer_selection |-> i.peer_selection, can_navigate |-> i.can_navigate]
  /\ i.peer_offset \in Nat

\* The selection stands on its row of an order.
Stands(i, order) ==
  order # <<>> => /\ i.peer_offset + 1 \in DOMAIN order
                  /\ order[i.peer_offset + 1] = i.peer_selection

LEMMA SelectedRow ==
  ASSUME NEW i, InteractionOK(i), NEW S, NEW order \in Seq(S), NEW index \in Nat,
         NEW new, new = Selected(i, order, index)
  PROVE  /\ InteractionOK(new) /\ Stands(new, order)
         /\ new.active_mode = i.active_mode /\ new.can_navigate = i.can_navigate
         /\ order # <<>> => /\ new.peer_offset = Least(index, Len(order) - 1)
                            /\ new.peer_selection = order[Least(index, Len(order) - 1) + 1]
<1> DEFINE fields == [active_mode |-> i.active_mode, peer_offset |-> i.peer_offset,
                      peer_selection |-> i.peer_selection, can_navigate |-> i.can_navigate]
           at == Least(index, Len(order) - 1)
<1>1. i = fields
  BY DEF InteractionOK
<1>2. Len(order) \in Nat /\ DOMAIN order = 1 .. Len(order) /\ (order # <<>> => Len(order) # 0)
  OBVIOUS
<1>3. CASE order = <<>>
  <2>1. new = [fields EXCEPT !.peer_offset = 0, !.peer_selection = NONE]
    BY Zenon, <1>1, <1>3 DEF Selected
  <2>2. new = [active_mode |-> i.active_mode, peer_offset |-> 0,
               peer_selection |-> NONE, can_navigate |-> i.can_navigate]
    BY <2>1
  <2> QED
    BY <1>3, <2>2 DEF InteractionOK, Stands
<1>4. CASE order # <<>>
  <2>1. at \in Nat /\ at + 1 \in DOMAIN order
    BY <1>2, <1>4 DEF Least
  <2>2. new = [fields EXCEPT !.peer_offset = at, !.peer_selection = order[at + 1]]
    BY Zenon, <1>1, <1>4 DEF Selected
  <2> HIDE DEF at
  <2>3. new = [active_mode |-> i.active_mode, peer_offset |-> at,
               peer_selection |-> order[at + 1], can_navigate |-> i.can_navigate]
    BY <2>2
  <2> QED
    BY <1>4, <2>1, <2>3 DEF InteractionOK, Stands, at
<1> QED
  BY <1>3, <1>4

\* normalize_peer_selection keeps a selection that is in the table.
LEMMA NormalizedRow ==
  ASSUME NEW i, InteractionOK(i), NEW S, NEW order \in Seq(S), NEW new,
         new = Normalized(i, order)
  PROVE  /\ InteractionOK(new) /\ Stands(new, order)
         /\ new.active_mode = i.active_mode /\ new.can_navigate = i.can_navigate
         /\ \A p \in DOMAIN order : order[p] = i.peer_selection =>
              new.peer_selection = i.peer_selection
<1> DEFINE places == {p \in DOMAIN order : order[p] = i.peer_selection}
           chosen == CHOOSE p \in places : TRUE
           index == IF places = {} THEN i.peer_offset ELSE chosen - 1
<1>1. new = Selected(i, order, index)
  BY DEF Normalized
<1>2. Len(order) \in Nat /\ DOMAIN order = 1 .. Len(order)
  OBVIOUS
<1>3. places # {} => chosen \in DOMAIN order /\ order[chosen] = i.peer_selection
  OBVIOUS
<1> HIDE DEF chosen
<1>4. index \in Nat
  BY <1>2, <1>3 DEF InteractionOK
<1>5. ASSUME NEW p \in DOMAIN order, order[p] = i.peer_selection
      PROVE  /\ order # <<>> /\ Least(index, Len(order) - 1) + 1 = chosen
             /\ order[chosen] = i.peer_selection
  <2>1. places # {}
    BY <1>5
  <2>2. index = chosen - 1 /\ chosen \in 1 .. Len(order) /\ order[chosen] = i.peer_selection
    BY <1>2, <1>3, <2>1
  <2>3. Least(index, Len(order) - 1) + 1 = chosen
    <3> HIDE DEF index
    <3> QED
      BY <1>2, <2>2 DEF Least
  <2> QED
    BY <1>2, <1>5, <2>2, <2>3
<1> HIDE DEF index
<1>6. /\ InteractionOK(new) /\ Stands(new, order)
      /\ new.active_mode = i.active_mode /\ new.can_navigate = i.can_navigate
      /\ order # <<>> => new.peer_selection = order[Least(index, Len(order) - 1) + 1]
  BY <1>1, <1>4, SelectedRow
<1> QED
  BY <1>5, <1>6

\* apply_tui_key: a key keeps the record whole, and Down moves by one row.
LEMMA KeyRow ==
  ASSUME NEW i, InteractionOK(i), NEW S, NEW order \in Seq(S),
         NEW key \in ModeKeys \cup MoveKeys \cup OtherKeys, NEW capacity \in Nat,
         NEW new, new = KeyApplied(i, order, key, capacity)
  PROVE  /\ InteractionOK(new)
         /\ /\ key = "Down" /\ capacity # 0 /\ order # <<>> /\ i.active_mode = "peers"
            /\ \A p, q \in DOMAIN order : order[p] = order[q] => p = q
            /\ Stands(i, order)
            => new.peer_selection = order[Least(i.peer_offset + 2, Len(order))]
<1> DEFINE maximum == IF capacity = 0 \/ order = <<>> THEN 0 ELSE Len(order) - 1
           page == IF capacity = 0 THEN 1 ELSE capacity
           normal == Normalized(i, order)
           lower == Least(normal.peer_offset, maximum)
           bounded == [normal EXCEPT !.peer_offset = lower]
           target == Target(key, bounded.peer_offset, page, maximum)
<1>1. /\ InteractionOK(normal) /\ Stands(normal, order)
      /\ normal.active_mode = i.active_mode
      /\ \A p \in DOMAIN order : order[p] = i.peer_selection =>
           normal.peer_selection = i.peer_selection
  BY NormalizedRow
<1>2. new = IF key \in ModeKeys /\ bounded.can_navigate
            THEN [bounded EXCEPT !.active_mode = ModeOfKey(bounded.active_mode, key)]
            ELSE IF key \in MoveKeys /\ bounded.active_mode = "peers"
            THEN Selected(bounded, order, target)
            ELSE bounded
  BY Zenon DEF KeyApplied
<1>3. /\ Len(order) \in Nat /\ DOMAIN order = 1 .. Len(order)
      /\ order # <<>> => Len(order) # 0
  OBVIOUS
<1>4. maximum \in Nat /\ page \in Nat
  BY <1>3
<1> HIDE DEF normal
<1>5. lower \in Nat
  BY <1>1, <1>4 DEF InteractionOK, Least
<1>6. /\ bounded = [active_mode |-> normal.active_mode, peer_offset |-> lower,
                    peer_selection |-> normal.peer_selection,
                    can_navigate |-> normal.can_navigate]
  <2> DEFINE fields == [active_mode |-> normal.active_mode, peer_offset |-> normal.peer_offset,
                        peer_selection |-> normal.peer_selection,
                        can_navigate |-> normal.can_navigate]
  <2>1. bounded = [fields EXCEPT !.peer_offset = lower]
    BY Zenon, <1>1 DEF InteractionOK
  <2> HIDE DEF lower
  <2> QED
    BY <2>1
<1> HIDE DEF bounded
<1>7. /\ InteractionOK(bounded) /\ bounded.active_mode = normal.active_mode
      /\ bounded.peer_offset = lower /\ bounded.peer_selection = normal.peer_selection
  BY <1>5, <1>6 DEF InteractionOK
<1>8. key \in MoveKeys => target \in Nat
  <2> SUFFICES ASSUME key \in MoveKeys PROVE target \in Nat
    OBVIOUS
  <2>1. bounded.peer_offset \in Nat
    BY <1>5, <1>7
  <2> HIDE DEF maximum, page
  <2>2. /\ key = "Down" => target = Least(bounded.peer_offset + 1, maximum)
        /\ key = "Up" => target = IF bounded.peer_offset > 1 THEN bounded.peer_offset - 1 ELSE 0
        /\ key = "PageDown" => target = Least(bounded.peer_offset + page, maximum)
        /\ key = "PageUp" =>
             target = IF bounded.peer_offset > page THEN bounded.peer_offset - page ELSE 0
        /\ key = "Home" => target = 0
        /\ key = "End" => target = maximum
    BY DEF Target
  <2> HIDE DEF target
  <2> QED
    BY <1>4, <2>1, <2>2 DEF MoveKeys, Least
<1>9. InteractionOK(new)
  <2>1. CASE key \in ModeKeys /\ bounded.can_navigate
    <3> DEFINE m == ModeOfKey(bounded.active_mode, key)
    <3>1. new = [bounded EXCEPT !.active_mode = m]
      BY <1>2, <2>1
    <3> HIDE DEF m
    <3>2. new = [active_mode |-> m, peer_offset |-> bounded.peer_offset,
                 peer_selection |-> bounded.peer_selection,
                 can_navigate |-> bounded.can_navigate]
      <4>1. new = [[active_mode |-> bounded.active_mode, peer_offset |-> bounded.peer_offset,
                    peer_selection |-> bounded.peer_selection,
                    can_navigate |-> bounded.can_navigate] EXCEPT !.active_mode = m]
        BY Zenon, <1>7, <3>1 DEF InteractionOK
      <4> QED
        BY <4>1
    <3> QED
      BY <1>7, <3>2 DEF InteractionOK
  <2>2. CASE /\ ~(key \in ModeKeys /\ bounded.can_navigate)
             /\ key \in MoveKeys /\ bounded.active_mode = "peers"
    <3>1. new = Selected(bounded, order, target)
      BY <1>2, <2>2
    <3> HIDE DEF target
    <3> QED
      BY <1>7, <1>8, <2>2, <3>1, SelectedRow
  <2>3. CASE /\ ~(key \in ModeKeys /\ bounded.can_navigate)
             /\ ~(key \in MoveKeys /\ bounded.active_mode = "peers")
    BY <1>2, <1>7, <2>3
  <2> QED
    BY <2>1, <2>2, <2>3
<1>10. ASSUME key = "Down", capacity # 0, order # <<>>, i.active_mode = "peers",
              \A p, q \in DOMAIN order : order[p] = order[q] => p = q,
              Stands(i, order)
       PROVE  new.peer_selection = order[Least(i.peer_offset + 2, Len(order))]
  <2>1. /\ normal.peer_offset + 1 \in DOMAIN order /\ i.peer_offset + 1 \in DOMAIN order
        /\ order[normal.peer_offset + 1] = normal.peer_selection
        /\ order[i.peer_offset + 1] = i.peer_selection
        /\ normal.peer_selection = i.peer_selection
    BY <1>1, <1>10 DEF Stands
  <2>2. normal.peer_offset \in Nat /\ i.peer_offset \in Nat
    BY <1>1 DEF InteractionOK
  <2>3. normal.peer_offset = i.peer_offset
    BY <1>10, <2>1, <2>2
  <2>4. maximum = Len(order) - 1
    BY <1>10
  <2>5. lower = i.peer_offset
    BY <1>3, <2>1, <2>2, <2>3, <2>4 DEF Least
  <2>6. target = Least(i.peer_offset + 1, Len(order) - 1)
    <3>1. target = Target("Down", i.peer_offset, page, Len(order) - 1)
      BY <1>7, <1>10, <2>4, <2>5
    <3> QED
      BY <3>1 DEF Target
  <2>7. new = Selected(bounded, order, target)
    BY <1>1, <1>2, <1>7, <1>10 DEF ModeKeys, MoveKeys
  <2>8. target \in Nat
    BY <1>8, <1>10 DEF MoveKeys
  <2> HIDE DEF target, lower, maximum
  <2>9. new.peer_selection = order[Least(target, Len(order) - 1) + 1]
    <3>1. order # <<>> /\ InteractionOK(bounded)
      BY <1>7, <1>10
    <3> QED
      BY SMTT(40), <2>7, <2>8, <3>1, SelectedRow
  <2>10. Least(target, Len(order) - 1) + 1 = Least(i.peer_offset + 2, Len(order))
    <3>1. i.peer_offset + 1 \in 1 .. Len(order)
      BY <1>3, <2>1
    <3> DEFINE o == i.peer_offset
               n == Len(order)
    <3>2. o \in Nat /\ n \in Nat /\ o + 1 <= n /\ target = Least(o + 1, n - 1)
      BY <1>3, <2>2, <2>6, <3>1
    <3>3. Least(target, n - 1) + 1 = Least(o + 2, n)
      <4> HIDE DEF o, n
      <4> QED
        BY <3>2 DEF Least
    <3> QED
      BY <3>3
  <2> QED
    BY <2>9, <2>10
<1> QED
  BY <1>9, <1>10

LEMMA FrameRow ==
  ASSUME NEW S, NEW order \in Seq(S), NEW offset \in Nat, NEW capacity \in Nat,
         Frame(order, offset, capacity).highlighted # NONE
  PROVE  /\ order # <<>>
         /\ Frame(order, offset, capacity).highlighted
              = order[Least(offset, Len(order) - 1) + 1]
<1> DEFINE index == Least(offset, IF order = <<>> THEN 0 ELSE Len(order) - 1)
           first == IF capacity = 0 THEN 0 ELSE (index \div capacity) * capacity
           last == Least(first + capacity, Len(order))
           lit == IF index \in first .. (last - 1) THEN order[index + 1] ELSE NONE
<1>1. Frame(order, offset, capacity).highlighted = lit
  BY DEF Frame
<1>2. index \in first .. (last - 1) /\ lit = order[index + 1]
  BY <1>1
<1>3. order # <<>>
  <2> SUFFICES ASSUME order = <<>> PROVE FALSE
    OBVIOUS
  <2>1. Len(order) = 0
    OBVIOUS
  <2>2. index = 0
    BY DEF Least
  <2>3. first = 0
    <3>1. capacity # 0 => 0 \div capacity = 0
      OBVIOUS
    <3> QED
      BY <2>2, <3>1
  <2>4. last = 0
    BY <2>1, <2>3 DEF Least
  <2> QED
    BY <1>2, <2>2, <2>3, <2>4
<1>4. index = Least(offset, Len(order) - 1)
  BY <1>3
<1> QED
  BY <1>1, <1>2, <1>3, <1>4

Bounds == {"change", "read", "key", "expiry"}

\* The inductive invariant: the selection stands on its row of the order it was
\* placed in, and the frame drawn in that order highlights it.
SelectionInvariant ==
  /\ DOMAIN peers.peers \subseteq Keys
  /\ spent \in [Bounds -> Nat]
  /\ InteractionOK(interaction)
  /\ turn \in {"draw", "poll"} => Stands(interaction, shown.order)
  /\ turn = "poll" /\ shown.drawn = shown.order /\ shown.frame.highlighted # NONE =>
       /\ shown.order # <<>>
       /\ shown.frame.highlighted = interaction.peer_selection
       /\ interaction.active_mode = "peers"

LEMMA OrderOfPeers ==
  ASSUME DOMAIN peers.peers \subseteq Keys
  PROVE  /\ Len(Order) \in Nat /\ DOMAIN Order = 1 .. Len(Order)
         /\ Order \in Seq(DOMAIN peers.peers)
         /\ \A k \in DOMAIN peers.peers : \E i \in DOMAIN Order : Order[i] = k
         /\ \A i, j \in DOMAIN Order : Order[i] = Order[j] => i = j
<1>1. DOMAIN peers.peers \subseteq Nat /\ IsFiniteSet(DOMAIN peers.peers)
  BY NeighborsAssumption, FS_Subset
<1> DEFINE rows == peers.peers
           order == Ordered(path, rows, peer_dwell)
<1>2. Order = order
  BY DEF Order
<1>3. DOMAIN rows \subseteq Nat /\ IsFiniteSet(DOMAIN rows)
  BY <1>1
<1> HIDE DEF rows
<1>4. /\ Len(order) \in Nat /\ DOMAIN order = 1 .. Len(order)
      /\ order \in Seq(DOMAIN rows)
      /\ \A k \in DOMAIN rows : \E i \in DOMAIN order : order[i] = k
      /\ \A i, j \in DOMAIN order : order[i] = order[j] => i = j
  BY <1>3, OrderedRows
<1> HIDE DEF order
<1> QED
  BY <1>2, <1>4 DEF rows

\* A bound is used up.
LEMMA SpendSteps ==
  ASSUME spent \in [Bounds -> Nat], NEW bound \in Bounds, NEW maximum, Spend(bound, maximum)
  PROVE  /\ spent' \in [Bounds -> Nat]
         /\ spent'[bound] > spent[bound]
<1>1. spent' = [spent EXCEPT ![bound] = spent[bound] + 1] /\ spent[bound] \in Nat
  BY DEF Spend
<1> QED
  BY <1>1

LEMMA SpentStep ==
  ASSUME spent \in [Bounds -> Nat], [Next]_vars
  PROVE  spent' \in [Bounds -> Nat]
<1>1. "change" \in Bounds /\ "read" \in Bounds /\ "key" \in Bounds /\ "expiry" \in Bounds
  BY DEF Bounds
<1>2. \/ UNCHANGED spent \/ Spend("change", MaxChanges) \/ Spend("read", MaxReads)
      \/ Spend("key", MaxKeys) \/ Spend("expiry", MaxExpiries)
  BY DEF Next, vars, TableChanges, Launch, AttentionExpires, ReadSource, TuiStep,
         ReceivePeers, ReceiveLink, Normalize, Draw, NoKey, Press
<1> QED
  BY <1>1, <1>2, SpendSteps

LEMMA DisplayedStep ==
  ASSUME DOMAIN peers.peers \subseteq Keys, [Next]_vars
  PROVE  DOMAIN peers'.peers \subseteq Keys
<1>1. CASE UNCHANGED peers
  BY <1>1
<1>2. CASE peers' = Pending
  BY <1>2 DEF Pending
<1>3. CASE peers' = Collected(job.path, job.readings)
  BY <1>3 DEF Collected, ReportedKeys
<1> QED
  BY <1>1, <1>2, <1>3
  DEF Next, vars, TableChanges, Launch, AttentionExpires, ReadSource, TuiStep, ReceivePeers,
      ReceiveLink, Normalize, Draw, NoKey, Press, appVars

\* What a turn of run_tui does to the selection.
LEMMA NormalizeSteps ==
  ASSUME SelectionInvariant, Normalize
  PROVE  /\ InteractionOK(interaction')
         /\ Stands(interaction', Order)
         /\ interaction.peer_selection \in DOMAIN peers.peers =>
              interaction'.peer_selection = interaction.peer_selection
<1> DEFINE new == interaction'
           order == Order
<1>1. new = Normalized(interaction, order)
  BY DEF Normalize
<1>2. /\ order \in Seq(DOMAIN peers.peers)
      /\ \A k \in DOMAIN peers.peers : \E i \in DOMAIN order : order[i] = k
  BY OrderOfPeers DEF SelectionInvariant
<1> HIDE DEF new, order
<1>3. /\ InteractionOK(new) /\ Stands(new, order)
      /\ \A p \in DOMAIN order : order[p] = interaction.peer_selection =>
           new.peer_selection = interaction.peer_selection
  BY <1>1, <1>2, NormalizedRow DEF SelectionInvariant
<1> QED
  BY <1>2, <1>3 DEF new, order

LEMMA DrawSteps ==
  ASSUME SelectionInvariant, Draw
  PROVE  /\ shown'.order = shown.order
         /\ shown'.drawn = shown'.order /\ shown'.frame.highlighted # NONE =>
              /\ shown'.order # <<>>
              /\ shown'.frame.highlighted = interaction.peer_selection
              /\ interaction.active_mode = "peers"
<1>1. CASE interaction.active_mode # "peers"
  <2>1. shown' = [order |-> shown.order, drawn |-> <<>>, frame |-> NoFrame]
    BY <1>1 DEF Draw
  <2> QED
    BY <2>1 DEF NoFrame
<1>2. CASE interaction.active_mode = "peers"
  <2> DEFINE order == Order
  <2>1. PICK capacity \in Capacities :
          shown' = [order |-> shown.order, drawn |-> order,
                    frame |-> Frame(order, interaction.peer_offset, capacity)]
    BY <1>2 DEF Draw
  <2>2. /\ order \in Seq(DOMAIN peers.peers) /\ DOMAIN order = 1 .. Len(order)
        /\ Len(order) \in Nat
    BY OrderOfPeers DEF SelectionInvariant
  <2>3. /\ interaction.peer_offset \in Nat /\ capacity \in Nat
        /\ Stands(interaction, shown.order)
    BY PeerSessionAssumption DEF SelectionInvariant, InteractionOK, Draw
  <2> HIDE DEF order
  <2>4. /\ shown'.order = shown.order /\ shown'.drawn = order
        /\ shown'.frame = Frame(order, interaction.peer_offset, capacity)
    BY <2>1
  <2>5. ASSUME shown.order = order,
               Frame(order, interaction.peer_offset, capacity).highlighted # NONE
        PROVE  /\ order # <<>>
               /\ Frame(order, interaction.peer_offset, capacity).highlighted
                    = interaction.peer_selection
    <3>1. /\ order # <<>>
          /\ Frame(order, interaction.peer_offset, capacity).highlighted
               = order[Least(interaction.peer_offset, Len(order) - 1) + 1]
      BY <2>2, <2>3, <2>5, FrameRow
    <3>2. /\ interaction.peer_offset + 1 \in 1 .. Len(order)
          /\ order[interaction.peer_offset + 1] = interaction.peer_selection
      BY <2>2, <2>3, <2>5, <3>1 DEF Stands
    <3>3. Least(interaction.peer_offset, Len(order) - 1) = interaction.peer_offset
      BY <2>2, <2>3, <3>2 DEF Least
    <3> QED
      BY <3>1, <3>2, <3>3
  <2> QED
    BY <1>2, <2>4, <2>5
<1> QED
  BY <1>1, <1>2

LEMMA PressSteps ==
  ASSUME SelectionInvariant, NEW key \in OperatorKeys \cup {"Down"}, NEW capacity \in Capacities,
         Press(key, capacity)
  PROVE  /\ InteractionOK(interaction')
         /\ spent'.key > spent.key
         /\ /\ key = "Down" /\ capacity # 0 /\ Order # <<>> /\ interaction.active_mode = "peers"
            /\ Stands(interaction, Order)
            => interaction'.peer_selection
                 = Order[Least(interaction.peer_offset + 2, Len(Order))]
<1> DEFINE new == interaction'
           order == Order
<1>1. new = KeyApplied(interaction, order, key, capacity)
  BY DEF Press
<1>2. /\ order \in Seq(DOMAIN peers.peers)
      /\ \A i, j \in DOMAIN order : order[i] = order[j] => i = j
  BY OrderOfPeers DEF SelectionInvariant
<1>3. key \in ModeKeys \cup MoveKeys \cup OtherKeys /\ capacity \in Nat
  BY PeerSessionAssumption DEF MoveKeys
<1>4. InteractionOK(interaction)
  BY DEF SelectionInvariant
<1>5. spent'.key > spent.key
  BY SpendSteps DEF Press, SelectionInvariant, Bounds
<1> HIDE DEF new, order
<1>6. /\ InteractionOK(new)
      /\ /\ key = "Down" /\ capacity # 0 /\ order # <<>> /\ interaction.active_mode = "peers"
         /\ \A p, q \in DOMAIN order : order[p] = order[q] => p = q
         /\ Stands(interaction, order)
         => new.peer_selection = order[Least(interaction.peer_offset + 2, Len(order))]
  BY <1>1, <1>2, <1>3, <1>4, KeyRow
<1> QED
  BY <1>2, <1>5, <1>6 DEF new, order

LEMMA SelectionInit == Init => SelectionInvariant
BY DEF Init, SelectionInvariant, Pending, InteractionOK, Bounds

LEMMA SelectionStep ==
  ASSUME SelectionInvariant, [Next]_vars
  PROVE  SelectionInvariant'
<1>1. DOMAIN peers'.peers \subseteq Keys /\ spent' \in [Bounds -> Nat]
  BY DisplayedStep, SpentStep DEF SelectionInvariant
<1>2. CASE Normalize
  <2>1. /\ InteractionOK(interaction') /\ Stands(interaction', Order)
    BY <1>2, NormalizeSteps
  <2>2. shown'.order = Order /\ turn' = "draw"
    <3>1. shown' = [shown EXCEPT !.order = Order] /\ turn' = "draw"
      BY <1>2 DEF Normalize
    <3> QED
      BY <3>1
  <2> QED
    BY <1>1, <2>1, <2>2 DEF SelectionInvariant
<1>3. CASE Draw
  <2>1. UNCHANGED interaction /\ turn = "draw" /\ turn' = "poll"
    BY <1>3 DEF Draw
  <2> QED
    BY <1>1, <1>3, <2>1, DrawSteps DEF SelectionInvariant
<1>4. CASE \E key \in OperatorKeys, capacity \in Capacities : Press(key, capacity)
  <2>1. InteractionOK(interaction')
    BY <1>4, PressSteps
  <2>2. turn' = "drain"
    BY <1>4 DEF Press
  <2> QED
    BY <1>1, <2>1, <2>2 DEF SelectionInvariant
<1>5. CASE UNCHANGED <<interaction, shown>> /\ turn' \in {turn, "drain"}
  BY <1>1, <1>5 DEF SelectionInvariant
<1> QED
  BY <1>2, <1>3, <1>4, <1>5
  DEF Next, vars, tuiVars, TableChanges, Launch, AttentionExpires, ReadSource, TuiStep,
      ReceivePeers, ReceiveLink, NoKey

\* The selection changes only by a key, or when the selected neighbour is gone
\* from the table (normalize_peer_selection), however the reads and the clock
\* reorder it.
THEOREM SelectionIsKept == Spec => SelectionKept
<1>1. SelectionInvariant /\ [Next]_vars =>
        [ interaction'.peer_selection # interaction.peer_selection =>
            \/ spent'.key > spent.key
            \/ interaction.peer_selection \notin DOMAIN peers.peers ]_vars
  <2> SUFFICES ASSUME SelectionInvariant, [Next]_vars,
                      interaction'.peer_selection # interaction.peer_selection
               PROVE  \/ spent'.key > spent.key
                      \/ interaction.peer_selection \notin DOMAIN peers.peers
    OBVIOUS
  <2>1. CASE Normalize
    BY <2>1, NormalizeSteps
  <2>2. CASE \E key \in OperatorKeys, capacity \in Capacities : Press(key, capacity)
    BY <2>2, PressSteps
  <2>3. CASE UNCHANGED interaction
    BY <2>3
  <2> QED
    BY <2>1, <2>2, <2>3
    DEF Next, vars, tuiVars, TableChanges, Launch, AttentionExpires, ReadSource, TuiStep,
        ReceivePeers, ReceiveLink, NoKey, Draw
<1>2. SelectionInvariant /\ [Next]_vars => SelectionInvariant'
  BY SelectionStep
<1> QED
  BY <1>1, <1>2, SelectionInit, PTL DEF Spec, SelectionKept

\* The highlighted row is the selected neighbour, and Down moves from it to the
\* next row of the table as drawn (render_peer_table, apply_tui_key).
THEOREM DownMovesFromHighlight == Spec => MovesFromHighlight
<1>1. SelectionInvariant /\ [Next]_vars =>
        [ \A capacity \in Capacities \ {0} :
            LET seen == shown.frame.highlighted
                at == CHOOSE i \in DOMAIN Order : Order[i] = seen
                placed == shown.order = Order /\ shown.drawn = Order
            IN Press("Down", capacity) /\ placed /\ seen # NONE =>
                 /\ seen = interaction.peer_selection
                 /\ interaction'.peer_selection =
                      Order[Least(at + 1, Len(Order))] ]_vars
  <2> DEFINE seen == shown.frame.highlighted
             order == Order
             at == CHOOSE i \in DOMAIN order : order[i] = seen
  <2> SUFFICES ASSUME SelectionInvariant, NEW capacity \in Capacities \ {0},
                      Press("Down", capacity), shown.order = order, shown.drawn = order,
                      seen # NONE
               PROVE  /\ seen = interaction.peer_selection
                      /\ interaction'.peer_selection = order[Least(at + 1, Len(order))]
    OBVIOUS
  <2>1. /\ order # <<>> /\ seen = interaction.peer_selection
        /\ interaction.active_mode = "peers" /\ Stands(interaction, order)
    BY DEF SelectionInvariant, Press
  <2>2. interaction'.peer_selection = order[Least(interaction.peer_offset + 2, Len(order))]
    BY <2>1, PressSteps
  <2>3. \A i, j \in DOMAIN order : order[i] = order[j] => i = j
    BY OrderOfPeers DEF SelectionInvariant
  <2>4. interaction.peer_offset \in Nat
    BY DEF SelectionInvariant, InteractionOK
  <2> HIDE DEF order, seen
  <2>5. interaction.peer_offset + 1 \in DOMAIN order /\ order[interaction.peer_offset + 1] = seen
    BY <2>1 DEF Stands
  <2>6. at = interaction.peer_offset + 1
    BY <2>3, <2>5
  <2> HIDE DEF at
  <2>7. at + 1 = interaction.peer_offset + 2
    BY <2>4, <2>6
  <2> QED
    BY <2>1, <2>2, <2>7
<1>2. SelectionInvariant /\ [Next]_vars => SelectionInvariant'
  BY SelectionStep
<1> QED
  BY <1>1, <1>2, SelectionInit, PTL DEF Spec, MovesFromHighlight

=============================================================================
