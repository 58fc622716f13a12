------------------------------ MODULE Episodes ------------------------------
(***************************************************************************)
(* The offline report over a history log (history.rs, summarize_episodes): *)
(* per observer, the stretches of records with one context key.            *)
(***************************************************************************)
EXTENDS HostPath

\* HistoryEpisodeSummaryV0, of the dimensions the comparison has.
Episode ==
  [observer     : Observers,
   key          : HostPath,
   kind         : {"Initial", "Returned", "Changed"},
   onset        : Nat,
   latest       : Nat,
   recovery     : Nat \cup {NONE},
   observations : Nat,
   prior        : Nat,
   changed      : SUBSET {"interface", "ssid", "gateway", "mac", "resolvers"}]

ASSUME NoneIsNoEpisode == NONE \notin Episode

NoHistory ==
  [active   |-> [o \in Observers |-> NONE],
   previous |-> [o \in Observers |-> NONE],
   finished |-> {}]

\* Fault: what was seen before is looked up among everyone's episodes.
PriorExactEpisodes_AnyObserver(s, o, key) ==
  Cardinality({e \in s.finished : e.key = key})

\* prior_exact_episodes: it is counted up exactly where an episode is pushed
\* to the finished ones; no two of these are alike, for no two records have one
\* time.
PriorExactEpisodes(s, o, key) ==
  Cardinality({e \in s.finished : e.observer = o /\ e.key = key})

Changes(previous, record) ==
  IF previous = NONE THEN {} ELSE ChangedDimensions(previous, record)

NewEpisode(s, record) ==
  LET o     == record.observer
      prior == PriorExactEpisodes(s, o, ContextKey(record))
      kind  == IF s.previous[o] = NONE THEN "Initial"
               ELSE IF prior > 0 THEN "Returned" ELSE "Changed"
  IN [observer     |-> o,
      key          |-> ContextKey(record),
      kind         |-> kind,
      onset        |-> record.time,
      latest       |-> record.time,
      recovery     |-> IF kind = "Returned" THEN record.time ELSE NONE,
      observations |-> 1,
      prior        |-> prior,
      changed      |-> Changes(s.previous[o], record)]

Continued(episode, previous, record) ==
  [episode EXCEPT !.changed = @ \cup Changes(previous, record),
                  !.latest = record.time,
                  !.observations = @ + 1]

\* One record of the loop in summarize_episodes.
Reduce(s, record) ==
  LET o       == record.observer
      episode == s.active[o]
      changed == episode # NONE /\ episode.key # ContextKey(record)
  IN [active |-> [s.active EXCEPT ![o] =
                    IF episode = NONE \/ changed
                    THEN NewEpisode(s, record)
                    ELSE Continued(episode, s.previous[o], record)],
      previous |-> [s.previous EXCEPT ![o] = record],
      finished |-> IF changed THEN s.finished \cup {episode} ELSE s.finished]

\* What the loop has after each number of records.
Reduced(records) ==
  LET after[n \in 0 .. Len(records)] ==
        IF n = 0 THEN NoHistory ELSE Reduce(after[n - 1], records[n])
  IN after

SummarizeEpisodes(records) ==
  LET s        == Reduced(Replay(records))[Len(records)]
      episodes == s.finished \cup ({s.active[o] : o \in Observers} \ {NONE})
  IN InOrder(episodes, {pair \in episodes \X episodes : pair[1].onset < pair[2].onset})

-----------------------------------------------------------------------------
(***************************************************************************)
(* The report by definition: one episode for every maximal run of equal    *)
(* keys among an observer's records in the order of their times.           *)
(***************************************************************************)
\* The places from a to b of records of the observer of a.
Stretch(records, a, b) == Own(records, records[a].observer) \cap (a .. b)

\* From a to b the observer's records have one key and those next to them,
\* before a and after b, another.
IsRun(records, a, b) ==
  LET own == Own(records, records[a].observer)
      other == {i \in own : ContextKey(records[i]) # ContextKey(records[a])}
  IN /\ b \in own /\ a <= b
     /\ other \cap (a .. b) = {}
     /\ \A i \in own : i < a => \E j \in other : i <= j /\ j < a
     /\ \A i \in own : b < i => \E j \in other : b < j /\ j <= i

Runs(records) ==
  {r \in (DOMAIN records) \X (DOMAIN records) : IsRun(records, r[1], r[2])}

\* The runs of the same key and the same observer before a place.
Earlier(records, a) ==
  {r \in Runs(records) : /\ r[2] < a
                         /\ records[r[1]].observer = records[a].observer
                         /\ ContextKey(records[r[1]]) = ContextKey(records[a])}

\* Every record from a to b with the one of the observer before it.
Successions(records, a, b) ==
  {q \in (1 .. b) \X Stretch(records, a, b) :
     q[1] < q[2] /\ Stretch(records, q[1], q[2]) = {q[1], q[2]}
                 /\ records[q[1]].observer = records[q[2]].observer}

EpisodeOf(records, a, b) ==
  LET kind == IF \A i \in Own(records, records[a].observer) : i >= a THEN "Initial"
              ELSE IF Earlier(records, a) # {} THEN "Returned" ELSE "Changed"
  IN [observer     |-> records[a].observer,
      key          |-> ContextKey(records[a]),
      kind         |-> kind,
      onset        |-> records[a].time,
      latest       |-> records[b].time,
      recovery     |-> IF kind = "Returned" THEN records[a].time ELSE NONE,
      observations |-> Cardinality(Stretch(records, a, b)),
      prior        |-> Cardinality(Earlier(records, a)),
      changed      |-> UNION {ChangedDimensions(records[q[1]], records[q[2]]) :
                                q \in Successions(records, a, b)}]

EpisodesByDefinition(records) ==
  LET replay == Replay(records)
  IN {EpisodeOf(replay, r[1], r[2]) : r \in Runs(replay)}
=============================================================================
