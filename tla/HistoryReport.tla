--------------------------- MODULE HistoryReport ---------------------------
(***************************************************************************)
(* The offline report (`linktop history`) over the log that live processes *)
(* write, against what they said while they wrote it.                      *)
(***************************************************************************)
EXTENDS History, Episodes

\* What is recorded last is also last in time, nothing in the log is unknown
\* to the process, and its assessment is on display.
JustAssessed ==
  /\ running
  /\ context \in Assessments
  /\ file.state = "good"
  /\ session.records = file.records
  /\ file.records = Replay(file.records)

LatestRecord == file.records[Len(file.records)]

Reported(report) == {report[i] : i \in DOMAIN report}

\* The last episode of this host that the report of the log lists.
LatestEpisode ==
  LET own == {e \in Reported(SummarizeEpisodes(file.records)) : e.observer = ThisHost}
  IN CHOOSE e \in own : \A f \in own : f.onset <= e.onset

\* The offline report of a log is its partition into stretches of one context
\* per observer, each with the number of earlier stretches of that context.
EpisodesAgree ==
  file.state = "good" =>
    LET report == SummarizeEpisodes(file.records) IN
    /\ Reported(report) = EpisodesByDefinition(file.records)
    /\ \A i, j \in DOMAIN report : i < j => report[i].onset < report[j].onset

\* What a process says of a network when it records it and what the report
\* says of the same log later do not contradict each other.
SurfacesAgree ==
  JustAssessed =>
    CASE context = "FirstObservation" -> LatestEpisode.kind = "Initial"
      [] context = "Returned" ->
           /\ LatestEpisode.kind = "Returned"
           /\ LatestEpisode.recovery = LatestRecord.time
      [] context = "Recurring" ->
           /\ LatestRecord.path.mac # NONE
           /\ LatestEpisode.kind = "Returned" \/ LatestEpisode.observations > 1
      [] context = "Changed" ->
           /\ LatestEpisode.onset = LatestRecord.time
           /\ LatestEpisode.kind = "Returned" => LatestRecord.path.mac = NONE
      [] context = "Compatible" ->
           \/ LatestEpisode.changed # {}
           \/ LatestRecord.path.mac = NONE
=============================================================================
