----------------------------- MODULE Experiment -----------------------------
(***************************************************************************)
(* Latency of the next hop (net.rs, probe_gateway; metrics.rs) and the     *)
(* speed experiment, which takes it before, beside and after iperf3        *)
(* (speed.rs).                                                             *)
(*                                                                         *)
(* The system's ping prints lines; what of them is a sample, and what the  *)
(* samples add up to, is computed.  iperf3 is a bounded command with a     *)
(* callback (BoundedCommand).                                              *)
(***************************************************************************)
EXTENDS BoundedCommand, Assessment, Ordering, FiniteSetsExt, SequencesExt

CONSTANTS
  Attempts,       \* echo requests of one ping
  Rtts,           \* round-trip times of replies, in ms
  MaxDuplicates   \* bound: replies a ping prints again

ASSUME ExperimentAssumption ==
  /\ Attempts \in Nat \ {0} /\ MaxDuplicates \in Nat
  /\ Rtts \subseteq Nat \ {0}

ASSUME NoneIsNoMeasurement ==
  NONE \notin Nat /\ NONE \notin {"none", "running", "exited", "killed"}

VARIABLES
  ping,   \* a ping: the lines it has printed and how it ended
  speed   \* the experiment around iperf3
experimentVars == <<ping, speed>>

PingOff == [phase |-> "off", numbered |-> TRUE, lines |-> <<>>, again |-> 0, end |-> NONE]

\* `before` and the like: the state of iperf3 when the ping was taken.
SpeedOff ==
  [phase |-> "off", gateway |-> TRUE, before |-> NONE, after_spawn |-> NONE,
   after_exit |-> NONE]

ExperimentIdle == ping = PingOff /\ speed = SpeedOff

-----------------------------------------------------------------------------
(***************************************************************************)
(* The system's ping.  Not every ping numbers its replies; those that do   *)
(* print a duplicate again, late replies come out of order, and the        *)
(* summary tells an elapsed time.                                          *)
(***************************************************************************)
StartPing ==
  /\ ping.phase = "off"
  /\ \E numbered \in BOOLEAN :
       ping' = [ping EXCEPT !.phase = "sending", !.numbered = numbered]
  /\ UNCHANGED speed

Replied == {i \in DOMAIN ping.lines : ping.lines[i].kind = "reply"}
Echoed(lines) == {lines[i].attempt : i \in {j \in DOMAIN lines : lines[j].kind = "reply"}}

PrintReply ==
  /\ ping.phase = "sending"
  /\ \E attempt \in 1 .. Attempts, rtt \in Rtts :
       LET again == attempt \in Echoed(ping.lines)
       IN /\ again => ping.numbered /\ ping.again < MaxDuplicates
          /\ ping' = [ping EXCEPT
                        !.lines = Append(@, [kind |-> "reply", attempt |-> attempt, time |-> rtt]),
                        !.again = IF again THEN @ + 1 ELSE @]
  /\ UNCHANGED speed

\* run_bounded ends with the output, which a deadline of the drain may have cut,
\* or without: the ping was killed, is not installed or could not be run.
PingEnds ==
  /\ ping.phase = "sending"
  /\ \E end \in {"output", "deadline", "missing", "error"}, summary \in BOOLEAN :
       /\ end = "missing" => ping.lines = <<>>
       /\ ping' = [ping EXCEPT
                     !.phase = "ended", !.end = end,
                     !.lines = IF summary
                               THEN Append(@, [kind |-> "summary", attempt |-> 0,
                                               time |-> Attempts])
                               ELSE @]
  /\ UNCHANGED speed

-----------------------------------------------------------------------------
(***************************************************************************)
(* What is computed from it.                                               *)
(***************************************************************************)
\* reply_latency_ms: only a reply has a comparator between marker and time.
Latency(output) == IF output.kind = "reply" THEN output.time ELSE NONE

\* reply_sequence.
Sequence(numbered, output) == IF numbered THEN output.attempt ELSE NONE

\* Fault: a duplicate is a sample of its own.
Samples_Duplicates(numbered, lines) ==
  LET replies == SelectSeq(lines, LAMBDA output : Latency(output) # NONE)
  IN [i \in DOMAIN replies |-> Latency(replies[i])]

\* parse_ping_latencies: the first reply to each number.
Samples(numbered, lines) ==
  LET quoted(i) == Sequence(numbered, lines[i])
      kept == {i \in DOMAIN lines :
                 /\ Latency(lines[i]) # NONE
                 /\ quoted(i) # NONE => \A j \in 1 .. i - 1 :
                      Latency(lines[j]) = NONE \/ quoted(j) # quoted(i)}
      order == InOrder(kept, {pair \in kept \X kept : pair[1] < pair[2]})
  IN [n \in DOMAIN order |-> Latency(lines[order[n]])]

\* A percentile, in twentieths of it and of a ms; between two values it is
\* interpolated.
Percentile(values, twentieths) ==
  LET position == (Len(values) - 1) * twentieths
      lower == Smallest(values, position \div 20 + 1)
      upper == Smallest(values, (position + 19) \div 20 + 1)
  IN IF values = <<>> THEN NONE ELSE 20 * lower + (upper - lower) * (position % 20)

\* LatencyMetrics::from_samples.
MetricsOf(samples, sent) ==
  LET Step(i) == samples[i + 1] - samples[i]
      steps == [i \in 1 .. Len(samples) - 1 |-> IF Step(i) < 0 THEN -Step(i) ELSE Step(i)]
  IN [sent |-> sent, received |-> Len(samples),
      lost |-> IF sent > Len(samples) THEN sent - Len(samples) ELSE 0,
      p50 |-> Percentile(samples, 10), p95 |-> Percentile(samples, 19),
      pairs |-> Len(samples) - 1,
      variation |-> SumFunction(steps)]

\* LatencyMetrics::health.
MetricsHealth(metrics) ==
  LET spread == metrics.p95 - metrics.p50
      wide == spread >= 20 * 20 \/ (metrics.p50 > 0 /\ metrics.p95 >= 3 * metrics.p50)
      sustained == metrics.pairs > 0 /\ metrics.variation >= 15 * metrics.pairs
  IN CASE metrics.received = 0 -> "unavailable"
       [] metrics.received > 0 /\ metrics.lost > 0 -> "degraded"
       [] OTHER -> IF metrics.sent >= MinSamples /\ wide /\ sustained
                   THEN "degraded" ELSE "ok"

\* probe_gateway.
PingResult(ended) ==
  LET metrics == MetricsOf(Samples(ended.numbered, ended.lines), Attempts)
  IN CASE ended.end = "missing" -> [health |-> "unavailable", metrics |-> NONE]
       [] ended.end \in {"deadline", "error"} -> [health |-> "failed", metrics |-> NONE]
       [] OTHER -> [health |-> MetricsHealth(metrics), metrics |-> metrics]

-----------------------------------------------------------------------------
(***************************************************************************)
(* The speed experiment.                                                   *)
(***************************************************************************)
\* The gateway is asked for once; without one nothing is measured.
Bracket == IF speed.gateway THEN child ELSE NONE

StartSpeed ==
  /\ speed.phase = "off"
  /\ \E gateway \in BOOLEAN :
       speed' = [speed EXCEPT !.phase = "load", !.gateway = gateway,
                              !.before = IF gateway THEN child ELSE NONE]
  /\ UNCHANGED <<ping, commandVars>>

\* run_bounded_with: the second measurement is its callback.
SpeedLoad ==
  /\ speed.phase = "load" /\ caller.phase # "returned"
  /\ CommandNext
  /\ caller.phase = "off" => callback' # "none" \/ child' = "none"
  /\ speed' = [speed EXCEPT !.after_spawn =
                 IF callback = "running" /\ callback' = "ended" THEN Bracket ELSE @]
  /\ UNCHANGED ping

\* iperf3 could not be run, was killed, or the callback panicked.
SpeedBails ==
  /\ speed.phase = "load" /\ caller.phase = "returned" /\ caller.result = NONE
  /\ speed' = [speed EXCEPT !.phase = "bailed"]
  /\ UNCHANGED <<ping, commandVars>>

\* parse_iperf_json and summarize_iperf_report: a report that was cut does not
\* parse; one that did not complete, or of a command that failed, is refused.
Completed == caller.result > 0

SpeedReports ==
  /\ speed.phase = "load" /\ caller.phase = "returned" /\ caller.result # NONE
  /\ \E phase \in IF Completed THEN {"reported", "bailed"} ELSE {"bailed"} :
       speed' = [speed EXCEPT !.phase = phase, !.after_exit = Bracket]
  /\ UNCHANGED <<ping, commandVars>>

\* The line of the gateway in the printed report.
GatewayLine == NONE \notin {speed.before, speed.after_spawn, speed.after_exit}

PingNext == StartPing \/ PrintReply \/ PingEnds
SpeedNext == StartSpeed \/ SpeedLoad \/ SpeedBails \/ SpeedReports

-----------------------------------------------------------------------------
(***************************************************************************)
(* Properties.                                                             *)
(***************************************************************************)
\* What is reported of the next hop is what it answered.  Every attempt counts
\* once, however often, late or in whatever order its replies were printed, and
\* no line that is not a reply does: what was not answered is lost, nothing else
\* is; half the answers are at or below the median and half at or above it, and
\* no more than a twentieth of them, rounded up, are above the 95th percentile; a
\* result is well only with every answer, and unwell without a loss only if the
\* answers differ that much.
EchoesCounted ==
  ping.phase = "ended" =>
    LET result == PingResult(ping)
        metrics == result.metrics
        answered == Echoed(ping.lines)
        first(attempt) ==
          CHOOSE i \in Replied : /\ ping.lines[i].attempt = attempt
                                 /\ \A j \in Replied : ping.lines[j].attempt = attempt => i <= j
        time == [attempt \in answered |-> ping.lines[first(attempt)].time]
        times == {time[attempt] : attempt \in answered}
    IN IF ping.end # "output" THEN metrics = NONE /\ result.health \in {"failed", "unavailable"}
       ELSE /\ metrics.received = Cardinality(answered)
            /\ metrics.lost = Attempts - Cardinality(answered)
            /\ result.health = "unavailable" <=> answered = {}
            /\ result.health = "ok" => answered = 1 .. Attempts
            /\ answered # {} =>
                 /\ 2 * Cardinality({a \in answered : 20 * time[a] <= metrics.p50})
                      >= Cardinality(answered)
                 /\ 2 * Cardinality({a \in answered : 20 * time[a] >= metrics.p50})
                      >= Cardinality(answered)
                 /\ metrics.p50 <= metrics.p95 /\ metrics.p95 <= 20 * Max(times)
                 /\ 20 * Cardinality({a \in answered : 20 * time[a] > metrics.p95})
                      < Cardinality(answered) + 19
            /\ result.health = "degraded" /\ answered = 1 .. Attempts =>
                 /\ Max(times) - Min(times) >= 15
                 /\ Max(times) - Min(times) >= 20 \/ Max(times) >= 3 * Min(times)

\* A report of the experiment brackets a transfer: one latency was taken before
\* iperf3 ran and one when it was over, all three or none are there, and the
\* transfer ended by itself within the time it had; "after spawn" may be any
\* time since, as its limitation says.
SpeedBracketed ==
  /\ speed.phase = "reported" =>
       /\ child = "exited" /\ caller.exited <= Timeout
       /\ IF speed.gateway
          THEN /\ GatewayLine
               /\ speed.before = "none" /\ speed.after_exit = "exited"
               /\ speed.after_spawn \in {"running", "exited"}
          ELSE {speed.before, speed.after_spawn, speed.after_exit} = {NONE}
  /\ speed.phase = "bailed" => child # "running"

\* Both, of a latency that is reported and of the experiment around iperf3.
LatencyHonest == EchoesCounted /\ SpeedBracketed
=============================================================================
