------------------------------ MODULE Workload ------------------------------
(***************************************************************************)
(* Process accounting (net.rs, collect_workload_snapshot) and what         *)
(* `linktop readiness` makes of three samples of it (output.rs).           *)
(*                                                                         *)
(* nettop prints two blocks: what every process has moved since it         *)
(* started, and what it moved in the second between them.  It runs beside  *)
(* the probes of the same command, whose own traffic it sees.              *)
(***************************************************************************)
EXTENDS Absent, Integers, Ordering, Functions

CONSTANTS
  Programs,     \* per row nettop prints, the program; in the order of their names
  Traffic,        \* [received, transmitted] of a process in a second
  SampleCount   \* READINESS_WORKLOAD_SAMPLE_COUNT

ASSUME WorkloadAssumption ==
  /\ Programs \in Seq(Nat)
  /\ Traffic \subseteq [received : Nat, transmitted : Nat]
  /\ SampleCount \in Nat \ {0}

VARIABLE workload  \* the sampler of one readiness command
Rows == DOMAIN Programs

\* `second` is what the processes really move, `printed` the lines so far, and
\* `latest` the snapshot of the sample before.
WorkloadIdle ==
  workload = [phase |-> "off", second |-> NONE, printed |-> 0, latest |-> NONE,
              samples |-> <<>>]

-----------------------------------------------------------------------------
(***************************************************************************)
(* The output of nettop: a header and a row per process, twice.            *)
(***************************************************************************)
Row(n) == (n - 1) % (Len(Programs) + 1)
Block(n) == (n - 1) \div (Len(Programs) + 1) + 1
WholeOutput == 2 * (Len(Programs) + 1)

\* Since it started, a process has moved more than in the last second.
RowOf(second, n) ==
  LET row == Row(n)
      now == second[row]
  IN IF Block(n) = 2 THEN now
     ELSE [received |-> now.received + 1, transmitted |-> now.transmitted]

\* Fault: what was read before a header stays (no clear).
LastBlock_Both(lines) == {n \in 1 .. lines : Row(n) # 0}

\* parse_nettop_process_traffic: rows after the last header.
LastBlock(lines) == {n \in 1 .. lines : Row(n) # 0 /\ Block(n) = Block(lines)}

Total(moved) == moved.received + moved.transmitted

Busier(a, b) ==
  Total(a) > Total(b) \/ (Total(a) = Total(b) /\ a.process < b.process)

\* Rows without traffic are skipped, those of one program added up, and the
\* busiest comes first.
Processes(second, lines) ==
  LET busy == {n \in LastBlock(lines) : Total(RowOf(second, n)) > 0}
      Of(program) == {n \in busy : Programs[Row(n)] = program}
      group(program) ==
        [process |-> program, processes |-> Cardinality(Of(program)),
         received |-> SumFunctionOnSet([n \in busy |-> RowOf(second, n).received],
                                       Of(program)),
         transmitted |-> SumFunctionOnSet([n \in busy |-> RowOf(second, n).transmitted],
                                          Of(program))]
      groups == {group(Programs[Row(n)]) : n \in busy}
  IN InOrder(groups, {pair \in groups \X groups : Busier(pair[1], pair[2])})

\* collect_workload_snapshot: only a nettop that exits well is parsed, cut or not.
WorkloadSnapshot(end, second, lines) ==
  IF end = "exited" THEN [health |-> "ok", processes |-> Processes(second, lines)]
  ELSE [health |-> "unavailable", processes |-> <<>>]

-----------------------------------------------------------------------------
(***************************************************************************)
(* The sampler thread of readiness.                                        *)
(***************************************************************************)
\* One nettop after the other.
StartNettop ==
  /\ workload.phase \in {"off", "sampled"} /\ Len(workload.samples) < SampleCount
  /\ \E second \in [Rows -> Traffic] :
       workload' = [workload EXCEPT !.phase = "sampling", !.second = second,
                                    !.printed = 0, !.latest = NONE]

PrintLine ==
  /\ workload.phase = "sampling" /\ workload.printed < WholeOutput
  /\ workload' = [workload EXCEPT !.printed = @ + 1]

\* It exits, well or not, is killed at the deadline, or could not be run; where
\* a drain was cut, only some of the lines were read.
NettopEnds ==
  /\ workload.phase = "sampling"
  /\ \E end \in {"exited", "status", "deadline", "missing"} :
       LET snapshot == WorkloadSnapshot(end, workload.second, workload.printed)
       IN /\ end = "missing" => workload.printed = 0
          /\ workload' = [workload EXCEPT
               !.phase = "sampled", !.latest = snapshot,
               !.samples = Append(@,
                 [health |-> snapshot.health, traffic |-> snapshot.processes # <<>>,
                  whole |-> workload.printed = WholeOutput,
                  quiet |-> \A row \in Rows : Total(workload.second[row]) = 0])]

WorkloadNext == StartNettop \/ PrintLine \/ NettopEnds

\* readiness_document_with_workload, of an idle background.
IdleBackground(samples) ==
  LET healthy == {i \in DOMAIN samples : samples[i].health = "ok"}
      traffic == {i \in DOMAIN samples : samples[i].traffic}
  IN CASE samples = <<>> -> "not_tested"
       [] samples # <<>> /\ Len(samples) < SampleCount -> "insufficient"
       [] OTHER -> IF Cardinality(healthy) < Len(samples) THEN "insufficient"
                   ELSE IF traffic # {} THEN "degraded" ELSE "ready"

-----------------------------------------------------------------------------
\* Traffic is told of who moved it, in the second it was sampled.  Of an output
\* read to its end, every program that moved anything is listed once, with all
\* of its processes and bytes and none of the time before, the busiest first;
\* of one that was cut, nobody is listed who is not on the host.  A background
\* is called idle only after every sample was taken and no second that was read
\* to its end had traffic, and busy only with one that had, or was cut.
TrafficAttributed ==
  /\ workload.latest # NONE =>
       LET listed == workload.latest.processes
           Of(program) == {row \in Rows : /\ Programs[row] = program
                                          /\ Total(workload.second[row]) > 0}
           busy == {program \in {Programs[row] : row \in Rows} : Of(program) # {}}
       IN /\ \A i, j \in DOMAIN listed :
               i < j => /\ Total(listed[i]) >= Total(listed[j])
                        /\ listed[i].process # listed[j].process
          /\ \A i \in DOMAIN listed : \E row \in Rows : Programs[row] = listed[i].process
          /\ workload.latest.health = "ok" /\ workload.printed = WholeOutput =>
               /\ {listed[i].process : i \in DOMAIN listed} = busy
               /\ \A i \in DOMAIN listed :
                    /\ listed[i].processes = Cardinality(Of(listed[i].process))
                    /\ Total(listed[i]) =
                         SumFunctionOnSet([row \in Rows |-> Total(workload.second[row])],
                                          Of(listed[i].process))
  /\ LET samples == workload.samples
         status == IdleBackground(samples)
     IN /\ status = "ready" =>
             /\ Len(samples) = SampleCount
             /\ \A i \in DOMAIN samples : /\ samples[i].health = "ok"
                                          /\ samples[i].whole => samples[i].quiet
        /\ status = "degraded" =>
             \E i \in DOMAIN samples : samples[i].whole => ~samples[i].quiet
=============================================================================
