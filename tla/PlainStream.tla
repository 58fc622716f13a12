---------------------------- MODULE PlainStream ----------------------------
(***************************************************************************)
(* The plain text of a live observation (main.rs, run_plain; plain.rs): a  *)
(* plan at the start, and for every update a line for each conclusion that *)
(* differs from what it was just before.  A bounded run ends with a        *)
(* summary.                                                                *)
(*                                                                         *)
(* The evidence and its updates are those of LiveStream.                   *)
(***************************************************************************)
EXTENDS LiveStream

VARIABLES
  plain,   \* the loop of run_plain
  said     \* what the lines said last of each conclusion
plainVars == <<plain, said>>

\* PlainState::for_mode: what an update is compared with.
PlainState(e, mode) ==
  [situation |-> Situation(e), coverage |-> CoverageFor(e, mode),
   progress |-> Progress(e, mode)]

NoPlain == [phase |-> "off", mode |-> "overview", bounded |-> FALSE, updates |-> 0]

\* Before the first situation line; `aged`: a result aged since the last one.
SaidFirst(e, mode) ==
  [situation |-> Situation(e), coverage |-> CoverageFor(e, mode),
   progress |-> Progress(e, mode), aged |-> FALSE]

PlainIdle ==
  /\ plain = NoPlain
  /\ said = SaidFirst(NewEvidence("passive"), "overview")

\* The header and format_progress_snapshot.
StartPlain ==
  /\ plain.phase = "off"
  /\ \E mode \in Modes, bounded \in BOOLEAN,
        e \in {NewEvidence("passive"), NewEvidence("active")} \cup Underway :
       /\ Active(e) => mode = "overview"
       /\ evidence' = e
       /\ plain' = [plain EXCEPT !.phase = "running", !.mode = mode,
                                 !.bounded = bounded]
       /\ said' = SaidFirst(e, mode)
  /\ UNCHANGED <<stream, line, summary>>

\* Fault: coverage that changes alone makes no line.
SituationLine_NoCoverage(before, after) == before.situation # after.situation

\* The situation line names both.
SituationLine(before, after) ==
  \/ before.situation # after.situation
  \/ before.coverage # after.coverage

\* progress_materially_changed, for the state of a claim.
ProgressLine(before, after, c) == before.progress[c] # after.progress[c]

\* What the lines of an update say, which turned `before` into `after`.
Told(before, after) ==
  LET line_due == SituationLine(before, after)
  IN [situation |-> IF line_due THEN after.situation ELSE said.situation,
      coverage |-> IF line_due THEN after.coverage ELSE said.coverage,
      progress |-> [c \in DOMAIN after.progress |->
                      IF ProgressLine(before, after, c) THEN after.progress[c]
                      ELSE said.progress[c]],
      aged |-> said.aged /\ ~line_due]

-----------------------------------------------------------------------------
(***************************************************************************)
(* The loop.                                                               *)
(***************************************************************************)
\* An update the App refuses changes no conclusion and makes no such line (it
\* may print what it carries); the updates here are those it accepts.
PlainReceive ==
  /\ plain.phase = "running" /\ plain.updates < MaxUpdates
  /\ \E e \in Updates(evidence, plain.mode) :
       /\ evidence' = e
       /\ said' = Told(PlainState(evidence, plain.mode), PlainState(e, plain.mode))
  /\ plain' = [plain EXCEPT !.updates = @ + 1]
  /\ UNCHANGED <<stream, line, summary>>

\* A result passes its freshness window; no update says so, and no line.
PlainAges ==
  /\ plain.phase = "running"
  /\ \E kind \in ProbeKinds \ ({"Gateway"} \cup evidence.stale) :
       /\ Active(evidence) /\ evidence.probes[kind] \notin Pending
       /\ evidence' = [evidence EXCEPT !.stale = @ \cup {kind}]
  /\ said' = [said EXCEPT !.aged = TRUE]
  /\ UNCHANGED <<plain, stream, line, summary>>

\* The deadline, or the end of the monitor: format_final_progress_summary.
EndPlain ==
  /\ plain.phase = "running"
  /\ plain' = [plain EXCEPT !.phase = "over"]
  /\ summary' = IF plain.bounded
                THEN [sequence |-> 0,
                      projection |-> FinalProjection(evidence, plain.mode)]
                ELSE NONE
  /\ UNCHANGED <<said, evidence, stream, line>>

PlainNext == StartPlain \/ PlainReceive \/ PlainAges \/ EndPlain

-----------------------------------------------------------------------------
(***************************************************************************)
(* Properties.                                                             *)
(***************************************************************************)
\* A reader of the lines knows the conclusions: each line compares with the
\* state just before its update only, and none is printed when time makes a
\* result stale, yet what was said last of a claim is its state or the claim
\* is stale, and what was said last of the situation and the coverage is so
\* unless a result aged since.  The summary continues from there.
PlainTells ==
  LET now == PlainState(evidence, plain.mode)
  IN plain.phase \in {"running", "over"} =>
       /\ \A c \in DOMAIN now.progress :
            said.progress[c] = now.progress[c] \/ now.progress[c] = "stale"
       /\ ~said.aged => said.situation = now.situation /\ said.coverage = now.coverage
       /\ summary # NONE =>
            \A c \in DOMAIN now.progress :
              LET end == summary.projection.progress[c]
              IN \/ end = "stale"
                 \/ IF said.progress[c] = "collecting"
                    THEN end \in {"insufficient", "unavailable"}
                    ELSE end = said.progress[c]
=============================================================================
