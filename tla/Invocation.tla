----------------------------- MODULE Invocation -----------------------------
(***************************************************************************)
(* What a command line runs (main.rs): options before and after the        *)
(* subcommand are merged or refused, and the terminal, the options and the *)
(* environment decide which surface opens, under which probe policy and    *)
(* with which history.                                                     *)
(*                                                                         *)
(* Values are left out: an option is there or not.  Ranges and conflicts   *)
(* within one set of options are clap's.                                   *)
(***************************************************************************)
EXTENDS LiveStream

VARIABLE invocation  \* the command line, once it has been typed, and what it runs

ASSUME InvocationAssumption == NONE \notin {"line", "environment"}

Subcommands ==
  {"none", "snapshot", "probe", "readiness", "link", "peers", "review", "history",
   "capsule", "speed", "screenshot"}
OneShots == {"snapshot", "probe", "readiness"}
WithJson == OneShots \cup {"link", "peers", "review", "history", "speed"}

LiveOptions ==
  {o \in [interval : BOOLEAN, plain : BOOLEAN, jsonl : BOOLEAN, dwell : BOOLEAN] :
     ~(o.plain /\ o.jsonl)}
NoOptions == [interval |-> FALSE, plain |-> FALSE, jsonl |-> FALSE, dwell |-> FALSE]

\* Options of `screenshot` besides its interval; scenes of their own modes.
NoShot == [view |-> "overview", active |-> FALSE, scene |-> "none"]
Scenes ==
  [none |-> Modes, dense_peers |-> {"overview", "peers"}, hotspot |-> {"overview"}]
ShotOptions == [view : Modes, active : BOOLEAN, scene : DOMAIN Scenes]

\* What may be typed after a subcommand: `own` are its live options.
OwnOptions(subcommand) ==
  CASE subcommand \in {"link", "peers"} -> LiveOptions
    [] subcommand = "screenshot" -> {NoOptions, [NoOptions EXCEPT !.interval = TRUE]}
    [] OTHER -> {NoOptions}

Lines ==
  UNION {[subcommand : {subcommand},
          json : IF subcommand \in WithJson THEN BOOLEAN ELSE {FALSE},
          root : LiveOptions, own : OwnOptions(subcommand), active : BOOLEAN,
          shot : IF subcommand = "screenshot" THEN ShotOptions ELSE {NoShot}] :
           subcommand \in Subcommands}

\* Where it is typed: history named on the line, LINKTOP_HISTORY, whether input
\* and output are terminals, and the hidden option of a native screenshot.
Surroundings ==
  [history : BOOLEAN, environment : {"absent", "empty", "set"},
   terminal : {"both", "one", "neither"}, child : BOOLEAN]

NotTyped == [typed |-> NONE, runs |-> NONE]
InvocationIdle == invocation = NotTyped

-----------------------------------------------------------------------------
\* merge_live_options and merge_interval.
MergeRefused(root, own) ==
  \/ root.interval /\ own.interval
  \/ root.dwell /\ own.dwell
  \/ (root.plain \/ own.plain) /\ (root.jsonl \/ own.jsonl)

Merged(root, own) == [o \in DOMAIN root |-> root[o] \/ own[o]]

\* Fault: without a terminal an observation is taken once, however long it was
\* to last.
LiveOutput_DwellIgnored(terminal, live) ==
  IF live.jsonl THEN "jsonl"
  ELSE IF live.plain THEN "plain"
  ELSE IF terminal = "both" THEN "tui"
  ELSE "once"

\* choose_live_output.
LiveOutput(terminal, live) ==
  IF live.jsonl THEN "jsonl"
  ELSE IF live.plain THEN "plain"
  ELSE IF terminal = "both" THEN "tui"
  ELSE IF live.dwell THEN "plain"
  ELSE "once"

\* resolve_default_history.
DefaultHistory(where, live) ==
  IF where.history THEN "line"
  ELSE IF live /\ where.environment = "set" THEN "environment" ELSE NONE

\* validate_internal_screenshot_child.
ChildRefused(argv, where) ==
  /\ where.child
  /\ \/ where.terminal # "both" \/ argv.active \/ where.history
     \/ where.environment = "set"
     \/ argv.root.plain \/ argv.root.jsonl
     \/ argv.subcommand \notin {"none", "link", "peers"}
     \/ argv.json \/ argv.own.plain \/ argv.own.jsonl

\* `screenshot`: its own lifetime, one mode and no probes in a scene.
ScreenshotRefused(argv) ==
  \/ argv.root.plain \/ argv.root.jsonl \/ argv.root.dwell
  \/ argv.root.interval /\ argv.own.interval
  \/ argv.shot.active /\ argv.shot.view # "overview"
  \/ argv.shot.view \notin Scenes[argv.shot.scene]
  \/ argv.shot.active /\ argv.shot.scene # "none"

Refused(argv, where) ==
  LET history == DefaultHistory(where, LiveOutput(where.terminal, argv.root) # "once")
      live == Merged(argv.root, argv.own)
  IN \/ ChildRefused(argv, where)
     \/ argv.subcommand # "none" /\ (argv.active \/ where.history)
     \/ CASE argv.subcommand = "none" ->
               LiveOutput(where.terminal, argv.root) = "once" /\ history # NONE
          [] argv.subcommand \in {"link", "peers"} ->
               \/ MergeRefused(argv.root, argv.own)
               \/ argv.json /\ live # NoOptions
          [] argv.subcommand = "screenshot" -> ScreenshotRefused(argv)
          [] OTHER -> argv.root # NoOptions

Runs(subject, output, policy, bounded, history) ==
  [subject |-> subject, output |-> output, policy |-> policy, bounded |-> bounded,
   history |-> history]

\* The arms of main.
Dispatched(argv, where) ==
  LET live == Merged(argv.root, argv.own)
      output == LiveOutput(where.terminal, live)
      policy == IF argv.active THEN "active" ELSE "passive"
      document == IF argv.json THEN "json" ELSE "text"
  IN CASE argv.subcommand = "none" /\ output = "once" ->
            Runs(IF argv.active THEN "probe" ELSE "snapshot", "text", policy, FALSE, NONE)
       [] argv.subcommand = "none" /\ output # "once" ->
            Runs("overview", output, policy, live.dwell, DefaultHistory(where, TRUE))
       [] argv.subcommand \in {"link", "peers"} /\ (argv.json \/ output = "once") ->
            Runs(argv.subcommand, document, "passive", FALSE, NONE)
       [] argv.subcommand \in {"link", "peers"} /\ ~argv.json /\ output # "once" ->
            Runs(argv.subcommand, output, "passive", live.dwell, NONE)
       [] argv.subcommand \in {"probe", "readiness", "speed"} ->
            Runs(argv.subcommand, document, "active", FALSE, NONE)
       [] argv.subcommand = "screenshot" ->
            Runs(argv.shot.view, "frames", IF argv.shot.active THEN "active" ELSE "passive",
                 TRUE, NONE)
       [] OTHER -> Runs(argv.subcommand, document, "passive", FALSE, NONE)

TypeLine ==
  /\ invocation = NotTyped
  /\ \E argv \in Lines, where \in Surroundings :
       invocation' = [typed |-> [argv |-> argv, where |-> where],
                      runs |-> IF Refused(argv, where) THEN NONE
                               ELSE Dispatched(argv, where)]

-----------------------------------------------------------------------------
\* What was typed is what runs.  Every option shapes the run or the line is
\* refused, but for the interval of an observation that is taken once; probes
\* are sent only where the line asks for them, and then the run is of the
\* overview or an active command of its own, as the streams assume; only a live
\* overview has a history, the one named on the line first; the child of a
\* native screenshot is a passive terminal without one.
InvocationHonoured ==
  invocation.runs # NONE =>
    LET argv == invocation.typed.argv
        where == invocation.typed.where
        runs == invocation.runs
        typed(option) == argv.root[option] \/ argv.own[option]
        live == runs.output \in {"tui", "plain", "jsonl"}
        once == runs.output \in {"text", "json"}
    IN /\ typed("jsonl") => runs.output = "jsonl"
       /\ typed("plain") => runs.output = "plain"
       /\ typed("dwell") => runs.bounded /\ live
       /\ typed("interval") =>
            /\ ~(argv.root.interval /\ argv.own.interval)
            /\ \/ live \/ runs.output = "frames"
               \/ /\ once /\ where.terminal # "both" /\ ~argv.json
                  /\ argv.subcommand \in {"none", "link", "peers"}
       /\ argv.json => runs.output = "json" /\ runs.subject = argv.subcommand
       /\ (runs.policy = "active") <=>
            argv.active \/ argv.shot.active \/ argv.subcommand \in {"probe", "readiness", "speed"}
       /\ runs.output = "jsonl" /\ runs.policy = "active" => runs.subject = "overview"
       /\ runs.policy = "active" => runs.subject \in {"overview", "probe", "readiness", "speed"}
       /\ where.history => runs.history = "line"
       /\ runs.history # NONE => live /\ runs.subject = "overview"
       /\ live /\ runs.subject = "overview" /\ where.environment = "set" => runs.history # NONE
       /\ where.child => runs.output = "tui" /\ runs.policy = "passive" /\ runs.history = NONE
=============================================================================
