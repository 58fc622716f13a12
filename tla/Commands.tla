------------------------------ MODULE Commands ------------------------------
(***************************************************************************)
(* One run of the program is one command (main.rs): a machine stream of a  *)
(* live observation, a bounded diagnosis, a capsule, a screenshot, or, in  *)
(* any of them, a host command within a timeout.  They share the           *)
(* assessment of evidence and no state, so each is checked by itself.      *)
(***************************************************************************)
EXTENDS PlainStream, PathWindows, Panels, OneShot, Experiment, Workload,
  Invocation, Capsule, Capture

VARIABLE command
vars == <<command, streamVars, plainVars, windowVars, shotVars, commandVars, experimentVars,
          workload, invocation, capsuleVars, captureVars>>

Init ==
  /\ command \in {"stream", "plain", "windows", "probe", "host", "ping", "speed", "readiness",
                  "line", "capsule", "screenshot"}
  /\ IF command = "stream" THEN StreamInit ELSE StreamIdle
  /\ IF command = "windows" THEN WindowsInit ELSE WindowsIdle
  /\ PlainIdle /\ ShotInit /\ CommandInit /\ ExperimentIdle /\ WorkloadIdle
  /\ InvocationIdle
  /\ CapsuleInit /\ CaptureInit

Stream ==
  /\ command = "stream" /\ StreamNext
  /\ UNCHANGED <<command, workload, plainVars, windowVars, shotVars, commandVars,
                  experimentVars, invocation, capsuleVars, captureVars>>

Plain ==
  /\ command = "plain" /\ PlainNext
  /\ UNCHANGED <<command, workload, windowVars, shotVars, commandVars, experimentVars,
                  invocation, capsuleVars, captureVars>>

Windows ==
  /\ command = "windows" /\ WindowsNext
  /\ UNCHANGED <<command, workload, streamVars, plainVars, shotVars, commandVars,
                  experimentVars, invocation, capsuleVars, captureVars>>

Probe ==
  /\ command = "probe" /\ ShotNext
  /\ UNCHANGED <<command, workload, streamVars, plainVars, windowVars, commandVars,
                  experimentVars, invocation, capsuleVars, captureVars>>

Host ==
  /\ command = "host" /\ CommandNext
  /\ UNCHANGED <<command, workload, streamVars, plainVars, windowVars, shotVars,
                  experimentVars, invocation, capsuleVars, captureVars>>

Ping ==
  /\ command = "ping" /\ PingNext
  /\ UNCHANGED <<command, workload, streamVars, plainVars, windowVars, shotVars, commandVars,
                  invocation, capsuleVars, captureVars>>

Speed ==
  /\ command = "speed" /\ SpeedNext
  /\ UNCHANGED <<command, workload, streamVars, plainVars, windowVars, shotVars, invocation,
                  capsuleVars, captureVars>>

Readiness ==
  /\ command = "readiness" /\ WorkloadNext
  /\ UNCHANGED <<command, streamVars, plainVars, windowVars, shotVars, commandVars,
                  experimentVars, invocation, capsuleVars, captureVars>>

Line ==
  /\ command = "line" /\ TypeLine
  /\ UNCHANGED <<command, workload, streamVars, plainVars, windowVars, shotVars, commandVars,
                  experimentVars, capsuleVars, captureVars>>

Capsules ==
  /\ command = "capsule" /\ CapsuleNext
  /\ UNCHANGED <<command, workload, streamVars, plainVars, windowVars, shotVars, commandVars,
                  experimentVars, invocation, captureVars>>

Screenshot ==
  /\ command = "screenshot" /\ CaptureNext
  /\ UNCHANGED <<command, workload, streamVars, plainVars, windowVars, shotVars, commandVars,
                  experimentVars, invocation, capsuleVars>>

Next ==
  \/ Stream \/ Plain \/ Windows \/ Probe \/ Host \/ Ping \/ Speed
  \/ Readiness \/ Line \/ Capsules \/ Screenshot

Spec == Init /\ [][Next]_vars

-----------------------------------------------------------------------------
\* What a report computes from the output of the host's commands is what they
\* measured (Experiment, Workload).
MeasurementsHonest == LatencyHonest /\ TrafficAttributed

\* What is said of the evidence of a bounded session, wherever it ends (it may at any
\* time), is borne out by it (Diagnosis), and shown alike by every line and on
\* every terminal (Panels); so is what would be said of a report's.
DiagnosisBacked ==
  /\ stream.phase = "over" /\ summary # NONE =>
       Backed(evidence) /\ LinesAgree(evidence) /\ ScreensTell(evidence)
  /\ shot.phase = "reported" => Backed(AsLive(shot))
=============================================================================
