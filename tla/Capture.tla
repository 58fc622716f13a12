------------------------------- MODULE Capture -------------------------------
(***************************************************************************)
(* The screenshot transaction (capture.rs): frames are taken at planned    *)
(* times from a view rendered in this process (run) or from a linktop in a *)
(* tmux server (run_native), written to new files, and listed last in a    *)
(* manifest.  A timed scene of the native lane starts when the parent      *)
(* makes a gate file, and then runs on the child's own clock.              *)
(*                                                                         *)
(* Of what a frame shows, the view and the stage of the scene are kept.    *)
(* The child draws at once; what it is late for is the gate and the keys.  *)
(* A resize is a key that changes no view.  The removal of a file and      *)
(* kill-server are taken to succeed.                                       *)
(***************************************************************************)
EXTENDS Absent, Integers, Sequences, FiniteSetsExt, SequencesExt

CONSTANTS
  CaptureRequests,  \* [native, timed, frames, keys]: the times of both
  Transitions,      \* times at which a timed scene moves on
  MaxFrames,        \* bound: frames of a request
  MaxElapsed,       \* bound: turns of the clock
  MaxStrangers      \* bound: files somebody else writes

ASSUME CaptureAssumption ==
  /\ CaptureRequests \subseteq
       [native : BOOLEAN, timed : BOOLEAN, frames : SUBSET Nat, keys : SUBSET Nat]
  /\ \A r \in CaptureRequests :
       /\ IsFiniteSet(r.keys) /\ IsFiniteSet(r.frames)
       /\ Cardinality(r.frames) <= MaxFrames
  /\ Transitions \subseteq Nat /\ IsFiniteSet(Transitions)
  /\ NONE \notin Nat /\ MaxFrames \in Nat /\ MaxElapsed \in Nat /\ MaxStrangers \in Nat

Parts(native) == IF native THEN <<"text", "ansi", "html">> ELSE <<"text", "svg">>
Artifacts == (1 .. MaxFrames) \X {"text", "svg", "ansi", "html"}
Names == Artifacts \cup {<<0, "manifest">>, <<0, "temporary">>, <<0, "gate">>}
Manifest == <<0, "manifest">>
Temporary == <<0, "temporary">>
Gate == <<0, "gate">>

VARIABLES
  job,       \* the parent: its request, phase, target time, view and frame
  records,   \* the frames taken so far
  files,     \* per name: "absent", "part", "ours" or "theirs"
  strangers, \* names somebody else made, and whether a file was changed late
  terminal,  \* the tmux server with its linktop
  elapsed,   \* the clock
  signal     \* SIGINT or SIGTERM has set the flag
captureVars == <<job, records, files, strangers, terminal, elapsed, signal>>

NoRequest == [native |-> FALSE, timed |-> FALSE, frames |-> {}, keys |-> {}]

CaptureInit ==
  /\ job = [request |-> NoRequest, phase |-> "off", target |-> 0, start |-> 0,
            view |-> 0, shown |-> NONE, part |-> 1]
  /\ records = <<>>
  /\ files = [x \in Names |-> "absent"]
  /\ strangers = [made |-> {}, late |-> FALSE, writes |-> 0]
  /\ terminal = [running |-> FALSE, since |-> NONE, keys |-> 0, view |-> 0]
  /\ elapsed = 0 /\ signal = FALSE

\* ReplayPlan::new refuses no frames, a frame at 0, and keys after the last.
Plausible(r) ==
  r.frames # {} /\ 0 \notin r.frames /\ \A k \in r.keys : k <= Max(r.frames)

\* The times of the plan: of frames, keys and the scene's transitions.
Targets(r) ==
  r.frames \cup r.keys \cup {t \in Transitions : r.timed /\ t <= Max(r.frames)}

\* stage_at.
StageAt(r, time) == Cardinality({t \in Transitions : r.timed /\ t <= time})

Request == job.request
Target == job.target
Later == {t \in Targets(Request) : t > Target}
FrameIndex == Len(records) + 1
Working == job.phase \notin {"off", "done", "failed", "killed"}
CanCreate(x) == files[x] = "absent"

\* SceneGate.opened.
Opened == Request.native /\ Request.timed /\ Working /\ job.phase \notin {"starting", "ready"}

\* The guards run: the server dies, then an opened gate is removed, whoever has
\* written over it; write_manifest has removed its temporary file.
CleanedUp(phase, made) ==
  /\ job' = [job EXCEPT !.phase = phase]
  /\ files' = [x \in Names |->
                 IF (x = Gate /\ Opened) \/ (x = Temporary /\ made[x] = "ours")
                 THEN "absent" ELSE made[x]]
  /\ terminal' = [terminal EXCEPT !.running = FALSE]

Goto(phase) == job' = [job EXCEPT !.phase = phase]

\* The target is dealt with: the next one, or the manifest.
NextTarget ==
  job' = IF Later = {} THEN [job EXCEPT !.phase = "manifest"]
         ELSE [job EXCEPT !.phase = "waiting", !.target = Min(Later)]

\* Only the native view of a timed scene has a stage to wait for.
FramePhase == IF Request.native /\ Request.timed THEN "staging" ELSE "shooting"

StartCapture ==
  /\ job.phase = "off"
  /\ \E r \in {q \in CaptureRequests : Plausible(q)} :
       job' = [job EXCEPT !.request = r,
                          !.phase = IF r.native THEN "starting" ELSE "waiting",
                          !.target = Min(Targets(r)),
                          !.start = elapsed]
  /\ UNCHANGED <<records, files, strangers, terminal, elapsed, signal>>

-----------------------------------------------------------------------------
(***************************************************************************)
(* The native lane.                                                        *)
(***************************************************************************)
StartServer ==
  /\ job.phase = "starting" /\ ~signal
  /\ Request.timed => CanCreate(Gate)
  /\ terminal' = [terminal EXCEPT !.running = TRUE]
  /\ Goto("ready")
  /\ UNCHANGED <<records, files, strangers, elapsed, signal>>

\* wait_for_native_ready, then SceneGate::open, which is create_new.
ServerReady ==
  /\ job.phase = "ready" /\ ~signal
  /\ Request.timed => CanCreate(Gate)
  /\ files' = IF Request.timed THEN [files EXCEPT ![Gate] = "ours"] ELSE files
  /\ job' = [job EXCEPT !.phase = "waiting", !.start = elapsed]
  /\ UNCHANGED <<records, strangers, terminal, elapsed, signal>>

\* SceneRuntime::poll in the child.
ChildSeesGate ==
  /\ terminal.running /\ Request.timed /\ terminal.since = NONE /\ ~CanCreate(Gate)
  /\ terminal' = [terminal EXCEPT !.since = elapsed]
  /\ UNCHANGED <<job, records, files, strangers, elapsed, signal>>

ChildHandlesKey ==
  /\ terminal.running /\ terminal.keys > 0
  /\ terminal' = [terminal EXCEPT !.keys = @ - 1, !.view = 1 - @]
  /\ UNCHANGED <<job, records, files, strangers, elapsed, signal>>

ChildStage ==
  StageAt(Request, IF terminal.since = NONE THEN 0 ELSE elapsed - terminal.since)

\* wait_for_native_ready after a key, however much the child has handled.
KeySettled ==
  /\ job.phase = "settling" /\ ~signal
  /\ IF Target \in Request.frames THEN Goto(FramePhase) ELSE NextTarget
  /\ UNCHANGED <<records, files, strangers, terminal, elapsed, signal>>

\* wait_for_native_scene_stage: the view shows the stage of the target now.
StageSeen ==
  /\ job.phase = "staging" /\ ~signal
  /\ ChildStage = StageAt(Request, Target)
  /\ Goto("shooting")
  /\ UNCHANGED <<records, files, strangers, terminal, elapsed, signal>>

Interrupted ==
  /\ Request.native /\ Working /\ ~signal
  /\ signal' = TRUE
  /\ UNCHANGED <<job, records, files, strangers, terminal, elapsed>>

\* interrupt.check, in every wait, and nowhere after the last of them.
InterruptNoticed ==
  /\ signal /\ job.phase \in {"starting", "ready", "waiting", "settling", "staging"}
  /\ CleanedUp("failed", files)
  /\ UNCHANGED <<records, strangers, elapsed, signal>>

-----------------------------------------------------------------------------
(***************************************************************************)
(* Targets and frames.                                                     *)
(***************************************************************************)
\* wait_for_elapsed or wait_until; then the key of the target.
ReachTarget ==
  /\ job.phase = "waiting" /\ ~signal
  /\ elapsed - job.start >= Target
  /\ LET key == Target \in Request.keys
         framed == Target \in Request.frames
         acted == [job EXCEPT !.view = IF key THEN 1 - @ ELSE @]
     IN /\ terminal' = IF key /\ Request.native THEN [terminal EXCEPT !.keys = @ + 1] ELSE terminal
        /\ IF Request.native /\ key THEN job' = [acted EXCEPT !.phase = "settling"]
           ELSE IF framed THEN job' = [acted EXCEPT !.phase = FramePhase]
           ELSE IF Later = {} THEN job' = [acted EXCEPT !.phase = "manifest"]
           ELSE job' = [acted EXCEPT !.target = Min(Later)]
  /\ UNCHANGED <<records, files, strangers, elapsed, signal>>

\* capture_pane and verify_captured_state, or a frame of this process, whose
\* scene was advanced to the target.
Shoot ==
  /\ job.phase = "shooting"
  /\ LET shown == IF Request.native THEN [stage |-> ChildStage, view |-> terminal.view]
                  ELSE [stage |-> StageAt(Request, Target), view |-> job.view]
     IN /\ shown.view = job.view
        /\ job' = [job EXCEPT !.phase = "writing", !.shown = shown, !.part = 1]
  /\ UNCHANGED <<records, files, strangers, terminal, elapsed, signal>>

PartName == <<FrameIndex, Parts(Request.native)[job.part]>>

\* write_private_new.
WritePart ==
  /\ job.phase = "writing" /\ CanCreate(PartName)
  /\ files' = [files EXCEPT ![PartName] = "ours"]
  /\ job' = IF job.part = Len(Parts(Request.native))
            THEN [job EXCEPT !.phase = "reading"]
            ELSE [job EXCEPT !.part = @ + 1]
  /\ UNCHANGED <<records, strangers, terminal, elapsed, signal>>

\* manifest_records: the digests are of what can be read back.
ReadBack ==
  /\ job.phase = "reading"
  /\ LET parts == ToSet(Parts(Request.native))
     IN /\ \A p \in parts : ~CanCreate(<<FrameIndex, p>>)
        /\ records' = Append(records,
             [at |-> Target, shown |-> job.shown, view |-> job.view,
              digests |-> [p \in parts |-> files[<<FrameIndex, p>>]]])
  /\ NextTarget
  /\ UNCHANGED <<files, strangers, terminal, elapsed, signal>>

-----------------------------------------------------------------------------
(***************************************************************************)
(* write_manifest.                                                         *)
(***************************************************************************)
WriteTemporary ==
  /\ job.phase = "manifest" /\ CanCreate(Manifest) /\ CanCreate(Temporary)
  /\ files' = [files EXCEPT ![Temporary] = "ours"]
  /\ Goto("verifying")
  /\ UNCHANGED <<records, strangers, terminal, elapsed, signal>>

\* Fault: the artifacts are counted, not read again.
Unchanged_Counted == Len(records) = Cardinality(Request.frames)

\* verify_manifest_artifacts.
Unchanged ==
  /\ Len(records) = Cardinality(Request.frames)
  /\ \A i \in DOMAIN records : \A p \in DOMAIN records[i].digests :
       files[<<i, p>>] = records[i].digests[p]

VerifyArtifacts ==
  /\ job.phase = "verifying" /\ Unchanged
  /\ Goto("publishing")
  /\ UNCHANGED <<records, files, strangers, terminal, elapsed, signal>>

\* publish_private_new: hard_link, which replaces nothing, then the temporary
\* name goes.
PublishManifest ==
  /\ job.phase = "publishing" /\ CanCreate(Manifest)
  /\ CleanedUp("done", [files EXCEPT ![Manifest] = "ours"])
  /\ UNCHANGED <<records, strangers, elapsed, signal>>

-----------------------------------------------------------------------------
(***************************************************************************)
(* What goes wrong.                                                        *)
(***************************************************************************)
\* A step fails, or waited for too long: a file half written is removed.
CaptureFails ==
  /\ Working
  /\ CleanedUp("failed", files)
  /\ UNCHANGED <<records, strangers, elapsed, signal>>

\* The process is killed, perhaps in the middle of a file.
CaptureKilled ==
  /\ Working
  /\ Goto("killed")
  /\ files' \in {files} \cup
       (IF job.phase = "writing" /\ CanCreate(PartName)
        THEN {[files EXCEPT ![PartName] = "part"]} ELSE {})
  /\ UNCHANGED <<records, strangers, terminal, elapsed, signal>>

\* Somebody else makes a file, or writes to one.
StrangerWrites ==
  /\ strangers.writes < MaxStrangers /\ job.phase # "off"
  /\ \E x \in Names \ {Temporary} :
       /\ files[x] # "theirs"
       /\ files' = [files EXCEPT ![x] = "theirs"]
       /\ strangers' = [made |-> strangers.made \cup (IF CanCreate(x) THEN {x} ELSE {}),
                        late |-> strangers.late \/ job.phase \in {"publishing", "done"},
                        writes |-> strangers.writes + 1]
  /\ UNCHANGED <<job, records, terminal, elapsed, signal>>

CaptureClock ==
  /\ Working /\ elapsed < MaxElapsed
  /\ elapsed' = elapsed + 1
  /\ UNCHANGED <<job, records, files, strangers, terminal, signal>>

CaptureNext ==
  \/ StartCapture \/ StartServer \/ ServerReady \/ ChildSeesGate \/ ChildHandlesKey
  \/ KeySettled \/ StageSeen \/ Interrupted \/ InterruptNoticed
  \/ ReachTarget \/ Shoot \/ WritePart \/ ReadBack
  \/ WriteTemporary \/ VerifyArtifacts \/ PublishManifest
  \/ CaptureFails \/ CaptureKilled \/ StrangerWrites \/ CaptureClock

-----------------------------------------------------------------------------
\* The view the keys up to a time ask for.
ViewAt(r, time) == Cardinality({k \in r.keys : k <= time}) % 2

\* The completion contract (docs/visual-qa.md): a manifest lists every planned
\* frame in order, with the view its keys asked for, a stage the scene had
\* reached by then, and files as they were verified; what somebody else made first
\* is never replaced; a transaction that fails has no manifest; and whatever ends
\* it, short of a kill, leaves no server, gate or temporary file.  Of the stage
\* it says no more than that: the one awaited is looked at on one reading of the
\* pane and the frame is a later one.  What is promised of interrupts is below.
CaptureIsWhole ==
  /\ files[Manifest] = "ours" =>
       /\ {records[i].at : i \in DOMAIN records} = Request.frames
       /\ \A i, j \in DOMAIN records : i < j => records[i].at < records[j].at
       /\ \A i \in DOMAIN records :
            LET r == records[i] IN
            /\ r.shown.view = ViewAt(Request, r.at)
            /\ r.shown.stage >= StageAt(Request, r.at)
            /\ ~Request.native => r.shown.stage = StageAt(Request, r.at)
            /\ \A p \in DOMAIN r.digests :
                 strangers.late \/ files[<<i, p>>] = r.digests[p]
  /\ \A x \in strangers.made : files[x] = "theirs"
  /\ job.phase = "failed" => files[Manifest] # "ours"
  /\ job.phase \in {"done", "failed"} =>
       ~terminal.running /\ files[Gate] # "ours" /\ files[Temporary] = "absent"

\* "An interrupted run has no completion manifest": no manifest is published by
\* a transaction that was interrupted before it.
InterruptedHasNoManifest == signal => files[Manifest] # "ours"
=============================================================================
