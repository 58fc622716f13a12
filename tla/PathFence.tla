----------------------------- MODULE PathFence -----------------------------
(***************************************************************************)
(* What a live session promises its reader (docs/architecture.md, "Path-   *)
(* generation fencing"): it shows one path at a time under a number that   *)
(* only grows, and everything it shows beside it was collected for that    *)
(* path.  Evidence may disappear; it never carries over to another path.   *)
(*                                                                         *)
(* The specification has no threads, channels or workers: it is what is    *)
(* left when they are hidden.                                              *)
(***************************************************************************)
EXTENDS Naturals

CONSTANTS
  Paths,    \* identities of paths
  Sources,  \* collectors and probes
  NoPath    \* nothing shown: not one of Paths

VARIABLES
  number,   \* the generation shown, 0 before the first
  path,     \* the path shown
  evidence  \* what each source contributes: the path it was collected for

fence == <<number, path, evidence>>

FenceInit ==
  /\ number = 0
  /\ path = NoPath
  /\ evidence = [s \in Sources |-> NoPath]

\* Another path is shown, under a greater number and without evidence.
SwitchPath ==
  /\ number' > number
  /\ path' \in Paths
  /\ evidence' = [s \in Sources |-> NoPath]

\* A source contributes evidence of the path shown.
Admit(s) ==
  /\ path # NoPath
  /\ evidence' = [evidence EXCEPT ![s] = path]
  /\ UNCHANGED <<number, path>>

\* Some sources are no longer consulted.
Withdraw(sources) ==
  /\ evidence' = [s \in Sources |->
                    IF s \in sources THEN NoPath ELSE evidence[s]]
  /\ UNCHANGED <<number, path>>

FenceNext ==
  \/ SwitchPath
  \/ \E s \in Sources : Admit(s)
  \/ \E sources \in SUBSET Sources : Withdraw(sources)

FenceSpec == FenceInit /\ [][FenceNext]_fence
=============================================================================
