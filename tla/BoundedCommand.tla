--------------------------- MODULE BoundedCommand ---------------------------
(***************************************************************************)
(* Running a host command within a timeout (process.rs, run_bounded_with): *)
(* the caller waits for the child, then drains its two pipes, then joins   *)
(* the callback it ran beside it.  A writer that inherits the pipes may    *)
(* outlive the child.                                                      *)
(*                                                                         *)
(* Time passes only while the caller has to wait, for the child, a pipe or *)
(* the callback, or takes a chunk after the deadline, and what was written *)
(* is read from the pipe before time passes: both make the caller faster   *)
(* than it may be.  wait_timeout is taken not to fail.                     *)
(***************************************************************************)
EXTENDS Absent, Integers

CONSTANTS
  Timeout,     \* the timeout of the command, in turns of the clock
  DrainGrace,  \* KILL_DRAIN_GRACE
  MaxChunks,   \* bound: chunks written to standard output in time, and chunks
               \* taken after a deadline
  MaxJoin      \* bound: turns for which the callback is joined

ASSUME BoundedAssumption ==
  Timeout \in Nat \ {0} /\ DrainGrace \in Nat /\ MaxChunks \in Nat /\ MaxJoin \in Nat

VARIABLES
  caller,   \* phase, clock, the deadline it waits for, the chunks it took after
            \* one, when the drains and the callback were over, and its result
  child,    \* "none", "running", "exited" or "killed"
  heir,     \* whether another writer holds the pipes
  callback, \* "none", "running", "ended" or "panicked"
  written   \* chunks written to standard output
commandVars == <<caller, child, heir, callback, written>>

CommandInit ==
  /\ caller = [phase |-> "off", now |-> 0, exited |-> NONE, until |-> 0,
               late |-> 0, drained |-> 0, called |-> NONE, out |-> 0, result |-> NONE]
  /\ child = "none" /\ heir = FALSE /\ callback = "none" /\ written = 0

SpawnFails ==
  /\ caller.phase = "off"
  /\ caller' = [caller EXCEPT !.phase = "returned"]
  /\ UNCHANGED <<child, heir, callback, written>>

\* spawn, with the callback on a thread of its own (run_bounded has none).
SpawnChild ==
  /\ caller.phase = "off"
  /\ caller' = [caller EXCEPT !.phase = "waiting", !.until = Timeout]
  /\ child' = "running"
  /\ heir' \in BOOLEAN /\ callback' \in {"none", "running"}
  /\ UNCHANGED written

Writers == child = "running" \/ heir

WriteChunk ==
  /\ caller.phase \notin {"off", "returned"} /\ Writers /\ written < MaxChunks
  /\ written' = written + 1
  /\ UNCHANGED <<caller, child, heir, callback>>

ChildExits ==
  /\ child = "running" /\ caller.phase = "waiting"
  /\ child' = "exited"
  /\ caller' = [caller EXCEPT !.exited = caller.now]
  /\ UNCHANGED <<heir, callback, written>>

HeirExits ==
  /\ heir /\ child # "running"
  /\ heir' = FALSE
  /\ UNCHANGED <<caller, child, callback, written>>

CallbackEnds ==
  /\ callback = "running" /\ callback' \in {"ended", "panicked"}
  /\ caller' = [caller EXCEPT !.called = caller.now]
  /\ UNCHANGED <<child, heir, written>>

\* The budget of both drains is what was left when the child had exited.
Budget == Timeout - caller.exited

\* wait_timeout returns the status: standard output is drained first.
Exited ==
  /\ caller.phase = "waiting" /\ child = "exited"
  /\ caller' = [caller EXCEPT !.phase = "stdout", !.until = caller.now + Budget]
  /\ UNCHANGED <<child, heir, callback, written>>

\* The timeout: the child is killed and reaped.
TimedOut ==
  /\ caller.phase = "waiting" /\ child = "running" /\ caller.now = caller.until
  /\ child' = "killed"
  /\ caller' = [caller EXCEPT !.phase = "stdout", !.until = caller.now + DrainGrace]
  /\ UNCHANGED <<heir, callback, written>>

\* Fault: a drain waits for every writer of the pipe.
DrainEnds_AtEof == ~Writers

\* A drain ends with the last writer of the pipe or with its budget.
DrainEnds == ~Writers \/ caller.now >= caller.until

\* recv_timeout takes a chunk that is there, even when no time is left: who
\* keeps the pipe full holds the drain.
LateChunk ==
  /\ caller.phase \in {"stdout", "stderr"} /\ caller.now >= caller.until
  /\ Writers /\ caller.late < MaxChunks
  /\ written' = IF caller.phase = "stdout" THEN written + 1 ELSE written
  /\ caller' = [caller EXCEPT !.now = @ + 1, !.late = @ + 1]
  /\ UNCHANGED <<child, heir, callback>>

StdoutDrained ==
  /\ caller.phase = "stdout" /\ DrainEnds
  /\ caller' = [caller EXCEPT
                  !.phase = "stderr", !.out = written,
                  !.until = caller.now
                    + (IF child = "exited" THEN Budget ELSE DrainGrace)]
  /\ UNCHANGED <<child, heir, callback, written>>

StderrDrained ==
  /\ caller.phase = "stderr" /\ DrainEnds
  /\ caller' = [caller EXCEPT !.phase = "joining", !.drained = caller.now]
  /\ UNCHANGED <<child, heir, callback, written>>

Returns ==
  /\ caller.phase = "joining" /\ callback # "running"
  /\ caller' = [caller EXCEPT
                  !.phase = "returned",
                  !.result = IF child = "exited" /\ callback # "panicked"
                             THEN caller.out ELSE NONE]
  /\ UNCHANGED <<child, heir, callback, written>>

CommandClock ==
  /\ \/ caller.phase = "waiting" /\ child = "running" /\ caller.now < caller.until
     \/ caller.phase \in {"stdout", "stderr"} /\ ~DrainEnds
     \/ /\ caller.phase = "joining" /\ callback = "running"
        /\ caller.now < caller.drained + MaxJoin
  /\ caller' = [caller EXCEPT !.now = @ + 1]
  /\ UNCHANGED <<child, heir, callback, written>>

CommandNext ==
  \/ SpawnFails \/ SpawnChild \/ WriteChunk \/ ChildExits \/ HeirExits \/ CallbackEnds
  \/ Exited \/ TimedOut \/ StdoutDrained \/ StderrDrained \/ Returns
  \/ LateChunk \/ CommandClock

BoundedSpec == CommandInit /\ [][CommandNext]_commandVars

-----------------------------------------------------------------------------
\* A heir cannot hold the command.  The child is gone and both drains are over
\* within the timeout and what was left of it when the child exited, or, of a
\* killed child, within the timeout and the grace of two drains, unless a writer
\* is so fast that chunks wait at a deadline, each of which holds a drain for a
\* turn.  After that only the callback can: it is joined without a limit, and
\* the command returns when it is over.  A result lacks only what writers wrote
\* that were still there at the deadline, so what a child wrote is kept.
CommandReturns ==
  caller.phase \in {"joining", "returned"} =>
    /\ child # "running"
    /\ caller.drained <= caller.late + (IF child = "exited" THEN Timeout + Budget
                                        ELSE Timeout + 2 * DrainGrace)
    /\ caller.now = caller.drained \/ callback = "running" \/ caller.now = caller.called
    /\ caller.result # NONE =>
         /\ child = "exited" /\ caller.exited <= Timeout
         /\ caller.result < written => caller.drained >= Timeout

\* "A bounded command's output is drained within the deadline": what a command
\* returns is drained by its timeout, if no chunk was taken after a deadline.
ReturnsInTime ==
  caller.phase \in {"joining", "returned"} /\ child = "exited" /\ caller.late = 0 =>
    caller.drained <= Timeout
=============================================================================
