--------------------------- MODULE MeasurementProofs ---------------------------
(***************************************************************************)
(* What the host's commands measured: a bounded command has drained what   *)
(* it may return within the time CommandReturns names, and then waits for  *)
(* its callback alone; the samples of a ping and their percentiles are its *)
(* answers; the speed experiment brackets its transfer; and the traffic of *)
(* a second is told of the processes that moved it.  For every timeout,    *)
(* number of attempts, time of a reply, process and volume, and however    *)
(* outputs are cut.                                                        *)
(***************************************************************************)
EXTENDS Experiment, Workload, FiniteSetTheorems, WellFoundedInduction, TLAPS

(***************************************************************************)
(* A bounded command.                                                      *)
(***************************************************************************)
Phases == {"off", "waiting", "stdout", "stderr", "joining", "returned"}

CommandTypes ==
  /\ caller \in [phase : Phases, now : Nat, exited : Nat \cup {NONE}, until : Nat,
                 late : Nat, drained : Nat, called : Nat \cup {NONE}, out : Nat,
                 result : Nat \cup {NONE}]
  /\ child \in {"none", "running", "exited", "killed"}
  /\ heir \in BOOLEAN
  /\ callback \in {"none", "running", "ended", "panicked"}
  /\ written \in Nat

\* What the child has done when the caller is in a phase.
ChildFollows ==
  /\ child = "none" => caller.phase \in {"off", "returned"}
  /\ caller.phase = "off" => child = "none"
  /\ child = "none" => caller.now = 0 /\ caller.drained = 0 /\ caller.result = NONE
  /\ child = "running" => caller.phase = "waiting"
  /\ child = "killed" => caller.phase # "waiting"
  /\ child = "exited" => caller.exited \in Nat /\ caller.exited <= Timeout

\* How far the clock can be in a phase; once it has been joined, where the
\* drains or the callback have left it.
ClockBounded ==
  LET allowance == IF child = "exited" THEN Budget ELSE DrainGrace
      first == IF child = "exited" THEN Timeout ELSE Timeout + DrainGrace
  IN /\ caller.phase = "waiting" =>
          /\ caller.until = Timeout /\ caller.now <= Timeout
          /\ child = "exited" => caller.now = caller.exited
     /\ caller.phase = "stdout" =>
          caller.until = first /\ caller.now <= first + caller.late
     /\ caller.phase = "stderr" => caller.until <= first + allowance + caller.late
     /\ caller.phase = "stderr" => caller.now <= first + allowance + caller.late
     /\ caller.phase \in {"joining", "returned"} =>
          /\ caller.drained <= caller.now
          /\ child # "none" => caller.drained <= first + allowance + caller.late
          /\ \/ caller.now = caller.drained
             \/ callback = "running"
             \/ caller.now = caller.called

\* A drain that ended with a writer left ended at the deadline or after it.
OutputComplete ==
  /\ caller.phase = "stderr" /\ child = "exited" =>
       /\ caller.out <= written
       /\ heir \/ caller.out < written => caller.now >= Timeout
  /\ caller.phase \in {"joining", "returned"} /\ child = "exited" =>
       /\ caller.out <= written
       /\ heir \/ caller.out < written => caller.drained >= Timeout
  /\ caller.result # NONE =>
       caller.phase = "returned" /\ child = "exited" /\ caller.result = caller.out

CommandInvariant == CommandTypes /\ ChildFollows /\ ClockBounded /\ OutputComplete

-----------------------------------------------------------------------------
LEMMA CommandInitially == CommandInit => CommandInvariant
<1> SUFFICES ASSUME CommandInit PROVE CommandInvariant
  OBVIOUS
<1> USE BoundedAssumption DEF BoundedAssumption, CommandInit
<1>1. CommandTypes
  BY DEF CommandTypes, Phases
<1>2. ChildFollows
  BY DEF ChildFollows
<1>3. ClockBounded
  BY DEF ClockBounded
<1>4. OutputComplete
  BY DEF OutputComplete
<1> QED
  BY <1>1, <1>2, <1>3, <1>4 DEF CommandInvariant

\* Every step of the caller, of the child and of other writers keeps it.
LEMMA CommandStep ==
  ASSUME CommandInvariant, [CommandNext]_commandVars
  PROVE  CommandInvariant'
<1> USE BoundedAssumption
        DEF BoundedAssumption, CommandInvariant, CommandTypes, Phases
<1>0. /\ caller.now \in Nat /\ caller.until \in Nat /\ caller.late \in Nat
      /\ Timeout \in Nat /\ DrainGrace \in Nat
  OBVIOUS
<1>1. CASE UNCHANGED commandVars
  BY <1>1 DEF commandVars, ChildFollows, ClockBounded, OutputComplete, Budget
<1>2. CASE SpawnFails \/ SpawnChild
  <2> USE DEF ChildFollows
  <2>1. CASE SpawnFails
    BY <1>0, <2>1 DEF SpawnFails, ClockBounded, OutputComplete
  <2>2. CASE SpawnChild
    <3> USE <2>2 DEF SpawnChild
    <3>1. caller'.phase = "waiting" /\ caller'.until = Timeout /\ caller'.now = 0
      BY <1>0
    <3>2. ClockBounded'
      BY <1>0, <3>1 DEF ClockBounded
    <3> QED
      BY <1>0, <3>2 DEF OutputComplete
  <2> QED
    BY <1>2, <2>1, <2>2
<1>3. CASE WriteChunk
  <2> USE <1>3 DEF WriteChunk, Writers
  <2>1. CommandTypes'
    OBVIOUS
  <2>2. ChildFollows'
    BY DEF ChildFollows, ClockBounded, Budget
  <2>3. ClockBounded'
    BY DEF ChildFollows, ClockBounded, Budget
  <2>4. OutputComplete'
    BY DEF ChildFollows, ClockBounded, OutputComplete, Budget
  <2> QED
    BY <2>1, <2>2, <2>3, <2>4
<1>4. CASE ChildExits
  <2> USE <1>4 DEF ChildExits
  <2>1. CommandTypes'
    OBVIOUS
  <2>2. ChildFollows'
    BY DEF ChildFollows, ClockBounded, Budget
  <2>3. ClockBounded'
    BY DEF ChildFollows, ClockBounded, Budget
  <2>4. OutputComplete'
    BY DEF ChildFollows, ClockBounded, OutputComplete, Budget
  <2> QED
    BY <2>1, <2>2, <2>3, <2>4
<1>5. CASE HeirExits \/ CallbackEnds
  <2> USE <1>5 DEF HeirExits, CallbackEnds
  <2>1. CommandTypes'
    OBVIOUS
  <2>2. ChildFollows'
    BY DEF ChildFollows, ClockBounded, Budget
  <2>3. ClockBounded'
    BY DEF ChildFollows, ClockBounded, Budget
  <2>4. OutputComplete'
    BY DEF ChildFollows, ClockBounded, OutputComplete, Budget
  <2> QED
    BY <2>1, <2>2, <2>3, <2>4
<1>6. CASE Exited
  <2> USE <1>6 DEF Exited
  <2>1. CommandTypes'
    <3>1. caller.now + Budget \in Nat
      BY <1>0 DEF ChildFollows, Budget
    <3> QED
      BY <3>1
  <2>2. ChildFollows'
    BY DEF ChildFollows, ClockBounded, Budget
  <2>3. ClockBounded'
    BY DEF ChildFollows, ClockBounded, Budget
  <2>4. OutputComplete'
    BY DEF ChildFollows, ClockBounded, OutputComplete, Budget
  <2> QED
    BY <2>1, <2>2, <2>3, <2>4
<1>7. CASE TimedOut
  <2> USE <1>7 DEF TimedOut
  <2>1. CommandTypes'
    <3>1. caller.now + DrainGrace \in Nat
      BY <1>0
    <3> QED
      BY <3>1
  <2>2. ChildFollows'
    BY DEF ChildFollows, ClockBounded, Budget
  <2>3. ClockBounded'
    BY DEF ChildFollows, ClockBounded, Budget
  <2>4. OutputComplete'
    BY DEF ChildFollows, ClockBounded, OutputComplete, Budget
  <2> QED
    BY <2>1, <2>2, <2>3, <2>4
<1>8. CASE StdoutDrained
  <2> USE <1>8 DEF StdoutDrained, DrainEnds, Writers
  <2>1. CommandTypes'
    <3> DEFINE next == caller.now + (IF child = "exited" THEN Budget ELSE DrainGrace)
    <3>1. next \in Nat
      BY <1>0 DEF ChildFollows, Budget
    <3>2. caller' = [caller EXCEPT !.phase = "stderr", !.out = written, !.until = next]
      OBVIOUS
    <3> HIDE DEF next
    <3> QED
      BY <3>1, <3>2
  <2>2. ChildFollows'
    BY DEF ChildFollows, ClockBounded, Budget
  <2>3. ClockBounded'
    BY DEF ChildFollows, ClockBounded, Budget
  <2>4. OutputComplete'
    BY DEF ChildFollows, ClockBounded, OutputComplete, Budget
  <2> QED
    BY <2>1, <2>2, <2>3, <2>4
<1>9. CASE StderrDrained
  <2> USE <1>9 DEF StderrDrained
  <2>1. CommandTypes'
    OBVIOUS
  <2>2. ChildFollows'
    BY DEF ChildFollows, ClockBounded, Budget
  <2>3. ClockBounded'
    BY DEF ChildFollows, ClockBounded, Budget
  <2>4. OutputComplete'
    BY DEF ChildFollows, ClockBounded, OutputComplete, Budget
  <2> QED
    BY <2>1, <2>2, <2>3, <2>4
<1>10. CASE Returns
  <2> USE <1>10 DEF Returns
  <2>1. CommandTypes'
    OBVIOUS
  <2>2. ChildFollows'
    BY DEF ChildFollows, ClockBounded, Budget
  <2>3. ClockBounded'
    BY DEF ChildFollows, ClockBounded, Budget
  <2>4. OutputComplete'
    BY DEF ChildFollows, ClockBounded, OutputComplete, Budget
  <2> QED
    BY <2>1, <2>2, <2>3, <2>4
<1>11. CASE LateChunk
  <2> USE <1>11 DEF LateChunk, Writers
  <2>1. CommandTypes'
    <3> DEFINE later == caller.now + 1
               taken == caller.late + 1
    <3>1. later \in Nat /\ taken \in Nat /\ written' \in Nat
      BY <1>0
    <3>2. caller' = [caller EXCEPT !.now = later, !.late = taken]
      OBVIOUS
    <3> HIDE DEF later, taken
    <3> QED
      BY <3>1, <3>2
  <2>2. ChildFollows'
    BY DEF ChildFollows, ClockBounded, Budget
  <2>3. ClockBounded'
    BY DEF ChildFollows, ClockBounded, Budget
  <2>4. OutputComplete'
    BY DEF ChildFollows, ClockBounded, OutputComplete, Budget
  <2> QED
    BY <2>1, <2>2, <2>3, <2>4
<1>12. CASE CommandClock
  <2> USE <1>12 DEF CommandClock, DrainEnds, Writers
  <2>1. CommandTypes'
    OBVIOUS
  <2>2. ChildFollows'
    BY DEF ChildFollows, ClockBounded, Budget
  <2>3. ClockBounded'
    BY DEF ChildFollows, ClockBounded, Budget
  <2>4. OutputComplete'
    BY DEF ChildFollows, ClockBounded, OutputComplete, Budget
  <2> QED
    BY <2>1, <2>2, <2>3, <2>4
<1> QED
  BY <1>1, <1>2, <1>3, <1>4, <1>5, <1>6, <1>7, <1>8, <1>9, <1>10, <1>11, <1>12
  DEF CommandNext

\* The bounds of the invariant are those of the property.
LEMMA CommandInvariantSuffices == CommandInvariant => CommandReturns
BY BoundedAssumption
DEF BoundedAssumption, CommandInvariant, CommandTypes, ChildFollows, ClockBounded,
    OutputComplete, CommandReturns, Phases, Budget

-----------------------------------------------------------------------------
\* run_bounded_with: no writer that inherits the pipes can hold it past its
\* timeout and what the timeout left of the drains, save by the chunks it has
\* waiting there; then the callback, and nothing but the callback, holds it for
\* as long as it likes; and no output is lost before the deadline.
THEOREM BoundedCommandReturns == BoundedSpec => []CommandReturns
<1>1. CommandInvariant /\ [CommandNext]_commandVars => CommandInvariant'
  BY CommandStep
<1> QED
  BY CommandInitially, <1>1, CommandInvariantSuffices, PTL DEF BoundedSpec
-----------------------------------------------------------------------------
\* Every set of natural numbers but the empty one has a least element.
LEMMA LeastNumber ==
  ASSUME NEW S \in SUBSET Nat, S # {}
  PROVE  \E n \in S : \A m \in S : ~ (m < n)
<1> DEFINE R == OpToRel(<, Nat)
<1>1. PICK n \in S : \A m \in S : ~ (<<m, n>> \in R)
  <2>1. IsWellFoundedOn(R, Nat)
    BY NatLessThanWellFounded
  <2> HIDE DEF R
  <2> QED
    BY <2>1, WFMin
<1> QED
  BY <1>1 DEF OpToRel

-----------------------------------------------------------------------------
(***************************************************************************)
(* Sums of a function over a finite set, by a least counterexample.        *)
(***************************************************************************)
\* Of sets of subsets of a finite set one has a least member.
LEMMA LeastSubset ==
  ASSUME NEW S, IsFiniteSet(S), NEW C \in SUBSET (SUBSET S), C # {}
  PROVE  \E T \in C : \A U \in C : U \subseteq T => U = T
<1> DEFINE R == StrictSubsetOrdering(S)
<1>1. IsWellFoundedOn(R, SUBSET S)
  BY FS_StrictSubsetOrderingWellFounded, FS_FiniteSubsetsOfFinite
<1>2. PICK T \in C : \A U \in C : ~ (<<U, T>> \in R)
  <2> HIDE DEF R
  <2> QED
    BY <1>1, WFMin
<1>3. ASSUME NEW U \in C, U \subseteq T, U # T
      PROVE  FALSE
  <2>1. <<U, T>> \in R
    BY <1>3 DEF StrictSubsetOrdering
  <2> QED
    BY <1>2, <1>3, <2>1
<1> QED
  BY <1>2, <1>3

\* What the fold of the library builds up over the subsets of a set.
Picked(s) == CHOOSE x \in s : TRUE
Adds(f, S, g) ==
  g = [s \in SUBSET S |-> IF s = {} THEN 0 ELSE f[Picked(s)] + g[s \ {Picked(s)}]]

Adding(f, S) == CHOOSE g : Adds(f, S, g)

LEMMA SumIsAdded ==
  ASSUME NEW f, NEW S
  PROVE SumFunctionOnSet(f, S) = Adding(f, S)[S]
BY DEF SumFunctionOnSet, FoldFunctionOnSet, MapThenFoldSet, Adds, Adding, Picked

LEMMA PickedIn ==
  ASSUME NEW s, s # {}
  PROVE  Picked(s) \in s /\ s \ {Picked(s)} \subseteq s /\ s \ {Picked(s)} # s
BY DEF Picked

LEMMA AddsValue ==
  ASSUME NEW f, NEW S, NEW g, Adds(f, S, g), NEW s \in SUBSET S
  PROVE  g[s] = IF s = {} THEN 0 ELSE f[Picked(s)] + g[s \ {Picked(s)}]
BY Zenon DEF Adds

LEMMA AddsOnce ==
  ASSUME NEW f, NEW S, IsFiniteSet(S), NEW T \in SUBSET S,
         NEW g, NEW h, Adds(f, S, g), Adds(f, T, h)
  PROVE  g[T] = h[T]
<1> DEFINE C == {t \in SUBSET T : g[t] # h[t]}
<1>1. SUFFICES ASSUME C # {} PROVE FALSE
  <2>1. T \in SUBSET T
    OBVIOUS
  <2> QED
    BY <2>1
<1>2. IsFiniteSet(T) /\ C \in SUBSET (SUBSET T)
  BY FS_Subset
<1> HIDE DEF C
<1>3. PICK t \in C : \A u \in C : u \subseteq t => u = t
  BY <1>1, <1>2, LeastSubset
<1>4. t \in SUBSET T /\ t \in SUBSET S /\ g[t] # h[t]
  BY <1>3 DEF C
<1>5. CASE t = {}
  BY <1>4, <1>5, AddsValue
<1>6. CASE t # {}
  <2>1. g[t] = f[Picked(t)] + g[t \ {Picked(t)}] /\ h[t] = f[Picked(t)] + h[t \ {Picked(t)}]
    BY <1>4, <1>6, AddsValue
  <2>2. t \ {Picked(t)} \in SUBSET T /\ t \ {Picked(t)} \subseteq t /\ t \ {Picked(t)} # t
    BY <1>4, <1>6, PickedIn
  <2>3. t \ {Picked(t)} \notin C
    BY <1>3, <2>2
  <2>4. g[t \ {Picked(t)}] = h[t \ {Picked(t)}]
    BY <2>2, <2>3 DEF C
  <2> QED
    BY <1>4, <2>1, <2>4
<1> QED
  BY <1>5, <1>6

LEMMA AddsExists ==
  ASSUME NEW f, NEW S, IsFiniteSet(S)
  PROVE  Adds(f, S, Adding(f, S))
<1> DEFINE C == {t \in SUBSET S : ~ \E g : Adds(f, t, g)}
<1>1. SUFFICES ASSUME C # {} PROVE FALSE
  <2>1. S \in SUBSET S
    OBVIOUS
  <2>2. \E g : Adds(f, S, g)
    BY <1>1, <2>1
  <2> QED
    BY <2>2 DEF Adding
<1>2. PICK T \in C : \A u \in C : u \subseteq T => u = T
  <2> HIDE DEF C
  <2>1. C \in SUBSET (SUBSET S)
    BY DEF C
  <2> QED
    BY <1>1, <2>1, LeastSubset
<1>3. IsFiniteSet(T) /\ T \in SUBSET S /\ ~ \E g : Adds(f, T, g)
  BY FS_Subset
<1>4. ASSUME NEW t \in SUBSET T, t # T
      PROVE  Adds(f, t, Adding(f, t)) /\ IsFiniteSet(t)
  <2>1. t \notin C /\ t \in SUBSET S
    BY <1>2, <1>3, <1>4
  <2>2. \E g : Adds(f, t, g)
    BY <2>1
  <2>3. IsFiniteSet(t)
    BY <1>3, FS_Subset
  <2> QED
    BY <2>2, <2>3 DEF Adding
<1> HIDE DEF C
<1> DEFINE W(s) == IF s = {} THEN 0
                   ELSE f[Picked(s)] + Adding(f, s \ {Picked(s)})[s \ {Picked(s)}]
           h == [s \in SUBSET T |-> W(s)]
<1>5. ASSUME NEW s \in SUBSET T, s # T
      PROVE  h[s] = Adding(f, s)[s]
  <2>1. h[s] = W(s)
    OBVIOUS
  <2>2. Adds(f, s, Adding(f, s)) /\ IsFiniteSet(s) /\ s \in SUBSET s
    BY <1>4, <1>5
  <2>3. CASE s = {}
    BY <2>1, <2>2, <2>3, AddsValue
  <2>4. CASE s # {}
    <3> DEFINE u == s \ {Picked(s)}
    <3>1. u \in SUBSET s /\ u \in SUBSET T /\ u # T
      BY <1>5, <2>4, PickedIn
    <3>2. Adds(f, u, Adding(f, u))
      BY <1>4, <3>1
    <3>3. Adding(f, s)[u] = Adding(f, u)[u]
      BY <2>2, <3>1, <3>2, AddsOnce
    <3>4. Adding(f, s)[s] = f[Picked(s)] + Adding(f, s)[u]
      BY <2>2, <2>4, AddsValue
    <3> QED
      BY <2>1, <2>4, <3>3, <3>4
  <2> QED
    BY <2>3, <2>4
<1>6. ASSUME NEW s \in SUBSET T
      PROVE  h[s] = IF s = {} THEN 0 ELSE f[Picked(s)] + h[s \ {Picked(s)}]
  <2>1. h[s] = W(s)
    OBVIOUS
  <2> HIDE DEF h
  <2>2. CASE s # {}
    <3> DEFINE u == s \ {Picked(s)}
    <3>1. u \in SUBSET T /\ u # T
      BY <2>2, PickedIn
    <3>2. h[u] = Adding(f, u)[u]
      BY <1>5, <3>1
    <3> QED
      BY <2>1, <2>2, <3>2
  <2> QED
    BY <2>1, <2>2
<1>7. Adds(f, T, h)
  <2>1. h = [s \in SUBSET T |-> h[s]]
    OBVIOUS
  <2> HIDE DEF h
  <2>2. [s \in SUBSET T |-> h[s]]
          = [s \in SUBSET T |-> IF s = {} THEN 0 ELSE f[Picked(s)] + h[s \ {Picked(s)}]]
    BY <1>6
  <2> QED
    BY <2>1, <2>2, Zenon DEF Adds
<1> QED
  BY <1>3, <1>7

\* A sum is an element's share and the sum of the others: of the one that is picked...
LEMMA SumPicked ==
  ASSUME NEW f, NEW S, IsFiniteSet(S)
  PROVE  /\ S = {} => SumFunctionOnSet(f, S) = 0
         /\ S # {} => SumFunctionOnSet(f, S)
                        = f[Picked(S)] + SumFunctionOnSet(f, S \ {Picked(S)})
<1>1. Adds(f, S, Adding(f, S)) /\ S \in SUBSET S
  BY AddsExists
<1>2. CASE S = {}
  BY <1>1, <1>2, AddsValue, SumIsAdded
<1>3. CASE S # {}
  <2> DEFINE u == S \ {Picked(S)}
  <2>1. u \in SUBSET S /\ IsFiniteSet(u)
    BY FS_Subset
  <2>2. Adds(f, u, Adding(f, u))
    BY <2>1, AddsExists
  <2>3. Adding(f, S)[u] = Adding(f, u)[u]
    BY <1>1, <2>1, <2>2, AddsOnce
  <2>4. Adding(f, S)[S] = f[Picked(S)] + Adding(f, S)[u]
    BY <1>1, <1>3, AddsValue
  <2> QED
    BY <1>3, <2>3, <2>4, SumIsAdded
<1> QED
  BY <1>2, <1>3

LEMMA SumIsNumber ==
  ASSUME NEW f, NEW S, IsFiniteSet(S), \A x \in S : f[x] \in Nat
  PROVE  SumFunctionOnSet(f, S) \in Nat
<1> DEFINE C == {t \in SUBSET S : SumFunctionOnSet(f, t) \notin Nat}
<1>1. SUFFICES ASSUME C # {} PROVE FALSE
  <2>1. S \in SUBSET S
    OBVIOUS
  <2> QED
    BY <1>1, <2>1
<1>2. PICK T \in C : \A u \in C : u \subseteq T => u = T
  <2> HIDE DEF C
  <2>1. C \in SUBSET (SUBSET S)
    BY DEF C
  <2> QED
    BY <1>1, <2>1, LeastSubset
<1>3. IsFiniteSet(T) /\ T \in SUBSET S /\ SumFunctionOnSet(f, T) \notin Nat
  BY <1>2, FS_Subset
<1>4. T # {}
  <2>1. SumFunctionOnSet(f, {}) = 0
    BY FS_EmptySet, SumPicked
  <2> QED
    BY <1>3, <2>1
<1> DEFINE u == T \ {Picked(T)}
<1>5. u \in SUBSET S /\ u \notin C
  BY <1>2, <1>3, <1>4, PickedIn
<1>6. SumFunctionOnSet(f, u) \in Nat /\ f[Picked(T)] \in Nat
  BY <1>3, <1>4, <1>5, PickedIn
<1> QED
  BY <1>3, <1>4, <1>6, SumPicked

\* ... and of any.
LEMMA SumWithout ==
  ASSUME NEW f, NEW S, IsFiniteSet(S), \A x \in S : f[x] \in Nat, NEW x \in S
  PROVE  SumFunctionOnSet(f, S) = f[x] + SumFunctionOnSet(f, S \ {x})
<1> DEFINE Sum(t) == SumFunctionOnSet(f, t)
           C == {t \in SUBSET S : \E y \in t : Sum(t) # f[y] + Sum(t \ {y})}
<1>1. SUFFICES ASSUME C # {} PROVE FALSE
  <2>1. S \in SUBSET S
    OBVIOUS
  <2> QED
    BY <1>1, <2>1
<1>a. \A t \in SUBSET S : IsFiniteSet(t) /\ Sum(t) \in Nat
  BY SumIsNumber, FS_Subset
<1>b. \A t \in SUBSET S : t # {} => Sum(t) = f[Picked(t)] + Sum(t \ {Picked(t)})
  BY <1>a, SumPicked
<1> HIDE DEF Sum
<1>2. PICK T \in C : \A u \in C : u \subseteq T => u = T
  <2> HIDE DEF C
  <2>1. C \in SUBSET (SUBSET S)
    BY DEF C
  <2> QED
    BY <1>1, <2>1, LeastSubset
<1>3. PICK y \in T : Sum(T) # f[y] + Sum(T \ {y})
  BY <1>2
<1> DEFINE c == Picked(T)
<1>4. c \in T /\ T \in SUBSET S /\ f[c] \in Nat /\ f[y] \in Nat
  BY <1>3, PickedIn
<1>5. Sum(T) = f[c] + Sum(T \ {c})
  BY <1>b, <1>4
<1>6. c # y
  BY <1>3, <1>5
<1>7. T \ {c} \notin C /\ T \ {y} \notin C
  BY <1>2, <1>3, <1>4
<1> HIDE DEF c
<1>8. /\ Sum(T \ {c}) = f[y] + Sum((T \ {c}) \ {y})
      /\ Sum(T \ {y}) = f[c] + Sum((T \ {y}) \ {c})
  BY <1>3, <1>4, <1>6, <1>7
<1>9. (T \ {c}) \ {y} = (T \ {y}) \ {c} /\ (T \ {c}) \ {y} \in SUBSET S
  BY <1>4
<1>10. Sum((T \ {c}) \ {y}) \in Nat
  BY <1>a, <1>9
<1> QED
  BY <1>3, <1>4, <1>5, <1>8, <1>9, <1>10

\* A sum of shares that are no more than c is no more than c for each.
LEMMA SumBounded ==
  ASSUME NEW f, NEW S, IsFiniteSet(S), NEW c \in Nat, \A x \in S : f[x] \in Nat /\ f[x] <= c
  PROVE  SumFunctionOnSet(f, S) <= c * Cardinality(S)
<1> DEFINE Sum(t) == SumFunctionOnSet(f, t)
           C == {t \in SUBSET S : ~ (Sum(t) <= c * Cardinality(t))}
<1>1. SUFFICES ASSUME C # {} PROVE FALSE
  <2>1. S \in SUBSET S
    OBVIOUS
  <2> QED
    BY <1>1, <2>1
<1>a. \A t \in SUBSET S : IsFiniteSet(t) /\ Sum(t) \in Nat /\ Cardinality(t) \in Nat
  BY SumIsNumber, FS_Subset, FS_CardinalityType
<1>b. \A t \in SUBSET S : \A x \in t : Sum(t) = f[x] + Sum(t \ {x})
  BY <1>a, SumWithout
<1>c. Sum({}) <= c * Cardinality({})
  <2>1. Sum({}) = 0 /\ Cardinality({}) = 0
    BY SumPicked, FS_EmptySet
  <2>2. c * 0 = 0
    OBVIOUS
  <2> QED
    BY <2>1, <2>2
<1>d. \A t \in SUBSET S : \A x \in t : Cardinality(t \ {x}) = Cardinality(t) - 1
  BY <1>a, FS_RemoveElement
<1> HIDE DEF Sum
<1>2. PICK T \in C : \A u \in C : u \subseteq T => u = T
  <2> HIDE DEF C
  <2>1. C \in SUBSET (SUBSET S)
    BY DEF C
  <2> QED
    BY <1>1, <2>1, LeastSubset
<1>3. T \in SUBSET S /\ ~ (Sum(T) <= c * Cardinality(T))
  BY <1>2
<1>e. T # {}
  BY <1>3, <1>c, Zenon
<1>4. PICK x \in T : TRUE
  BY <1>e
<1> DEFINE u == T \ {x}
<1>5. u \in SUBSET S /\ u \notin C
  BY <1>2, <1>3, <1>4
<1>6. Sum(u) <= c * Cardinality(u)
  BY <1>5
<1>7. Sum(T) = f[x] + Sum(u) /\ Cardinality(u) = Cardinality(T) - 1
  BY <1>b, <1>d, <1>3, <1>4
<1>8. /\ f[x] \in Nat /\ f[x] <= c /\ Sum(u) \in Nat
      /\ Cardinality(T) \in Nat /\ Cardinality(u) \in Nat
  BY <1>a, <1>3, <1>4, <1>5
<1>9. \A n \in Nat : c * (n - 1) = c * n - c
  OBVIOUS
<1>10. c * Cardinality(u) = c * Cardinality(T) - c /\ c * Cardinality(T) \in Int
  BY <1>7, <1>8, <1>9
<1> HIDE DEF u
<1> QED
  BY <1>3, <1>6, <1>7, <1>8, <1>10

\* The sum of shares that are sums themselves.
LEMMA SumOfSums ==
  ASSUME NEW f, NEW g, NEW h, NEW S, IsFiniteSet(S),
         \A x \in S : f[x] \in Nat /\ g[x] \in Nat /\ h[x] = f[x] + g[x]
  PROVE  SumFunctionOnSet(h, S) = SumFunctionOnSet(f, S) + SumFunctionOnSet(g, S)
<1> DEFINE Sum(k, t) == SumFunctionOnSet(k, t)
           C == {t \in SUBSET S : Sum(h, t) # Sum(f, t) + Sum(g, t)}
<1>1. SUFFICES ASSUME C # {} PROVE FALSE
  <2>1. S \in SUBSET S
    OBVIOUS
  <2> QED
    BY <1>1, <2>1
<1>a. \A t \in SUBSET S : IsFiniteSet(t) /\ Sum(f, t) \in Nat /\ Sum(g, t) \in Nat
  BY SumIsNumber, FS_Subset
<1>b. ASSUME NEW t \in SUBSET S, NEW x \in t
      PROVE  /\ Sum(f, t) = f[x] + Sum(f, t \ {x}) /\ Sum(g, t) = g[x] + Sum(g, t \ {x})
             /\ Sum(h, t) = h[x] + Sum(h, t \ {x})
  <2>1. IsFiniteSet(t) /\ \A y \in t : f[y] \in Nat /\ g[y] \in Nat /\ h[y] \in Nat
    BY <1>a
  <2> QED
    BY <2>1, SumWithout
<1>c. Sum(h, {}) = Sum(f, {}) + Sum(g, {})
  <2>1. Sum(f, {}) = 0 /\ Sum(g, {}) = 0 /\ Sum(h, {}) = 0
    BY SumPicked, FS_EmptySet
  <2> QED
    BY <2>1
<1> HIDE DEF Sum
<1>2. PICK T \in C : \A u \in C : u \subseteq T => u = T
  <2> HIDE DEF C
  <2>1. C \in SUBSET (SUBSET S)
    BY DEF C
  <2> QED
    BY <1>1, <2>1, LeastSubset
<1>3. T \in SUBSET S /\ Sum(h, T) # Sum(f, T) + Sum(g, T)
  BY <1>2
<1>e. T # {}
  BY <1>3, <1>c, Zenon
<1>4. PICK x \in T : TRUE
  BY <1>e
<1> DEFINE u == T \ {x}
<1>5. u \in SUBSET S /\ u \notin C
  BY <1>2, <1>3, <1>4
<1>6. Sum(h, u) = Sum(f, u) + Sum(g, u)
  BY <1>5
<1>7. /\ Sum(f, T) = f[x] + Sum(f, u) /\ Sum(g, T) = g[x] + Sum(g, u)
      /\ Sum(h, T) = h[x] + Sum(h, u)
  BY <1>b, <1>3, <1>4
<1>8. /\ f[x] \in Nat /\ g[x] \in Nat /\ h[x] = f[x] + g[x]
      /\ Sum(f, u) \in Nat /\ Sum(g, u) \in Nat
  BY <1>a, <1>3, <1>4, <1>5
<1> HIDE DEF u
<1> QED
  BY <1>3, <1>6, <1>7, <1>8

\* What a sum is over does not matter: its elements may have other names.
LEMMA SumRenamed ==
  ASSUME NEW f, NEW g, NEW S, IsFiniteSet(S), NEW name,
         \A x \in S : f[x] \in Nat /\ g[name[x]] = f[x],
         \A x, y \in S : name[x] = name[y] => x = y
  PROVE  SumFunctionOnSet(g, {name[x] : x \in S}) = SumFunctionOnSet(f, S)
<1> DEFINE Sum(k, t) == SumFunctionOnSet(k, t)
           Named(t) == {name[x] : x \in t}
           C == {t \in SUBSET S : Sum(g, Named(t)) # Sum(f, t)}
<1>1. SUFFICES ASSUME C # {} PROVE FALSE
  <2>1. S \in SUBSET S
    OBVIOUS
  <2> QED
    BY <1>1, <2>1
<1>a. ASSUME NEW t \in SUBSET S
      PROVE  IsFiniteSet(t) /\ IsFiniteSet(Named(t))
  <2>1. IsFiniteSet(t)
    BY FS_Subset
  <2> DEFINE n == [x \in t |-> name[x]]
  <2>2. n \in Surjection(t, Named(t))
    BY DEF Surjection
  <2> QED
    BY <2>1, <2>2, FS_Surjection
<1>b. \A t \in SUBSET S : \A x \in t :
        /\ Sum(f, t) = f[x] + Sum(f, t \ {x})
        /\ Sum(g, Named(t)) = g[name[x]] + Sum(g, Named(t) \ {name[x]})
        /\ Named(t) \ {name[x]} = Named(t \ {x})
  <2> SUFFICES ASSUME NEW t \in SUBSET S, NEW x \in t
               PROVE  /\ Sum(f, t) = f[x] + Sum(f, t \ {x})
                      /\ Sum(g, Named(t)) = g[name[x]] + Sum(g, Named(t) \ {name[x]})
                      /\ Named(t) \ {name[x]} = Named(t \ {x})
    OBVIOUS
  <2>1. \A n \in Named(t) : g[n] \in Nat
    OBVIOUS
  <2>2. Sum(f, t) = f[x] + Sum(f, t \ {x})
    <3>1. IsFiniteSet(t) /\ \A y \in t : f[y] \in Nat
      BY <1>a
    <3> HIDE DEF Named
    <3> QED
      BY <3>1, SumWithout
  <2>3. Sum(g, Named(t)) = g[name[x]] + Sum(g, Named(t) \ {name[x]})
    <3>1. name[x] \in Named(t) /\ IsFiniteSet(Named(t))
      BY <1>a
    <3> HIDE DEF Named
    <3> QED
      BY <2>1, <3>1, SumWithout
  <2>4. Named(t) \ {name[x]} = Named(t \ {x})
    OBVIOUS
  <2> QED
    BY <2>2, <2>3, <2>4
<1>c. Sum(g, Named({})) = Sum(f, {})
  <2>1. Named({}) = {}
    OBVIOUS
  <2> QED
    BY <2>1, SumPicked, FS_EmptySet
<1> HIDE DEF Sum, Named
<1>2. PICK T \in C : \A u \in C : u \subseteq T => u = T
  <2> HIDE DEF C
  <2>1. C \in SUBSET (SUBSET S)
    BY DEF C
  <2> QED
    BY <1>1, <2>1, LeastSubset
<1>3. T \in SUBSET S /\ Sum(g, Named(T)) # Sum(f, T)
  BY <1>2
<1>e. T # {}
  BY <1>3, <1>c, Zenon
<1>4. PICK x \in T : TRUE
  BY <1>e
<1> DEFINE u == T \ {x}
<1>5. u \in SUBSET S /\ u \notin C
  BY <1>2, <1>3, <1>4
<1>6. Sum(g, Named(u)) = Sum(f, u)
  BY <1>5
<1>7. Sum(f, T) = f[x] + Sum(f, u) /\ Sum(g, Named(T)) = g[name[x]] + Sum(g, Named(u))
  BY <1>b, <1>3, <1>4
<1> QED
  BY <1>3, <1>4, <1>6, <1>7
-----------------------------------------------------------------------------
(***************************************************************************)
(* Orders and order statistics.                                            *)
(***************************************************************************)
\* What a sort needs of the comparison.
Orders(before, S) ==
  /\ \A x \in S : <<x, x>> \notin before
  /\ \A x, y \in S : x # y => <<x, y>> \in before \/ <<y, x>> \in before
  /\ \A x, y, z \in S : <<x, y>> \in before /\ <<y, z>> \in before => <<x, z>> \in before

Preceding(S, before, x) == {y \in S : <<y, x>> \in before}

LEMMA BeforeGrows ==
  ASSUME NEW S, IsFiniteSet(S), NEW before, Orders(before, S)
  PROVE  /\ Cardinality(S) \in Nat
         /\ \A x \in S : /\ IsFiniteSet(Preceding(S, before, x))
                         /\ Cardinality(Preceding(S, before, x)) \in Nat
                         /\ Cardinality(Preceding(S, before, x)) < Cardinality(S)
         /\ \A x, y \in S : <<x, y>> \in before =>
              Cardinality(Preceding(S, before, x)) < Cardinality(Preceding(S, before, y))
<1>1. Cardinality(S) \in Nat
  BY FS_CardinalityType
<1>2. ASSUME NEW x \in S
      PROVE  /\ IsFiniteSet(Preceding(S, before, x))
             /\ Cardinality(Preceding(S, before, x)) \in Nat
             /\ Cardinality(Preceding(S, before, x)) < Cardinality(S)
  <2>1. Preceding(S, before, x) \in SUBSET (S \ {x})
    BY DEF Preceding, Orders
  <2>2. IsFiniteSet(S \ {x}) /\ Cardinality(S \ {x}) = Cardinality(S) - 1
    BY FS_RemoveElement
  <2>3. /\ IsFiniteSet(Preceding(S, before, x))
        /\ Cardinality(Preceding(S, before, x)) <= Cardinality(S) - 1
    BY <2>1, <2>2, FS_Subset
  <2>4. Cardinality(Preceding(S, before, x)) \in Nat
    BY <2>3, FS_CardinalityType
  <2> QED
    BY <1>1, <2>3, <2>4
<1>3. ASSUME NEW x \in S, NEW y \in S, <<x, y>> \in before
      PROVE  Cardinality(Preceding(S, before, x)) < Cardinality(Preceding(S, before, y))
  <2>1. Preceding(S, before, x) \in SUBSET Preceding(S, before, y)
    BY <1>3 DEF Preceding, Orders
  <2>2. x \in Preceding(S, before, y) /\ x \notin Preceding(S, before, x)
    BY <1>3 DEF Preceding, Orders
  <2>3. /\ Cardinality(Preceding(S, before, x)) <= Cardinality(Preceding(S, before, y))
        /\ Cardinality(Preceding(S, before, y)) # Cardinality(Preceding(S, before, x))
    BY <1>2, <2>1, <2>2, FS_Subset
  <2> QED
    BY <1>2, <2>3
<1> QED
  BY <1>1, <1>2, <1>3

\* A sort lists every element once, in the order of the comparison.
LEMMA Sorted ==
  ASSUME NEW S, IsFiniteSet(S), NEW before, Orders(before, S), NEW order,
         order = InOrder(S, before)
  PROVE  /\ Cardinality(S) \in Nat
         /\ order \in [1 .. Cardinality(S) -> S] /\ DOMAIN order = 1 .. Cardinality(S)
         /\ order \in Seq(S) /\ Len(order) = Cardinality(S)
         /\ \A x \in S : \E i \in 1 .. Cardinality(S) : order[i] = x
         /\ \A i, j \in 1 .. Cardinality(S) : i < j => <<order[i], order[j]>> \in before
         /\ \A i, j \in 1 .. Cardinality(S) : order[i] = order[j] => i = j
<1> DEFINE n == Cardinality(S)
           below == [x \in S |-> Cardinality(Preceding(S, before, x))]
           place == [x \in S |-> below[x] + 1]
           At(i) == CHOOSE x \in S : Cardinality(Preceding(S, before, x)) = i - 1
<1>1. order = [i \in 1 .. n |-> At(i)]
  BY DEF InOrder, Preceding
<1>2. /\ n \in Nat
      /\ \A x \in S : below[x] \in Nat /\ below[x] < n
      /\ \A x, y \in S : <<x, y>> \in before => below[x] < below[y]
  BY BeforeGrows
<1>a. \A x \in S : below[x] = Cardinality(Preceding(S, before, x))
  OBVIOUS
<1> HIDE DEF n, below
<1>3. ASSUME NEW x \in S, NEW y \in S, below[x] = below[y]
      PROVE  x = y
  <2>1. <<x, y>> \notin before /\ <<y, x>> \notin before
    BY <1>2, <1>3
  <2> QED
    BY <2>1 DEF Orders
<1>4. place \in Injection(S, 1 .. n)
  <2>1. place \in [S -> 1 .. n]
    BY <1>2
  <2>2. \A x, y \in S : place[x] = place[y] => x = y
    BY <1>2, <1>3
  <2> QED
    BY <2>1, <2>2 DEF Injection, IsInjective
<1>5. place \in Surjection(S, 1 .. n)
  <2>1. IsFiniteSet(1 .. n) /\ Cardinality(1 .. n) = n
    BY <1>2, FS_Interval
  <2> QED
    BY <1>4, <2>1, FS_Injection DEF n
<1>6. \A i \in 1 .. n : \E x \in S : below[x] = i - 1
  <2> TAKE i \in 1 .. n
  <2>1. PICK x \in S : place[x] = i
    BY <1>5 DEF Surjection
  <2>2. below[x] = i - 1
    BY <1>2, <2>1
  <2> QED
    BY <2>2
<1>7. \A i \in 1 .. n : At(i) \in S /\ below[At(i)] = i - 1
  BY <1>6, <1>a
<1> HIDE DEF At
<1>8. \A i \in 1 .. n : order[i] \in S /\ below[order[i]] = i - 1
  BY <1>1, <1>7
<1>9. order \in [1 .. n -> S] /\ DOMAIN order = 1 .. n
  BY <1>1, <1>8
<1>10. order \in Seq(S) /\ Len(order) = n
  BY <1>2, <1>9
<1>11. ASSUME NEW x \in S
       PROVE  \E i \in 1 .. n : order[i] = x
  <2> DEFINE i == below[x] + 1
  <2>1. i \in 1 .. n /\ i - 1 = below[x]
    BY <1>2
  <2>2. order[i] = x
    BY <1>3, <1>8, <2>1
  <2> QED
    BY <2>1, <2>2
<1>12. ASSUME NEW i \in 1 .. n, NEW j \in 1 .. n, i < j
       PROVE  <<order[i], order[j]>> \in before
  <2>1. /\ order[i] \in S /\ order[j] \in S
        /\ below[order[i]] < below[order[j]]
    BY <1>2, <1>8, <1>12
  <2>2. order[i] # order[j] /\ ~ (<<order[j], order[i]>> \in before)
    BY <1>2, <2>1
  <2> QED
    BY <2>1, <2>2 DEF Orders
<1>13. \A i, j \in 1 .. n : order[i] = order[j] => i = j
  <2> TAKE i, j \in 1 .. n
  <2>1. below[order[i]] = i - 1 /\ below[order[j]] = j - 1
    BY <1>8
  <2> QED
    BY <1>2, <2>1
<1> QED
  BY <1>2, <1>9, <1>10, <1>11, <1>12, <1>13 DEF n

-----------------------------------------------------------------------------
Lesser(values, v) == {i \in DOMAIN values : values[i] < v}
AtMost(values, v) == {i \in DOMAIN values : values[i] <= v}

LEMMA Counted ==
  ASSUME NEW values \in Seq(Nat), NEW v
  PROVE  /\ IsFiniteSet(DOMAIN values) /\ Cardinality(DOMAIN values) = Len(values)
         /\ IsFiniteSet(Lesser(values, v)) /\ Cardinality(Lesser(values, v)) \in Nat
         /\ IsFiniteSet(AtMost(values, v)) /\ Cardinality(AtMost(values, v)) \in Nat
         /\ Cardinality(AtMost(values, v)) <= Len(values)
<1>1. DOMAIN values = 1 .. Len(values) /\ Len(values) \in Nat
  OBVIOUS
<1>2. IsFiniteSet(DOMAIN values) /\ Cardinality(DOMAIN values) = Len(values)
  <2> DEFINE n == Len(values)
  <2>1. n \in Nat /\ n \in Int /\ 1 \in Int
    BY <1>1
  <2> HIDE DEF n
  <2>2. IsFiniteSet(1 .. n) /\ Cardinality(1 .. n) = n
    BY <2>1, FS_Interval
  <2> QED
    BY <1>1, <2>2 DEF n
<1>3. /\ Lesser(values, v) \in SUBSET (DOMAIN values)
      /\ AtMost(values, v) \in SUBSET (DOMAIN values)
  BY DEF Lesser, AtMost
<1> QED
  BY <1>2, <1>3, FS_Subset, FS_CardinalityType

\* The numbers of a sequence have a bound.
LEMMA ValuesBounded ==
  ASSUME NEW values \in Seq(Nat)
  PROVE  \E b \in Nat : \A i \in DOMAIN values : values[i] <= b
<1> DEFINE Bounded(m) == \E b \in Nat : \A i \in 1 .. m : values[i] <= b
           C == {m \in 0 .. Len(values) : ~ Bounded(m)}
<1>0. Len(values) \in Nat /\ \A i \in 1 .. Len(values) : values[i] \in Nat
  OBVIOUS
<1>1. SUFFICES ASSUME C # {} PROVE FALSE
  <2>1. DOMAIN values = 1 .. Len(values) /\ Len(values) \in 0 .. Len(values)
    OBVIOUS
  <2>2. Len(values) \notin C
    BY <1>1
  <2> QED
    BY <2>1, <2>2
<1>2. PICK m \in C : \A l \in C : ~ (l < m)
  <2>1. C \in SUBSET Nat
    OBVIOUS
  <2> HIDE DEF C
  <2> QED
    BY <1>1, <2>1, LeastNumber
<1>3. m \in 0 .. Len(values) /\ ~ Bounded(m)
  BY <1>2
<1>4. CASE m = 0
  <2>1. \A i \in 1 .. m : values[i] <= 0
    BY <1>4
  <2> QED
    BY <1>3, <2>1
<1>5. CASE m # 0
  <2>1. m - 1 \in 0 .. Len(values) /\ m - 1 < m
    BY <1>3, <1>5
  <2>2. Bounded(m - 1)
    BY <1>2, <2>1
  <2>3. PICK b \in Nat : \A i \in 1 .. (m - 1) : values[i] <= b
    BY <2>2
  <2>a. m \in 1 .. Len(values) /\ m \in Nat
    BY <1>3, <1>5
  <2>4. values[m] \in Nat /\ \A i \in 1 .. m : values[i] \in Nat
    BY <1>0, <2>a
  <2> DEFINE c == IF values[m] <= b THEN b ELSE values[m]
  <2>5. c \in Nat /\ b <= c /\ values[m] <= c
    <3> HIDE DEF C
    <3>1. values[m] \in Nat /\ b \in Nat
      BY <2>4
    <3> QED
      BY <3>1
  <2> HIDE DEF c
  <2>6. \A i \in 1 .. m : values[i] <= c
    <3> TAKE i \in 1 .. m
    <3>1. CASE i = m
      BY <2>5, <3>1
    <3>2. CASE i # m
      <4>1. i \in 1 .. (m - 1) /\ values[i] \in Nat
        BY <2>a, <2>4, <3>2
      <4> HIDE DEF C
      <4> QED
        BY <2>3, <2>5, <4>1
    <3> QED
      BY <3>1, <3>2
  <2> QED
    BY <1>3, <2>5, <2>6
<1> QED
  BY <1>4, <1>5

\* The k-th smallest is there.
LEMMA SmallestIs ==
  ASSUME NEW values \in Seq(Nat), NEW k \in 1 .. Len(values)
  PROVE  /\ \E i \in DOMAIN values : Smallest(values, k) = values[i]
         /\ Smallest(values, k) \in Nat
         /\ Cardinality(Lesser(values, Smallest(values, k))) < k
         /\ k <= Cardinality(AtMost(values, Smallest(values, k)))
<1> DEFINE Fits(v) == Cardinality(Lesser(values, v)) < k /\ k <= Cardinality(AtMost(values, v))
           C == {v \in Nat : k <= Cardinality(AtMost(values, v))}
<1>1. PICK v \in C : \A w \in C : ~ (w < v)
  <2>1. PICK b \in Nat : \A i \in DOMAIN values : values[i] <= b
    BY ValuesBounded
  <2>2. AtMost(values, b) = DOMAIN values
    BY <2>1 DEF AtMost
  <2>3. b \in C
    BY <2>1, <2>2, Counted
  <2>4. C \in SUBSET Nat /\ C # {}
    BY <2>3
  <2> HIDE DEF C
  <2> QED
    BY <2>4, LeastNumber
<1>2. v \in Nat /\ k <= Cardinality(AtMost(values, v))
  BY <1>1
<1>3. Cardinality(Lesser(values, v)) < k
  <2>1. CASE v = 0
    <3>1. Lesser(values, v) = {}
      BY <2>1 DEF Lesser
    <3> QED
      BY <3>1, FS_EmptySet
  <2>2. CASE v # 0
    <3>1. v - 1 \in Nat /\ v - 1 < v
      BY <1>2, <2>2
    <3>2. ~ (k <= Cardinality(AtMost(values, v - 1)))
      BY <1>1, <3>1
    <3>3. Lesser(values, v) = AtMost(values, v - 1)
      BY <1>2, <2>2 DEF Lesser, AtMost
    <3> QED
      BY <3>2, <3>3, Counted
  <2> QED
    BY <2>1, <2>2
<1>4. PICK i \in DOMAIN values : values[i] = v
  <2>1. AtMost(values, v) # Lesser(values, v)
    BY <1>2, <1>3, Counted
  <2>2. PICK i \in DOMAIN values : values[i] <= v /\ ~ (values[i] < v)
    BY <2>1 DEF AtMost, Lesser
  <2>3. values[i] = v
    BY <1>2, <2>2
  <2> QED
    BY <2>3
<1> DEFINE S == {values[j] : j \in DOMAIN values}
<1>5. v \in S /\ Fits(v) /\ S \subseteq Nat
  BY <1>2, <1>3, <1>4
<1>6. Smallest(values, k) = CHOOSE w \in S : Fits(w)
  BY DEF Smallest, Lesser, AtMost
<1> HIDE DEF S
<1>7. Smallest(values, k) \in S /\ Fits(Smallest(values, k))
  <2> HIDE DEF Fits
  <2> QED
    BY <1>5, <1>6
<1> QED
  BY <1>5, <1>7 DEF S

\* A later one is no smaller.
LEMMA SmallestGrows ==
  ASSUME NEW values \in Seq(Nat), NEW j \in 1 .. Len(values), NEW k \in 1 .. Len(values), j <= k
  PROVE  Smallest(values, j) <= Smallest(values, k)
<1> DEFINE v == Smallest(values, j)
           w == Smallest(values, k)
<1>1. /\ v \in Nat /\ Cardinality(Lesser(values, v)) < j
      /\ w \in Nat /\ k <= Cardinality(AtMost(values, w))
  BY SmallestIs
<1> HIDE DEF v, w
<1>2. SUFFICES ASSUME w < v PROVE FALSE
  BY <1>1 DEF v, w
<1>3. AtMost(values, w) \in SUBSET Lesser(values, v)
  BY <1>1, <1>2 DEF AtMost, Lesser
<1>4. Cardinality(AtMost(values, w)) <= Cardinality(Lesser(values, v))
  BY <1>3, Counted, FS_Subset
<1>5. Cardinality(AtMost(values, w)) \in Nat /\ Cardinality(Lesser(values, v)) \in Nat
  BY Counted
<1> QED
  BY <1>1, <1>4, <1>5
-----------------------------------------------------------------------------
(***************************************************************************)
(* Percentiles: where they stand among the values and how far from them.   *)
(***************************************************************************)
LowerPlace(n, twentieths) == ((n - 1) * twentieths) \div 20 + 1
UpperPlace(n, twentieths) == ((n - 1) * twentieths + 19) \div 20 + 1
Rest(n, twentieths) == ((n - 1) * twentieths) % 20

LEMMA Twentieths ==
  ASSUME NEW p \in Nat
  PROVE  /\ p \div 20 \in Nat /\ p % 20 \in 0 .. 19 /\ p = 20 * (p \div 20) + (p % 20)
         /\ p % 20 = 0 => (p + 19) \div 20 = p \div 20
         /\ p % 20 # 0 => (p + 19) \div 20 = p \div 20 + 1
<1>1. \A m \in Nat :
        m \div 20 \in Nat /\ m % 20 \in 0 .. 19 /\ m = 20 * (m \div 20) + (m % 20)
  OBVIOUS
<1> DEFINE q == p \div 20
           r == p % 20
           s == (p + 19) \div 20
           t == (p + 19) % 20
<1>2. /\ q \in Nat /\ r \in 0 .. 19 /\ p = 20 * q + r
      /\ s \in Nat /\ t \in 0 .. 19 /\ p + 19 = 20 * s + t
  BY <1>1, p + 19 \in Nat
<1> HIDE DEF q, r, s, t
<1>3. (r = 0 => s = q) /\ (r # 0 => s = q + 1)
  BY <1>2
<1>4. /\ p % 20 = 0 => (p + 19) \div 20 = p \div 20
      /\ p % 20 # 0 => (p + 19) \div 20 = p \div 20 + 1
  BY <1>3 DEF q, r, s
<1> QED
  BY <1>1, <1>4

\* The places of a percentile are those of two values, or the place of one.
PlacesOf(n, twentieths) ==
  /\ LowerPlace(n, twentieths) \in 1 .. n /\ UpperPlace(n, twentieths) \in 1 .. n
  /\ LowerPlace(n, twentieths) <= UpperPlace(n, twentieths)
  /\ Rest(n, twentieths) \in 0 .. 19
  /\ Rest(n, twentieths) = 0 => UpperPlace(n, twentieths) = LowerPlace(n, twentieths)
  /\ Rest(n, twentieths) # 0 => UpperPlace(n, twentieths) = LowerPlace(n, twentieths) + 1

LEMMA PercentilePlaces ==
  ASSUME NEW n \in Nat \ {0}
  PROVE  /\ PlacesOf(n, 10) /\ PlacesOf(n, 19)
         /\ 2 * LowerPlace(n, 10) >= n /\ 2 * (n - UpperPlace(n, 10) + 1) >= n
         /\ 20 * (n - LowerPlace(n, 19)) <= n + 18
         /\ \/ UpperPlace(n, 10) <= LowerPlace(n, 19)
            \/ LowerPlace(n, 10) = LowerPlace(n, 19) /\ Rest(n, 10) <= Rest(n, 19)
<1> DEFINE p == (n - 1) * 10
           q == p \div 20
           r == p % 20
           u == (p + 19) \div 20
           P == (n - 1) * 19
           Q == P \div 20
           R == P % 20
           U == (P + 19) \div 20
<1>1. p \in Nat /\ P \in Nat /\ p = 10 * n - 10 /\ P = 19 * n - 19
  OBVIOUS
<1> HIDE DEF p, P
<1>2. /\ q \in Nat /\ r \in 0 .. 19 /\ p = 20 * q + r
      /\ (r = 0 => u = q) /\ (r # 0 => u = q + 1)
  BY <1>1, Twentieths
<1>3. /\ Q \in Nat /\ R \in 0 .. 19 /\ P = 20 * Q + R
      /\ (R = 0 => U = Q) /\ (R # 0 => U = Q + 1)
  BY <1>1, Twentieths
<1>4. /\ LowerPlace(n, 10) = q + 1 /\ UpperPlace(n, 10) = u + 1 /\ Rest(n, 10) = r
      /\ LowerPlace(n, 19) = Q + 1 /\ UpperPlace(n, 19) = U + 1 /\ Rest(n, 19) = R
  BY DEF LowerPlace, UpperPlace, Rest, p, P
<1> HIDE DEF q, r, u, Q, R, U
<1>5. PlacesOf(n, 10)
  BY <1>1, <1>2, <1>4 DEF PlacesOf
<1>6. PlacesOf(n, 19)
  BY <1>1, <1>3, <1>4 DEF PlacesOf
<1>7. 2 * (q + 1) >= n /\ 2 * (n - (u + 1) + 1) >= n
  BY <1>1, <1>2
<1>8. 20 * (n - (Q + 1)) <= n + 18
  BY <1>1, <1>3
<1>9. u <= Q \/ (q = Q /\ r <= R)
  BY <1>1, <1>2, <1>3
<1>10. u + 1 <= Q + 1 \/ (q + 1 = Q + 1 /\ r <= R)
  BY <1>2, <1>3, <1>9
<1> QED
  BY <1>4, <1>5, <1>6, <1>7, <1>8, <1>10, Zenon

\* Between two values, no further than either.
LEMMA Interpolated ==
  ASSUME NEW l \in Nat, NEW u \in Nat, l <= u, NEW r \in 0 .. 19, NEW s \in 0 .. 19
  PROVE  /\ 20 * l + (u - l) * r \in Nat
         /\ 20 * l <= 20 * l + (u - l) * r /\ 20 * l + (u - l) * r <= 20 * u
         /\ r = 0 => 20 * l + (u - l) * r = 20 * l
         /\ r <= s => 20 * l + (u - l) * r <= 20 * l + (u - l) * s
<1> DEFINE d == u - l
<1>1. d \in Nat /\ u = l + d
  OBVIOUS
<1>2. \A x \in 0 .. 19 : d * x \in Nat /\ d * x <= 20 * d
  BY <1>1
<1>3. r <= s => d * r <= d * s
  BY <1>1
<1>4. r = 0 => d * r = 0
  BY <1>1
<1>5. d * r \in Nat /\ d * s \in Nat /\ d * r <= 20 * d
  BY <1>2
<1>6. \A m \in Nat : 20 * l + m \in Nat /\ 20 * l <= 20 * l + m
  OBVIOUS
<1> HIDE DEF d
<1>7. (u - l) * r = d * r /\ (u - l) * s = d * s
  BY DEF d
<1>8. 20 * u = 20 * l + 20 * d
  BY <1>1
<1> QED
  BY <1>3, <1>4, <1>5, <1>6, <1>7, <1>8

PercentileOf(values, twentieths) ==
  LET n == Len(values)
      lower == Smallest(values, LowerPlace(n, twentieths))
      upper == Smallest(values, UpperPlace(n, twentieths))
  IN 20 * lower + (upper - lower) * Rest(n, twentieths)

LEMMA PercentileIs ==
  ASSUME NEW values, values # <<>>, NEW twentieths
  PROVE  Percentile(values, twentieths) = PercentileOf(values, twentieths)
BY DEF Percentile, PercentileOf, LowerPlace, UpperPlace, Rest

\* At least half of the values are no more than the median and at least half no
\* less; it is no more than the 95th percentile, nor that than every value, and no
\* more than one in twenty, or part of twenty, are above that.
LEMMA PercentilesTell ==
  ASSUME NEW values \in Seq(Nat), values # <<>>
  PROVE  LET p50 == Percentile(values, 10)
             p95 == Percentile(values, 19)
             n == Len(values)
         IN /\ p50 \in Nat /\ p95 \in Nat /\ p50 <= p95
            /\ 2 * Cardinality({i \in DOMAIN values : 20 * values[i] <= p50}) >= n
            /\ 2 * Cardinality({i \in DOMAIN values : 20 * values[i] >= p50}) >= n
            /\ 20 * Cardinality({i \in DOMAIN values : 20 * values[i] > p95}) <= n + 18
            /\ \E i \in DOMAIN values : p95 <= 20 * values[i]
            /\ \E i \in DOMAIN values : 20 * values[i] <= p50
<1> DEFINE n == Len(values)
           D == DOMAIN values
           l50 == Smallest(values, LowerPlace(n, 10))
           u50 == Smallest(values, UpperPlace(n, 10))
           l95 == Smallest(values, LowerPlace(n, 19))
           u95 == Smallest(values, UpperPlace(n, 19))
           p50 == 20 * l50 + (u50 - l50) * Rest(n, 10)
           p95 == 20 * l95 + (u95 - l95) * Rest(n, 19)
<1>1. n \in Nat \ {0} /\ \A i \in D : values[i] \in Nat
  OBVIOUS
<1>a. PlacesOf(n, 10) /\ PlacesOf(n, 19)
  BY <1>1, PercentilePlaces
<1>2. p50 = Percentile(values, 10) /\ p95 = Percentile(values, 19)
  BY PercentileIs DEF PercentileOf
<1>3. /\ l50 \in Nat /\ u50 \in Nat /\ l95 \in Nat /\ u95 \in Nat
      /\ \E i \in D : values[i] = l50
      /\ \E i \in D : values[i] = u95
      /\ LowerPlace(n, 10) <= Cardinality(AtMost(values, l50))
      /\ Cardinality(Lesser(values, u50)) < UpperPlace(n, 10)
      /\ LowerPlace(n, 19) <= Cardinality(AtMost(values, l95))
  BY <1>1, <1>a, PercentilePlaces, SmallestIs DEF PlacesOf
<1>4. l50 <= u50 /\ l95 <= u95
  BY <1>1, <1>a, PercentilePlaces, SmallestGrows DEF PlacesOf
<1>5. \/ u50 <= l95
      \/ l50 = l95 /\ Rest(n, 10) <= Rest(n, 19) /\ (Rest(n, 10) = 0 \/ u50 = u95)
  <2>1. CASE UpperPlace(n, 10) <= LowerPlace(n, 19)
    BY <1>1, <1>a, <2>1, PercentilePlaces, SmallestGrows DEF PlacesOf
  <2>2. CASE LowerPlace(n, 10) = LowerPlace(n, 19) /\ Rest(n, 10) <= Rest(n, 19)
    <3>1. Rest(n, 10) # 0 => UpperPlace(n, 10) = UpperPlace(n, 19)
      <4>1. Rest(n, 10) \in 0 .. 19 /\ Rest(n, 19) \in 0 .. 19
        BY <1>a DEF PlacesOf
      <4>2. SUFFICES ASSUME Rest(n, 10) # 0
                     PROVE  UpperPlace(n, 10) = UpperPlace(n, 19)
        OBVIOUS
      <4>3. Rest(n, 19) # 0
        BY <2>2, <4>1, <4>2
      <4> QED
        BY <1>a, <2>2, <4>2, <4>3, Zenon DEF PlacesOf
    <3> QED
      BY <2>2, <3>1
  <2> QED
    BY <1>1, <2>1, <2>2, PercentilePlaces
<1>6. Rest(n, 10) \in 0 .. 19 /\ Rest(n, 19) \in 0 .. 19
  BY <1>1, <1>a, PercentilePlaces DEF PlacesOf
<1>7. /\ LowerPlace(n, 10) \in Nat /\ UpperPlace(n, 10) \in Nat /\ LowerPlace(n, 19) \in Nat
      /\ 2 * LowerPlace(n, 10) >= n /\ 2 * (n - UpperPlace(n, 10) + 1) >= n
      /\ 20 * (n - LowerPlace(n, 19)) <= n + 18
  <2>1. /\ LowerPlace(n, 10) \in 1 .. n /\ UpperPlace(n, 10) \in 1 .. n
        /\ LowerPlace(n, 19) \in 1 .. n
    BY <1>a DEF PlacesOf
  <2>2. /\ 2 * LowerPlace(n, 10) >= n /\ 2 * (n - UpperPlace(n, 10) + 1) >= n
        /\ 20 * (n - LowerPlace(n, 19)) <= n + 18
    BY <1>1, PercentilePlaces
  <2> HIDE DEF n
  <2>3. \A i \in 1 .. n : i \in Nat
    BY <1>1
  <2> QED
    BY <2>1, <2>2, <2>3
<1> HIDE DEF l50, u50, l95, u95
<1>8. /\ p50 \in Nat /\ 20 * l50 <= p50 /\ p50 <= 20 * u50
      /\ Rest(n, 10) = 0 => p50 = 20 * l50
      /\ p95 \in Nat /\ 20 * l95 <= p95 /\ p95 <= 20 * u95
  BY <1>3, <1>4, <1>6, Interpolated
<1>9. p50 <= p95
  <2>1. CASE u50 <= l95
    <3> HIDE DEF p50, p95
    <3> QED
      BY <1>3, <1>8, <2>1
  <2>2. CASE l50 = l95 /\ Rest(n, 10) <= Rest(n, 19) /\ u50 = u95
    BY <1>3, <1>4, <1>6, <2>2, Interpolated
  <2>3. CASE l50 = l95 /\ Rest(n, 10) = 0
    <3> HIDE DEF p50, p95
    <3> QED
      BY <1>3, <1>8, <2>3
  <2> QED
    BY <1>5, <2>1, <2>2, <2>3
<1> HIDE DEF p50, p95
<1> DEFINE Low == {i \in D : 20 * values[i] <= p50}
           High == {i \in D : 20 * values[i] >= p50}
           Over == {i \in D : 20 * values[i] > p95}
<1>10. IsFiniteSet(D) /\ Cardinality(D) = n
  BY Counted
<1>11. /\ IsFiniteSet(Low) /\ Cardinality(Low) \in Nat
       /\ IsFiniteSet(High) /\ Cardinality(High) \in Nat
       /\ IsFiniteSet(Over) /\ Cardinality(Over) \in Nat
  <2>1. Low \in SUBSET D /\ High \in SUBSET D /\ Over \in SUBSET D
    OBVIOUS
  <2> HIDE DEF Low, High, Over, D
  <2> QED
    BY <1>10, <2>1, FS_Subset, FS_CardinalityType
<1>12. 2 * Cardinality(Low) >= n
  <2>1. AtMost(values, l50) \in SUBSET Low
    BY <1>1, <1>3, <1>8 DEF AtMost
  <2>2. /\ Cardinality(AtMost(values, l50)) <= Cardinality(Low)
        /\ Cardinality(AtMost(values, l50)) \in Nat
    <3> HIDE DEF Low
    <3> QED
      BY <1>11, <2>1, FS_Subset, Counted
  <2>3. /\ LowerPlace(n, 10) \in Nat /\ 2 * LowerPlace(n, 10) >= n
        /\ LowerPlace(n, 10) <= Cardinality(AtMost(values, l50))
    BY <1>3, <1>7, Zenon
  <2> HIDE DEF Low, n
  <2> QED
    BY <1>1, <1>11, <2>2, <2>3
<1>13. 2 * Cardinality(High) >= n
  <2>1. D \ Lesser(values, u50) \in SUBSET High
    BY <1>1, <1>3, <1>8 DEF Lesser
  <2>2. /\ Cardinality(D \ Lesser(values, u50)) <= Cardinality(High)
        /\ Cardinality(D \ Lesser(values, u50)) = n - Cardinality(Lesser(values, u50))
        /\ Cardinality(Lesser(values, u50)) \in Nat
    <3>1. D \cap Lesser(values, u50) = Lesser(values, u50)
      BY DEF Lesser
    <3>2. Cardinality(D \ Lesser(values, u50)) <= Cardinality(High)
      <4> HIDE DEF High, D
      <4> QED
        BY <1>11, <2>1, FS_Subset
    <3>3. Cardinality(Lesser(values, u50)) \in Nat
      BY Counted
    <3> HIDE DEF High, D, n
    <3>4. Cardinality(D \ Lesser(values, u50)) = n - Cardinality(Lesser(values, u50))
      BY <1>10, <3>1, FS_Difference
    <3> QED
      BY <3>2, <3>3, <3>4
  <2>3. /\ UpperPlace(n, 10) \in Nat /\ 2 * (n - UpperPlace(n, 10) + 1) >= n
        /\ Cardinality(Lesser(values, u50)) < UpperPlace(n, 10)
    BY <1>3, <1>7, Zenon
  <2> HIDE DEF High, n, D
  <2> QED
    BY <1>1, <1>11, <2>2, <2>3
<1>14. 20 * Cardinality(Over) <= n + 18
  <2>1. Over \in SUBSET (D \ AtMost(values, l95))
    BY <1>1, <1>3, <1>8 DEF AtMost
  <2>2. /\ Cardinality(Over) <= Cardinality(D \ AtMost(values, l95))
        /\ Cardinality(D \ AtMost(values, l95)) = n - Cardinality(AtMost(values, l95))
        /\ Cardinality(AtMost(values, l95)) \in Nat
    <3>1. D \cap AtMost(values, l95) = AtMost(values, l95)
      BY DEF AtMost
    <3> HIDE DEF Over, D, n
    <3>2. /\ IsFiniteSet(D \ AtMost(values, l95))
          /\ Cardinality(D \ AtMost(values, l95)) = n - Cardinality(AtMost(values, l95))
      BY <1>10, <3>1, FS_Difference
    <3> QED
      BY <2>1, <3>2, FS_Subset, Counted
  <2>3. /\ LowerPlace(n, 19) \in Nat /\ 20 * (n - LowerPlace(n, 19)) <= n + 18
        /\ LowerPlace(n, 19) <= Cardinality(AtMost(values, l95))
    BY <1>3, <1>7, Zenon
  <2> HIDE DEF Over, n, D
  <2> QED
    BY <1>1, <1>11, <2>2, <2>3
<1>15. (\E i \in D : p95 <= 20 * values[i]) /\ \E i \in D : 20 * values[i] <= p50
  BY <1>3, <1>8
<1> QED
  BY <1>2, <1>8, <1>9, <1>12, <1>13, <1>14, <1>15
-----------------------------------------------------------------------------
(***************************************************************************)
(* The samples of a ping are its answers.                                  *)
(***************************************************************************)
PrintedLines == [kind : {"reply", "summary"}, attempt : Nat, time : Nat]

RepliesIn(lines) == {i \in DOMAIN lines : lines[i].kind = "reply"}

\* What a ping may have printed: a ping that does not number its replies prints none
\* again.
Output(numbered, lines) ==
  /\ numbered \in BOOLEAN /\ lines \in Seq(PrintedLines)
  /\ \A i \in RepliesIn(lines) : lines[i].attempt \in 1 .. Attempts /\ lines[i].time \in Rtts
  /\ ~numbered => \A i, j \in RepliesIn(lines) : lines[i].attempt = lines[j].attempt => i = j

FirstReply(lines, attempt) ==
  CHOOSE i \in RepliesIn(lines) :
    /\ lines[i].attempt = attempt
    /\ \A j \in RepliesIn(lines) : lines[j].attempt = attempt => i <= j

TimeOf(lines) == [attempt \in Echoed(lines) |-> lines[FirstReply(lines, attempt)].time]

LEMMA FirstReplies ==
  ASSUME NEW lines \in Seq(PrintedLines), NEW a \in Echoed(lines)
  PROVE  /\ FirstReply(lines, a) \in RepliesIn(lines)
         /\ lines[FirstReply(lines, a)].attempt = a
         /\ \A j \in RepliesIn(lines) : lines[j].attempt = a => FirstReply(lines, a) <= j
<1> DEFINE C == {i \in RepliesIn(lines) : lines[i].attempt = a}
           Fits(i) == /\ lines[i].attempt = a
                      /\ \A j \in RepliesIn(lines) : lines[j].attempt = a => i <= j
<1>1. C \in SUBSET Nat /\ C # {}
  BY DEF Echoed, RepliesIn
<1>2. PICK i \in C : \A j \in C : ~ (j < i)
  <2> HIDE DEF C
  <2> QED
    BY <1>1, LeastNumber
<1>3. i \in RepliesIn(lines) /\ Fits(i)
  BY <1>1, <1>2
<1> HIDE DEF C
<1>4. FirstReply(lines, a) = CHOOSE k \in RepliesIn(lines) : Fits(k)
  BY DEF FirstReply
<1>5. FirstReply(lines, a) \in RepliesIn(lines) /\ Fits(FirstReply(lines, a))
  <2> HIDE DEF Fits
  <2> QED
    BY <1>3, <1>4
<1> QED
  BY <1>5

KeptLines(numbered, lines) ==
  {i \in DOMAIN lines :
     /\ Latency(lines[i]) # NONE
     /\ Sequence(numbered, lines[i]) # NONE =>
          \A j \in 1 .. i - 1 : \/ Latency(lines[j]) = NONE
                                \/ Sequence(numbered, lines[j]) # Sequence(numbered, lines[i])}

\* A line is kept if it is the first reply to its attempt.
LEMMA KeptAreFirst ==
  ASSUME NEW numbered, NEW lines, Output(numbered, lines), NEW i
  PROVE  i \in KeptLines(numbered, lines) <=>
           /\ i \in RepliesIn(lines)
           /\ \A j \in RepliesIn(lines) : lines[j].attempt = lines[i].attempt => i <= j
<1>1. /\ numbered \in BOOLEAN /\ lines \in Seq(PrintedLines) /\ Len(lines) \in Nat
      /\ DOMAIN lines = 1 .. Len(lines)
  BY DEF Output
<1>2. ASSUME NEW k \in DOMAIN lines
      PROVE  (Latency(lines[k]) # NONE <=> k \in RepliesIn(lines)) /\ lines[k].attempt \in Nat
  <2>1. lines[k] \in PrintedLines
    BY <1>1
  <2>2. lines[k].time \in Nat /\ lines[k].attempt \in Nat
    BY <2>1 DEF PrintedLines
  <2> QED
    BY <2>2, NoneIsNoMeasurement DEF Latency, RepliesIn
<1>3. RepliesIn(lines) \subseteq DOMAIN lines
  BY DEF RepliesIn
<1>4. CASE ~numbered
  <2>1. i \in KeptLines(numbered, lines) <=> i \in RepliesIn(lines)
    BY <1>2, <1>3, <1>4 DEF KeptLines, Sequence
  <2>2. i \in RepliesIn(lines) =>
          \A j \in RepliesIn(lines) : lines[j].attempt = lines[i].attempt => i <= j
    BY <1>1, <1>3, <1>4 DEF Output
  <2> QED
    BY <2>1, <2>2
<1>5. CASE numbered
  <2>1. \A k \in DOMAIN lines : Sequence(numbered, lines[k]) = lines[k].attempt
    BY <1>5 DEF Sequence
  <2>2. \A k \in DOMAIN lines : Sequence(numbered, lines[k]) # NONE
    BY <1>2, <2>1, NoneIsNoMeasurement
  <2>3. i \in KeptLines(numbered, lines) <=>
          /\ i \in RepliesIn(lines)
          /\ \A j \in 1 .. i - 1 : \/ j \notin RepliesIn(lines)
                                 \/ lines[j].attempt # lines[i].attempt
    <3>1. i \in DOMAIN lines => \A j \in 1 .. i - 1 : j \in DOMAIN lines
      BY <1>1
    <3>2. i \in KeptLines(numbered, lines) <=>
            /\ i \in RepliesIn(lines)
            /\ \A j \in 1 .. i - 1 :
                 \/ Latency(lines[j]) = NONE
                 \/ Sequence(numbered, lines[j]) # Sequence(numbered, lines[i])
      BY <1>2, <1>3, <2>2 DEF KeptLines
    <3> QED
      BY <1>2, <1>3, <2>1, <3>1, <3>2
  <2>4. i \in RepliesIn(lines) =>
          ((\A j \in 1 .. i - 1 : \/ j \notin RepliesIn(lines)
                                 \/ lines[j].attempt # lines[i].attempt)
           <=> \A j \in RepliesIn(lines) : lines[j].attempt = lines[i].attempt => i <= j)
    BY <1>1, <1>3
  <2> QED
    BY <2>3, <2>4
<1> QED
  BY <1>1, <1>4, <1>5

\* Which attempt a sample is of.
SampleOrder(numbered, lines) ==
  InOrder(KeptLines(numbered, lines),
          {pair \in KeptLines(numbered, lines) \X KeptLines(numbered, lines) : pair[1] < pair[2]})
AttemptOf(numbered, lines) ==
  [n \in DOMAIN SampleOrder(numbered, lines) |-> lines[SampleOrder(numbered, lines)[n]].attempt]

\* Every attempt that was answered is sampled once, with the time of its first reply.
LEMMA SamplesAreAnswers ==
  ASSUME NEW numbered, NEW lines, Output(numbered, lines)
  PROVE  LET samples == Samples(numbered, lines)
             attempt == AttemptOf(numbered, lines)
         IN /\ samples \in Seq(Nat)
            /\ IsFiniteSet(Echoed(lines)) /\ Echoed(lines) \subseteq 1 .. Attempts
            /\ attempt \in [DOMAIN samples -> Echoed(lines)]
            /\ \A m, n \in DOMAIN samples : attempt[m] = attempt[n] => m = n
            /\ \A a \in Echoed(lines) : \E n \in DOMAIN samples : attempt[n] = a
            /\ \A n \in DOMAIN samples : TimeOf(lines)[attempt[n]] = samples[n]
            /\ \A a \in Echoed(lines) : TimeOf(lines)[a] \in Rtts
<1> DEFINE samples == Samples(numbered, lines)
           attempt == AttemptOf(numbered, lines)
           kept == KeptLines(numbered, lines)
           earlier == {pair \in kept \X kept : pair[1] < pair[2]}
           order == InOrder(kept, earlier)
           N == 1 .. Cardinality(kept)
<1>1. /\ lines \in Seq(PrintedLines) /\ Len(lines) \in Nat /\ DOMAIN lines = 1 .. Len(lines)
      /\ RepliesIn(lines) \subseteq DOMAIN lines
      /\ \A i \in RepliesIn(lines) : lines[i].attempt \in 1 .. Attempts /\ lines[i].time \in Rtts
  BY DEF Output, RepliesIn
<1>2. samples = [n \in DOMAIN order |-> Latency(lines[order[n]])]
  BY DEF Samples, KeptLines
<1>3. attempt = [n \in DOMAIN order |-> lines[order[n]].attempt]
  BY DEF AttemptOf, SampleOrder
<1>4. \A i \in kept : i \in RepliesIn(lines) /\ i \in Nat
  BY <1>1, KeptAreFirst
<1>5. IsFiniteSet(kept)
  <2>1. kept \in SUBSET (1 .. Len(lines))
    BY <1>1, <1>4
  <2>2. IsFiniteSet(1 .. Len(lines))
    BY <1>1, FS_Interval
  <2> HIDE DEF kept
  <2> QED
    BY <2>1, <2>2, FS_Subset
<1> HIDE DEF kept, samples, attempt
<1>6. Orders(earlier, kept)
  BY <1>4 DEF Orders
<1> HIDE DEF earlier
<1>7. /\ order \in [N -> kept] /\ DOMAIN order = N /\ order \in Seq(kept)
      /\ Cardinality(kept) \in Nat
      /\ \A x \in kept : \E i \in N : order[i] = x
      /\ \A i, j \in N : order[i] = order[j] => i = j
  BY <1>5, <1>6, Sorted
<1> HIDE DEF order
<1>8. ASSUME NEW i \in kept
      PROVE  /\ lines[i].attempt \in Echoed(lines)
             /\ FirstReply(lines, lines[i].attempt) = i
             /\ TimeOf(lines)[lines[i].attempt] = lines[i].time
             /\ Latency(lines[i]) = lines[i].time /\ lines[i].time \in Rtts
  <2>1. i \in RepliesIn(lines) /\ i \in Nat
    BY <1>4
  <2>2. lines[i].attempt \in Echoed(lines)
    BY <2>1 DEF Echoed, RepliesIn
  <2>3. \A j \in RepliesIn(lines) : lines[j].attempt = lines[i].attempt => i <= j
    BY KeptAreFirst DEF kept
  <2> DEFINE f == FirstReply(lines, lines[i].attempt)
  <2>4. f \in RepliesIn(lines) /\ lines[f].attempt = lines[i].attempt /\ f <= i
    BY <1>1, <2>1, <2>2, FirstReplies
  <2>5. f = i
    <3>1. i <= f /\ f \in Nat
      BY <1>1, <2>3, <2>4
    <3> HIDE DEF f
    <3> QED
      BY <2>1, <2>4, <3>1
  <2> QED
    BY <1>1, <2>1, <2>2, <2>5 DEF TimeOf, Latency, RepliesIn
<1>9. ASSUME NEW a \in Echoed(lines)
      PROVE  \E i \in kept : lines[i].attempt = a
  <2> DEFINE f == FirstReply(lines, a)
  <2>1. /\ f \in RepliesIn(lines) /\ lines[f].attempt = a
        /\ \A j \in RepliesIn(lines) : lines[j].attempt = a => f <= j
    BY <1>1, FirstReplies
  <2> HIDE DEF f
  <2>2. f \in kept
    BY <2>1, KeptAreFirst DEF kept
  <2> QED
    BY <2>1, <2>2
<1>10. samples \in Seq(Nat) /\ DOMAIN samples = N
  <2>1. \A n \in N : samples[n] \in Nat
    BY <1>2, <1>7, <1>8, ExperimentAssumption
  <2> QED
    BY <1>2, <1>7, <2>1
<1>11. Echoed(lines) \subseteq 1 .. Attempts /\ IsFiniteSet(Echoed(lines))
  <2>1. Echoed(lines) \in SUBSET (1 .. Attempts)
    BY <1>1 DEF Echoed, RepliesIn
  <2>2. IsFiniteSet(1 .. Attempts)
    BY FS_Interval, ExperimentAssumption
  <2> QED
    BY <2>1, <2>2, FS_Subset
<1>12. attempt \in [N -> Echoed(lines)]
  BY <1>3, <1>7, <1>8
<1>13. ASSUME NEW m \in N, NEW n \in N, attempt[m] = attempt[n]
       PROVE  m = n
  <2>1. /\ order[m] \in kept /\ order[n] \in kept
        /\ lines[order[m]].attempt = lines[order[n]].attempt
    BY <1>3, <1>7, <1>13
  <2>2. order[m] = order[n]
    BY <1>8, <2>1
  <2> QED
    BY <1>7, <2>2
<1>14. ASSUME NEW a \in Echoed(lines)
       PROVE  \E n \in N : attempt[n] = a
  <2>1. PICK i \in kept : lines[i].attempt = a
    BY <1>9
  <2>2. PICK n \in N : order[n] = i
    BY <1>7
  <2> QED
    BY <1>3, <1>7, <2>1, <2>2
<1>15. \A n \in N : TimeOf(lines)[attempt[n]] = samples[n]
  BY <1>2, <1>3, <1>7, <1>8
<1>16. \A a \in Echoed(lines) : TimeOf(lines)[a] \in Rtts
  BY <1>8, <1>9
<1> HIDE DEF N
<1> QED
  BY <1>10, <1>11, <1>12, <1>13, <1>14, <1>15, <1>16 DEF samples, attempt
-----------------------------------------------------------------------------
(***************************************************************************)
(* What a report says of a ping.                                           *)
(***************************************************************************)
\* Those of a set whose value is in another; there are as many under other names.
Having(S, f, X) == {x \in S : f[x] \in X}

LEMMA SameCount ==
  ASSUME NEW A, NEW B, IsFiniteSet(A), NEW name \in [A -> B],
         \A x, y \in A : name[x] = name[y] => x = y,
         \A b \in B : \E x \in A : name[x] = b,
         NEW f, NEW g, \A x \in A : g[name[x]] = f[x], NEW X
  PROVE  Cardinality(Having(B, g, X)) = Cardinality(Having(A, f, X))
<1> DEFINE S == Having(A, f, X)
           T == Having(B, g, X)
           h == [x \in S |-> name[x]]
<1>1. h \in Bijection(S, T)
  <2>1. h \in [S -> T] /\ (\A x, y \in S : h[x] = h[y] => x = y)
        /\ (\A b \in T : \E x \in S : h[x] = b)
    BY DEF Having
  <2> HIDE DEF S, T, h
  <2> QED
    BY <2>1 DEF Bijection, Injection, Surjection, IsInjective
<1>2. IsFiniteSet(S)
  BY FS_Subset DEF Having
<1> HIDE DEF S, T, h
<1> QED
  BY <1>1, <1>2, FS_Bijection DEF ExistsBijection, S, T

LEMMA Extremes ==
  ASSUME NEW S \in SUBSET Nat, S # {}, NEW b \in Nat, \A x \in S : x <= b
  PROVE  /\ Max(S) \in S /\ \A x \in S : x <= Max(S)
         /\ Min(S) \in S /\ \A x \in S : Min(S) <= x
<1>1. Max(S) \in S /\ \A x \in S : x <= Max(S)
  <2> DEFINE C == {n \in Nat : \A x \in S : x <= n}
             Fits(m) == \A x \in S : m >= x
  <2>1. PICK n \in C : \A m \in C : ~ (m < n)
    <3>1. C \in SUBSET Nat /\ C # {}
      OBVIOUS
    <3> HIDE DEF C
    <3> QED
      BY <3>1, LeastNumber
  <2>2. n \in S
    <3>1. SUFFICES ASSUME n \notin S PROVE FALSE
      OBVIOUS
    <3>2. \A x \in S : x < n
      BY <2>1, <3>1
    <3>3. n # 0
      <4>1. PICK x \in S : TRUE
        OBVIOUS
      <4>2. x \in Nat /\ x < n
        BY <3>2, <4>1
      <4> QED
        BY <4>2
    <3>4. n - 1 \in C /\ n - 1 < n
      BY <3>2, <3>3
    <3> QED
      BY <2>1, <3>4
  <2>3. Fits(n)
    BY <2>1
  <2>4. Max(S) = CHOOSE m \in S : Fits(m)
    BY DEF Max
  <2>5. Max(S) \in S /\ Fits(Max(S))
    <3> HIDE DEF Fits
    <3> QED
      BY <2>2, <2>3, <2>4
  <2> QED
    BY <2>5
<1>2. Min(S) \in S /\ \A x \in S : Min(S) <= x
  <2> DEFINE Fits(m) == \A x \in S : m <= x
  <2>1. PICK n \in S : \A m \in S : ~ (m < n)
    BY LeastNumber
  <2>2. Fits(n)
    BY <2>1
  <2>3. Min(S) = CHOOSE m \in S : Fits(m)
    BY DEF Min
  <2>4. Min(S) \in S /\ Fits(Min(S))
    <3> HIDE DEF Fits
    <3> QED
      BY <2>1, <2>2, <2>3
  <2> QED
    BY <2>4
<1> QED
  BY <1>1, <1>2

LEMMA Difference ==
  ASSUME NEW x \in Nat, NEW y \in Nat, x <= y + 14, y <= x + 14
  PROVE  /\ (IF y - x < 0 THEN -(y - x) ELSE y - x) \in Nat
         /\ (IF y - x < 0 THEN -(y - x) ELSE y - x) <= 14
OBVIOUS

\* If no two samples differ by what is said of a spread, they do not vary by as much.
LEMMA VariationTells ==
  ASSUME NEW samples \in Seq(Nat), NEW sent, Len(samples) > 1,
         \A i, j \in DOMAIN samples : samples[i] <= samples[j] + 14
  PROVE  /\ MetricsOf(samples, sent).variation \in Nat
         /\ MetricsOf(samples, sent).variation <= 14 * (Len(samples) - 1)
<1> DEFINE Step(i) == samples[i + 1] - samples[i]
           pairs == Len(samples) - 1
           steps == [i \in 1 .. pairs |-> IF Step(i) < 0 THEN -Step(i) ELSE Step(i)]
<1>1. pairs \in Nat /\ DOMAIN samples = 1 .. pairs + 1 /\ Len(samples) = pairs + 1
  <2>1. Len(samples) \in Nat /\ DOMAIN samples = 1 .. Len(samples) /\ Len(samples) > 1
    OBVIOUS
  <2>2. pairs \in Nat /\ Len(samples) = pairs + 1
    BY <2>1
  <2> HIDE DEF pairs
  <2> QED
    BY <2>1, <2>2
<1>2. MetricsOf(samples, sent).variation = SumFunctionOnSet(steps, 1 .. pairs)
  BY DEF MetricsOf, SumFunction
<1> HIDE DEF pairs
<1>3. \A i \in 1 .. pairs : /\ i \in DOMAIN samples /\ i + 1 \in DOMAIN samples
                            /\ samples[i] \in Nat /\ samples[i + 1] \in Nat
  BY <1>1
<1>4. \A i \in 1 .. pairs : steps[i] = IF Step(i) < 0 THEN -Step(i) ELSE Step(i)
  OBVIOUS
<1> HIDE DEF steps
<1>5. ASSUME NEW i \in 1 .. pairs
      PROVE  steps[i] \in Nat /\ steps[i] <= 14
  <2>1. steps[i] = IF samples[i + 1] - samples[i] < 0 THEN -(samples[i + 1] - samples[i])
                   ELSE samples[i + 1] - samples[i]
    BY <1>4
  <2>2. /\ i \in DOMAIN samples /\ i + 1 \in DOMAIN samples
        /\ samples[i] \in Nat /\ samples[i + 1] \in Nat
    BY <1>3
  <2>3. samples[i + 1] <= samples[i] + 14 /\ samples[i] <= samples[i + 1] + 14
    BY <2>2, Zenon
  <2> QED
    BY <2>1, <2>2, <2>3, Difference, Zenon
<1>6. IsFiniteSet(1 .. pairs) /\ Cardinality(1 .. pairs) = pairs
  BY <1>1, FS_Interval
<1>7. /\ SumFunctionOnSet(steps, 1 .. pairs) <= 14 * pairs
      /\ SumFunctionOnSet(steps, 1 .. pairs) \in Nat
  BY <1>5, <1>6, SumBounded, SumIsNumber
<1> QED
  BY <1>2, <1>7 DEF pairs

\* What EchoesCounted says of the metrics of a ping that was read.
Tells(lines, metrics, health) ==
  LET answered == Echoed(lines)
      time == TimeOf(lines)
      times == {time[attempt] : attempt \in answered}
  IN /\ metrics.received = Cardinality(answered)
     /\ metrics.lost = Attempts - Cardinality(answered)
     /\ health = "unavailable" <=> answered = {}
     /\ health = "ok" => answered = 1 .. Attempts
     /\ answered # {} =>
          /\ 2 * Cardinality({a \in answered : 20 * time[a] <= metrics.p50})
               >= Cardinality(answered)
          /\ 2 * Cardinality({a \in answered : 20 * time[a] >= metrics.p50})
               >= Cardinality(answered)
          /\ metrics.p50 <= metrics.p95 /\ metrics.p95 <= 20 * Max(times)
          /\ 20 * Cardinality({a \in answered : 20 * time[a] > metrics.p95})
               < Cardinality(answered) + 19
     /\ health = "degraded" /\ answered = 1 .. Attempts =>
          /\ Max(times) - Min(times) >= 15
          /\ Max(times) - Min(times) >= 20 \/ Max(times) >= 3 * Min(times)

LEMMA MetricsTell ==
  ASSUME NEW numbered, NEW lines, Output(numbered, lines), NEW metrics,
         metrics = MetricsOf(Samples(numbered, lines), Attempts)
  PROVE  Tells(lines, metrics, MetricsHealth(metrics))
<1> DEFINE samples == Samples(numbered, lines)
           attempt == AttemptOf(numbered, lines)
           answered == Echoed(lines)
           time == TimeOf(lines)
           times == {time[a] : a \in answered}
           D == DOMAIN samples
           n == Len(samples)
           health == MetricsHealth(metrics)
<1>1. /\ samples \in Seq(Nat)
      /\ IsFiniteSet(answered) /\ answered \subseteq 1 .. Attempts
      /\ attempt \in [D -> answered]
      /\ \A m, k \in D : attempt[m] = attempt[k] => m = k
      /\ \A a \in answered : \E k \in D : attempt[k] = a
      /\ \A k \in D : time[attempt[k]] = samples[k]
      /\ \A a \in answered : time[a] \in Rtts
  BY SamplesAreAnswers
<1>2. /\ metrics.sent = Attempts /\ metrics.received = n
      /\ metrics.lost = IF Attempts > n THEN Attempts - n ELSE 0
      /\ metrics.p50 = Percentile(samples, 10) /\ metrics.p95 = Percentile(samples, 19)
      /\ metrics.pairs = n - 1
  BY DEF MetricsOf
<1> HIDE DEF samples, attempt, answered, time
<1>3. n \in Nat /\ D = 1 .. n /\ IsFiniteSet(D) /\ Cardinality(D) = n
      /\ (n = 0 <=> samples = <<>>)
  BY <1>1, Counted
<1>4. \A a \in answered : time[a] \in Nat \ {0}
  BY <1>1, ExperimentAssumption
<1>5. ASSUME NEW X
      PROVE  Cardinality({a \in answered : time[a] \in X}) =
               Cardinality({k \in D : samples[k] \in X})
  <2> HIDE DEF D, n
  <2>1. /\ IsFiniteSet(D) /\ attempt \in [D -> answered]
        /\ \A x, y \in D : attempt[x] = attempt[y] => x = y
        /\ \A b \in answered : \E x \in D : attempt[x] = b
        /\ \A x \in D : time[attempt[x]] = samples[x]
    BY <1>1, <1>3
  <2>2. Cardinality(Having(answered, time, X)) = Cardinality(Having(D, samples, X))
    BY <2>1, SameCount
  <2> QED
    BY <2>2 DEF Having
<1>6. Cardinality(answered) = n
  <2>1. {a \in answered : time[a] \in Nat} = answered
    BY <1>4
  <2>2. \A k \in D : samples[k] \in Nat
    BY <1>1
  <2>3. {k \in D : samples[k] \in Nat} = D
    BY <2>2
  <2>4. Cardinality({a \in answered : time[a] \in Nat}) =
          Cardinality({k \in D : samples[k] \in Nat})
    BY <1>5
  <2> HIDE DEF D, n
  <2> QED
    BY <1>3, <2>1, <2>3, <2>4
<1>7. n <= Attempts /\ (n = Attempts => answered = 1 .. Attempts) /\ Attempts \in Nat \ {0}
      /\ Cardinality(1 .. Attempts) = Attempts
  <2>1. IsFiniteSet(1 .. Attempts) /\ Cardinality(1 .. Attempts) = Attempts
    BY FS_Interval, ExperimentAssumption
  <2>2. answered \in SUBSET (1 .. Attempts)
    BY <1>1
  <2> HIDE DEF n
  <2> QED
    BY <1>6, <2>1, <2>2, FS_Subset, ExperimentAssumption
<1>8. metrics.lost = Attempts - n /\ metrics.lost \in Nat /\ (metrics.lost = 0 <=> n = Attempts)
  <2> HIDE DEF n
  <2> QED
    BY <1>2, <1>3, <1>7
<1>9. answered = {} <=> n = 0
  <2> HIDE DEF n
  <2> QED
    BY <1>1, <1>6, FS_EmptySet
<1>10. ASSUME answered # {}
       PROVE  LET p50 == metrics.p50
                  p95 == metrics.p95
              IN /\ p50 \in Nat /\ p95 \in Nat /\ p50 <= p95
                 /\ 2 * Cardinality({a \in answered : 20 * time[a] <= p50}) >= n
                 /\ 2 * Cardinality({a \in answered : 20 * time[a] >= p50}) >= n
                 /\ 20 * Cardinality({a \in answered : 20 * time[a] > p95}) <= n + 18
                 /\ \E k \in D : p95 <= 20 * samples[k]
                 /\ \E k \in D : 20 * samples[k] <= p50
  <2> DEFINE p50 == metrics.p50
             p95 == metrics.p95
             Low == {t \in Nat : 20 * t <= p50}
             High == {t \in Nat : 20 * t >= p50}
             Over == {t \in Nat : 20 * t > p95}
  <2>1. samples # <<>>
    BY <1>3, <1>9, <1>10
  <2>2. /\ p50 \in Nat /\ p95 \in Nat /\ p50 <= p95
        /\ 2 * Cardinality({i \in D : 20 * samples[i] <= p50}) >= n
        /\ 2 * Cardinality({i \in D : 20 * samples[i] >= p50}) >= n
        /\ 20 * Cardinality({i \in D : 20 * samples[i] > p95}) <= n + 18
        /\ \E i \in D : p95 <= 20 * samples[i]
        /\ \E i \in D : 20 * samples[i] <= p50
    <3> HIDE DEF D, n
    <3>1. samples \in Seq(Nat)
      BY <1>1
    <3>2. /\ Percentile(samples, 10) \in Nat
          /\ Percentile(samples, 19) \in Nat
          /\ Percentile(samples, 10) <= Percentile(samples, 19)
          /\ 2 * Cardinality({i \in DOMAIN samples : 20 * samples[i] <= Percentile(samples, 10)})
               >= Len(samples)
          /\ 2 * Cardinality({i \in DOMAIN samples : 20 * samples[i] >= Percentile(samples, 10)})
               >= Len(samples)
          /\ 20 * Cardinality({i \in DOMAIN samples : 20 * samples[i] > Percentile(samples, 19)})
               <= Len(samples) + 18
          /\ \E i \in DOMAIN samples : Percentile(samples, 19) <= 20 * samples[i]
          /\ \E i \in DOMAIN samples : 20 * samples[i] <= Percentile(samples, 10)
      BY <2>1, <3>1, PercentilesTell
    <3>3. p50 = Percentile(samples, 10) /\ p95 = Percentile(samples, 19)
      BY <1>2
    <3> HIDE DEF p50, p95
    <3> QED
      BY <3>2, <3>3, Zenon DEF D, n
  <2> HIDE DEF p50, p95
  <2>3. /\ {a \in answered : 20 * time[a] <= p50} = {a \in answered : time[a] \in Low}
        /\ {a \in answered : 20 * time[a] >= p50} = {a \in answered : time[a] \in High}
        /\ {a \in answered : 20 * time[a] > p95} = {a \in answered : time[a] \in Over}
    BY <1>4
  <2>4. \A k \in D : samples[k] \in Nat
    BY <1>1
  <2>5. /\ {k \in D : 20 * samples[k] <= p50} = {k \in D : samples[k] \in Low}
        /\ {k \in D : 20 * samples[k] >= p50} = {k \in D : samples[k] \in High}
        /\ {k \in D : 20 * samples[k] > p95} = {k \in D : samples[k] \in Over}
    BY <2>4
  <2>6. /\ Cardinality({a \in answered : time[a] \in Low}) =
             Cardinality({k \in D : samples[k] \in Low})
        /\ Cardinality({a \in answered : time[a] \in High}) =
             Cardinality({k \in D : samples[k] \in High})
        /\ Cardinality({a \in answered : time[a] \in Over}) =
             Cardinality({k \in D : samples[k] \in Over})
    BY <1>5
  <2> HIDE DEF Low, High, Over, D, n
  <2> QED
    BY <2>2, <2>3, <2>5, <2>6, Zenon DEF p50, p95
<1>11. ASSUME answered # {}
       PROVE  /\ \A k \in D : samples[k] <= Max(times) /\ Min(times) <= samples[k]
              /\ Max(times) \in Nat /\ Min(times) \in Nat
              /\ \A k \in D : samples[k] \in Nat
  <2>1. PICK b \in Nat : \A i \in D : samples[i] <= b
    BY <1>1, ValuesBounded
  <2>2. \A a \in answered : \E k \in D : time[a] = samples[k]
    BY <1>1
  <2>3. /\ times \in SUBSET Nat /\ times # {} /\ \A x \in times : x <= b
    <3>1. \A a \in answered : time[a] \in Nat /\ time[a] <= b
      BY <1>4, <2>1, <2>2
    <3>2. PICK a \in answered : TRUE
      BY <1>11
    <3>3. time[a] \in times
      BY <3>2
    <3>4. times \in SUBSET Nat /\ \A x \in times : x <= b
      BY <3>1
    <3> HIDE DEF times
    <3> QED
      BY <3>3, <3>4
  <2>4. \A k \in D : samples[k] \in times /\ samples[k] \in Nat
    <3>1. \A k \in D : attempt[k] \in answered /\ time[attempt[k]] = samples[k]
      BY <1>1
    <3>2. \A k \in D : samples[k] \in Nat
      BY <1>1
    <3> HIDE DEF D
    <3> QED
      BY <3>1, <3>2
  <2> HIDE DEF times
  <2>5. /\ Max(times) \in times /\ \A x \in times : x <= Max(times)
        /\ Min(times) \in times /\ \A x \in times : Min(times) <= x
    BY <2>3, Extremes
  <2> QED
    BY <2>3, <2>4, <2>5
<1>12. ASSUME answered # {}
       PROVE  metrics.p95 <= 20 * Max(times) /\ 20 * Min(times) <= metrics.p50
  <2>1. PICK k \in D : metrics.p95 <= 20 * samples[k]
    BY <1>10, <1>12
  <2>2. PICK l \in D : 20 * samples[l] <= metrics.p50
    BY <1>10, <1>12
  <2>3. /\ samples[k] <= Max(times) /\ Min(times) <= samples[l] /\ samples[k] \in Nat
        /\ samples[l] \in Nat /\ Max(times) \in Nat /\ Min(times) \in Nat
        /\ metrics.p50 \in Nat /\ metrics.p95 \in Nat
    BY <1>10, <1>11, <1>12
  <2> HIDE DEF times, D
  <2> QED
    BY <2>1, <2>2, <2>3
<1>13. /\ health = "unavailable" <=> n = 0
       /\ health = "ok" => n = Attempts
       /\ health = "degraded" /\ n = Attempts =>
            /\ \/ metrics.p95 - metrics.p50 >= 20 * 20
               \/ metrics.p50 > 0 /\ metrics.p95 >= 3 * metrics.p50
            /\ n - 1 > 0 /\ metrics.variation >= 15 * (n - 1)
  <2> HIDE DEF n
  <2>1. CASE n = 0
    BY <1>2, <1>7, <2>1 DEF MetricsHealth
  <2>2. CASE n # 0 /\ metrics.lost > 0
    <3>1. health = "degraded" /\ n # Attempts
      BY <1>2, <1>3, <1>8, <2>2 DEF MetricsHealth
    <3> QED
      BY <2>2, <3>1
  <2>3. CASE n # 0 /\ ~ (metrics.lost > 0)
    <3> DEFINE spread == metrics.p95 - metrics.p50
               wide == spread >= 20 * 20 \/ (metrics.p50 > 0 /\ metrics.p95 >= 3 * metrics.p50)
               sustained == metrics.pairs > 0 /\ metrics.variation >= 15 * metrics.pairs
    <3>1. metrics.received > 0 /\ metrics.received # 0 /\ n = Attempts
      BY <1>2, <1>3, <1>8, <2>3
    <3>2. health = IF metrics.sent >= MinSamples /\ wide /\ sustained THEN "degraded" ELSE "ok"
      BY <2>3, <3>1 DEF MetricsHealth
    <3> HIDE DEF health
    <3> QED
      BY <1>2, <2>3, <3>1, <3>2
  <2> QED
    BY <2>1, <2>2, <2>3
<1>14. ASSUME health = "degraded", answered = 1 .. Attempts
       PROVE  /\ Max(times) - Min(times) >= 15
              /\ Max(times) - Min(times) >= 20 \/ Max(times) >= 3 * Min(times)
  <2>1. answered # {} /\ n = Attempts
    <3> HIDE DEF n
    <3> QED
      BY <1>6, <1>7, <1>14
  <2>2. /\ \/ metrics.p95 - metrics.p50 >= 20 * 20
           \/ metrics.p50 > 0 /\ metrics.p95 >= 3 * metrics.p50
        /\ n - 1 > 0 /\ metrics.variation >= 15 * (n - 1)
    BY <1>13, <1>14, <2>1
  <2>3. PICK i \in D, j \in D : samples[i] >= samples[j] + 15
    <3>1. n > 1 /\ n \in Nat
      BY <1>3, <2>2
    <3>2. SUFFICES ASSUME \A i, j \in D : ~ (samples[i] >= samples[j] + 15) PROVE FALSE
      OBVIOUS
    <3>3. \A i \in D : samples[i] \in Nat
      BY <1>11, <2>1
    <3>4. \A i, j \in D : samples[i] <= samples[j] + 14
      BY <3>2, <3>3
    <3>5. metrics.variation \in Nat /\ metrics.variation <= 14 * (n - 1)
      BY <1>1, <3>1, <3>4, VariationTells DEF samples
    <3> DEFINE variation == metrics.variation
    <3>6. variation \in Nat /\ variation <= 14 * (n - 1) /\ variation >= 15 * (n - 1)
      BY <2>2, <3>5
    <3> HIDE DEF variation, n
    <3> QED
      BY <3>1, <3>6
  <2>4. /\ samples[i] <= Max(times) /\ Min(times) <= samples[j] /\ samples[i] \in Nat
        /\ samples[j] \in Nat /\ Max(times) \in Nat /\ Min(times) \in Nat
    BY <1>11, <2>1
  <2>5. /\ metrics.p50 \in Nat /\ metrics.p95 \in Nat
        /\ metrics.p95 <= 20 * Max(times) /\ 20 * Min(times) <= metrics.p50
    BY <1>10, <1>12, <2>1
  <2> HIDE DEF times, D, n
  <2> QED
    BY <2>2, <2>3, <2>4, <2>5
<1>15. answered # {} =>
         /\ 2 * Cardinality({a \in answered : 20 * time[a] <= metrics.p50})
              >= Cardinality(answered)
         /\ 2 * Cardinality({a \in answered : 20 * time[a] >= metrics.p50})
              >= Cardinality(answered)
         /\ metrics.p50 <= metrics.p95 /\ metrics.p95 <= 20 * Max(times)
         /\ 20 * Cardinality({a \in answered : 20 * time[a] > metrics.p95})
              < Cardinality(answered) + 19
  <2>1. SUFFICES ASSUME answered # {}
                 PROVE  /\ 2 * Cardinality({a \in answered : 20 * time[a] <= metrics.p50}) >= n
                        /\ 2 * Cardinality({a \in answered : 20 * time[a] >= metrics.p50}) >= n
                        /\ metrics.p50 <= metrics.p95 /\ metrics.p95 <= 20 * Max(times)
                        /\ 20 * Cardinality({a \in answered : 20 * time[a] > metrics.p95})
                             < n + 19
    BY <1>6, Zenon
  <2> DEFINE over == Cardinality({a \in answered : 20 * time[a] > metrics.p95})
  <2>2. over \in Nat
    BY <1>1, FS_Subset, FS_CardinalityType
  <2>3. 20 * over <= n + 18
    BY <1>10, <2>1
  <2> HIDE DEF over, n
  <2>4. 20 * over < n + 19
    BY <1>3, <2>2, <2>3
  <2> QED
    BY <1>10, <1>12, <2>1, <2>4 DEF over
<1>16. /\ metrics.received = Cardinality(answered)
       /\ metrics.lost = Attempts - Cardinality(answered)
       /\ health = "unavailable" <=> answered = {}
       /\ health = "ok" => answered = 1 .. Attempts
  <2> HIDE DEF n
  <2> QED
    BY <1>2, <1>6, <1>7, <1>8, <1>9, <1>13
<1> HIDE DEF health
<1> QED
  BY <1>14, <1>15, <1>16, Zenon DEF Tells, answered, time, health
-----------------------------------------------------------------------------
(***************************************************************************)
(* A ping, line by line.                                                   *)
(***************************************************************************)
Ends == {"output", "deadline", "missing", "error"}

PingInvariant ==
  /\ ping \in [phase : {"off", "sending", "ended"}, numbered : BOOLEAN, lines : Seq(PrintedLines),
               again : Nat, end : Ends \cup {NONE}]
  /\ ping.phase = "off" => ping.lines = <<>>
  /\ ping.phase = "ended" => ping.end \in Ends
  /\ Output(ping.numbered, ping.lines)

LEMMA OutputGrows ==
  ASSUME NEW numbered, NEW lines, Output(numbered, lines), NEW line \in PrintedLines,
         line.kind = "reply" => /\ line.attempt \in 1 .. Attempts /\ line.time \in Rtts
                                /\ ~numbered => line.attempt \notin Echoed(lines)
  PROVE  Output(numbered, Append(lines, line))
<1> DEFINE more == Append(lines, line)
           last == Len(lines) + 1
<1>1. numbered \in BOOLEAN /\ lines \in Seq(PrintedLines)
  BY DEF Output
<1>2. /\ more \in Seq(PrintedLines) /\ DOMAIN more = DOMAIN lines \cup {last}
      /\ more[last] = line /\ \A i \in DOMAIN lines : more[i] = lines[i]
  BY <1>1
<1> HIDE DEF more, last
<1>3. RepliesIn(more) \subseteq RepliesIn(lines) \cup {last}
      /\ (last \in RepliesIn(more) => line.kind = "reply")
      /\ \A i \in RepliesIn(lines) : more[i] = lines[i]
  BY <1>2 DEF RepliesIn
<1>4. \A i \in RepliesIn(lines) : lines[i].attempt \in Echoed(lines)
  BY DEF RepliesIn, Echoed
<1>5. ASSUME NEW i \in RepliesIn(more)
      PROVE  more[i].attempt \in 1 .. Attempts /\ more[i].time \in Rtts
  <2>1. CASE i = last
    BY <1>2, <1>3, <2>1
  <2>2. CASE i # last
    <3>1. i \in RepliesIn(lines) /\ more[i] = lines[i]
      BY <1>3, <2>2
    <3> QED
      BY <3>1 DEF Output
  <2> QED
    BY <2>1, <2>2
<1>6. ASSUME ~numbered, NEW i \in RepliesIn(more), NEW j \in RepliesIn(more),
             more[i].attempt = more[j].attempt
      PROVE  i = j
  <2>1. CASE i = last \/ j = last
    BY <1>2, <1>3, <1>4, <1>6, <2>1
  <2>2. CASE i # last /\ j # last
    <3>1. i \in RepliesIn(lines) /\ j \in RepliesIn(lines) /\ lines[i].attempt = lines[j].attempt
      BY <1>3, <1>6, <2>2
    <3> QED
      BY <1>6, <3>1 DEF Output
  <2> QED
    BY <2>1, <2>2
<1> QED
  BY <1>1, <1>2, <1>5, <1>6 DEF Output, more

LEMMA PingInitially == ExperimentIdle => PingInvariant
<1> SUFFICES ASSUME ExperimentIdle PROVE PingInvariant
  OBVIOUS
<1>1. /\ ping.phase = "off" /\ ping.numbered = TRUE /\ ping.lines = <<>> /\ ping.end = NONE
      /\ ping = [phase |-> "off", numbered |-> TRUE, lines |-> <<>>, again |-> 0, end |-> NONE]
  BY DEF ExperimentIdle, PingOff
<1>2. RepliesIn(ping.lines) = {} /\ ping.lines \in Seq(PrintedLines)
  BY <1>1 DEF RepliesIn
<1>3. Output(ping.numbered, ping.lines)
  BY <1>1, <1>2 DEF Output
<1>4. ping \in [phase : {"off", "sending", "ended"}, numbered : BOOLEAN,
                lines : Seq(PrintedLines), again : Nat, end : Ends \cup {NONE}]
  <2>1. <<>> \in Seq(PrintedLines)
    BY <1>1, <1>2
  <2> QED
    BY <1>1, <2>1
<1> QED
  BY <1>1, <1>3, <1>4 DEF PingInvariant

LEMMA PingStep ==
  ASSUME PingInvariant, [PingNext]_ping
  PROVE  PingInvariant'
<1> DEFINE Pings == [phase : {"off", "sending", "ended"}, numbered : BOOLEAN,
                     lines : Seq(PrintedLines), again : Nat, end : Ends \cup {NONE}]
<1>1. /\ ping \in Pings /\ Output(ping.numbered, ping.lines) /\ ping.lines \in Seq(PrintedLines)
      /\ ping.again \in Nat
  BY DEF PingInvariant
<1>2. CASE StartPing
  <2>1. PICK numbered \in BOOLEAN :
          ping' = [ping EXCEPT !.phase = "sending", !.numbered = numbered]
    BY <1>2 DEF StartPing
  <2>2. /\ ping' \in Pings /\ ping'.phase = "sending" /\ ping'.numbered = numbered
        /\ ping'.lines = ping.lines
    BY <1>1, <2>1
  <2>3. ping.lines = <<>>
    BY <1>2 DEF PingInvariant, StartPing
  <2>4. RepliesIn(ping.lines) = {}
    BY <2>3 DEF RepliesIn
  <2>5. Output(numbered, ping.lines)
    BY <1>1, <2>4 DEF Output
  <2> QED
    BY <2>2, <2>5 DEF PingInvariant
<1>3. CASE PrintReply
  <2>1. PICK attempt \in 1 .. Attempts, rtt \in Rtts :
          LET again == attempt \in Echoed(ping.lines)
          IN /\ again => ping.numbered /\ ping.again < MaxDuplicates
             /\ ping' = [ping EXCEPT
                  !.lines = Append(@, [kind |-> "reply", attempt |-> attempt, time |-> rtt]),
                  !.again = IF again THEN @ + 1 ELSE @]
    BY <1>3 DEF PrintReply
  <2> DEFINE line == [kind |-> "reply", attempt |-> attempt, time |-> rtt]
             more == Append(ping.lines, line)
             again == IF attempt \in Echoed(ping.lines) THEN ping.again + 1 ELSE ping.again
  <2>2. line \in PrintedLines /\ line.attempt = attempt /\ line.time = rtt
    BY ExperimentAssumption DEF PrintedLines
  <2>3. Output(ping.numbered, more)
    <3> HIDE DEF line
    <3> QED
      BY <1>1, <2>1, <2>2, OutputGrows
  <2>4. ping' = [ping EXCEPT !.lines = more, !.again = again]
    BY <2>1
  <2>5. more \in Seq(PrintedLines) /\ again \in Nat
    BY <1>1, <2>3 DEF Output
  <2> HIDE DEF line, more, again
  <2>6. /\ ping' \in Pings /\ ping'.phase = "sending" /\ ping'.numbered = ping.numbered
        /\ ping'.lines = more
    BY <1>1, <1>3, <2>4, <2>5 DEF PrintReply
  <2> QED
    BY <2>3, <2>6 DEF PingInvariant
<1>4. CASE PingEnds
  <2>1. PICK end \in Ends, summary \in BOOLEAN :
          ping' = [ping EXCEPT
                     !.phase = "ended", !.end = end,
                     !.lines = IF summary
                               THEN Append(@, [kind |-> "summary", attempt |-> 0,
                                               time |-> Attempts])
                               ELSE @]
    BY <1>4, Zenon DEF PingEnds, Ends
  <2> DEFINE line == [kind |-> "summary", attempt |-> 0, time |-> Attempts]
             more == IF summary THEN Append(ping.lines, line) ELSE ping.lines
  <2>2. line \in PrintedLines /\ line.kind # "reply"
    BY ExperimentAssumption DEF PrintedLines
  <2>3. Output(ping.numbered, more)
    <3> HIDE DEF line
    <3>1. Output(ping.numbered, Append(ping.lines, line))
      BY <1>1, <2>2, OutputGrows
    <3> QED
      BY <1>1, <3>1
  <2>4. ping' = [ping EXCEPT !.phase = "ended", !.end = end, !.lines = more]
    BY <2>1
  <2>5. more \in Seq(PrintedLines)
    BY <2>3 DEF Output
  <2> HIDE DEF line, more
  <2>6. /\ ping' \in Pings /\ ping'.phase = "ended" /\ ping'.numbered = ping.numbered
        /\ ping'.lines = more /\ ping'.end = end
    BY <1>1, <2>4, <2>5
  <2> QED
    BY <2>3, <2>6 DEF PingInvariant
<1>5. CASE UNCHANGED ping
  BY <1>5 DEF PingInvariant
<1> QED
  BY <1>2, <1>3, <1>4, <1>5 DEF PingNext

LEMMA PingTells == PingInvariant => EchoesCounted
<1> SUFFICES ASSUME PingInvariant, ping.phase = "ended" PROVE EchoesCounted
  BY DEF EchoesCounted
<1> DEFINE result == PingResult(ping)
           metrics == MetricsOf(Samples(ping.numbered, ping.lines), Attempts)
<1>1. EchoesCounted <=>
        IF ping.end # "output"
        THEN result.metrics = NONE /\ result.health \in {"failed", "unavailable"}
        ELSE Tells(ping.lines, result.metrics, result.health)
  BY Zenon DEF EchoesCounted, Tells, TimeOf, FirstReply, Replied, RepliesIn
<1>2. ping.end \in Ends /\ Output(ping.numbered, ping.lines)
  BY DEF PingInvariant
<1> HIDE DEF metrics
<1>3. CASE ping.end = "output"
  <2>1. result = [health |-> MetricsHealth(metrics), metrics |-> metrics]
    BY <1>3 DEF PingResult, metrics
  <2>2. result.metrics = metrics /\ result.health = MetricsHealth(metrics)
    BY <2>1
  <2>3. Tells(ping.lines, metrics, MetricsHealth(metrics))
    BY <1>2, MetricsTell DEF metrics
  <2> HIDE DEF result
  <2> QED
    BY <1>1, <1>3, <2>2, <2>3
<1>4. CASE ping.end # "output"
  <2>1. result.metrics = NONE /\ result.health \in {"failed", "unavailable"}
    BY <1>2, <1>4 DEF PingResult, Ends
  <2> HIDE DEF result
  <2> QED
    BY <1>1, <1>4, <2>1
<1> QED
  BY <1>3, <1>4

-----------------------------------------------------------------------------
(***************************************************************************)
(* The speed experiment, around iperf3 as a bounded command.               *)
(***************************************************************************)
\* How far the callback, the second measurement, is when the command is in a phase.
CallbackFollows ==
  /\ caller.phase = "off" => callback = "none"
  /\ child # "none" => callback # "none"
  /\ caller.phase = "returned" => callback # "running"
  /\ caller.result # NONE => callback # "panicked"

\* What was measured is what iperf3 was doing, and what it did before that.
MeasuredAsItWas ==
  /\ speed.before = IF speed.gateway THEN "none" ELSE NONE
  /\ callback = "ended" =>
       IF speed.gateway
       THEN /\ speed.after_spawn \in {"running", "exited", "killed"}
            /\ speed.after_spawn = "killed" => child = "killed"
       ELSE speed.after_spawn = NONE

SpeedFields == {"phase", "gateway", "before", "after_spawn", "after_exit"}

SpeedInvariant ==
  /\ DOMAIN speed = SpeedFields
  /\ speed = [f \in SpeedFields |-> speed[f]]
  /\ speed.phase \in {"off", "load", "bailed", "reported"} /\ speed.gateway \in BOOLEAN
  /\ speed.phase = "off" => speed = SpeedOff /\ caller.phase = "off"
  /\ CallbackFollows
  /\ speed.phase # "off" => MeasuredAsItWas
  /\ speed.phase = "load" => speed.after_exit = NONE
  /\ speed.phase \in {"bailed", "reported"} => caller.phase = "returned"
  /\ speed.phase = "reported" =>
       caller.result # NONE /\ speed.after_exit = IF speed.gateway THEN "exited" ELSE NONE

LEMMA SpeedInitially == CommandInit /\ ExperimentIdle => SpeedInvariant
BY DEF CommandInit, ExperimentIdle, SpeedOff, SpeedInvariant, SpeedFields, CallbackFollows

\* What a step of the command does to the child and its callback.
LEMMA CommandMoves ==
  ASSUME CommandInvariant, CallbackFollows, caller.phase # "returned", CommandNext,
         caller.phase = "off" => callback' # "none" \/ child' = "none"
  PROVE  /\ CallbackFollows'
         /\ child = "killed" => child' = "killed"
         /\ callback' = "ended" =>
              \/ callback = "ended"
              \/ callback = "running" /\ child' \in {"running", "exited", "killed"}
         /\ callback' = "ended" => child' = child \/ callback = "ended"
<1> USE DEF CommandInvariant, CommandTypes, ChildFollows, OutputComplete, CallbackFollows, Phases
<1>1. CASE SpawnFails
  BY <1>1 DEF SpawnFails
<1>2. CASE SpawnChild
  BY <1>2 DEF SpawnChild
<1>3. CASE WriteChunk
  BY <1>3 DEF WriteChunk
<1>4. CASE ChildExits
  BY <1>4 DEF ChildExits
<1>5. CASE HeirExits
  BY <1>5 DEF HeirExits
<1>6. CASE CallbackEnds
  BY <1>6 DEF CallbackEnds
<1>7. CASE Exited
  BY <1>7 DEF Exited
<1>8. CASE TimedOut
  BY <1>8 DEF TimedOut
<1>9. CASE StdoutDrained
  BY <1>9 DEF StdoutDrained
<1>10. CASE StderrDrained
  BY <1>10 DEF StderrDrained
<1>11. CASE Returns
  BY <1>11 DEF Returns
<1>12. CASE LateChunk
  BY <1>12 DEF LateChunk
<1>13. CASE CommandClock
  BY <1>13 DEF CommandClock
<1> QED
  BY <1>1, <1>2, <1>3, <1>4, <1>5, <1>6, <1>7, <1>8, <1>9, <1>10, <1>11, <1>12, <1>13
  DEF CommandNext

LEMMA SpeedStep ==
  ASSUME CommandInvariant, SpeedInvariant, SpeedNext \/ UNCHANGED <<speed, commandVars>>
  PROVE  SpeedInvariant'
<1>1. CASE StartSpeed
  <2>1. PICK gateway \in BOOLEAN :
          speed' = [speed EXCEPT !.phase = "load", !.gateway = gateway,
                                 !.before = IF gateway THEN child ELSE NONE]
    BY <1>1 DEF StartSpeed
  <2>2. /\ speed = SpeedOff /\ caller.phase = "off" /\ child = "none" /\ callback = "none"
        /\ caller.result = NONE
    BY <1>1 DEF StartSpeed, SpeedInvariant, CallbackFollows, CommandInvariant, ChildFollows
  <2>3. /\ caller' = caller /\ child' = child /\ callback' = callback
    BY <1>1 DEF StartSpeed, commandVars
  <2>4. speed' = [phase |-> "load", gateway |-> gateway,
                  before |-> IF gateway THEN "none" ELSE NONE, after_spawn |-> NONE,
                  after_exit |-> NONE]
    BY <2>1, <2>2 DEF SpeedOff
  <2> QED
    BY <2>2, <2>3, <2>4 DEF SpeedInvariant, SpeedFields, CallbackFollows, MeasuredAsItWas
<1>2. CASE SpeedLoad
  <2> DEFINE spawned == IF callback = "running" /\ callback' = "ended" THEN Bracket
                        ELSE speed.after_spawn
  <2>1. /\ speed.phase = "load" /\ caller.phase # "returned" /\ CommandNext
        /\ caller.phase = "off" => callback' # "none" \/ child' = "none"
        /\ speed' = [speed EXCEPT !.after_spawn = spawned]
    BY <1>2 DEF SpeedLoad
  <2>2. /\ CallbackFollows /\ MeasuredAsItWas /\ speed.after_exit = NONE
        /\ DOMAIN speed = SpeedFields /\ speed.gateway \in BOOLEAN
    BY <2>1 DEF SpeedInvariant
  <2>3. /\ CallbackFollows'
        /\ child = "killed" => child' = "killed"
        /\ callback' = "ended" =>
             \/ callback = "ended"
             \/ callback = "running" /\ child' \in {"running", "exited", "killed"}
        /\ callback' = "ended" => child' = child \/ callback = "ended"
    BY <2>1, <2>2, CommandMoves
  <2> HIDE DEF spawned
  <2>4. /\ DOMAIN speed' = SpeedFields /\ speed' = [f \in SpeedFields |-> speed'[f]]
        /\ speed'.phase = "load" /\ speed'.gateway = speed.gateway
        /\ speed'.before = speed.before /\ speed'.after_spawn = spawned
        /\ speed'.after_exit = NONE
    BY <2>1, <2>2 DEF SpeedFields
  <2>5. callback' = "ended" =>
          IF speed.gateway THEN /\ spawned \in {"running", "exited", "killed"}
                                /\ spawned = "killed" => child' = "killed"
          ELSE spawned = NONE
    BY <2>2, <2>3 DEF MeasuredAsItWas, Bracket, spawned
  <2>6. MeasuredAsItWas'
    BY <2>2, <2>4, <2>5 DEF MeasuredAsItWas
  <2> QED
    BY <2>2, <2>3, <2>4, <2>6 DEF SpeedInvariant
<1>3. CASE SpeedBails
  <2>1. /\ speed.phase = "load" /\ caller.phase = "returned"
        /\ speed' = [speed EXCEPT !.phase = "bailed"]
        /\ caller' = caller /\ child' = child /\ callback' = callback
    BY <1>3 DEF SpeedBails, commandVars
  <2>2. /\ DOMAIN speed' = SpeedFields /\ speed' = [f \in SpeedFields |-> speed'[f]]
        /\ speed'.phase = "bailed" /\ speed'.gateway = speed.gateway
        /\ speed'.before = speed.before /\ speed'.after_spawn = speed.after_spawn
    BY <2>1 DEF SpeedFields, SpeedInvariant
  <2> QED
    BY <2>1, <2>2 DEF SpeedInvariant, CallbackFollows, MeasuredAsItWas
<1>4. CASE SpeedReports
  <2>1. PICK phase \in {"reported", "bailed"} :
          speed' = [speed EXCEPT !.phase = phase, !.after_exit = Bracket]
    BY <1>4, Zenon DEF SpeedReports
  <2>2. /\ speed.phase = "load" /\ caller.phase = "returned" /\ caller.result # NONE
        /\ caller' = caller /\ child' = child /\ callback' = callback
    BY <1>4 DEF SpeedReports, commandVars
  <2>3. child = "exited"
    BY <2>2 DEF CommandInvariant, OutputComplete
  <2>4. Bracket = IF speed.gateway THEN "exited" ELSE NONE
    BY <2>3 DEF Bracket
  <2>5. /\ DOMAIN speed' = SpeedFields /\ speed' = [f \in SpeedFields |-> speed'[f]]
        /\ speed'.phase = phase /\ speed'.gateway = speed.gateway
        /\ speed'.before = speed.before /\ speed'.after_spawn = speed.after_spawn
        /\ speed'.after_exit = Bracket
    BY <2>1 DEF SpeedFields, SpeedInvariant
  <2> QED
    BY <2>2, <2>4, <2>5 DEF SpeedInvariant, CallbackFollows, MeasuredAsItWas
<1>5. CASE UNCHANGED <<speed, commandVars>>
  BY <1>5 DEF SpeedInvariant, CallbackFollows, MeasuredAsItWas, commandVars
<1> QED
  BY <1>1, <1>2, <1>3, <1>4, <1>5 DEF SpeedNext

LEMMA SpeedTells == CommandInvariant /\ SpeedInvariant => SpeedBracketed
<1> SUFFICES ASSUME CommandInvariant, SpeedInvariant PROVE SpeedBracketed
  OBVIOUS
<1>1. ASSUME speed.phase = "reported"
      PROVE  /\ child = "exited" /\ caller.exited <= Timeout
             /\ IF speed.gateway
                THEN /\ GatewayLine
                     /\ speed.before = "none" /\ speed.after_exit = "exited"
                     /\ speed.after_spawn \in {"running", "exited"}
                ELSE {speed.before, speed.after_spawn, speed.after_exit} = {NONE}
  <2>1. /\ caller.phase = "returned" /\ caller.result # NONE /\ CallbackFollows
        /\ MeasuredAsItWas /\ speed.after_exit = IF speed.gateway THEN "exited" ELSE NONE
    BY <1>1 DEF SpeedInvariant
  <2>2. child = "exited" /\ caller.exited <= Timeout
    BY <2>1 DEF CommandInvariant, OutputComplete, ChildFollows
  <2>3. callback = "ended"
    BY <2>1, <2>2 DEF CallbackFollows, CommandInvariant, CommandTypes
  <2> QED
    BY <2>1, <2>2, <2>3, NoneIsNoMeasurement DEF MeasuredAsItWas, GatewayLine
<1>2. ASSUME speed.phase = "bailed" PROVE child # "running"
  BY <1>2 DEF SpeedInvariant, CommandInvariant, ChildFollows
<1> QED
  BY <1>1, <1>2 DEF SpeedBracketed

-----------------------------------------------------------------------------
(***************************************************************************)
(* What nettop printed, row by row.                                        *)
(***************************************************************************)
LEMMA Divided ==
  ASSUME NEW d \in Nat \ {0}, NEW m \in Nat
  PROVE  /\ m < d => m \div d = 0 /\ (m % d) = m
         /\ d <= m /\ m < 2 * d => m \div d = 1 /\ (m % d) = m - d
OBVIOUS

\* A header and a row per process, twice.
LEMMA TwoBlocks ==
  ASSUME NEW n \in 1 .. WholeOutput
  PROVE  /\ Len(Programs) \in Nat /\ Rows = 1 .. Len(Programs)
         /\ n <= Len(Programs) + 1 => Row(n) = n - 1 /\ Block(n) = 1
         /\ n > Len(Programs) + 1 => Row(n) = n - 1 - (Len(Programs) + 1) /\ Block(n) = 2
<1> DEFINE d == Len(Programs) + 1
           m == n - 1
<1>1. Len(Programs) \in Nat /\ Rows = 1 .. Len(Programs)
  BY WorkloadAssumption DEF Rows
<1>2. d \in Nat \ {0} /\ m \in Nat /\ m < 2 * d /\ n = m + 1
  BY <1>1 DEF WholeOutput
<1>3. Row(n) = m % d /\ Block(n) = (m \div d) + 1
  BY DEF Row, Block
<1> HIDE DEF d, m
<1>4. /\ m < d => m \div d = 0 /\ (m % d) = m
      /\ d <= m => m \div d = 1 /\ (m % d) = m - d
  BY <1>2, Divided
<1>5. /\ n <= d => Row(n) = m /\ Block(n) = 1
      /\ n > d => Row(n) = m - d /\ Block(n) = 2
  BY <1>2, <1>3, <1>4
<1> QED
  BY <1>1, <1>5 DEF d, m

Volumes == [received : Nat, transmitted : Nat]

Busy(second, lines) == {n \in LastBlock(lines) : Total(RowOf(second, n)) > 0}
BusyOf(second, lines, program) == {n \in Busy(second, lines) : Programs[Row(n)] = program}
GroupOf(second, lines, program) ==
  [process |-> program, processes |-> Cardinality(BusyOf(second, lines, program)),
   received |-> SumFunctionOnSet([n \in Busy(second, lines) |-> RowOf(second, n).received],
                                 BusyOf(second, lines, program)),
   transmitted |-> SumFunctionOnSet([n \in Busy(second, lines) |-> RowOf(second, n).transmitted],
                                    BusyOf(second, lines, program))]
Groups(second, lines) ==
  {GroupOf(second, lines, Programs[Row(n)]) : n \in Busy(second, lines)}
ByTraffic(S) == {pair \in S \X S : Busier(pair[1], pair[2])}

LEMMA ProcessesAreGroups ==
  ASSUME NEW second, NEW lines
  PROVE  Processes(second, lines) =
           InOrder(Groups(second, lines), ByTraffic(Groups(second, lines)))
BY Zenon DEF Processes, Groups, GroupOf, BusyOf, Busy, ByTraffic

LEMMA RowsRead ==
  ASSUME NEW second \in [Rows -> Traffic], NEW lines \in 0 .. WholeOutput,
         NEW n \in LastBlock(lines)
  PROVE  /\ n \in 1 .. WholeOutput /\ Row(n) \in Rows
         /\ RowOf(second, n).received \in Nat /\ RowOf(second, n).transmitted \in Nat
         /\ Programs[Row(n)] \in Nat
<1>1. n \in 1 .. lines /\ Row(n) # 0
  BY DEF LastBlock
<1>2. WholeOutput \in Nat /\ WholeOutput = 2 * (Len(Programs) + 1) /\ Len(Programs) \in Nat
  BY WorkloadAssumption DEF WholeOutput
<1>3. n \in 1 .. WholeOutput
  BY <1>1, <1>2
<1>4. Row(n) \in Rows
  BY <1>1, <1>2, <1>3, TwoBlocks
<1>5. second[Row(n)].received \in Nat /\ second[Row(n)].transmitted \in Nat
  <2>1. second[Row(n)] \in Traffic
    BY <1>4
  <2> QED
    BY <2>1, WorkloadAssumption
<1>6. /\ RowOf(second, n).received = IF Block(n) = 2 THEN second[Row(n)].received
                                     ELSE second[Row(n)].received + 1
      /\ RowOf(second, n).transmitted = second[Row(n)].transmitted
  BY DEF RowOf
<1>7. RowOf(second, n).received \in Nat /\ RowOf(second, n).transmitted \in Nat
  BY <1>5, <1>6
<1>8. Programs[Row(n)] \in Nat
  BY <1>4, WorkloadAssumption DEF Rows
<1> QED
  BY <1>3, <1>4, <1>7, <1>8

\* The rows of one program, added up.
LEMMA GroupSays ==
  ASSUME NEW second \in [Rows -> Traffic], NEW lines \in 0 .. WholeOutput, NEW program
  PROVE  LET group == GroupOf(second, lines, program)
             rows == BusyOf(second, lines, program)
         IN /\ IsFiniteSet(Busy(second, lines)) /\ IsFiniteSet(rows)
            /\ group.process = program /\ group.processes = Cardinality(rows)
            /\ Total(group) \in Nat
            /\ Total(group) = SumFunctionOnSet(
                 [n \in Busy(second, lines) |-> Total(RowOf(second, n))], rows)
<1> DEFINE group == GroupOf(second, lines, program)
           rows == BusyOf(second, lines, program)
           busy == Busy(second, lines)
           f == [n \in busy |-> RowOf(second, n).received]
           g == [n \in busy |-> RowOf(second, n).transmitted]
           h == [n \in busy |-> Total(RowOf(second, n))]
<1>1. IsFiniteSet(busy)
  <2>1. busy \in SUBSET (1 .. WholeOutput)
    BY RowsRead DEF Busy
  <2>2. IsFiniteSet(1 .. WholeOutput)
    <3>1. WholeOutput \in Int /\ 1 \in Int
      BY WorkloadAssumption DEF WholeOutput
    <3> QED
      BY <3>1, FS_Interval
  <2> HIDE DEF busy
  <2> QED
    BY <2>1, <2>2, FS_Subset
<1>2. IsFiniteSet(rows) /\ rows \subseteq busy
  BY <1>1, FS_Subset DEF BusyOf
<1>3. ASSUME NEW n \in rows
      PROVE  f[n] \in Nat /\ g[n] \in Nat /\ h[n] = f[n] + g[n]
  <2>1. n \in busy /\ n \in LastBlock(lines)
    BY <1>2 DEF Busy
  <2>2. RowOf(second, n).received \in Nat /\ RowOf(second, n).transmitted \in Nat
    BY <2>1, RowsRead
  <2>3. f[n] = RowOf(second, n).received /\ g[n] = RowOf(second, n).transmitted
        /\ h[n] = Total(RowOf(second, n))
    BY <2>1
  <2> HIDE DEF f, g, h
  <2> QED
    BY <2>2, <2>3 DEF Total
<1>4. /\ group.process = program /\ group.processes = Cardinality(rows)
      /\ group.received = SumFunctionOnSet(f, rows)
      /\ group.transmitted = SumFunctionOnSet(g, rows)
  BY DEF GroupOf
<1> HIDE DEF group, f, g, h, rows, busy
<1>5. SumFunctionOnSet(h, rows) = SumFunctionOnSet(f, rows) + SumFunctionOnSet(g, rows)
  BY <1>2, <1>3, SumOfSums
<1>6. SumFunctionOnSet(f, rows) \in Nat /\ SumFunctionOnSet(g, rows) \in Nat
  BY <1>2, <1>3, SumIsNumber
<1>7. Total(group) = SumFunctionOnSet(h, rows) /\ Total(group) \in Nat
  BY <1>4, <1>5, <1>6 DEF Total
<1> QED
  BY <1>1, <1>2, <1>4, <1>7 DEF group, rows, busy, h

\* Every program whose rows had traffic is listed once, the busiest first.
LEMMA BusiestFirst ==
  ASSUME NEW second \in [Rows -> Traffic], NEW lines \in 0 .. WholeOutput
  PROVE  LET listed == Processes(second, lines)
             group(n) == GroupOf(second, lines, Programs[Row(n)])
         IN /\ listed \in Seq(Groups(second, lines))
            /\ \A i, j \in DOMAIN listed :
                 i < j => /\ Total(listed[i]) >= Total(listed[j])
                          /\ listed[i].process # listed[j].process
            /\ \A i \in DOMAIN listed : \E n \in Busy(second, lines) : listed[i] = group(n)
            /\ \A n \in Busy(second, lines) : \E i \in DOMAIN listed : listed[i] = group(n)
<1> DEFINE listed == Processes(second, lines)
           groups == Groups(second, lines)
           before == ByTraffic(groups)
           group(n) == GroupOf(second, lines, Programs[Row(n)])
           N == 1 .. Cardinality(groups)
<1>1. listed = InOrder(groups, before)
  BY ProcessesAreGroups
<1>2. ASSUME NEW g \in groups
      PROVE  /\ g.process \in Nat /\ Total(g) \in Nat
             /\ g = GroupOf(second, lines, g.process)
  <2>1. PICK n \in Busy(second, lines) : g = group(n)
    BY DEF Groups
  <2>2. Programs[Row(n)] \in Nat
    BY RowsRead DEF Busy
  <2> QED
    BY <2>1, <2>2, GroupSays
<1>3. IsFiniteSet(groups)
  <2>1. IsFiniteSet(Busy(second, lines))
    BY GroupSays
  <2> DEFINE grouped == [n \in Busy(second, lines) |-> group(n)]
  <2>2. grouped \in Surjection(Busy(second, lines), groups)
    BY DEF Groups, Surjection
  <2> HIDE DEF grouped, groups
  <2> QED
    BY <2>1, <2>2, FS_Surjection
<1>4. \A x, y : <<x, y>> \in before <=> x \in groups /\ y \in groups /\ Busier(x, y)
  BY DEF ByTraffic
<1>5. Orders(before, groups)
  <2> HIDE DEF groups, before
  <2>1. ASSUME NEW x \in groups PROVE <<x, x>> \notin before
    BY <1>2, <1>4 DEF Busier
  <2>2. ASSUME NEW x \in groups, NEW y \in groups, x # y
        PROVE  <<x, y>> \in before \/ <<y, x>> \in before
    <3>1. x.process # y.process
      BY <1>2, <2>2
    <3>2. /\ x.process \in Nat /\ y.process \in Nat /\ Total(x) \in Nat /\ Total(y) \in Nat
      BY <1>2
    <3>3. Busier(x, y) \/ Busier(y, x)
      BY <3>1, <3>2 DEF Busier
    <3> QED
      BY <1>4, <3>3
  <2>3. ASSUME NEW x \in groups, NEW y \in groups, NEW z \in groups,
               <<x, y>> \in before, <<y, z>> \in before
        PROVE  <<x, z>> \in before
    <3>1. Busier(x, y) /\ Busier(y, z)
      BY <1>4, <2>3
    <3>2. /\ x.process \in Nat /\ y.process \in Nat /\ z.process \in Nat
          /\ Total(x) \in Nat /\ Total(y) \in Nat /\ Total(z) \in Nat
      BY <1>2
    <3>3. Busier(x, z)
      BY <3>1, <3>2 DEF Busier
    <3> QED
      BY <1>4, <3>3
  <2> QED
    BY <2>1, <2>2, <2>3 DEF Orders
<1> HIDE DEF listed, groups, before
<1>6. /\ listed \in [N -> groups] /\ DOMAIN listed = N /\ listed \in Seq(groups)
      /\ \A x \in groups : \E i \in N : listed[i] = x
      /\ \A i, j \in N : i < j => <<listed[i], listed[j]>> \in before
      /\ \A i, j \in N : listed[i] = listed[j] => i = j
  BY <1>1, <1>3, <1>5, Sorted
<1>7. ASSUME NEW i \in N, NEW j \in N, i < j
      PROVE  Total(listed[i]) >= Total(listed[j]) /\ listed[i].process # listed[j].process
  <2>1. listed[i] \in groups /\ listed[j] \in groups /\ Busier(listed[i], listed[j])
    BY <1>4, <1>6, <1>7
  <2>2. Total(listed[i]) \in Nat /\ Total(listed[j]) \in Nat
    BY <1>2, <2>1
  <2>3. Total(listed[i]) >= Total(listed[j])
    BY <2>1, <2>2 DEF Busier
  <2>4. listed[i].process # listed[j].process
    BY <1>2, <2>1 DEF Busier
  <2> QED
    BY <2>3, <2>4
<1>8. ASSUME NEW i \in N PROVE \E n \in Busy(second, lines) : listed[i] = group(n)
  <2>1. listed[i] \in groups
    BY <1>6
  <2> QED
    BY <2>1 DEF groups, Groups
<1>9. ASSUME NEW n \in Busy(second, lines) PROVE \E i \in N : listed[i] = group(n)
  <2>1. group(n) \in groups
    BY DEF groups, Groups
  <2> QED
    BY <1>6, <2>1
<1> HIDE DEF N
<1> QED
  BY <1>6, <1>7, <1>8, <1>9 DEF listed, groups

\* TrafficAttributed, of one snapshot.
ListAttributed(listed, ok, second, lines) ==
  LET Of(program) == {row \in Rows : /\ Programs[row] = program
                                     /\ Total(second[row]) > 0}
      busy == {program \in {Programs[row] : row \in Rows} : Of(program) # {}}
  IN /\ \A i, j \in DOMAIN listed :
          i < j => /\ Total(listed[i]) >= Total(listed[j])
                   /\ listed[i].process # listed[j].process
     /\ \A i \in DOMAIN listed : \E row \in Rows : Programs[row] = listed[i].process
     /\ ok /\ lines = WholeOutput =>
          /\ {listed[i].process : i \in DOMAIN listed} = busy
          /\ \A i \in DOMAIN listed :
               /\ listed[i].processes = Cardinality(Of(listed[i].process))
               /\ Total(listed[i]) = SumFunctionOnSet([row \in Rows |-> Total(second[row])],
                                                      Of(listed[i].process))

Attributed(latest, second, lines) ==
  ListAttributed(latest.processes, latest.health = "ok", second, lines)

RowsOf(second, program) ==
  {row \in Rows : Programs[row] = program /\ Total(second[row]) > 0}

\* Of a whole output the second block counts, and a row of it is what its process moved.
LEMMA WholeRead ==
  ASSUME NEW second \in [Rows -> Traffic], NEW program
  PROVE  LET rows == BusyOf(second, WholeOutput, program)
         IN /\ RowsOf(second, program) = {Row(n) : n \in rows}
            /\ \A n, m \in rows : Row(n) = Row(m) => n = m
            /\ \A n \in rows : Row(n) \in Rows /\ RowOf(second, n) = second[Row(n)]
<1> DEFINE rows == BusyOf(second, WholeOutput, program)
           d == Len(Programs) + 1
<1>1. /\ Len(Programs) \in Nat /\ d \in Nat \ {0} /\ WholeOutput = 2 * d
      /\ Rows = 1 .. Len(Programs) /\ WholeOutput \in 1 .. WholeOutput
  BY WorkloadAssumption DEF WholeOutput, Rows
<1>2. Block(WholeOutput) = 2
  BY <1>1, TwoBlocks
<1>3. ASSUME NEW n \in 1 .. WholeOutput, Row(n) # 0, Block(n) = 2
      PROVE  n > d /\ Row(n) = n - 1 - d /\ Row(n) \in Rows
  <2>1. /\ n <= d => Block(n) = 1
        /\ n > d => Row(n) = n - 1 - d
    BY TwoBlocks
  <2>2. n \in Nat /\ n > d
    BY <1>1, <1>3, <2>1
  <2> QED
    BY <1>1, <1>3, <2>1, <2>2
<1>4. ASSUME NEW row \in Rows
      PROVE  /\ row + 1 + d \in 1 .. WholeOutput /\ Row(row + 1 + d) = row
             /\ Block(row + 1 + d) = 2 /\ row # 0
  <2> DEFINE n == row + 1 + d
  <2>1. n \in 1 .. WholeOutput /\ n > d /\ n - 1 - d = row /\ row # 0
    BY <1>1
  <2> HIDE DEF n
  <2>2. Row(n) = n - 1 - d /\ Block(n) = 2
    BY <2>1, TwoBlocks
  <2> QED
    BY <2>1, <2>2 DEF n
<1>5. \A n \in 1 .. WholeOutput : Block(n) = 2 => RowOf(second, n) = second[Row(n)]
  BY Zenon DEF RowOf
<1> HIDE DEF d
<1>6. ASSUME NEW n
      PROVE  n \in rows <=> /\ n \in 1 .. WholeOutput /\ Row(n) # 0 /\ Block(n) = 2
                            /\ Programs[Row(n)] = program /\ Total(second[Row(n)]) > 0
  <2>1. n \in rows <=> /\ n \in 1 .. WholeOutput /\ Row(n) # 0 /\ Block(n) = 2
                       /\ Programs[Row(n)] = program /\ Total(RowOf(second, n)) > 0
    BY <1>2, Zenon DEF BusyOf, Busy, LastBlock
  <2> QED
    BY <1>5, <2>1, Zenon
<1> HIDE DEF rows
<1>7. ASSUME NEW row \in RowsOf(second, program)
      PROVE  \E n \in rows : row = Row(n)
  <2>1. row \in Rows /\ Programs[row] = program /\ Total(second[row]) > 0
    BY DEF RowsOf
  <2>2. row + 1 + d \in rows
    BY <1>4, <1>6, <2>1, Zenon
  <2> QED
    BY <1>4, <2>1, <2>2
<1>8. ASSUME NEW n \in rows
      PROVE  /\ Row(n) \in RowsOf(second, program) /\ Row(n) \in Rows
             /\ RowOf(second, n) = second[Row(n)]
  <2>1. /\ n \in 1 .. WholeOutput /\ Row(n) # 0 /\ Block(n) = 2
        /\ Programs[Row(n)] = program /\ Total(second[Row(n)]) > 0
    BY <1>6
  <2>2. Row(n) \in Rows
    BY <1>3, <2>1
  <2> QED
    BY <1>5, <2>1, <2>2 DEF RowsOf
<1>9. ASSUME NEW n \in rows, NEW m \in rows, Row(n) = Row(m)
      PROVE  n = m
  <2>1. /\ n \in 1 .. WholeOutput /\ Row(n) # 0 /\ Block(n) = 2
        /\ m \in 1 .. WholeOutput /\ Row(m) # 0 /\ Block(m) = 2
    BY <1>6
  <2>2. n - 1 - d = m - 1 - d /\ n \in Nat /\ m \in Nat /\ d \in Nat
    BY <1>1, <1>3, <1>9, <2>1
  <2> QED
    BY <2>2
<1>10. RowsOf(second, program) = {Row(n) : n \in rows}
  BY <1>7, <1>8
<1> QED
  BY <1>8, <1>9, <1>10 DEF rows

\* So its group is that of its processes, with all of their bytes.
LEMMA WholeGroup ==
  ASSUME NEW second \in [Rows -> Traffic], NEW program
  PROVE  LET group == GroupOf(second, WholeOutput, program)
         IN /\ group.processes = Cardinality(RowsOf(second, program))
            /\ Total(group) = SumFunctionOnSet([row \in Rows |-> Total(second[row])],
                                               RowsOf(second, program))
<1> DEFINE group == GroupOf(second, WholeOutput, program)
           rows == BusyOf(second, WholeOutput, program)
           busy == Busy(second, WholeOutput)
           h == [n \in busy |-> Total(RowOf(second, n))]
           moved == [row \in Rows |-> Total(second[row])]
           name == [n \in rows |-> Row(n)]
<1>1. WholeOutput \in 0 .. WholeOutput
  BY WorkloadAssumption DEF WholeOutput
<1>2. /\ IsFiniteSet(rows) /\ group.processes = Cardinality(rows)
      /\ Total(group) = SumFunctionOnSet(h, rows)
  BY <1>1, GroupSays
<1>3. /\ RowsOf(second, program) = {Row(n) : n \in rows}
      /\ \A n, m \in rows : Row(n) = Row(m) => n = m
      /\ \A n \in rows : Row(n) \in Rows /\ RowOf(second, n) = second[Row(n)]
  BY WholeRead
<1>4. RowsOf(second, program) = {name[n] : n \in rows}
  BY <1>3
<1>5. \A n, m \in rows : name[n] = name[m] => n = m
  BY <1>3
<1>6. ASSUME NEW n \in rows
      PROVE  h[n] \in Nat /\ moved[name[n]] = h[n]
  <2>1. n \in busy /\ n \in LastBlock(WholeOutput)
    BY DEF BusyOf, Busy
  <2>2. RowOf(second, n).received \in Nat /\ RowOf(second, n).transmitted \in Nat
    BY <1>1, <2>1, RowsRead
  <2>3. h[n] = Total(RowOf(second, n))
    BY <2>1
  <2>4. name[n] = Row(n) /\ Row(n) \in Rows /\ RowOf(second, n) = second[Row(n)]
    BY <1>3
  <2>5. moved[Row(n)] = Total(second[Row(n)])
    BY <2>4
  <2> HIDE DEF h, moved, name
  <2> QED
    BY <2>2, <2>3, <2>4, <2>5 DEF Total
<1> HIDE DEF rows, busy, h, moved, name, group
<1>7. SumFunctionOnSet(moved, {name[n] : n \in rows}) = SumFunctionOnSet(h, rows)
  BY <1>2, <1>5, <1>6, SumRenamed
<1>8. Cardinality(RowsOf(second, program)) = Cardinality(rows)
  <2>1. name \in Bijection(rows, RowsOf(second, program))
    BY <1>4, <1>5 DEF Bijection, Injection, Surjection, IsInjective, name
  <2> QED
    BY <1>2, <2>1, FS_Bijection DEF ExistsBijection
<1> QED
  BY <1>2, <1>4, <1>7, <1>8 DEF group, moved

LEMMA SnapshotAttributed ==
  ASSUME NEW second \in [Rows -> Traffic], NEW lines \in 0 .. WholeOutput, NEW end
  PROVE  Attributed(WorkloadSnapshot(end, second, lines), second, lines)
<1> DEFINE snapshot == WorkloadSnapshot(end, second, lines)
<1>1. CASE end # "exited"
  <2>1. snapshot.health = "unavailable" /\ snapshot.processes = <<>>
    BY <1>1 DEF WorkloadSnapshot
  <2>2. ListAttributed(<<>>, FALSE, second, lines)
    BY DEF ListAttributed
  <2> HIDE DEF snapshot
  <2> QED
    BY <2>1, <2>2 DEF Attributed, snapshot
<1>2. CASE end = "exited"
  <2> DEFINE listed == Processes(second, lines)
             busy == {program \in {Programs[row] : row \in Rows} : RowsOf(second, program) # {}}
             group(n) == GroupOf(second, lines, Programs[Row(n)])
  <2>1. snapshot.health = "ok" /\ snapshot.processes = listed
    BY <1>2 DEF WorkloadSnapshot
  <2>2. /\ \A i, j \in DOMAIN listed :
             i < j => /\ Total(listed[i]) >= Total(listed[j])
                      /\ listed[i].process # listed[j].process
        /\ \A i \in DOMAIN listed : \E n \in Busy(second, lines) : listed[i] = group(n)
        /\ \A n \in Busy(second, lines) : \E i \in DOMAIN listed : listed[i] = group(n)
    BY BusiestFirst
  <2>a. \A program : GroupOf(second, lines, program).process = program
    BY DEF GroupOf
  <2> HIDE DEF listed
  <2>3. ASSUME NEW i \in DOMAIN listed
        PROVE  \E n \in Busy(second, lines) :
                 /\ Row(n) \in Rows /\ Programs[Row(n)] = listed[i].process
                 /\ listed[i] = GroupOf(second, lines, listed[i].process)
    <3>1. PICK n \in Busy(second, lines) : listed[i] = group(n)
      BY <2>2
    <3>2. Row(n) \in Rows /\ listed[i].process = Programs[Row(n)]
      BY <2>a, <3>1, RowsRead DEF Busy
    <3> QED
      BY <3>1, <3>2
  <2>4. ASSUME lines = WholeOutput
        PROVE  /\ {listed[i].process : i \in DOMAIN listed} = busy
               /\ \A i \in DOMAIN listed :
                    /\ listed[i].processes = Cardinality(RowsOf(second, listed[i].process))
                    /\ Total(listed[i]) =
                         SumFunctionOnSet([row \in Rows |-> Total(second[row])],
                                          RowsOf(second, listed[i].process))
    <3>1. ASSUME NEW i \in DOMAIN listed
          PROVE  listed[i].process \in busy
      <4>1. PICK n \in Busy(second, lines) :
              Row(n) \in Rows /\ Programs[Row(n)] = listed[i].process
        BY <2>3
      <4>2. n \in BusyOf(second, lines, listed[i].process)
        BY <4>1 DEF BusyOf
      <4>3. Row(n) \in RowsOf(second, listed[i].process)
        BY <2>4, <4>2, WholeRead
      <4> QED
        BY <4>1, <4>3
    <3>2. ASSUME NEW program \in busy
          PROVE  \E i \in DOMAIN listed : listed[i].process = program
      <4>1. RowsOf(second, program) # {}
        OBVIOUS
      <4>2. RowsOf(second, program) = {Row(n) : n \in BusyOf(second, lines, program)}
        BY <2>4, WholeRead
      <4>3. PICK n \in BusyOf(second, lines, program) : TRUE
        BY <4>1, <4>2
      <4>4. n \in Busy(second, lines) /\ Programs[Row(n)] = program
        BY DEF BusyOf
      <4>5. PICK i \in DOMAIN listed : listed[i] = group(n)
        BY <2>2, <4>4
      <4>6. listed[i].process = program
        BY <2>a, <4>4, <4>5
      <4> QED
        BY <4>6
    <3>3. ASSUME NEW i \in DOMAIN listed
          PROVE  /\ listed[i].processes = Cardinality(RowsOf(second, listed[i].process))
                 /\ Total(listed[i]) =
                      SumFunctionOnSet([row \in Rows |-> Total(second[row])],
                                       RowsOf(second, listed[i].process))
      <4>1. listed[i] = GroupOf(second, WholeOutput, listed[i].process)
        BY <2>3, <2>4
      <4> DEFINE program == listed[i].process
                 whole == GroupOf(second, WholeOutput, program)
      <4>2. /\ whole.processes = Cardinality(RowsOf(second, program))
            /\ Total(whole) = SumFunctionOnSet([row \in Rows |-> Total(second[row])],
                                               RowsOf(second, program))
        BY WholeGroup
      <4> QED
        BY <4>1, <4>2
    <3>4. {listed[i].process : i \in DOMAIN listed} = busy
      <4> HIDE DEF busy
      <4>1. busy \subseteq {listed[i].process : i \in DOMAIN listed}
        BY <3>2
      <4>2. {listed[i].process : i \in DOMAIN listed} \subseteq busy
        BY <3>1
      <4> QED
        BY <4>1, <4>2
    <3> QED
      BY <3>3, <3>4
  <2>5. \A i \in DOMAIN listed : \E row \in Rows : Programs[row] = listed[i].process
    BY <2>3
  <2>6. ListAttributed(listed, TRUE, second, lines)
    BY <2>2, <2>4, <2>5, Zenon DEF ListAttributed, RowsOf
  <2> HIDE DEF snapshot
  <2>7. (snapshot.health = "ok") = TRUE
    BY <2>1
  <2> QED
    BY <2>1, <2>6, <2>7 DEF Attributed, snapshot
<1> QED
  BY <1>1, <1>2

-----------------------------------------------------------------------------
(***************************************************************************)
(* The sampler of readiness.                                               *)
(***************************************************************************)
\* What a sample says of a second that was read to its end.
SampleTells(sample) ==
  /\ sample.traffic \in BOOLEAN
  /\ sample.whole => (sample.traffic => ~sample.quiet)
  /\ sample.whole /\ sample.health = "ok" /\ ~sample.traffic => sample.quiet

SampleFields == {"health", "traffic", "whole", "quiet"}

WorkloadInvariant ==
  /\ workload.phase # "off" => workload.second \in [Rows -> Traffic]
  /\ workload = [phase |-> workload.phase, second |-> workload.second,
                 printed |-> workload.printed, latest |-> workload.latest,
                 samples |-> workload.samples]
  /\ workload.printed \in 0 .. WholeOutput
  /\ workload.latest # NONE =>
       Attributed(workload.latest, workload.second, workload.printed)
  /\ \E n \in 0 .. SampleCount : DOMAIN workload.samples = 1 .. n /\ Len(workload.samples) = n
  /\ workload.phase = "sampling" =>
       workload.latest = NONE /\ Len(workload.samples) < SampleCount
  /\ \A i \in DOMAIN workload.samples : SampleTells(workload.samples[i])

LEMMA WorkloadInitially == WorkloadIdle => WorkloadInvariant
<1> SUFFICES ASSUME WorkloadIdle PROVE WorkloadInvariant
  OBVIOUS
<1>1. workload = [phase |-> "off", second |-> NONE, printed |-> 0, latest |-> NONE,
                  samples |-> <<>>]
  BY DEF WorkloadIdle
<1>2. 0 \in 0 .. WholeOutput /\ 0 \in 0 .. SampleCount
  BY WorkloadAssumption DEF WholeOutput
<1>3. Len(<<>>) = 0 /\ DOMAIN <<>> = 1 .. 0
  OBVIOUS
<1> QED
  BY <1>1, <1>2, <1>3 DEF WorkloadInvariant

\* A sample that was taken to its end tells of its second.
LEMMA SampleSays ==
  ASSUME NEW second \in [Rows -> Traffic], NEW lines \in 0 .. WholeOutput, NEW end, NEW sample,
         sample = [health |-> WorkloadSnapshot(end, second, lines).health,
                   traffic |-> WorkloadSnapshot(end, second, lines).processes # <<>>,
                   whole |-> lines = WholeOutput,
                   quiet |-> \A row \in Rows : Total(second[row]) = 0]
  PROVE  SampleTells(sample)
<1> DEFINE snapshot == WorkloadSnapshot(end, second, lines)
           quiet == \A row \in Rows : Total(second[row]) = 0
           busy == {program \in {Programs[row] : row \in Rows} : RowsOf(second, program) # {}}
           listed == snapshot.processes
<1>1. /\ sample.health = snapshot.health /\ sample.traffic = (listed # <<>>)
      /\ sample.whole = (lines = WholeOutput) /\ sample.quiet = quiet
  OBVIOUS
<1>2. ListAttributed(listed, snapshot.health = "ok", second, lines)
  BY SnapshotAttributed DEF Attributed
<1>3. listed = <<>> <=> DOMAIN listed = {}
  <2>1. CASE end = "exited"
    <3>1. listed = Processes(second, lines)
      BY <2>1 DEF WorkloadSnapshot
    <3>2. Processes(second, lines) \in Seq(Groups(second, lines))
      BY BusiestFirst
    <3> HIDE DEF listed
    <3> QED
      BY <3>1, <3>2
  <2>2. CASE end # "exited"
    <3>1. listed = <<>>
      BY <2>2 DEF WorkloadSnapshot
    <3> HIDE DEF listed
    <3> QED
      BY <3>1
  <2> QED
    BY <2>1, <2>2
<1>4. snapshot.health # "ok" => listed = <<>>
  BY DEF WorkloadSnapshot
<1>5. \A row \in Rows : Total(second[row]) \in Nat
  <2>1. \A row \in Rows : second[row] \in [received : Nat, transmitted : Nat]
    BY WorkloadAssumption
  <2> QED
    BY <2>1 DEF Total
<1>6. busy = {} <=> quiet
  <2>1. ASSUME NEW row \in Rows, Total(second[row]) # 0
        PROVE  Programs[row] \in busy
    <3>1. row \in RowsOf(second, Programs[row])
      BY <1>5, <2>1 DEF RowsOf
    <3> QED
      BY <3>1
  <2>2. ASSUME NEW program \in busy
        PROVE  \E row \in Rows : Total(second[row]) # 0
    <3>1. PICK row \in RowsOf(second, program) : TRUE
      OBVIOUS
    <3>2. row \in Rows /\ Total(second[row]) > 0
      BY <3>1 DEF RowsOf
    <3> QED
      BY <1>5, <3>2
  <2> HIDE DEF busy
  <2> QED
    BY <2>1, <2>2
<1> HIDE DEF listed, snapshot, quiet, busy
<1>7. lines = WholeOutput /\ snapshot.health = "ok" =>
        {listed[i].process : i \in DOMAIN listed} = busy
  BY <1>2, Zenon DEF ListAttributed, RowsOf, busy
<1>8. lines = WholeOutput /\ snapshot.health = "ok" => (listed = <<>> <=> quiet)
  <2> DEFINE names == {listed[i].process : i \in DOMAIN listed}
  <2>1. names = {} <=> DOMAIN listed = {}
    OBVIOUS
  <2> HIDE DEF names
  <2> QED
    BY <1>3, <1>6, <1>7, <2>1 DEF names
<1>9. /\ sample.traffic <=> listed # <<>>
      /\ sample.whole <=> lines = WholeOutput
      /\ sample.quiet <=> quiet
      /\ sample.traffic \in BOOLEAN
  BY <1>1
<1> QED
  BY <1>1, <1>4, <1>8, <1>9, Zenon DEF SampleTells

LEMMA SamplerStep ==
  ASSUME WorkloadInvariant, WorkloadNext \/ UNCHANGED workload
  PROVE  WorkloadInvariant'
<1>0. SampleCount \in Nat \ {0} /\ WholeOutput \in Nat
  BY WorkloadAssumption DEF WholeOutput
<1>1. PICK n \in 0 .. SampleCount :
        DOMAIN workload.samples = 1 .. n /\ Len(workload.samples) = n
  BY DEF WorkloadInvariant
<1>2. CASE StartNettop
  <2>1. PICK second \in [Rows -> Traffic] :
          workload' = [workload EXCEPT !.phase = "sampling", !.second = second,
                                       !.printed = 0, !.latest = NONE]
    BY <1>2 DEF StartNettop
  <2>2. workload' = [phase |-> "sampling", second |-> second, printed |-> 0, latest |-> NONE,
                     samples |-> workload.samples]
    BY <2>1 DEF WorkloadInvariant
  <2>3. Len(workload.samples) < SampleCount /\ 0 \in 0 .. WholeOutput
    BY <1>0, <1>2 DEF StartNettop
  <2> QED
    BY <2>2, <2>3 DEF WorkloadInvariant
<1>3. CASE PrintLine
  <2>1. /\ workload.phase = "sampling" /\ workload.printed < WholeOutput
        /\ workload' = [workload EXCEPT !.printed = workload.printed + 1]
    BY <1>3 DEF PrintLine
  <2> DEFINE printed == workload.printed + 1
  <2>2. printed \in 0 .. WholeOutput
    BY <1>0, <2>1 DEF WorkloadInvariant
  <2>3. workload' = [phase |-> "sampling", second |-> workload.second, printed |-> printed,
                     latest |-> workload.latest, samples |-> workload.samples]
    BY <2>1 DEF WorkloadInvariant
  <2> HIDE DEF printed
  <2>4. workload.latest = NONE
    BY <2>1 DEF WorkloadInvariant
  <2> QED
    BY <2>1, <2>2, <2>3, <2>4 DEF WorkloadInvariant
<1>4. CASE NettopEnds
  <2>1. PICK end \in {"exited", "status", "deadline", "missing"} :
          LET snapshot == WorkloadSnapshot(end, workload.second, workload.printed)
          IN workload' = [workload EXCEPT
               !.phase = "sampled", !.latest = snapshot,
               !.samples = Append(@,
                 [health |-> snapshot.health, traffic |-> snapshot.processes # <<>>,
                  whole |-> workload.printed = WholeOutput,
                  quiet |-> \A row \in Rows : Total(workload.second[row]) = 0])]
    BY <1>4, Zenon DEF NettopEnds
  <2> DEFINE snapshot == WorkloadSnapshot(end, workload.second, workload.printed)
             sample == [health |-> snapshot.health, traffic |-> snapshot.processes # <<>>,
                        whole |-> workload.printed = WholeOutput,
                        quiet |-> \A row \in Rows : Total(workload.second[row]) = 0]
             more == Append(workload.samples, sample)
  <2>2. /\ workload.second \in [Rows -> Traffic] /\ workload.printed \in 0 .. WholeOutput
        /\ Len(workload.samples) < SampleCount
    BY <1>4 DEF NettopEnds, WorkloadInvariant
  <2>3. Attributed(snapshot, workload.second, workload.printed) /\ SampleTells(sample)
    BY <2>2, SnapshotAttributed, SampleSays
  <2> HIDE DEF snapshot, sample
  <2>4. workload' = [workload EXCEPT !.phase = "sampled", !.latest = snapshot, !.samples = more]
    BY <2>1 DEF snapshot, sample
  <2>5. workload' = [phase |-> "sampled", second |-> workload.second,
                     printed |-> workload.printed, latest |-> snapshot, samples |-> more]
    <3> HIDE DEF more
    <3> QED
      BY <2>4 DEF WorkloadInvariant
  <2>6. /\ n + 1 \in 0 .. SampleCount /\ DOMAIN more = 1 .. n + 1 /\ Len(more) = n + 1
        /\ more[n + 1] = sample /\ \A i \in 1 .. n : more[i] = workload.samples[i]
    BY <1>0, <1>1, <2>2
  <2> HIDE DEF more
  <2>7. \A i \in DOMAIN more : SampleTells(more[i])
    BY <1>0, <1>1, <2>3, <2>6 DEF WorkloadInvariant
  <2> QED
    BY <2>2, <2>3, <2>5, <2>6, <2>7 DEF WorkloadInvariant
<1>5. CASE UNCHANGED workload
  BY <1>5 DEF WorkloadInvariant
<1> QED
  BY <1>2, <1>3, <1>4, <1>5 DEF WorkloadNext

LEMMA WorkloadTells == WorkloadInvariant => TrafficAttributed
<1> SUFFICES ASSUME WorkloadInvariant PROVE TrafficAttributed
  OBVIOUS
<1> DEFINE samples == workload.samples
           status == IdleBackground(samples)
           healthy == {i \in DOMAIN samples : samples[i].health = "ok"}
           traffic == {i \in DOMAIN samples : samples[i].traffic}
<1>1. PICK n \in 0 .. SampleCount : DOMAIN samples = 1 .. n /\ Len(samples) = n
  BY DEF WorkloadInvariant
<1>2. n \in Nat /\ SampleCount \in Nat \ {0} /\ n <= SampleCount
  BY WorkloadAssumption
<1>3. \A i \in DOMAIN samples : SampleTells(samples[i])
  BY DEF WorkloadInvariant
<1>4. status = CASE samples = <<>> -> "not_tested"
                 [] samples # <<>> /\ Len(samples) < SampleCount -> "insufficient"
                 [] OTHER -> IF Cardinality(healthy) < Len(samples) THEN "insufficient"
                             ELSE IF traffic # {} THEN "degraded" ELSE "ready"
  BY Zenon DEF IdleBackground
<1> HIDE DEF samples, status, healthy, traffic
<1>5. status \in {"ready", "degraded"} =>
        /\ samples # <<>> /\ n = SampleCount /\ ~ (Cardinality(healthy) < n)
        /\ (status = "degraded" <=> traffic # {})
  <2>1. CASE samples = <<>>
    <3>1. status = "not_tested"
      BY <1>4, <2>1
    <3> QED BY <3>1
  <2>2. CASE samples # <<>> /\ n < SampleCount
    <3>1. status = "insufficient"
      BY <1>1, <1>4, <2>2
    <3> QED BY <3>1
  <2>3. CASE samples # <<>> /\ ~ (n < SampleCount)
    <3>1. status = IF Cardinality(healthy) < n THEN "insufficient"
                   ELSE IF traffic # {} THEN "degraded" ELSE "ready"
      BY <1>1, <1>4, <2>3
    <3>2. n = SampleCount
      BY <1>2, <2>3
    <3> QED BY <2>3, <3>1, <3>2
  <2> QED BY <2>1, <2>2, <2>3
<1>6. IsFiniteSet(1 .. n) /\ Cardinality(1 .. n) = n
  <2>1. n \in Int /\ 1 \in Int
    BY <1>2
  <2> QED
    BY <1>2, <2>1, FS_Interval
<1>7. ~ (Cardinality(healthy) < n) => healthy = DOMAIN samples
  <2>1. healthy \in SUBSET (1 .. n)
    BY <1>1 DEF healthy
  <2>2. /\ IsFiniteSet(healthy) /\ Cardinality(healthy) <= Cardinality(1 .. n)
        /\ Cardinality(1 .. n) = Cardinality(healthy) => 1 .. n = healthy
    BY <1>6, <2>1, FS_Subset
  <2>3. Cardinality(healthy) \in Nat
    BY <2>2, FS_CardinalityType
  <2> QED
    BY <1>1, <1>2, <1>6, <2>2, <2>3
<1>8. status = "ready" =>
        /\ Len(samples) = SampleCount
        /\ \A i \in DOMAIN samples : /\ samples[i].health = "ok"
                                     /\ samples[i].whole => samples[i].quiet
  <2> SUFFICES ASSUME status = "ready"
               PROVE  /\ Len(samples) = SampleCount
                      /\ \A i \in DOMAIN samples : /\ samples[i].health = "ok"
                                                   /\ samples[i].whole => samples[i].quiet
    OBVIOUS
  <2>1. n = SampleCount /\ healthy = DOMAIN samples /\ traffic = {}
    BY <1>5, <1>7
  <2>2. ASSUME NEW i \in DOMAIN samples
        PROVE  samples[i].health = "ok" /\ (samples[i].whole => samples[i].quiet)
    <3>1. samples[i].health = "ok" /\ ~samples[i].traffic
      BY <2>1, Zenon DEF healthy, traffic
    <3>2. SampleTells(samples[i])
      BY <1>3
    <3> QED BY <3>1, <3>2, Zenon DEF SampleTells
  <2> QED BY <1>1, <2>1, <2>2
<1>9. status = "degraded" => \E i \in DOMAIN samples : samples[i].whole => ~samples[i].quiet
  <2> SUFFICES ASSUME status = "degraded"
               PROVE  \E i \in DOMAIN samples : samples[i].whole => ~samples[i].quiet
    OBVIOUS
  <2>1. traffic # {}
    BY <1>5
  <2>2. PICK i \in DOMAIN samples : samples[i].traffic
    BY <2>1, Zenon DEF traffic
  <2>3. SampleTells(samples[i])
    BY <1>3
  <2>4. samples[i].whole => ~samples[i].quiet
    BY <2>2, <2>3, Zenon DEF SampleTells
  <2> QED BY <2>4, Zenon
<1>10. workload.latest # NONE =>
         ListAttributed(workload.latest.processes, workload.latest.health = "ok",
                        workload.second, workload.printed)
  BY DEF WorkloadInvariant, Attributed
<1> QED
  BY <1>8, <1>9, <1>10, Zenon DEF TrafficAttributed, ListAttributed, samples, status
=============================================================================
