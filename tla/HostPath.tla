------------------------------ MODULE HostPath ------------------------------
(***************************************************************************)
(* The records of a path history and what one record says in the light of  *)
(* earlier ones (history.rs, observation_from_app, summarize).             *)
(*                                                                         *)
(* Records, context keys and comparisons are Netbraid's (an external       *)
(* crate): here a record is what history.rs puts into it and a comparison  *)
(* is what history.rs and its tests rely on.  The BSSID is left out: it is *)
(* evidence about an attachment and never part of a context.               *)
(***************************************************************************)
EXTENDS LinkPath, Ordering

CONSTANTS
  Observers,  \* the hosts whose records a log may hold
  Macs        \* link addresses of gateways

\* Host path observations; pid and generation stand for the record_id.
HostPath ==
  [interface : Interfaces \cup {NONE},
   ssid      : Names \cup {NONE, REDACTED},
   gateway   : Gateways \cup {NONE},
   mac       : Macs \cup {NONE},
   resolvers : ResolverLists]

Observation ==
  [observer : Observers, time : Nat, pid : Nat, generation : Nat,
   path : HostPath]

ASSUME NoneIsNoRecord == NONE \notin Observation

\* The identity of a network context.
ContextKey(record) == record.path

\* The parts of a context in which two records differ.
ChangedDimensions(earlier, later) ==
  {d \in DOMAIN later.path : earlier.path[d] # later.path[d]}

\* The parts of a context that both records know and disagree on.
Conflicts(earlier, later) ==
  {d \in ChangedDimensions(earlier, later) :
     {earlier.path[d], later.path[d]} \cap {NONE, REDACTED} = {}}

CompareContexts(previous, current) ==
  IF previous = NONE THEN "FirstObservation"
  ELSE IF ContextKey(previous) = ContextKey(current) THEN "SameContext"
  ELSE IF Conflicts(previous, current) = {} THEN "CompatibleContext"
  ELSE "ContextChanged"

\* The places of the records of one observer.
Own(records, o) == {i \in DOMAIN records : records[i].observer = o}

\* A repeated key identifies a network only through the gateway's address.
ExactMatch(records, current) ==
  IF \A i \in Own(records, current.observer) : ContextKey(records[i]) # ContextKey(current)
  THEN "NoPriorExactKeyMatch"
  ELSE IF current.path.mac = NONE
  THEN "UnanchoredExactKeyMatch"
  ELSE "AnchoredExactRecurrence"

Previous(records, current) ==
  LET own == Own(records, current.observer) IN
  IF own = {} THEN NONE ELSE records[CHOOSE i \in own : \A j \in own : j <= i]

\* Fault: a repeated key is taken for a known network.
Summarize_Unanchored(records, current) ==
  LET relation == CompareContexts(Previous(records, current), current)
      exact    == ExactMatch(records, current)
  IN CASE relation = "FirstObservation" -> relation
       [] relation = "ContextChanged" ->
            IF exact = "NoPriorExactKeyMatch" THEN "Changed" ELSE "Returned"
       [] relation \in {"SameContext", "CompatibleContext"} ->
            IF exact = "NoPriorExactKeyMatch" THEN "Compatible" ELSE "Recurring"

\* The HistoryContextKind of a complete context.
Summarize(records, current) ==
  LET relation == CompareContexts(Previous(records, current), current)
      anchored == ExactMatch(records, current) = "AnchoredExactRecurrence"
  IN CASE relation = "FirstObservation" -> relation
       [] relation = "ContextChanged" ->
            IF anchored THEN "Returned" ELSE "Changed"
       [] relation \in {"SameContext", "CompatibleContext"} ->
            IF anchored THEN "Recurring" ELSE "Compatible"

\* The order of a replay: by time, and as in the log where times agree.
Precedes(records, i, j) ==
  \/ records[i].time < records[j].time
  \/ records[i].time = records[j].time /\ i < j

Replay(records) ==
  LET places == DOMAIN records
      order == InOrder(places, {pair \in places \X places :
                                  Precedes(records, pair[1], pair[2])})
  IN [n \in places |-> records[order[n]]]
=============================================================================
