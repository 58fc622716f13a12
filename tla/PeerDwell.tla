----------------------------- MODULE PeerDwell -----------------------------
(***************************************************************************)
(* What the App keeps of the neighbours of one path (model.rs, PeerDwell   *)
(* and apply_peer_snapshot): a row per neighbour ever read, with counts of *)
(* what happened to it, next to the latest snapshot itself.                *)
(***************************************************************************)
EXTENDS Neighbors

\* A change within PEER_CHANGE_ATTENTION_WINDOW.
Changes == {"binding", "return", "state"}

Dwell ==
  [observations : Nat, state_changes : Nat, binding_changes : Nat,
   cache_disappearances : Nat, cache_returns : Nat,
   currently_cached : BOOLEAN, latest : Peer, recent : SUBSET Changes]

\* The rows of a neighbour seen for the first time.
FirstDwell(peer) ==
  [observations |-> 1, state_changes |-> 0, binding_changes |-> 0,
   cache_disappearances |-> 0, cache_returns |-> 0,
   currently_cached |-> TRUE, latest |-> peer, recent |-> {}]

\* Fault: a conflict hides the binding, and forgetting it makes churn of one change.
BindingChanged_ByMacOnly(dwell, peer) == dwell.latest.mac # peer.mac

BindingChanged(dwell, peer) ==
  /\ ~dwell.latest.binding_conflict
  /\ ~peer.binding_conflict
  /\ dwell.latest.mac # peer.mac

One(condition) == IF condition THEN 1 ELSE 0

\* A neighbour seen again.
Observed(dwell, peer) ==
  LET binding == BindingChanged(dwell, peer)
      state == dwell.latest.state # peer.state
      return == ~dwell.currently_cached
  IN [observations |-> dwell.observations + 1,
      state_changes |-> dwell.state_changes + One(state),
      binding_changes |-> dwell.binding_changes + One(binding),
      cache_disappearances |-> dwell.cache_disappearances,
      cache_returns |-> dwell.cache_returns + One(return),
      currently_cached |-> TRUE,
      latest |-> peer,
      recent |-> dwell.recent
                   \cup {c \in Changes : \/ c = "binding" /\ binding
                                         \/ c = "state" /\ state
                                         \/ c = "return" /\ return}]

\* Only a read in which no source failed shows an absence.
Complete(snapshot) ==
  /\ snapshot.failed_sources = {}
  /\ snapshot.health \notin {"queued", "unavailable"}

Absent(dwell) ==
  [dwell EXCEPT !.currently_cached = FALSE, !.cache_disappearances = @ + 1]

\* Fault: an absence counted again by every complete read.
Reduced_RepeatAbsence(dwells, snapshot) ==
  [k \in DOMAIN dwells \cup DOMAIN snapshot.peers |->
     IF k \in DOMAIN snapshot.peers
     THEN IF k \in DOMAIN dwells THEN Observed(dwells[k], snapshot.peers[k])
                                 ELSE FirstDwell(snapshot.peers[k])
     ELSE IF Complete(snapshot) THEN Absent(dwells[k]) ELSE dwells[k]]

\* apply_peer_snapshot.
Reduced(dwells, snapshot) ==
  [k \in DOMAIN dwells \cup DOMAIN snapshot.peers |->
     IF k \in DOMAIN snapshot.peers
     THEN IF k \in DOMAIN dwells THEN Observed(dwells[k], snapshot.peers[k])
                                 ELSE FirstDwell(snapshot.peers[k])
     ELSE IF Complete(snapshot) /\ dwells[k].currently_cached
          THEN Absent(dwells[k]) ELSE dwells[k]]

=============================================================================
