---------------------------- MODULE PeerSession ----------------------------
(***************************************************************************)
(* Neighbours in a live session: the kernel's table changes while the      *)
(* collector reads it source by source, the terminal's thread reduces the  *)
(* snapshots it receives (model.rs), and between two of them it draws the  *)
(* peer table and moves the operator's selection in it (main.rs, run_tui). *)
(* Monitor and Session model how generations and slots are fenced: here a  *)
(* path change reaches the App as one step.                                *)
(***************************************************************************)
EXTENDS PeerSurfaces

CONSTANTS
  InitialPaths,    \* paths a session may start on
  InitialTable,    \* neighbours the kernel knows when the session starts
  KernelRows,      \* rows the kernel may enter
  InitialMode,     \* view the session starts in
  CanNavigate,     \* whether the views can be switched
  OperatorKeys,    \* keys the operator uses
  Capacities,      \* rows of neighbours that fit the terminal, as it is resized
  MaxChanges,      \* bound: changes of the kernel's table and of the path
  MaxReads, MaxKeys, MaxExpiries  \* bounds

ASSUME PeerSessionAssumption ==
  /\ InitialPaths \subseteq Paths
  /\ InitialTable \in Table
  /\ KernelRows \subseteq Row
  /\ InitialMode \in Modes
  /\ CanNavigate \in BOOLEAN
  /\ OperatorKeys \subseteq ModeKeys \cup MoveKeys \cup OtherKeys
  /\ Capacities \subseteq Nat
  /\ {MaxChanges, MaxReads, MaxKeys, MaxExpiries} \subseteq Nat

VARIABLES
  table,       \* the neighbour table of the kernel
  path, generation,
  job,         \* the collector in flight, or Idle
  peers,       \* App::peers
  peer_dwell,  \* App::peer_dwell
  interaction, \* InteractionState
  turn,        \* where the loop of run_tui stands
  shown,       \* the order the selection was placed in, the order the table was
               \* drawn in, and the last frame
  past,        \* per key: how often the kernel changed it (for the properties)
  spent        \* bounds used up

appVars == <<peers, peer_dwell>>
tuiVars == <<interaction, turn, shown>>
vars == <<table, path, generation, job, appVars, tuiVars, past, spent>>

Idle == [path |-> NONE, generation |-> 0, readings |-> <<>>]
NoFrame == [rows |-> <<>>, highlighted |-> NONE]

\* The order the table has at this moment.
Order == Ordered(path, peers.peers, peer_dwell)

Spend(bound, maximum) ==
  /\ spent[bound] < maximum
  /\ spent' = [spent EXCEPT ![bound] = @ + 1]

Init ==
  /\ table = InitialTable
  /\ path \in InitialPaths
  /\ generation = 1
  /\ job = Idle
  /\ peers = Pending
  /\ peer_dwell = <<>>
  /\ interaction = [active_mode |-> InitialMode, peer_offset |-> 0,
                    peer_selection |-> NONE, can_navigate |-> CanNavigate]
  /\ turn = "drain"
  /\ shown = [order |-> <<>>, drawn |-> <<>>, frame |-> NoFrame]
  /\ past = [k \in Keys |-> [rebound |-> 0, restated |-> 0, printless |-> 0]]
  /\ spent = [b \in {"change", "read", "key", "expiry"} |-> 0]

-----------------------------------------------------------------------------
(***************************************************************************)
(* The kernel and the collector.                                           *)
(***************************************************************************)
\* The kernel enters, changes or drops a neighbour.
KernelSet(k, row) ==
  /\ k \in DOMAIN table => table[k] # row
  /\ table' = [l \in DOMAIN table \cup {k} |-> IF l = k THEN row ELSE table[l]]
  /\ past' = [past EXCEPT
       ![k].rebound = @ + One(k \notin DOMAIN table \/ table[k].mac # row.mac),
       ![k].restated = @ + One(k \notin DOMAIN table \/ table[k].state # row.state)]

KernelDrop(k) ==
  /\ k \in DOMAIN table
  /\ table' = [l \in DOMAIN table \ {k} |-> table[l]]
  /\ past' = past

TableChanges ==
  /\ Spend("change", MaxChanges)
  /\ \E k \in Keys : KernelDrop(k) \/ \E row \in KernelRows : KernelSet(k, row)
  /\ UNCHANGED <<path, generation, job, appVars, tuiVars>>

\* spawn_peers: one collector at a time, with the path it starts on.
Launch ==
  /\ job = Idle
  /\ Spend("read", MaxReads)
  /\ job' = [path |-> path, generation |-> generation, readings |-> <<>>]
  /\ UNCHANGED <<table, path, generation, appVars, tuiVars, past>>

\* collect: one turn of its loop over the commands.
ReadSource(outcome) ==
  /\ job # Idle
  /\ Len(job.readings) < Len(Sources)
  /\ LET source == Sources[Len(job.readings) + 1]
         printless == outcome # "whole" /\ Prints[source].states
     IN \* past, for the properties: states this read cannot show
        /\ job' = [job EXCEPT !.readings =
                     Append(@, ReadingOf(source, outcome, table))]
        /\ past' = [k \in Keys |-> [past[k] EXCEPT !.printless =
                      @ + One(printless /\ k \in Prints[source].keys)]]
  /\ UNCHANGED <<table, path, generation, appVars, tuiVars, spent>>

-----------------------------------------------------------------------------
(***************************************************************************)
(* The terminal's thread.                                                  *)
(***************************************************************************)
\* MonitorUpdate::Peers: a snapshot of an earlier generation is dropped.
ReceivePeers ==
  /\ turn = "drain"
  /\ Len(job.readings) = Len(Sources)
  /\ job' = Idle
  /\ IF job.generation = generation
     THEN LET snapshot == Collected(job.path, job.readings)
          IN /\ peers' = snapshot
             /\ peer_dwell' = Reduced(peer_dwell, snapshot)
     ELSE UNCHANGED appVars
  /\ UNCHANGED <<table, path, generation, tuiVars, past, spent>>

\* MonitorUpdate::Link with another generation: nothing of the old path stays.
ReceiveLink ==
  /\ turn = "drain"
  /\ Spend("change", MaxChanges)
  /\ path' \in Paths
  /\ generation' = generation + 1
  /\ peers' = Pending
  /\ peer_dwell' = <<>>
  /\ past' = [k \in Keys |-> [rebound |-> 0, restated |-> 0, printless |-> 0]]
  /\ UNCHANGED <<table, job, tuiVars>>

\* A change is no longer recent (PEER_CHANGE_ATTENTION_WINDOW); the windows
\* are read from the clock whenever the table is ordered, in any thread's time.
AttentionExpires ==
  /\ Spend("expiry", MaxExpiries)
  /\ \E k \in DOMAIN peer_dwell : \E change \in peer_dwell[k].recent :
       peer_dwell' = [peer_dwell EXCEPT ![k].recent = @ \ {change}]
  /\ UNCHANGED <<table, path, generation, job, peers, tuiVars, past>>

Normalize ==
  /\ turn = "drain"
  /\ turn' = "draw"
  /\ interaction' = Normalized(interaction, Order)
  /\ shown' = [shown EXCEPT !.order = Order]
  /\ UNCHANGED <<table, path, generation, job, appVars, past, spent>>

Draw ==
  /\ turn = "draw"
  /\ turn' = "poll"
  /\ IF interaction.active_mode = "peers"
     THEN \E capacity \in Capacities :
            shown' = [order |-> shown.order, drawn |-> Order,
                      frame |-> Frame(Order, interaction.peer_offset, capacity)]
     ELSE shown' = [order |-> shown.order, drawn |-> <<>>, frame |-> NoFrame]
  /\ UNCHANGED <<table, path, generation, job, appVars, interaction, past, spent>>

\* event::poll times out.
NoKey ==
  /\ turn = "poll"
  /\ turn' = "drain"
  /\ UNCHANGED <<table, path, generation, job, appVars, interaction, shown, past,
                 spent>>

Press(key, capacity) ==
  /\ turn = "poll"
  /\ Spend("key", MaxKeys)
  /\ turn' = "drain"
  /\ interaction' = KeyApplied(interaction, Order, key, capacity)
  /\ UNCHANGED <<table, path, generation, job, appVars, shown, past>>

TuiStep ==
  \/ ReceivePeers \/ ReceiveLink \/ Normalize \/ Draw \/ NoKey
  \/ \E key \in OperatorKeys, capacity \in Capacities : Press(key, capacity)

Next ==
  \/ TableChanges \/ Launch \/ AttentionExpires
  \/ \E outcome \in Outcomes : ReadSource(outcome)
  \/ TuiStep

Spec == Init /\ [][Next]_vars

-----------------------------------------------------------------------------
(***************************************************************************)
(* Properties.                                                             *)
(***************************************************************************)
\* The ledger of neighbours (peer_dwell) and the snapshot on display tell one
\* story, through partial, cut, failed and late reads: what is on display is
\* cached and as last observed, a complete read is on display exactly where
\* the ledger says cached, and every return undoes one disappearance.
CachedAgrees ==
  /\ \A k \in DOMAIN peers.peers :
       /\ k \in DOMAIN peer_dwell
       /\ peer_dwell[k].currently_cached
       /\ peer_dwell[k].latest = peers.peers[k]
  /\ Complete(peers) =>
       \A k \in DOMAIN peer_dwell :
         peer_dwell[k].currently_cached => k \in DOMAIN peers.peers
  /\ \A k \in DOMAIN peer_dwell :
       peer_dwell[k].cache_disappearances =
         peer_dwell[k].cache_returns + One(~peer_dwell[k].currently_cached)

\* Churn is not invented: between the sources of one read and from read to
\* read, no more binding changes are counted than the kernel made, and no
\* state change without one of the kernel's or a source of states that was
\* not read ("same_snapshot_binding_conflict_is_not_temporal_churn").
ChangeIsReal ==
  \A k \in DOMAIN peer_dwell :
    /\ peer_dwell[k].binding_changes <= past[k].rebound
    /\ peer_dwell[k].state_changes <= 2 * (past[k].restated + past[k].printless)

\* What a read makes of the ledger.
Gone == {k \in DOMAIN peer_dwell \cap DOMAIN peer_dwell' :
           /\ peer_dwell[k].currently_cached
           /\ ~peer_dwell'[k].currently_cached}
Came == {k \in DOMAIN peer_dwell' :
           /\ peer_dwell'[k].currently_cached
           /\ k \in DOMAIN peer_dwell => ~peer_dwell[k].currently_cached}
Rebound == {k \in DOMAIN peer_dwell \cap DOMAIN peer_dwell' :
              peer_dwell'[k].binding_changes > peer_dwell[k].binding_changes}

Accepted == peers' # peers /\ generation' = generation /\ peers.health # "queued"

\* The plain stream compares with the previous snapshot, the ledger with all
\* it ever read: the stream removes and rebinds no neighbour that the ledger
\* does not, misses none it gains, and after a complete read they agree, save
\* that a neighbour which returns with another binding is only added.
PlainAgrees ==
  [][ Accepted =>
        /\ PlainRemoved(peers, peers') \subseteq Gone
        /\ Came \subseteq PlainAdded(peers, peers')
        /\ PlainRebound(peers, peers') \subseteq Rebound
        /\ Complete(peers) =>
             /\ PlainRemoved(peers, peers') = Gone
             /\ PlainAdded(peers, peers') = Came
             /\ PlainRebound(peers, peers') = Rebound \ Came ]_vars

\* The table is reordered under the operator's hands by every read and by the
\* clock; the selection still changes only by a key, or when the selected
\* neighbour is gone from the table.
SelectionKept ==
  [][ interaction'.peer_selection # interaction.peer_selection =>
        \/ spent'.key > spent.key
        \/ interaction.peer_selection \notin DOMAIN peers.peers ]_vars

\* The row the operator sees highlighted is the selected neighbour, and Down
\* moves from it to the next row of the table as drawn, whatever was read,
\* switched or resized before, unless a window of attention ended between
\* placing the selection, drawing it and reading the key.
MovesFromHighlight ==
  [][ \A capacity \in Capacities \ {0} :
        LET seen == shown.frame.highlighted
            at == CHOOSE i \in DOMAIN Order : Order[i] = seen
            placed == shown.order = Order /\ shown.drawn = Order
        IN Press("Down", capacity) /\ placed /\ seen # NONE =>
             /\ seen = interaction.peer_selection
             /\ interaction'.peer_selection =
                  Order[Least(at + 1, Len(Order))] ]_vars
=============================================================================
