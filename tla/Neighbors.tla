----------------------------- MODULE Neighbors -----------------------------
(***************************************************************************)
(* The neighbour cache of the host as linktop reads it (peers.rs): every   *)
(* native source is one bounded command, run one after the other; the rows *)
(* they print for the observed path are merged by interface and address.   *)
(***************************************************************************)
EXTENDS Integers, Sequences, FiniteSets, SequencesExt

CONSTANTS
  NONE,
  Keys,     \* (interface, address) of a neighbour, numbered in that order
  Macs,
  Sources,  \* the native sources, in the order they are run
  Prints,   \* per source: the keys whose rows it prints, and whether it prints
            \* their states
  Paths,    \* paths the host may be on
  NetworkOf, \* per path: the keys on its interface and in its networks
  GatewayOf  \* per path: the key of the observed gateway, or NONE

ASSUME NeighborsAssumption ==
  /\ Keys \subseteq Nat /\ IsFiniteSet(Keys)
  /\ NONE \notin Keys \cup Macs
  /\ Prints \in [Range(Sources) -> [keys : SUBSET Keys, states : BOOLEAN]]
  /\ NetworkOf \in [Paths -> SUBSET Keys]
  /\ GatewayOf \in [Paths -> Keys \cup {NONE}]

KernelStates == {"REACHABLE", "STALE", "DELAY", "PROBE", "FAILED", "INCOMPLETE"}

\* What is known of a neighbour.
Row == [mac : Macs \cup {NONE}, state : KernelStates \cup {NONE}]

\* The neighbour table of the kernel, or a print of it: rows for some keys.
Table == UNION {[K -> Row] : K \in SUBSET Keys}

\* The rows parse_neighbor_output finds in what a source prints.
Printed(source, table) ==
  [k \in DOMAIN table \cap Prints[source].keys |->
     IF Prints[source].states THEN table[k]
                              ELSE [table[k] EXCEPT !.state = NONE]]

Peer == [mac : Macs \cup {NONE}, state : KernelStates \cup {NONE},
         binding_conflict : BOOLEAN]

ASSUME NoneIsNoPeer == NONE \notin Peer

\* There is a source on every platform, and one that prints states comes before
\* those that print the same keys without.
ASSUME SourcesAssumption ==
  /\ Sources \in Seq(Range(Sources)) /\ Sources # <<>>
  /\ \A i, j \in DOMAIN Sources :
       i < j /\ Prints[Sources[j]].states =>
         Prints[Sources[i]].keys \cap Prints[Sources[j]].keys = {}

SourceIndexes == 1 .. Len(Sources)

\* How run_bounded ended for a source: with all it printed; with nothing of it
\* before the deadline, although the command succeeded (drain takes chunks of
\* 8 KiB: a table that fits one arrives whole or not at all); or without an
\* output, or with a failing status.
Outcomes == {"whole", "cut", "failed"}

\* What was read of a source.
Reading == [outcome : Outcomes, rows : Table]

ReadingOf(source, outcome, table) ==
  [outcome |-> outcome,
   rows |-> IF outcome = "whole" THEN Printed(source, table) ELSE <<>>]

Completed(readings) == {i \in DOMAIN readings : readings[i].outcome # "failed"}

\* PeerScope::contains.
InScope(path, k) == k \in NetworkOf[path] \/ k = GatewayOf[path]

\* The first row of a key.
FirstEvidence(row) ==
  [mac |-> row.mac, state |-> row.state, binding_conflict |-> FALSE]

\* merge_peer_evidence: a conflict stays, and hides the addresses that differ.
Merge(peer, row) ==
  LET conflict == /\ ~peer.binding_conflict
                  /\ peer.mac # NONE /\ row.mac # NONE /\ peer.mac # row.mac
      fills == ~peer.binding_conflict /\ peer.mac = NONE
  IN [mac |-> IF conflict THEN NONE ELSE IF fills THEN row.mac ELSE peer.mac,
      state |-> IF peer.state = NONE THEN row.state ELSE peer.state,
      binding_conflict |-> peer.binding_conflict \/ conflict]

\* insert_peer_evidence.
Inserted(peer, row) == IF peer = NONE THEN FirstEvidence(row) ELSE Merge(peer, row)

Says(reading, k) == reading.outcome # "failed" /\ k \in DOMAIN reading.rows

\* What the readings add up to for a key, in the order of the sources; NONE if
\* none says anything of it.
PeerRead(readings, k) ==
  LET peer[i \in 0 .. Len(readings)] ==
        IF i = 0 THEN NONE
        ELSE IF Says(readings[i], k) THEN Inserted(peer[i - 1], readings[i].rows[k])
        ELSE peer[i - 1]
  IN peer[Len(readings)]

\* The keys a collection reports.
ReportedKeys(path, readings) ==
  {k \in Keys : InScope(path, k) /\ PeerRead(readings, k) # NONE}

\* evidence_health, and the conflicts that degrade it.
EvidenceHealth(readings, peers) ==
  CASE Completed(readings) = {} -> "unavailable"
    [] Completed(readings) # {} /\ Completed(readings) # DOMAIN readings ->
         "degraded"
    [] OTHER -> IF \E k \in DOMAIN peers : peers[k].binding_conflict
                THEN "degraded" ELSE "ok"

PeerSnapshot ==
  [health : {"queued", "unavailable", "degraded", "ok"},
   failed_sources : SUBSET SourceIndexes,
   peers : UNION {[K -> Peer] : K \in SUBSET Keys}]

\* PeerSnapshot::pending.
Pending == [health |-> "queued", failed_sources |-> {}, peers |-> <<>>]

\* collect, once every source was run.
Collected(path, readings) ==
  LET peers == [k \in ReportedKeys(path, readings) |-> PeerRead(readings, k)]
  IN [health |-> EvidenceHealth(readings, peers),
      failed_sources |-> DOMAIN readings \ Completed(readings),
      peers |-> peers]
=============================================================================
