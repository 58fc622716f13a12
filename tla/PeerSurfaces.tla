---------------------------- MODULE PeerSurfaces ----------------------------
(***************************************************************************)
(* How the neighbours of a path are shown: the order of the peer table     *)
(* (ui.rs), the operator's selection in it (main.rs, InteractionState and  *)
(* apply_tui_key), and the lines the plain stream prints (plain.rs).       *)
(***************************************************************************)
EXTENDS PeerDwell

CONSTANT RouteGatewayOf  \* per path: the key of the route's gateway, or NONE

ASSUME SurfacesAssumption == RouteGatewayOf \in [Paths -> Keys \cup {NONE}]

-----------------------------------------------------------------------------
(***************************************************************************)
(* ui.rs: rows that need attention come first.                             *)
(***************************************************************************)
\* What in a row asks for attention, and how much of it.
Attention(path, peer, dwell, k) ==
  {<<110, peer.binding_conflict>>,
   <<100, k = RouteGatewayOf[path]>>,
   <<95, "binding" \in dwell.recent>>,
   <<90, peer.state \in {"FAILED", "INCOMPLETE"}>>,
   <<85, "return" \in dwell.recent>>,
   <<80, "state" \in dwell.recent>>,
   <<70, peer.state \in {"PROBE", "DELAY"}>>,
   <<60, peer.state = "REACHABLE">>,
   <<50, dwell.observations = 1>>,
   <<0, TRUE>>}

\* peer_attention_rank_at: the first match from the top.
Rank(path, peer, dwell, k) ==
  Max({a[1] : a \in {b \in Attention(path, peer, dwell, k) : b[2]}})

\* The rows above the row of k: by rank, then by key.
Above(rank, k) ==
  {l \in DOMAIN rank : rank[l] > rank[k] \/ (rank[l] = rank[k] /\ l < k)}

\* ordered_peer_keys.
Ordered(path, peers, dwells) ==
  LET rank == [k \in DOMAIN peers |-> Rank(path, peers[k], dwells[k], k)]
  IN [i \in 1 .. Cardinality(DOMAIN peers) |->
        CHOOSE k \in DOMAIN peers : Cardinality(Above(rank, k)) = i - 1]

-----------------------------------------------------------------------------
(***************************************************************************)
(* main.rs: the selection is a key; the offset is where it was last.       *)
(***************************************************************************)
Modes == {"overview", "link", "peers"}

Interaction ==
  [active_mode : Modes, peer_offset : Nat, peer_selection : Keys \cup {NONE},
   can_navigate : BOOLEAN]

Least(a, b) == IF a < b THEN a ELSE b

\* select_peer_index.
Selected(interaction, order, index) ==
  IF order = <<>>
  THEN [interaction EXCEPT !.peer_offset = 0, !.peer_selection = NONE]
  ELSE LET at == Least(index, Len(order) - 1)
       IN [interaction EXCEPT !.peer_offset = at,
                              !.peer_selection = order[at + 1]]

\* Fault: a selection that is a place, not a neighbour.
Normalized_ByPlace(interaction, order) ==
  Selected(interaction, order, interaction.peer_offset)

\* normalize_peer_selection: find the selected key, or stay at its place.
Normalized(interaction, order) ==
  LET places == {i \in DOMAIN order : order[i] = interaction.peer_selection}
  IN Selected(interaction, order,
       IF places = {} THEN interaction.peer_offset
                      ELSE (CHOOSE i \in places : TRUE) - 1)

ModeOfKey(mode, key) ==
  CASE key = "1" -> "overview"
    [] key = "2" -> "link"
    [] key = "3" -> "peers"
    [] key = "Tab" -> CASE mode = "overview" -> "link"
                        [] mode = "link" -> "peers"
                        [] mode = "peers" -> "overview"

ModeKeys == {"1", "2", "3", "Tab"}
MoveKeys == {"Down", "Up", "PageDown", "PageUp", "Home", "End"}
OtherKeys == {"other"}

\* Where a key moves the selection, from an offset and up to a maximum.
Target(key, offset, page, maximum) ==
  LET back(by) == IF offset > by THEN offset - by ELSE 0 IN
  CASE key = "Down" -> Least(offset + 1, maximum)
    [] key = "Up" -> back(1)
    [] key = "PageDown" -> Least(offset + page, maximum)
    [] key = "PageUp" -> back(page)
    [] key = "Home" -> 0
    [] key = "End" -> maximum

\* apply_tui_key, the keys that navigate; capacity is what peer_page_capacity
\* says of the terminal when the key is read.
KeyApplied(interaction, order, key, capacity) ==
  LET maximum == IF capacity = 0 \/ order = <<>> THEN 0 ELSE Len(order) - 1
      page == IF capacity = 0 THEN 1 ELSE capacity
      normal == Normalized(interaction, order)
      bounded == [normal EXCEPT !.peer_offset = Least(@, maximum)]
  IN IF key \in ModeKeys /\ bounded.can_navigate
     THEN [bounded EXCEPT !.active_mode = ModeOfKey(@, key)]
     ELSE IF key \in MoveKeys /\ bounded.active_mode = "peers"
     THEN Selected(bounded, order,
                   Target(key, bounded.peer_offset, page, maximum))
     ELSE bounded

\* Fault: a highlight that stays at the top of the page.
Frame_TopOfPage(order, offset, capacity) ==
  LET index == Least(offset, IF order = <<>> THEN 0 ELSE Len(order) - 1)
      first == IF capacity = 0 THEN 0 ELSE (index \div capacity) * capacity
      last == Least(first + capacity, Len(order))
  IN [rows |-> SubSeq(order, first + 1, last),
      highlighted |-> IF first < last THEN order[first + 1] ELSE NONE]

\* render_peer_table: the rows of the page around the offset, of which the
\* one at the offset is highlighted.
Frame(order, offset, capacity) ==
  LET index == Least(offset, IF order = <<>> THEN 0 ELSE Len(order) - 1)
      first == IF capacity = 0 THEN 0 ELSE (index \div capacity) * capacity
      last == Least(first + capacity, Len(order))
  IN [rows |-> SubSeq(order, first + 1, last),
      highlighted |-> IF index \in first .. (last - 1) THEN order[index + 1]
                                                       ELSE NONE]

-----------------------------------------------------------------------------
(***************************************************************************)
(* plain.rs, peer_change_lines: the neighbours a read adds and removes.    *)
(***************************************************************************)
PlainAdded(before, after) ==
  IF before.health = "queued" THEN {}
  ELSE DOMAIN after.peers \ DOMAIN before.peers

\* Fault: absences taken from any read.
PlainRemoved_AnyRead(before, after) ==
  IF before.health = "queued" THEN {}
  ELSE DOMAIN before.peers \ DOMAIN after.peers

PlainRemoved(before, after) ==
  IF before.health = "queued" \/ after.failed_sources # {} THEN {}
  ELSE DOMAIN before.peers \ DOMAIN after.peers

\* The neighbours whose binding a read is said to change.
PlainRebound(before, after) ==
  {k \in DOMAIN before.peers \cap DOMAIN after.peers :
     /\ before.health # "queued"
     /\ ~before.peers[k].binding_conflict /\ ~after.peers[k].binding_conflict
     /\ before.peers[k].mac # after.peers[k].mac}

=============================================================================
