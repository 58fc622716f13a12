------------------------------ MODULE LinkPath ------------------------------
(***************************************************************************)
(* A link snapshot (model.rs, LinkSnapshot), the part of it that is the    *)
(* identity of a path (its fingerprint), and the pure steps by which the   *)
(* monitor turns what the host reports into the link it publishes          *)
(* (net.rs, collect_light_link and the two should_hold_* predicates).      *)
(*                                                                         *)
(* A value a snapshot may hold is a member of a small set.  `gateway`      *)
(* stands for the route facts that are read together: gateway, link type   *)
(* and default addresses.  `ssid` stands for the network name and the      *)
(* association identifier; REDACTED is a name the host hides               *)
(* (ssid_restricted).  `lease` stands for what a snapshot carries outside  *)
(* its identity: lease times, security, addresses that are not default.    *)
(***************************************************************************)
EXTENDS Integers

CONSTANTS
  Interfaces,    \* names of interfaces that can own the default route
  Underlays,     \* physical underlays a tunnel can be corroborated to use
  Names,         \* network names
  Gateways,      \* gateway, link type and default addresses
  ResolverLists, \* resolver configurations
  Leases,        \* what is outside the identity of a path
  NONE,          \* Option::None
  REDACTED,      \* a network name the host withholds
  Grace          \* PATH_TRANSITION_GRACE in monitor intervals

ASSUME GraceAssumption == Grace \in Nat \ {0}

ASSUME NoneIsNoName == NONE \notin Names /\ REDACTED \notin Names

Link ==
  [interface : Interfaces \cup {NONE},
   underlay  : Underlays \cup {NONE},
   ssid      : Names \cup {NONE, REDACTED},
   gateway   : Gateways \cup {NONE},
   resolvers : ResolverLists,
   lease     : Leases \cup {NONE}]

ASSUME NoneIsNoLink == NONE \notin Link

\* The identity of a path: everything in a snapshot but its lease.
Fingerprint(link) ==
  [interface |-> link.interface,
   underlay  |-> link.underlay,
   ssid      |-> link.ssid,
   gateway   |-> link.gateway,
   resolvers |-> link.resolvers]

Fingerprints ==
  [interface : Interfaces \cup {NONE},
   underlay  : Underlays \cup {NONE},
   ssid      : Names \cup {NONE, REDACTED},
   gateway   : Gateways \cup {NONE},
   resolvers : ResolverLists]

ASSUME NoneIsNoFingerprint == NONE \notin Fingerprints

\* A light collection reads everything but the resolvers, which it keeps.
LightLink(previous, host) == [host EXCEPT !.resolvers = previous.resolvers]

\* The route just disappeared from under a confirmed path.
RouteLost(previous, candidate) ==
  /\ previous # NONE
  /\ previous.interface # NONE
  /\ candidate.interface = NONE

\* The tunnel is still there but nothing corroborates its underlay any more.
UnderlayLost(previous, candidate) ==
  /\ previous # NONE
  /\ previous.interface = candidate.interface
  /\ previous.underlay # NONE
  /\ candidate.underlay = NONE

-----------------------------------------------------------------------------
(***************************************************************************)
(* The age of a gap, in intervals: NoGap while nothing is missing,         *)
(* otherwise the time since the first round that saw the gap, capped at    *)
(* Grace because every older gap is treated alike.                         *)
(***************************************************************************)
NoGap == -1

GapAges == {NoGap} \cup (0 .. Grace)

\* Fault: the start of a gap is not forgotten when the gap closes.
GapSeen_Stale(age, lost) == IF lost /\ age = NoGap THEN 0 ELSE age

\* incomplete_since.get_or_insert(now), or None when nothing is missing.
GapSeen(age, lost) ==
  IF ~lost THEN NoGap ELSE IF age = NoGap THEN 0 ELSE age

\* The gap is young enough for the confirmed path to be retained.
Held(age) == age # NoGap /\ age < Grace

\* The age one interval later.
GapOlder(age) == IF age \in 0 .. (Grace - 1) THEN age + 1 ELSE age

\* The underlay, name and association of the confirmed path are put back.
WithUnderlayOf(previous, candidate) ==
  [candidate EXCEPT !.underlay = previous.underlay,
                    !.ssid     = previous.ssid,
                    !.lease    = previous.lease]
=============================================================================
