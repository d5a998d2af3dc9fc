------------------------------- MODULE Routes -------------------------------
(***************************************************************************)
(* The values the program handles: kernel routes, the two halves of a      *)
(* last-resort gateway's configuration, and the pure functions that select *)
(* a route among the candidates (src/gateways/gateway.go, config.go).      *)
(*                                                                         *)
(* A route keeps the fields the selection and the matching read.  All the  *)
(* others (gateway, interface, scope, source, multipath, type, flags) only *)
(* take part in Route.Equal: they are one field, "via".                    *)
(***************************************************************************)
EXTENDS Integers, FiniteSets

CONSTANTS
    Prefix,     \* destination prefixes, equality is IPNetEqual
    Table,      \* routing table identifiers
    Protocol,   \* route protocol identifiers
    NextHop,    \* ways a packet may leave: gateway, interface, multipath...
    Blackhole,  \* the "via" of an RTN_BLACKHOLE route with nothing else set
    NoRoute,    \* the nil *Route
    Wildcard    \* the nil Protocol or Metric of a "from" half

Route == [dst : Prefix, table : Table, protocol : Protocol,
          priority : Nat, tos : Nat, via : NextHop \cup {Blackhole}]

FromConfiguration == [prefix : Prefix, table : Table,
                      protocol : Protocol \cup {Wildcard},
                      metric : Nat \cup {Wildcard}]

ToConfiguration == [prefix : Prefix, table : Table, protocol : Protocol,
                    metric : Nat, blackhole : BOOLEAN]

LRGConfiguration == [from : FromConfiguration, to : ToConfiguration]

ASSUME NilValues == /\ NoRoute \notin Route
                    /\ Wildcard \notin Protocol
                    /\ Wildcard \notin Nat

-----------------------------------------------------------------------------
(* LRGFromConfiguration.Match: a source route, a candidate. *)
FromMatch(from, route) ==
    /\ route.dst = from.prefix
    /\ from.protocol \in {Wildcard, route.protocol}
    /\ from.metric \in {Wildcard, route.priority}
    /\ route.table = from.table

(* LRGToConfiguration.Match: the last-resort gateway itself. *)
ToMatch(to, route) ==
    /\ route.dst = to.prefix
    /\ route.protocol = to.protocol
    /\ route.priority = to.metric
    /\ route.table = to.table

(* The fields that identify a route among the candidates, which are also   *)
(* the key of a route in the kernel: a route replaces the one in its slot. *)
Slot(route) == <<route.dst, route.table, route.tos, route.priority>>

(* The order of bestCandidateRoute: ToS first, then priority. *)
Better(a, b) ==
    \/ a.tos < b.tos
    \/ a.tos = b.tos /\ a.priority < b.priority

-----------------------------------------------------------------------------
(* The candidates, as a set: CandidateList keeps them in a slice, like the *)
(* code, and shows that the order of the slice is never observed.          *)

removeCandidateRoute(candidates, route) == candidates \ {route}

(* Mutant: the route that was in the slot stays. *)
addWithoutReplacing(candidates, route) == candidates \cup {route}

(* A candidate takes the place of the one in its slot. *)
addCandidateRoute(candidates, route) ==
    IF route \in candidates
    THEN candidates
    ELSE {c \in candidates : Slot(c) # Slot(route)} \cup {route}

bestCandidateRoute(candidates) ==
    IF candidates = {}
    THEN NoRoute
    ELSE CHOOSE c \in candidates : \A d \in candidates : ~Better(d, c)

(* Mutants: the target keeps the metric of the candidate; a blackhole is   *)
(* used without being asked for; it is not used when asked for.            *)
targetKeepsMetric(candidates, to) ==
    LET best == bestCandidateRoute(candidates)
    IN  IF best = NoRoute THEN NoRoute
        ELSE [best EXCEPT !.dst = to.prefix, !.table = to.table,
                          !.protocol = to.protocol]

targetAlwaysBlackhole(candidates, to) ==
    LET best == bestCandidateRoute(candidates)
    IN  [dst |-> to.prefix, table |-> to.table, protocol |-> to.protocol,
         priority |-> to.metric, tos |-> 0,
         via |-> IF best = NoRoute THEN Blackhole ELSE best.via]

targetNeverBlackhole(candidates, to) ==
    LET best == bestCandidateRoute(candidates)
    IN  IF best = NoRoute THEN NoRoute
        ELSE [best EXCEPT !.dst = to.prefix, !.table = to.table,
                          !.protocol = to.protocol, !.priority = to.metric]

(* The route to install for these candidates: the best one moved to the    *)
(* slot of the "to" half, a blackhole, or nothing.                         *)
targetRoute(candidates, to) ==
    LET best   == bestCandidateRoute(candidates)
        at(tos, via) == [dst |-> to.prefix, table |-> to.table,
                         protocol |-> to.protocol, priority |-> to.metric,
                         tos |-> tos, via |-> via]
    IN  IF best # NoRoute THEN at(best.tos, best.via)
        ELSE IF to.blackhole THEN at(0, Blackhole)
        ELSE NoRoute
=============================================================================
