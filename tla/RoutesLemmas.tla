---------------------------- MODULE RoutesLemmas ----------------------------
(* What the selection functions of Routes return, for every set of routes. *)
EXTENDS Routes, WellFoundedInduction, TLAPS

(* Every non-empty set of natural numbers has a least element. *)
LEMMA LeastNat ==
    ASSUME NEW T \in SUBSET Nat, T # {}
    PROVE  \E x \in T : \A y \in T : x <= y
<1>1. \E x \in T : \A y \in T : <<y, x>> \notin OpToRel(<, Nat)
    BY NatLessThanWellFounded, WFMin, Zenon
<1>2. PICK x \in T : \A y \in T : <<y, x>> \notin OpToRel(<, Nat)
    BY <1>1
<1>3. \A y \in T : ~(y < x)
    BY <1>2 DEF OpToRel
<1> QED BY <1>3

(* Some candidate has the least ToS, and the least priority for that ToS:  *)
(* the CHOOSE of bestCandidateRoute has a witness.                         *)
LEMMA BestExists ==
    ASSUME NEW candidates \in SUBSET Route, candidates # {}
    PROVE  \E c \in candidates : \A d \in candidates : ~Better(d, c)
<1> DEFINE Tos == {c.tos : c \in candidates}
<1>1. Tos \in SUBSET Nat /\ Tos # {}
    BY DEF Route
<1>2. PICK tos \in Tos : \A s \in Tos : tos <= s
    BY <1>1, LeastNat, Zenon
<1> DEFINE Priority == {c.priority : c \in {d \in candidates : d.tos = tos}}
<1>3. Priority \in SUBSET Nat /\ Priority # {}
    BY <1>2 DEF Route
<1>4. PICK priority \in Priority : \A p \in Priority : priority <= p
    BY <1>3, LeastNat, Zenon
<1>5. PICK c \in candidates : c.tos = tos /\ c.priority = priority
    BY <1>4
<1>6. ASSUME NEW d \in candidates PROVE ~Better(d, c)
    <2>1. tos <= d.tos /\ d.tos \in Nat /\ tos \in Nat
        BY <1>1, <1>2
    <2>2. d.tos = tos => priority <= d.priority
        BY <1>4
    <2>3. d.priority \in Nat /\ priority \in Nat
        BY <1>3, <1>4 DEF Route
    <2> QED BY <1>5, <2>1, <2>2, <2>3 DEF Better
<1> QED BY <1>6

(* The best candidate is a candidate that no other one beats. *)
LEMMA BestIsCandidate ==
    ASSUME NEW candidates \in SUBSET Route, candidates # {}
    PROVE  /\ bestCandidateRoute(candidates) \in candidates
           /\ \A d \in candidates : ~Better(d, bestCandidateRoute(candidates))
BY BestExists DEF bestCandidateRoute

(* The target is a route of the "to" slot; there is one as soon as there   *)
(* is a candidate, or always if a blackhole is configured.                 *)
LEMMA TargetInToSlot ==
    ASSUME NEW candidates \in SUBSET Route, NEW to \in ToConfiguration
    PROVE  /\ targetRoute(candidates, to) \in Route \cup {NoRoute}
           /\ targetRoute(candidates, to) # NoRoute =>
                  ToMatch(to, targetRoute(candidates, to))
           /\ candidates # {} \/ to.blackhole => targetRoute(candidates, to) # NoRoute
           /\ candidates = {} /\ ~to.blackhole => targetRoute(candidates, to) = NoRoute
<1> DEFINE best == bestCandidateRoute(candidates)
           at(tos, via) == [dst |-> to.prefix, table |-> to.table,
                            protocol |-> to.protocol, priority |-> to.metric,
                            tos |-> tos, via |-> via]
<1>1. ASSUME NEW tos \in Nat, NEW via \in NextHop \cup {Blackhole}
      PROVE  at(tos, via) \in Route /\ ToMatch(to, at(tos, via))
    BY DEF Route, ToConfiguration, ToMatch
<1>2. NoRoute \notin Route
    BY NilValues
<1>3. CASE candidates # {}
    <2>1. best \in Route /\ best # NoRoute
        BY <1>2, <1>3, BestIsCandidate
    <2>2. best.tos \in Nat /\ best.via \in NextHop \cup {Blackhole}
        BY <2>1 DEF Route
    <2>3. targetRoute(candidates, to) = at(best.tos, best.via)
        BY <2>1 DEF targetRoute
    <2>4. targetRoute(candidates, to) \in Route
          /\ ToMatch(to, targetRoute(candidates, to))
        BY <1>1, <2>2, <2>3
    <2> QED BY <1>2, <1>3, <2>4
<1>4. CASE candidates = {} /\ to.blackhole
    <2>1. targetRoute(candidates, to) = at(0, Blackhole)
        BY <1>4 DEF targetRoute, bestCandidateRoute
    <2>2. targetRoute(candidates, to) \in Route
          /\ ToMatch(to, targetRoute(candidates, to))
        BY <1>1, <2>1
    <2> QED BY <1>2, <1>4, <2>2
<1>5. CASE candidates = {} /\ ~to.blackhole
    BY <1>5 DEF targetRoute, bestCandidateRoute
<1> QED BY <1>3, <1>4, <1>5

(* Adding a route keeps one route per slot and brings nothing else in. *)
LEMMA AddKeepsSlots ==
    ASSUME NEW candidates, NEW route,
           \A c, d \in candidates : Slot(c) = Slot(d) => c = d
    PROVE  LET new == addCandidateRoute(candidates, route)
           IN  /\ new \subseteq candidates \cup {route}
               /\ \A c, d \in new : Slot(c) = Slot(d) => c = d
BY DEF addCandidateRoute
=============================================================================
