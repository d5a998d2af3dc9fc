--------------------------- MODULE RibStreamProofs ---------------------------
(***************************************************************************)
(* The stream of notifications of the netlink component, for any routes,   *)
(* and any number of changes, of broken subscriptions and of failed        *)
(* listings.  A listing overlaps the events that the subscription receives *)
(* meanwhile; what makes it harmless is that each half of the dump is the  *)
(* tables at some point of the history those events tell, and that         *)
(* replaying the whole history from any of its points ends where it does.  *)
(***************************************************************************)
EXTENDS RibStream, SequenceTheorems, RoutesLemmas, TLAPS

Event == [type : {"NEWROUTE", "DELROUTE"}, route : Route]

(* The tables, or the view of a subscriber, after an event. *)
After(routes, e) ==
    IF e.type = "NEWROUTE"
    THEN addCandidateRoute(routes, e.route)
    ELSE removeCandidateRoute(routes, e.route)

(* h[i] is what is left of h[0] after the first i events. *)
Replays(h, events) ==
    /\ h \in [0..Len(events) -> SUBSET Route]
    /\ \A i \in 1..Len(events) : h[i] = After(h[i - 1], events[i])

OnePerSlot(routes) == \A r, q \in routes : Slot(r) = Slot(q) => r = q

(* What the kernel's tables have been while these events were reported:    *)
(* one route per slot, and no removal but of a route that is there.        *)
IsHistory(h, events) ==
    /\ Replays(h, events)
    /\ \A i \in 0..Len(events) : OnePerSlot(h[i])
    /\ \A i \in 1..Len(events) :
          events[i].type = "DELROUTE" => events[i].route \in h[i - 1]

IPv4(routes) == {r \in routes : r.dst \notin Prefix6}
IPv6(routes) == {r \in routes : r.dst \in Prefix6}

-----------------------------------------------------------------------------
(* One event: what it does to its slot, and that it does nothing else. *)
LEMMA AfterType ==
    ASSUME NEW routes \in SUBSET Route, NEW e \in Event
    PROVE  /\ After(routes, e) \in SUBSET Route
           /\ OnePerSlot(routes) => OnePerSlot(After(routes, e))
<1>1. e.route \in Route
    BY DEF Event
<1>2. After(routes, e) \in SUBSET Route
    BY <1>1 DEF After, addCandidateRoute, removeCandidateRoute
<1>3. ASSUME OnePerSlot(routes) PROVE OnePerSlot(After(routes, e))
    BY <1>3 DEF After, OnePerSlot, addCandidateRoute, removeCandidateRoute
<1> QED BY <1>2, <1>3

LEMMA AfterElsewhere ==
    ASSUME NEW routes, NEW e, NEW r, Slot(r) # Slot(e.route)
    PROVE  r \in After(routes, e) <=> r \in routes
BY DEF After, addCandidateRoute, removeCandidateRoute

LEMMA AfterNew ==
    ASSUME NEW routes, NEW e, e.type = "NEWROUTE", NEW r, Slot(r) = Slot(e.route),
           \A q \in routes : Slot(q) = Slot(e.route) /\ e.route \in routes => q = e.route
    PROVE  r \in After(routes, e) <=> r = e.route
BY DEF After, addCandidateRoute

LEMMA AfterDel ==
    ASSUME NEW routes, NEW e \in Event, e.type = "DELROUTE", NEW r
    PROVE  r \in After(routes, e) <=> r \in routes /\ r # e.route
BY DEF After, removeCandidateRoute

(* Any set of routes can be replayed from. *)
LEMMA ReplayExists ==
    ASSUME NEW events \in Seq(Event), NEW start \in SUBSET Route
    PROVE  \E g : Replays(g, events) /\ g[0] = start
<1> DEFINE Upto(n, g) ==
              /\ g \in [0..n -> SUBSET Route]
              /\ g[0] = start
              /\ \A i \in 1..n : g[i] = After(g[i - 1], events[i])
           T == {n \in 0..Len(events) : ~\E g : Upto(n, g)}
<1>1. Len(events) \in Nat
    BY LenProperties
<1>2. ASSUME T # {} PROVE FALSE
    <2>1. T \in SUBSET Nat
        BY <1>1
    <2>2. PICK n \in T : \A m \in T : n <= m
        BY <1>2, <2>1, LeastNat, Zenon
    <2>3. n \in Nat /\ n <= Len(events)
        BY <1>1
    <2>4. CASE n = 0
        <3>1. Upto(0, [i \in 0..0 |-> start])
            OBVIOUS
        <3> QED BY <2>2, <2>4, <3>1
    <2>5. CASE n # 0
        <3>1. n - 1 \in 0..Len(events) /\ ~(n <= n - 1)
            BY <1>1, <2>3, <2>5
        <3>2. n - 1 \notin T
            BY <2>2, <3>1
        <3>3. PICK g : Upto(n - 1, g)
            BY <3>1, <3>2
        <3> DEFINE f == [i \in 0..n |-> IF i = n THEN After(g[n - 1], events[n])
                                       ELSE g[i]]
        <3>4. n \in 1..Len(events) /\ events[n] \in Event
            BY <1>1, <2>3, <2>5, ElementOfSeq
        <3>5. g[n - 1] \in SUBSET Route
            BY <2>3, <2>5, <3>3
        <3>6. After(g[n - 1], events[n]) \in SUBSET Route
            BY <3>4, <3>5, AfterType
        <3>7. f \in [0..n -> SUBSET Route]
            BY <2>3, <2>5, <3>3, <3>6
        <3>8. f[0] = start
            BY <2>3, <2>5, <3>3
        <3>9. ASSUME NEW i \in 1..n PROVE f[i] = After(f[i - 1], events[i])
            BY <2>3, <2>5, <3>3
        <3> QED BY <2>2, <3>7, <3>8, <3>9
    <2> QED BY <2>4, <2>5
<1>3. PICK g : Upto(Len(events), g)
    BY <1>1, <1>2
<1> QED BY <1>3 DEF Replays

(* Events can be replayed in one way only. *)
LEMMA ReplayUnique ==
    ASSUME NEW events \in Seq(Event), NEW f, NEW g, f[0] = g[0],
           \A i \in 1..Len(events) : /\ f[i] = After(f[i - 1], events[i])
                                     /\ g[i] = After(g[i - 1], events[i])
    PROVE  f[Len(events)] = g[Len(events)]
<1> DEFINE T == {n \in 0..Len(events) : f[n] # g[n]}
<1>1. Len(events) \in Nat
    BY LenProperties
<1>2. ASSUME T # {} PROVE FALSE
    <2>1. T \in SUBSET Nat
        BY <1>1
    <2>2. PICK n \in T : \A m \in T : n <= m
        BY <1>2, <2>1, LeastNat, Zenon
    <2>3. n \in 1..Len(events)
        BY <1>1, <2>2
    <2>4. n - 1 \in 0..Len(events) /\ ~(n <= n - 1)
        BY <1>1, <2>3
    <2>5. f[n - 1] = g[n - 1]
        BY <2>2, <2>4
    <2> QED BY <2>2, <2>3, <2>5
<1> QED BY <1>1, <1>2

(* What is in the tables at some point stays there unless a later event is *)
(* about its slot, and a slot stays empty unless one is.                   *)
LEMMA Persists ==
    ASSUME NEW events \in Seq(Event), NEW h, Replays(h, events),
           NEW k \in 0..Len(events), NEW r \in Route,
           \A i \in (k + 1)..Len(events) : Slot(events[i].route) # Slot(r)
    PROVE  r \in h[Len(events)] <=> r \in h[k]
<1> DEFINE T == {n \in k..Len(events) : ~(r \in h[n] <=> r \in h[k])}
<1>1. Len(events) \in Nat /\ k \in Nat /\ k <= Len(events)
    BY LenProperties
<1>2. ASSUME T # {} PROVE FALSE
    <2>1. T \in SUBSET Nat
        BY <1>1
    <2>2. PICK n \in T : \A m \in T : n <= m
        BY <1>2, <2>1, LeastNat, Zenon
    <2>3. n \in (k + 1)..Len(events) /\ n \in 1..Len(events)
        BY <1>1, <2>2
    <2>4. n - 1 \in k..Len(events) /\ ~(n <= n - 1)
        BY <1>1, <2>3
    <2>5. r \in h[n - 1] <=> r \in h[k]
        BY <2>2, <2>4
    <2>6. h[n] = After(h[n - 1], events[n])
        BY <2>3 DEF Replays
    <2>7. r \in h[n] <=> r \in h[n - 1]
        BY <2>3, <2>6, AfterElsewhere
    <2> QED BY <2>2, <2>5, <2>7
<1>3. \A n \in k..Len(events) : r \in h[n] <=> r \in h[k]
    BY <1>2
<1> QED BY <1>1, <1>3

(* In one slot: a replay of the whole history that starts from what the    *)
(* slot held after k events ends with what it holds in the end.            *)
LEMMA SlotConverges ==
    ASSUME NEW events \in Seq(Event), NEW h, IsHistory(h, events),
           NEW g, Replays(g, events), NEW k \in 0..Len(events), NEW s,
           \A r \in Route : Slot(r) = s => (r \in g[0] <=> r \in h[k])
    PROVE  \A r \in Route :
              Slot(r) = s => (r \in g[Len(events)] <=> r \in h[Len(events)])
<1> DEFINE Agree(i, j) ==
              \A r \in Route : Slot(r) = s => (r \in g[i] <=> r \in h[j])
           Claim(i) == Agree(i, i) \/ (i <= k /\ Agree(i, k))
           T == {n \in 0..Len(events) : ~Claim(n)}
<1>1. Len(events) \in Nat /\ k \in Nat /\ k <= Len(events)
    BY LenProperties
<1>2. ASSUME NEW n \in 1..Len(events), Claim(n - 1) PROVE Claim(n)
    <2> DEFINE e == events[n]
    <2>0. e \in Event
        BY ElementOfSeq
    <2>1. /\ e \in Event /\ n - 1 \in 0..Len(events)
          /\ e.type = "NEWROUTE" \/ e.type = "DELROUTE"
        BY <1>1, <2>0 DEF Event
    <2>2. /\ g[n] = After(g[n - 1], e) /\ h[n] = After(h[n - 1], e)
          /\ g[n - 1] \subseteq Route /\ h[n - 1] \subseteq Route
        BY <2>1 DEF IsHistory, Replays
    <2>3. /\ OnePerSlot(h[n - 1]) /\ OnePerSlot(h[k])
          /\ e.type = "DELROUTE" => e.route \in h[n - 1]
        BY <1>1, <2>1 DEF IsHistory
    <2>4. h[k] \subseteq Route
        BY <1>1 DEF IsHistory, Replays
    <2>5. Agree(n - 1, n - 1) \/ (n <= k /\ Agree(n - 1, k))
        BY <1>1, <1>2
    <2> HIDE DEF e
    <2>6. CASE Slot(e.route) # s
        <3>1. \A r \in Route : Slot(r) = s =>
                 /\ r \in g[n] <=> r \in g[n - 1]
                 /\ r \in h[n] <=> r \in h[n - 1]
            BY <2>2, <2>6, AfterElsewhere
        <3> QED BY <2>5, <3>1
    <2>7. ASSUME Slot(e.route) = s, e.type = "NEWROUTE" PROVE Agree(n, n)
        <3>1. \A q, r \in h[n - 1] : Slot(q) = s /\ Slot(r) = s => q = r
            BY <2>3 DEF OnePerSlot
        <3>2. \A q, r \in g[n - 1] : Slot(q) = s /\ Slot(r) = s => q = r
            BY <2>2, <2>3, <2>5 DEF OnePerSlot
        <3>3. \A r \in Route : Slot(r) = s => (r \in h[n] <=> r = e.route)
            BY <2>2, <2>7, <3>1, AfterNew
        <3>4. \A r \in Route : Slot(r) = s => (r \in g[n] <=> r = e.route)
            BY <2>2, <2>7, <3>2, AfterNew
        <3> QED BY <3>3, <3>4
    <2>8. ASSUME Slot(e.route) = s, e.type = "DELROUTE" PROVE Claim(n)
        <3>1. \A r \in Route : /\ r \in g[n] <=> r \in g[n - 1] /\ r # e.route
                               /\ r \in h[n] <=> r \in h[n - 1] /\ r # e.route
            BY <2>1, <2>2, <2>8, AfterDel
        <3>2. CASE Agree(n - 1, n - 1)
            BY <3>1, <3>2
        <3>3. CASE n <= k /\ Agree(n - 1, k) /\ e.route \notin h[k]
            BY <3>1, <3>3
        <3>4. CASE Agree(n - 1, k) /\ e.route \in h[k]
            <4>1. \A r \in h[k] \cup h[n - 1] : Slot(r) = s => r = e.route
                BY <2>3, <2>8, <3>4 DEF OnePerSlot
            <4>2. Agree(n, n)
                BY <2>2, <2>4, <3>1, <3>4, <4>1
            <4> QED BY <4>2
        <3> QED BY <2>5, <3>2, <3>3, <3>4
    <2> QED BY <2>1, <2>6, <2>7, <2>8 DEF e
<1>3. ASSUME T # {} PROVE FALSE
    <2>1. T \in SUBSET Nat
        BY <1>1
    <2>2. PICK n \in T : \A m \in T : n <= m
        BY <1>3, <2>1, LeastNat, Zenon
    <2>3. n \in 0..Len(events) /\ ~Claim(n)
        BY <2>2
    <2>4. n # 0
        BY <1>1, <2>3
    <2>5. n \in 1..Len(events) /\ n - 1 \in 0..Len(events) /\ ~(n <= n - 1)
        BY <1>1, <2>3, <2>4
    <2>6. Claim(n - 1)
        BY <2>2, <2>5
    <2> QED BY <1>2, <2>3, <2>5, <2>6
<1>4. Claim(Len(events))
    BY <1>1, <1>3
<1> QED BY <1>1, <1>4

(* The two families are listed one after the other, whatever happened in   *)
(* between.                                                                *)
LEMMA Converges ==
    ASSUME NEW events \in Seq(Event), NEW h, IsHistory(h, events),
           NEW g, Replays(g, events),
           NEW j \in 0..Len(events), NEW k \in 0..Len(events),
           g[0] = IPv4(h[j]) \cup IPv6(h[k])
    PROVE  g[Len(events)] = h[Len(events)]
<1>1. Len(events) \in Nat
    BY LenProperties
<1>2. g[Len(events)] \subseteq Route /\ h[Len(events)] \subseteq Route
    <2>1. Len(events) \in 0..Len(events)
        BY <1>1
    <2> QED BY <2>1 DEF IsHistory, Replays
<1>3. ASSUME NEW r \in Route
      PROVE  r \in g[Len(events)] <=> r \in h[Len(events)]
    <2>1. CASE r.dst \notin Prefix6
        <3>1. \A q \in Route : Slot(q) = Slot(r) => (q \in g[0] <=> q \in h[j])
            BY <2>1 DEF Slot, IPv4, IPv6
        <3> QED BY <3>1, SlotConverges
    <2>2. CASE r.dst \in Prefix6
        <3>1. \A q \in Route : Slot(q) = Slot(r) => (q \in g[0] <=> q \in h[k])
            BY <2>2 DEF Slot, IPv4, IPv6
        <3> QED BY <3>1, SlotConverges
    <2> QED BY <2>1, <2>2
<1> QED BY <1>2, <1>3

(* One event more at the end, or one less at the beginning. *)
LEMMA Extended ==
    ASSUME NEW events \in Seq(Event), NEW h, Replays(h, events), NEW e \in Event
    PROVE  \E f : /\ Replays(f, Append(events, e))
                  /\ \A i \in 0..Len(events) : f[i] = h[i]
                  /\ f[Len(Append(events, e))] = After(h[Len(events)], e)
                  /\ IsHistory(h, events)
                     /\ (e.type = "DELROUTE" => e.route \in h[Len(events)])
                        => IsHistory(f, Append(events, e))
<1> DEFINE n == Len(events)
           more == Append(events, e)
           f == [i \in 0..Len(more) |-> IF i = Len(more) THEN After(h[n], e) ELSE h[i]]
<1>1. /\ n \in Nat /\ more \in Seq(Event) /\ Len(more) = n + 1
      /\ \A i \in 1..n : more[i] = events[i]
      /\ more[n + 1] = e
    BY LenProperties, AppendProperties
<1>2. h[n] \in SUBSET Route /\ After(h[n], e) \in SUBSET Route
    BY <1>1, AfterType DEF Replays
<1>3. \A i \in 0..n : f[i] = h[i] /\ h[i] \in SUBSET Route
    BY <1>1 DEF Replays
<1>4. f[Len(more)] = After(h[n], e)
    BY <1>1
<1>5. f \in [0..Len(more) -> SUBSET Route]
    BY <1>1, <1>2 DEF Replays
<1> HIDE DEF f, more
<1>6. ASSUME NEW i \in 1..Len(more) PROVE f[i] = After(f[i - 1], more[i])
    <2>1. CASE i = n + 1
        BY <1>1, <1>3, <1>4, <2>1
    <2>2. CASE i \in 1..n
        <3>1. h[i] = After(h[i - 1], events[i])
            BY <2>2 DEF Replays
        <3>2. i - 1 \in 0..n /\ i \in 0..n
            BY <1>1, <2>2
        <3> QED BY <1>1, <1>3, <2>2, <3>1, <3>2
    <2> QED BY <1>1, <2>1, <2>2
<1>7. Replays(f, more)
    BY <1>5, <1>6 DEF Replays
<1>8. ASSUME IsHistory(h, events), e.type = "DELROUTE" => e.route \in h[n]
      PROVE  IsHistory(f, more)
    <2>1. \A i \in 0..n : OnePerSlot(f[i])
        BY <1>3, <1>8 DEF IsHistory
    <2>2. OnePerSlot(f[n + 1])
        <3>1. OnePerSlot(h[n])
            BY <1>1, <1>8 DEF IsHistory
        <3> QED BY <1>1, <1>2, <1>4, <3>1, AfterType
    <2>3. \A i \in 0..Len(more) : OnePerSlot(f[i])
        <3>1. \A i \in 0..Len(more) : i \in 0..n \/ i = n + 1
            BY <1>1
        <3> QED BY <2>1, <2>2, <3>1
    <2>4. ASSUME NEW i \in 1..Len(more), more[i].type = "DELROUTE"
          PROVE  more[i].route \in f[i - 1]
        <3>1. CASE i = n + 1
            BY <1>1, <1>3, <1>8, <2>4, <3>1
        <3>2. CASE i \in 1..n
            <4>1. i - 1 \in 0..n
                BY <1>1, <3>2
            <4> QED BY <1>1, <1>3, <1>8, <2>4, <3>2, <4>1 DEF IsHistory
        <3> QED BY <1>1, <3>1, <3>2
    <2> QED BY <1>7, <2>3, <2>4 DEF IsHistory
<1> QED BY <1>1, <1>3, <1>4, <1>7, <1>8 DEF more

LEMMA Shifted ==
    ASSUME NEW events \in Seq(Event), NEW h, Replays(h, events), events # <<>>
    PROVE  \E f : /\ Replays(f, Tail(events))
                  /\ f[0] = After(h[0], Head(events))
                  /\ f[Len(Tail(events))] = h[Len(events)]
                  /\ IsHistory(h, events) => IsHistory(f, Tail(events))
<1> DEFINE n == Len(events)
           less == Tail(events)
           f == [i \in 0..Len(less) |-> h[i + 1]]
<1>1. /\ n \in Nat /\ n # 0 /\ less \in Seq(Event) /\ Len(less) = n - 1
      /\ \A i \in 1..Len(less) : less[i] = events[i + 1]
      /\ Head(events) = events[1]
    BY LenProperties, EmptySeq, HeadTailProperties
<1>2. \A i \in 0..Len(less) : i + 1 \in 0..n /\ i + 1 \in 1..n
    BY <1>1
<1>3. f \in [0..Len(less) -> SUBSET Route]
    BY <1>2 DEF Replays
<1>4. \A i \in 0..Len(less) : f[i] = h[i + 1]
    OBVIOUS
<1> HIDE DEF f, less
<1>5. ASSUME NEW i \in 1..Len(less) PROVE f[i] = After(f[i - 1], less[i])
    <2>1. h[i + 1] = After(h[i], events[i + 1])
        BY <1>1, <1>2 DEF Replays
    <2>2. i \in 0..Len(less) /\ i - 1 \in 0..Len(less) /\ (i - 1) + 1 = i
        BY <1>1
    <2>3. f[i - 1] = h[i]
        BY <1>4, <2>2
    <2> QED BY <1>1, <1>4, <2>1, <2>2, <2>3
<1>6. Replays(f, less)
    BY <1>3, <1>5 DEF Replays
<1>7. ASSUME IsHistory(h, events) PROVE IsHistory(f, less)
    <2>1. \A i \in 0..Len(less) : OnePerSlot(f[i])
        BY <1>2, <1>4, <1>7 DEF IsHistory
    <2>2. ASSUME NEW i \in 1..Len(less), less[i].type = "DELROUTE"
          PROVE  less[i].route \in f[i - 1]
        <3>1. i - 1 \in 0..Len(less) /\ (i - 1) + 1 = i /\ (i + 1) - 1 = i
            BY <1>1
        <3>2. i + 1 \in 1..n /\ events[i + 1].type = "DELROUTE"
            BY <1>1, <2>2
        <3>3. events[i + 1].route \in h[i]
            BY <1>7, <3>1, <3>2 DEF IsHistory
        <3> QED BY <1>1, <1>4, <3>1, <3>3
    <2> QED BY <1>6, <2>1, <2>2 DEF IsHistory
<1>8. f[0] = After(h[0], Head(events)) /\ f[Len(less)] = h[n]
    <2>1. h[1] = After(h[0], events[1])
        BY <1>1 DEF Replays
    <2>2. 0 \in 0..Len(less) /\ Len(less) \in 0..Len(less) /\ Len(less) + 1 = n
        BY <1>1
    <2> QED BY <1>1, <1>4, <2>1, <2>2
<1> QED BY <1>6, <1>7, <1>8 DEF less

-----------------------------------------------------------------------------
(* What the theorems ask of the kernel and of the bounds. *)
Tables ==
    /\ InitialRib \subseteq SUBSET Route /\ External \subseteq Route
    /\ \A routes \in InitialRib : OnePerSlot(routes)
    /\ MaxChanges \in Nat /\ MaxOverflows \in Nat /\ MaxListErrors \in Nat

(* Each half of the dump, sent or still to send, is the tables at some     *)
(* point since the subscription.                                           *)
DumpIsPast(h) ==
    /\ sync = "dump4" =>
          \E k \in 0..Len(live) : view \cup dump = IPv4(h[k])
    /\ sync = "dump6" =>
          \E j, k \in 0..Len(live) : view \cup dump = IPv4(h[j]) \cup IPv6(h[k])

Explained ==
    \E h : IsHistory(h, live) /\ h[Len(live)] = rib /\ DumpIsPast(h)

(* The events left lead the subscriber to the kernel's routes. *)
LeadsToRib == \E g : Replays(g, live) /\ g[0] = view /\ g[Len(live)] = rib

StreamInv ==
    /\ TypeOK
    /\ OnePerSlot(rib)
    /\ sync = "list4" => view = {}
    /\ sync = "updates" => dump = {}
    /\ listening => sync # "idle" /\ Explained
    /\ listening /\ sync = "updates" => LeadsToRib

(* Every step of the stream, by the program, the kernel or a new process.  *)
Step == Next \/ (\E r \in Route : AddRoute(r)) \/ newStream

LEMMA InitStream == Tables /\ Init => StreamInv
<1> SUFFICES ASSUME Tables, Init PROVE StreamInv
    OBVIOUS
<1>1. rib \subseteq Route /\ 0 \in 0..MaxChanges /\ 0 \in 0..MaxOverflows
      /\ 0 \in 0..MaxListErrors
    BY DEF Tables, Init
<1>2. live \in Seq([type : {"NEWROUTE", "DELROUTE"}, route : Route])
    BY EmptySeq DEF Init
<1>3. TypeOK
    BY <1>1, <1>2 DEF Init, TypeOK
<1> QED BY <1>3 DEF Tables, Init, StreamInv

LEMMA LiveType == ASSUME TypeOK PROVE live \in Seq(Event)
BY DEF TypeOK, Event

(* The kernel reports a change to a subscription. *)
LEMMA Reported ==
    ASSUME StreamInv, listening, NEW e \in Event,
           e.type = "DELROUTE" => e.route \in rib,
           rib' = After(rib, e), live' = Append(live, e),
           UNCHANGED <<listening, sync, dump, view>>
    PROVE  Explained' /\ (sync = "updates" => LeadsToRib')
<1>1. live \in Seq(Event)
    BY LiveType DEF StreamInv
<1>2. PICK h : IsHistory(h, live) /\ h[Len(live)] = rib /\ DumpIsPast(h)
    BY DEF StreamInv, Explained
<1>3. PICK f : /\ \A i \in 0..Len(live) : f[i] = h[i]
               /\ f[Len(live')] = rib'
               /\ IsHistory(f, live')
    BY <1>1, <1>2, Extended DEF IsHistory
<1>4. Len(live') = Len(live) + 1 /\ Len(live) \in Nat
    BY <1>1, LenProperties, AppendProperties
<1>5. 0..Len(live) \subseteq 0..Len(live')
    BY <1>4
<1>6. DumpIsPast(f)'
    BY <1>2, <1>3, <1>5 DEF DumpIsPast
<1>7. Explained'
    BY <1>3, <1>6 DEF Explained
<1>8. ASSUME sync = "updates" PROVE LeadsToRib'
    <2>1. PICK g : Replays(g, live) /\ g[0] = view /\ g[Len(live)] = rib
        BY <1>8 DEF StreamInv, LeadsToRib
    <2>2. PICK f2 : /\ Replays(f2, live')
                    /\ \A i \in 0..Len(live) : f2[i] = g[i]
                    /\ f2[Len(live')] = rib'
        BY <1>1, <2>1, Extended
    <2>3. f2[0] = view'
        BY <1>4, <2>1, <2>2
    <2> QED BY <2>2, <2>3 DEF LeadsToRib
<1> QED BY <1>7, <1>8

(* The types, in two parts. *)
RouteTypes ==
    /\ rib \subseteq Route /\ dump \subseteq Route /\ view \subseteq Route
    /\ live \in Seq(Event)

ControlTypes ==
    /\ listening \in BOOLEAN
    /\ sync \in {"idle", "start", "list4", "dump4", "dump6", "updates"}
    /\ changes \in 0..MaxChanges
    /\ overflows \in 0..MaxOverflows
    /\ listErrors \in 0..MaxListErrors

LEMMA TypeParts == TypeOK <=> RouteTypes /\ ControlTypes
BY DEF TypeOK, RouteTypes, ControlTypes, Event

LEMMA TypePartsNext == RouteTypes' /\ ControlTypes' => TypeOK'
BY DEF TypeOK, RouteTypes, ControlTypes, Event

LEMMA NextControl ==
    ASSUME ControlTypes, Tables, Step
    PROVE  ControlTypes'
<1> USE DEF ControlTypes, Tables
<1>1. ASSUME NEW r \in External, KernelReplace(r) \/ KernelDelete(r)
      PROVE  ControlTypes'
    BY <1>1 DEF KernelReplace, KernelDelete
<1>2. ASSUME Overflow PROVE ControlTypes'
    <2>1. /\ overflows' = overflows + 1 /\ overflows < MaxOverflows
          /\ UNCHANGED <<sync, changes, listErrors>>
        BY <1>2 DEF Overflow
    <2>2. overflows' \in 0..MaxOverflows
        BY <2>1
    <2>3. listening' \in BOOLEAN
        BY <1>2 DEF Overflow
    <2> QED BY <2>1, <2>2, <2>3
<1>3. ASSUME Subscribe \/ ListIPv4 \/ ListIPv6 \/ Resync \/ newStream
      PROVE  ControlTypes'
    <2>1. /\ listening' \in {listening, TRUE, FALSE}
          /\ sync' \in {"start", "dump4", "dump6", "idle"}
          /\ UNCHANGED counters
        BY <1>3 DEF Subscribe, ListIPv4, ListIPv6, Resync, newStream, giveUp
    <2> QED BY <2>1 DEF counters
<1>6. ASSUME ListFails PROVE ControlTypes'
    <2>1. /\ listErrors' = listErrors + 1 /\ listErrors < MaxListErrors
          /\ sync' = "idle" /\ UNCHANGED <<changes, overflows>>
        BY <1>6 DEF ListFails, giveUp
    <2>2. listErrors' \in 0..MaxListErrors
        BY <2>1
    <2>3. listening' \in BOOLEAN
        BY <1>6 DEF ListFails, giveUp
    <2> QED BY <2>1, <2>2, <2>3
<1>4. ASSUME NEW n \in Sendable, Send(n) PROVE ControlTypes'
    BY <1>4 DEF Send, next, counters
<1>5. ASSUME NEW r \in Route, AddRoute(r) PROVE ControlTypes'
    BY <1>5 DEF AddRoute, counters
<1> QED BY <1>1, <1>2, <1>3, <1>4, <1>5, <1>6 DEF Step, Next, Kernel

(* What is sent is a mark, a route of the dump or the first event. *)
LEMMA SentIs ==
    ASSUME RouteTypes, NEW n, Send(n)
    PROVE  \/ /\ sync = "start" /\ sync' = "list4" /\ n.type = "StartOfRIB"
              /\ view' = {} /\ UNCHANGED <<live, dump>>
           \/ /\ sync \in {"dump4", "dump6"} /\ sync' = sync /\ n \in Event
              /\ n.type = "NEWROUTE" /\ n.route \in dump /\ dump' = dump \ {n.route}
              /\ view' = After(view, n) /\ UNCHANGED live
           \/ /\ sync = "dump6" /\ sync' = "updates" /\ n.type = "EndOfRIB"
              /\ dump = {} /\ UNCHANGED <<view, live, dump>>
           \/ /\ sync = "updates" /\ sync' = "updates" /\ n \in Event
              /\ live # <<>> /\ n = Head(live) /\ live' = Tail(live)
              /\ view' = After(view, n) /\ UNCHANGED dump
<1>1. CASE sync = "start" /\ n = Mark("StartOfRIB") /\ sync' = "list4"
           /\ UNCHANGED <<live, dump>>
    BY <1>1 DEF Send, replay, Mark
<1>2. CASE sync \in {"dump4", "dump6"} /\ UNCHANGED <<live, sync>>
           /\ \E r \in dump : n = Update("NEWROUTE", r) /\ dump' = dump \ {r}
    BY <1>2 DEF Send, replay, Update, After, Event, RouteTypes
<1>3. CASE sync = "dump6" /\ dump = {} /\ n = Mark("EndOfRIB") /\ sync' = "updates"
           /\ UNCHANGED <<live, dump>>
    BY <1>3 DEF Send, replay, Mark
<1>4. CASE sync = "updates" /\ live # <<>> /\ n = Head(live) /\ live' = Tail(live)
           /\ UNCHANGED <<sync, dump>>
    <2>1. n \in Event
        BY <1>4, HeadTailProperties DEF RouteTypes
    <2>2. view' = After(view, n)
        BY <1>4, <2>1 DEF Send, replay, After, Event
    <2> QED BY <1>4, <2>1, <2>2
<1> QED BY <1>1, <1>2, <1>3, <1>4 DEF Send, next

LEMMA NextRoutes ==
    ASSUME RouteTypes, Tables, Step
    PROVE  RouteTypes'
<1>1. \A r \in Route, type \in {"NEWROUTE", "DELROUTE"} : Update(type, r) \in Event
    BY DEF Update, Event
<1>2. \A e \in Event : Append(live, e) \in Seq(Event)
    BY AppendProperties DEF RouteTypes
<1>3. ASSUME NEW r \in Route, write(r) PROVE rib' \subseteq Route /\ live' \in Seq(Event)
    BY <1>1, <1>2, <1>3 DEF write, report, addCandidateRoute, RouteTypes
<1>4. ASSUME NEW r \in External, KernelReplace(r) PROVE RouteTypes'
    <2>1. r \in Route
        BY DEF Tables
    <2> QED BY <1>3, <1>4, <2>1 DEF KernelReplace, RouteTypes
<1>5. ASSUME NEW r \in External, KernelDelete(r) PROVE RouteTypes'
    <2>1. r \in Route
        BY DEF Tables
    <2>2. live' \in Seq(Event)
        BY <1>1, <1>2, <1>5, <2>1 DEF KernelDelete, report, RouteTypes
    <2> QED BY <1>5, <2>2 DEF KernelDelete, removeCandidateRoute, RouteTypes
<1>6. ASSUME Overflow PROVE RouteTypes'
    <2>1. PICK k \in 0..Len(live) : live' = SubSeq(live, 1, k)
        BY <1>6 DEF Overflow
    <2>2. Len(live) \in Nat /\ \A i \in 1..k : live[i] \in Event
        BY LenProperties, ElementOfSeq DEF RouteTypes
    <2>3. live' \in Seq(Event)
        BY <2>1, <2>2, SubSeqProperties
    <2> QED BY <1>6, <2>3 DEF Overflow, RouteTypes
<1>7. ASSUME Subscribe \/ ListFails \/ Resync \/ newStream PROVE RouteTypes'
    <2>1. live' = <<>> /\ rib' = rib /\ dump' \in {dump, {}} /\ view' \in {view, {}}
        BY <1>7 DEF Subscribe, ListFails, Resync, newStream, giveUp
    <2> QED BY <2>1, EmptySeq DEF RouteTypes
<1>8. ASSUME ListIPv4 \/ ListIPv6 PROVE RouteTypes'
    BY <1>8 DEF ListIPv4, ListIPv6, RouteTypes
<1>9. ASSUME NEW n \in Sendable, Send(n) PROVE RouteTypes'
    <2>1. \A e \in Event : After(view, e) \subseteq Route
        BY AfterType DEF RouteTypes
    <2>2. live # <<>> => Tail(live) \in Seq(Event)
        BY HeadTailProperties DEF RouteTypes
    <2>3. rib' = rib
        BY <1>9 DEF Send
    <2> QED BY <1>9, <2>1, <2>2, <2>3, SentIs DEF RouteTypes
<1>10. ASSUME NEW r \in Route, AddRoute(r) PROVE RouteTypes'
    BY <1>3, <1>10 DEF AddRoute, RouteTypes
<1> QED BY <1>4, <1>5, <1>6, <1>7, <1>8, <1>9, <1>10 DEF Step, Next, Kernel

-----------------------------------------------------------------------------
(* What changes in the kernel, with a subscription or without. *)
LEMMA KernelChanges ==
    ASSUME StreamInv, TypeOK', NEW e \in Event,
           e.type = "DELROUTE" => e.route \in rib,
           rib' = After(rib, e),
           \/ live' = IF listening THEN Append(live, e) ELSE live
           \/ rib' = rib /\ live' = live,
           UNCHANGED <<listening, sync, dump, view>>
    PROVE  StreamInv'
<1>1. OnePerSlot(rib')
    BY AfterType, LiveType DEF StreamInv, TypeOK
<1>2. CASE listening /\ live' = Append(live, e)
    <2>1. Explained' /\ (sync = "updates" => LeadsToRib')
        BY <1>2, Reported
    <2> QED BY <1>1, <2>1 DEF StreamInv
<1>3. CASE rib' = rib /\ live' = live
    <2>1. Explained' <=> Explained
        BY <1>3 DEF Explained, DumpIsPast
    <2>2. LeadsToRib' <=> LeadsToRib
        BY <1>3 DEF LeadsToRib
    <2> QED BY <1>1, <2>1, <2>2 DEF StreamInv
<1>4. CASE ~listening
    BY <1>1, <1>4 DEF StreamInv
<1> QED BY <1>2, <1>3, <1>4

LEMMA WriteKeeps ==
    ASSUME StreamInv, TypeOK', NEW r \in Route, write(r),
           UNCHANGED <<listening, sync, dump, view>>
    PROVE  StreamInv'
<1> DEFINE e == Update("NEWROUTE", r)
<1>1. e \in Event /\ e.type = "NEWROUTE" /\ e.route = r
    BY DEF Update, Event
<1>2. rib' = After(rib, e)
    BY <1>1 DEF write, After
<1>3. \/ live' = IF listening THEN Append(live, e) ELSE live
      \/ rib' = rib /\ live' = live
    BY DEF write, report, addCandidateRoute
<1> HIDE DEF e
<1> QED BY <1>1, <1>2, <1>3, KernelChanges

LEMMA DeleteKeeps ==
    ASSUME StreamInv, TypeOK', NEW r \in Route, KernelDelete(r)
    PROVE  StreamInv'
<1> DEFINE e == Update("DELROUTE", r)
<1>1. e \in Event /\ e.type = "DELROUTE" /\ e.route = r
    BY DEF Update, Event
<1>2. rib' = After(rib, e) /\ r \in rib
    BY <1>1 DEF KernelDelete, After
<1>3. live' = IF listening THEN Append(live, e) ELSE live
    BY DEF KernelDelete, report
<1>4. UNCHANGED <<listening, sync, dump, view>>
    BY DEF KernelDelete
<1> HIDE DEF e
<1> QED BY <1>1, <1>2, <1>3, <1>4, KernelChanges

(* Without a subscription nothing is promised. *)
LEMMA LosesKeeps ==
    ASSUME StreamInv, TypeOK', Overflow \/ ListFails \/ Resync \/ newStream
    PROVE  StreamInv'
<1>1. /\ listening' = FALSE /\ UNCHANGED rib
      /\ sync' = "idle" \/ (sync' = sync /\ UNCHANGED <<dump, view>>)
    BY DEF Overflow, ListFails, Resync, newStream, giveUp
<1> QED BY <1>1 DEF StreamInv

(* A history of no event is the tables of now. *)
LEMMA SubscribeKeeps ==
    ASSUME StreamInv, TypeOK', Subscribe
    PROVE  StreamInv'
<1> DEFINE h == [i \in 0..0 |-> rib]
<1>1. /\ live' = <<>> /\ sync' = "start" /\ UNCHANGED <<rib, dump, view>>
    BY DEF Subscribe
<1>2. Len(live') = 0 /\ 0..0 = {0} /\ 1..0 = {}
    BY <1>1
<1>3. rib \in SUBSET Route /\ OnePerSlot(rib)
    BY DEF StreamInv, TypeOK
<1>4. h \in [0..0 -> SUBSET Route] /\ h[0] = rib
    BY <1>3
<1> HIDE DEF h
<1>5. Replays(h, live')
    BY <1>2, <1>4 DEF Replays
<1>6. IsHistory(h, live')
    BY <1>2, <1>3, <1>4, <1>5 DEF IsHistory
<1>7. Explained'
    BY <1>1, <1>2, <1>4, <1>6 DEF Explained, DumpIsPast
<1> QED BY <1>1, <1>3, <1>7 DEF StreamInv

(* A listing gives the last tables of the history. *)
LEMMA ListKeeps ==
    ASSUME StreamInv, TypeOK', ListIPv4 \/ ListIPv6
    PROVE  StreamInv'
<1>1. UNCHANGED <<rib, listening, live, view>>
    BY DEF ListIPv4, ListIPv6
<1>2. sync' \in {"dump4", "dump6"}
    BY DEF ListIPv4, ListIPv6
<1>3. ASSUME listening PROVE Explained'
    <2>1. PICK h : IsHistory(h, live) /\ h[Len(live)] = rib /\ DumpIsPast(h)
        BY <1>3 DEF StreamInv, Explained
    <2>2. Len(live) \in 0..Len(live)
        BY LiveType, LenProperties DEF StreamInv
    <2>3. CASE ListIPv4
        <3>1. view \cup dump' = IPv4(h[Len(live)]) /\ sync' = "dump4"
            BY <2>1, <2>3 DEF ListIPv4, IPv4, StreamInv
        <3>2. DumpIsPast(h)'
            BY <1>1, <2>2, <3>1 DEF DumpIsPast
        <3> QED BY <1>1, <2>1, <3>2 DEF Explained
    <2>4. CASE ListIPv6
        <3>1. PICK k \in 0..Len(live) : view = IPv4(h[k])
            BY <2>1, <2>4 DEF ListIPv6, DumpIsPast
        <3>2. view \cup dump' = IPv4(h[k]) \cup IPv6(h[Len(live)]) /\ sync' = "dump6"
            BY <2>1, <2>4, <3>1 DEF ListIPv6, IPv6
        <3>3. DumpIsPast(h)'
            BY <1>1, <2>2, <3>2 DEF DumpIsPast
        <3> QED BY <1>1, <2>1, <3>3 DEF Explained
    <2> QED BY <2>3, <2>4
<1> QED BY <1>1, <1>2, <1>3 DEF StreamInv

(* Sending a route of the dump moves it from the dump to the view. *)
LEMMA DumpSentKeeps ==
    ASSUME NEW h, IsHistory(h, live), DumpIsPast(h), live \in Seq(Event),
           sync \in {"dump4", "dump6"}, NEW n \in Event, n.type = "NEWROUTE",
           n.route \in dump, dump' = dump \ {n.route}, view' = After(view, n),
           UNCHANGED <<live, sync>>
    PROVE  DumpIsPast(h)'
<1>1. OnePerSlot(view \cup dump)
    <2>1. \A k \in 0..Len(live) : OnePerSlot(h[k])
        BY DEF IsHistory
    <2>2. CASE sync = "dump4"
        <3>1. PICK k \in 0..Len(live) : view \cup dump = IPv4(h[k])
            BY <2>2 DEF DumpIsPast
        <3> QED BY <2>1, <3>1 DEF OnePerSlot, IPv4
    <2>3. CASE sync = "dump6"
        <3>1. PICK j \in 0..Len(live), k \in 0..Len(live) :
                 view \cup dump = IPv4(h[j]) \cup IPv6(h[k])
            BY <2>3 DEF DumpIsPast
        <3> QED BY <2>1, <3>1 DEF OnePerSlot, IPv4, IPv6, Slot
    <2> QED BY <2>2, <2>3
<1>2. view' = view \cup {n.route}
    BY <1>1 DEF After, addCandidateRoute, OnePerSlot
<1>3. view' \cup dump' = view \cup dump
    BY <1>2
<1> QED BY <1>3 DEF DumpIsPast

LEMMA SendKeeps ==
    ASSUME StreamInv, TypeOK', NEW n, Send(n)
    PROVE  StreamInv'
<1>1. UNCHANGED <<rib, listening>>
    BY DEF Send
<1>2. RouteTypes /\ live \in Seq(Event)
    BY TypeParts, LiveType DEF StreamInv
<1>3. CASE /\ sync = "start" /\ sync' = "list4" /\ n.type = "StartOfRIB"
           /\ view' = {} /\ UNCHANGED <<live, dump>>
    <2>1. listening => Explained'
        BY <1>1, <1>3 DEF StreamInv, Explained, DumpIsPast
    <2> QED BY <1>1, <1>3, <2>1 DEF StreamInv
<1>4. CASE /\ sync \in {"dump4", "dump6"} /\ sync' = sync /\ n \in Event
           /\ n.type = "NEWROUTE" /\ n.route \in dump /\ dump' = dump \ {n.route}
           /\ view' = After(view, n) /\ UNCHANGED live
    <2>1. ASSUME listening PROVE Explained'
        <3>1. PICK h : IsHistory(h, live) /\ h[Len(live)] = rib /\ DumpIsPast(h)
            BY <2>1 DEF StreamInv, Explained
        <3>2. DumpIsPast(h)'
            BY <1>2, <1>4, <3>1, DumpSentKeeps
        <3> QED BY <1>1, <1>4, <3>1, <3>2 DEF Explained
    <2> QED BY <1>1, <1>4, <2>1 DEF StreamInv
<1>5. CASE /\ sync = "dump6" /\ sync' = "updates" /\ n.type = "EndOfRIB"
           /\ dump = {} /\ UNCHANGED <<view, live, dump>>
    <2>1. ASSUME listening PROVE Explained' /\ LeadsToRib'
        <3>1. PICK h : IsHistory(h, live) /\ h[Len(live)] = rib /\ DumpIsPast(h)
            BY <2>1 DEF StreamInv, Explained
        <3>2. PICK j \in 0..Len(live), k \in 0..Len(live) :
                 view = IPv4(h[j]) \cup IPv6(h[k])
            BY <1>5, <3>1 DEF DumpIsPast
        <3>3. PICK g : Replays(g, live) /\ g[0] = view
            BY <1>2, ReplayExists DEF RouteTypes
        <3>4. g[Len(live)] = rib
            BY <1>2, <3>1, <3>2, <3>3, Converges
        <3>5. LeadsToRib'
            BY <1>1, <1>5, <3>3, <3>4 DEF LeadsToRib
        <3>6. Explained'
            BY <1>1, <1>5, <3>1 DEF Explained, DumpIsPast
        <3> QED BY <3>5, <3>6
    <2> QED BY <1>1, <1>5, <2>1 DEF StreamInv
<1>6. CASE /\ sync = "updates" /\ sync' = "updates" /\ n \in Event
           /\ live # <<>> /\ n = Head(live) /\ live' = Tail(live)
           /\ view' = After(view, n) /\ UNCHANGED dump
    <2>1. ASSUME listening PROVE Explained' /\ LeadsToRib'
        <3>1. PICK h : IsHistory(h, live) /\ h[Len(live)] = rib
            BY <2>1 DEF StreamInv, Explained
        <3>2. PICK k : IsHistory(k, live') /\ k[Len(live')] = rib
            BY <1>2, <1>6, <3>1, Shifted DEF IsHistory
        <3>3. Explained'
            BY <1>1, <1>6, <3>2 DEF Explained, DumpIsPast
        <3>4. PICK g : Replays(g, live) /\ g[0] = view /\ g[Len(live)] = rib
            BY <1>6, <2>1 DEF StreamInv, LeadsToRib
        <3>5. PICK f : /\ Replays(f, live') /\ f[0] = After(view, n)
                       /\ f[Len(live')] = rib
            BY <1>2, <1>6, <3>4, Shifted
        <3>6. LeadsToRib'
            BY <1>1, <1>6, <3>5 DEF LeadsToRib
        <3> QED BY <3>3, <3>6
    <2> QED BY <1>1, <1>6, <2>1 DEF StreamInv
<1> QED BY <1>2, <1>3, <1>4, <1>5, <1>6, SentIs

LEMMA StepKeeps ==
    ASSUME StreamInv, Tables, Step
    PROVE  StreamInv'
<1>1. TypeOK'
    BY NextControl, NextRoutes, TypeParts, TypePartsNext DEF StreamInv
<1>2. ASSUME NEW r \in External, KernelReplace(r) \/ KernelDelete(r)
      PROVE  StreamInv'
    <2>1. r \in Route
        BY DEF Tables
    <2>2. KernelReplace(r) => write(r) /\ UNCHANGED <<listening, sync, dump, view>>
        BY DEF KernelReplace
    <2> QED BY <1>1, <1>2, <2>1, <2>2, WriteKeeps, DeleteKeeps
<1>3. ASSUME NEW r \in Route, AddRoute(r) PROVE StreamInv'
    BY <1>1, <1>3, WriteKeeps DEF AddRoute
<1>4. ASSUME NEW n, Send(n) PROVE StreamInv'
    BY <1>1, <1>4, SendKeeps
<1>5. CASE Overflow \/ ListFails \/ Resync \/ newStream
    BY <1>1, <1>5, LosesKeeps
<1>6. CASE Subscribe \/ ListIPv4 \/ ListIPv6
    BY <1>1, <1>6, SubscribeKeeps, ListKeeps
<1> QED BY <1>2, <1>3, <1>4, <1>5, <1>6 DEF Step, Next, Kernel

LEMMA NextStream == StreamInv /\ Tables /\ [Next]_vars => StreamInv'
<1>1. ASSUME StreamInv, UNCHANGED vars PROVE StreamInv'
    <2>1. TypeOK'
        BY <1>1 DEF StreamInv, TypeOK, vars, counters
    <2>2. Explained' <=> Explained
        BY <1>1 DEF Explained, DumpIsPast, vars
    <2>3. LeadsToRib' <=> LeadsToRib
        BY <1>1 DEF LeadsToRib, vars
    <2> QED BY <1>1, <2>1, <2>2, <2>3 DEF StreamInv, vars
<1> QED BY <1>1, StepKeeps DEF Step

-----------------------------------------------------------------------------
(* The history of LeadsToRib is the function that Pending defines. *)
LEMMA LeadsToPending ==
    ASSUME StreamInv, listening, sync = "updates"
    PROVE  Pending = rib
<1> DEFINE n == Len(live)
           body(f) == [i \in 0..n |->
                          IF i = 0 THEN view
                          ELSE IF live[i].type = "NEWROUTE"
                               THEN addCandidateRoute(f[i - 1], live[i].route)
                               ELSE removeCandidateRoute(f[i - 1], live[i].route)]
           pending == CHOOSE f : f = body(f)
<1>1. live \in Seq(Event) /\ n \in Nat
    BY LiveType, LenProperties DEF StreamInv
<1>2. PICK g : Replays(g, live) /\ g[0] = view /\ g[n] = rib
    BY DEF StreamInv, LeadsToRib
<1>3. g = body(g)
    <2>1. g = [i \in 0..n |-> g[i]]
        BY <1>2 DEF Replays
    <2>2. \A i \in 0..n : i # 0 => i \in 1..n
        BY <1>1
    <2>3. \A i \in 0..n : g[i] = body(g)[i]
        BY <1>2, <2>2 DEF Replays, After
    <2> QED BY <2>1, <2>3
<1>4. pending = body(pending)
    BY <1>3
<1> HIDE DEF pending
<1>5. pending[0] = view
    BY <1>1, <1>4
<1>6. \A i \in 1..n : pending[i] = After(pending[i - 1], live[i])
    BY <1>1, <1>4 DEF After
<1>7. pending[n] = rib
    BY <1>1, <1>2, <1>5, <1>6, ReplayUnique DEF Replays
<1>8. Pending = pending[n]
    BY DEF Pending, pending
<1> QED BY <1>7, <1>8

-----------------------------------------------------------------------------
(* What a subscriber may conclude from one notification, however late it   *)
(* comes: the route it adds is in the kernel, or a later event is about    *)
(* its slot.                                                               *)
LEMMA SentIsFresh ==
    ASSUME StreamInv, StreamInv', listening, NEW n, Send(n), n.type = "NEWROUTE",
           \A j \in 1..Len(live') : Slot(live'[j].route) # Slot(n.route)
    PROVE  n.route \in rib
<1>1. UNCHANGED <<rib, listening>>
    BY DEF Send
<1>2. RouteTypes /\ live \in Seq(Event)
    BY TypeParts, LiveType DEF StreamInv
<1>3. Len(live) \in Nat /\ Len(live) \in 0..Len(live)
    BY <1>2, LenProperties
<1>4. CASE sync \in {"dump4", "dump6"} /\ n \in Event /\ n.route \in dump /\ UNCHANGED live
    <2>1. PICK h : IsHistory(h, live) /\ h[Len(live)] = rib /\ DumpIsPast(h)
        BY DEF StreamInv, Explained
    <2>2. PICK k \in 0..Len(live) : n.route \in h[k]
        BY <1>4, <2>1 DEF DumpIsPast, IPv4, IPv6
    <2>3. \A i \in (k + 1)..Len(live) : Slot(live[i].route) # Slot(n.route)
        BY <1>3, <1>4
    <2>4. n.route \in Route
        BY <1>4 DEF Event
    <2> QED BY <1>2, <2>1, <2>2, <2>3, <2>4, Persists DEF IsHistory
<1>5. CASE sync' = "updates" /\ n \in Event /\ view' = After(view, n)
    <2>1. live' \in Seq(Event)
        <3>1. RouteTypes'
            BY DEF StreamInv, TypeOK, RouteTypes, Event
        <3> QED BY <3>1 DEF RouteTypes
    <2>2. PICK g : Replays(g, live') /\ g[0] = view' /\ g[Len(live')] = rib'
        BY <1>1, <1>5 DEF StreamInv, LeadsToRib
    <2>3. n.route \in g[0] /\ n.route \in Route
        BY <1>5, <2>2 DEF After, addCandidateRoute, Event
    <2>4. 0 \in 0..Len(live') /\ \A i \in (0 + 1)..Len(live') : Slot(live'[i].route) # Slot(n.route)
        BY <2>1, LenProperties
    <2> QED BY <1>1, <2>1, <2>2, <2>3, <2>4, Persists
<1> QED BY <1>2, <1>4, <1>5, SentIs

(* A removal leaves nothing in the slot of the subscriber's view, unless a *)
(* later event is about that slot.                                         *)
LEMMA SentRemoval ==
    ASSUME StreamInv, StreamInv', listening, NEW n, Send(n), n.type = "DELROUTE",
           NEW t \in view', Slot(t) = Slot(n.route)
    PROVE  \E j \in 1..Len(live') : Slot(live'[j].route) = Slot(t)
<1> SUFFICES ASSUME \A j \in 1..Len(live') : Slot(live'[j].route) # Slot(t) PROVE FALSE
    OBVIOUS
<1>1. UNCHANGED <<rib, listening>>
    BY DEF Send
<1>2. RouteTypes /\ live \in Seq(Event)
    BY TypeParts, LiveType DEF StreamInv
<1>3. /\ sync' = "updates" /\ n \in Event /\ live # <<>>
      /\ n = Head(live) /\ live' = Tail(live)
    BY <1>2, SentIs
<1>4. RouteTypes'
    BY DEF StreamInv, TypeOK, RouteTypes, Event
<1>5. live' \in Seq(Event) /\ t \in Route
    BY <1>4 DEF RouteTypes
<1>6. t \in rib
    <2>1. PICK g : Replays(g, live') /\ g[0] = view' /\ g[Len(live')] = rib'
        BY <1>1, <1>3 DEF StreamInv, LeadsToRib
    <2>2. 0 \in 0..Len(live') /\ \A i \in (0 + 1)..Len(live') : Slot(live'[i].route) # Slot(t)
        BY <1>5, LenProperties
    <2> QED BY <1>1, <1>5, <2>1, <2>2, Persists
<1>7. PICK h : IsHistory(h, live) /\ h[Len(live)] = rib
    BY DEF StreamInv, Explained
<1>8. /\ Len(live) \in Nat /\ 1 \in 1..Len(live) /\ 0 \in 0..Len(live) /\ 1 \in 0..Len(live)
      /\ live[1] = n /\ Len(live') = Len(live) - 1
      /\ \A i \in 1..Len(live') : live'[i] = live[i + 1]
    BY <1>2, <1>3, LenProperties, HeadTailProperties, EmptySeq
<1>9. t \in h[1]
    <2>1. ASSUME NEW i \in (1 + 1)..Len(live) PROVE Slot(live[i].route) # Slot(t)
        <3>1. i - 1 \in 1..Len(live') /\ (i - 1) + 1 = i
            BY <1>8
        <3> QED BY <1>8, <3>1
    <2> QED BY <1>2, <1>5, <1>6, <1>7, <1>8, <2>1, Persists DEF IsHistory
<1>10. h[1] = After(h[0], n) /\ n.route \in h[0] /\ OnePerSlot(h[0])
    <2>1. 1 - 1 = 0
        OBVIOUS
    <2> QED BY <1>7, <1>8, <2>1 DEF IsHistory, Replays
<1>11. t \in h[0] /\ t # n.route
    BY <1>3, <1>9, <1>10, AfterDel
<1> QED BY <1>10, <1>11 DEF OnePerSlot

(* Types, and the invariant that carries the stream. *)
THEOREM StreamInvariant == Tables /\ Spec => []StreamInv
<1>1. Tables /\ Init => Tables /\ StreamInv
    BY InitStream
<1>2. Tables /\ StreamInv /\ [Next]_vars => (Tables /\ StreamInv)'
    BY NextStream DEF Tables
<1> QED BY <1>1, <1>2, PTL DEF Spec

(* No notification is lost or misplaced: replaying what is left to send    *)
(* gives the kernel's routes, although the listings overlap the events.    *)
THEOREM StreamLosesNothing == Tables /\ Spec => []NothingIsLost
<1>1. StreamInv => NothingIsLost
    BY LeadsToPending DEF NothingIsLost
<1> QED BY <1>1, StreamInvariant, PTL

LEMMA CaughtUpView == StreamInv => ViewIsRib
<1> SUFFICES ASSUME StreamInv, CaughtUp PROVE view = rib
    BY DEF ViewIsRib
<1>1. PICK g : g[0] = view /\ g[Len(live)] = rib
    BY DEF StreamInv, CaughtUp, LeadsToRib
<1> QED BY <1>1 DEF CaughtUp

(* A subscriber that was sent everything holds the kernel's routes. *)
THEOREM StreamIsFaithful == Tables /\ Spec => []ViewIsRib
BY CaughtUpView, StreamInvariant, PTL
=============================================================================
