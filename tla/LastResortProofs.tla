--------------------------- MODULE LastResortProofs ---------------------------
(***************************************************************************)
(* The program at work, for any configurations and routes, any sizes and   *)
(* any number of changes, losses, failures and restarts.  The handler's    *)
(* invariants (GatewayProofs) and those of the stream (RibStreamProofs)    *)
(* hold of the composition; what is proved here relates the two through    *)
(* the notifications on their way and the writes that come back.           *)
(***************************************************************************)
EXTENDS LastResort, RoutesLemmas, SequenceTheorems, TLAPS

P == INSTANCE RibStreamProofs
H == INSTANCE GatewayProofs WITH Update <- KernelRoutes

Event == [type : {"NEWROUTE", "DELROUTE"}, route : Route]

IsUpdate(n) == n.type \in {"NEWROUTE", "DELROUTE"}

(* A table, or a view of it, after an event. *)
After(routes, e) ==
    IF e.type = "NEWROUTE"
    THEN addCandidateRoute(routes, e.route)
    ELSE removeCandidateRoute(routes, e.route)

OnePerSlot(routes) == \A r, q \in routes : Slot(r) = Slot(q) => r = q

ToRoute(r) == ToMatch(config.to, r)

-----------------------------------------------------------------------------
(* What some theorems suppose of the configuration and of the rest of the  *)
(* system.  Nothing in the code checks any of it: each theorem names what  *)
(* it needs, and those that name nothing need nothing.                     *)

(* No source route is in the slot of a last-resort gateway, which would    *)
(* replace it without the kernel reporting its removal.                    *)
SourcesKeepOff ==
    \A r \in KernelRoutes, f \in Configurations :
        InToSlot(f.to, r) /\ FromMatch(f.from, r) => ToMatch(f.to, r)

(* What takes the slot of a source route in the kernel is one too: the     *)
(* kernel reports the new route alone, and the handler, which ignores one  *)
(* that does not match "from", keeps the former one for a candidate.       *)
SourcesKeepTheirSlots ==
    \A r, q \in KernelRoutes, f \in Configurations :
        FromMatch(f.from, r) /\ ~ToMatch(f.to, r) /\ Slot(r) = Slot(q)
        => FromMatch(f.from, q)

(* Both hold whatever the rest of the system does when "from" names no     *)
(* protocol, as by default, and the two halves differ by the prefix, the   *)
(* table or the metric.                                                    *)
HalvesApart ==
    \A f \in Configurations :
        /\ f.from.protocol = Wildcard
        /\ \/ f.from.prefix # f.to.prefix
           \/ f.from.table # f.to.table
           \/ f.from.metric \notin {Wildcard, f.to.metric}

(* The slots of the gateways are theirs: no other program, under another   *)
(* protocol, has a route there.                                            *)
SlotsAreReserved ==
    \A r \in KernelRoutes, f \in Configurations :
        InToSlot(f.to, r) => ToMatch(f.to, r)

-----------------------------------------------------------------------------
(* The operators of the two instances are those of this module. *)
LEMMA SameForStream ==
    /\ P!Route = Route /\ P!Event = Event
    /\ \A r : P!Slot(r) = Slot(r)
    /\ \A routes, e : P!After(routes, e) = After(routes, e)
    /\ \A routes : P!OnePerSlot(routes) <=> OnePerSlot(routes)
<1>1. \A r : P!Slot(r) = Slot(r)
    BY DEF P!Slot, Slot
<1>2. P!Route = Route
    BY DEF P!Route, Route
<1>3. P!Event = Event
    BY <1>2 DEF P!Event, Event
<1>4. \A routes, r : /\ P!addCandidateRoute(routes, r) = addCandidateRoute(routes, r)
                     /\ P!removeCandidateRoute(routes, r) = removeCandidateRoute(routes, r)
    BY DEF P!addCandidateRoute, addCandidateRoute, P!Slot, Slot,
           P!removeCandidateRoute, removeCandidateRoute
<1>5. \A routes, e : P!After(routes, e) = After(routes, e)
    BY <1>4 DEF P!After, After
<1>6. \A routes : P!OnePerSlot(routes) <=> OnePerSlot(routes)
    BY <1>1 DEF P!OnePerSlot, OnePerSlot
<1> QED BY <1>1, <1>2, <1>3, <1>5, <1>6

LEMMA StreamNil == P!NilValues
BY NilValues DEF P!NilValues, P!Route, Route

LEMMA StreamTables == P!Tables
BY SameForStream, RibType, SlotType, BoundType DEF P!Tables, OnePerSlot

(* What can be in the kernel, and what the handler aims at, which is known *)
(* from one candidate.                                                     *)
LEMMA KernelRoutesType == Known \subseteq KernelRoutes /\ KernelRoutes \subseteq Route
<1>1. Known \subseteq Route
    BY RibType DEF Known
<1>2. ASSUME NEW candidates \in SUBSET Route, NEW f \in Configurations,
             targetRoute(candidates, f.to) # NoRoute
      PROVE  targetRoute(candidates, f.to) \in Route
    <2>1. f.to \in ToConfiguration
        BY ConfigType DEF LRGConfiguration
    <2> QED BY <1>2, <2>1, TargetInToSlot
<1>3. ASSUME NEW c \in Known, NEW f \in Configurations,
             targetRoute({c}, f.to) # NoRoute
      PROVE  targetRoute({c}, f.to) \in Route
    BY <1>1, <1>2, <1>3
<1>4. ASSUME NEW f \in Configurations, targetRoute({}, f.to) # NoRoute
      PROVE  targetRoute({}, f.to) \in Route
    BY <1>2, <1>4
<1>5. Known \subseteq KernelRoutes
    BY <1>1, NilValues DEF KernelRoutes
<1>6. ASSUME NEW r \in KernelRoutes PROVE r \in Route
    <2>1. r # NoRoute
        BY DEF KernelRoutes
    <2>2. \/ r \in Known
          \/ \E c \in Known, f \in Configurations : r = targetRoute({c}, f.to)
          \/ \E f \in Configurations : r = targetRoute({}, f.to)
        BY DEF KernelRoutes
    <2> QED BY <1>1, <1>3, <1>4, <2>1, <2>2
<1> QED BY <1>5, <1>6

LEMMA TargetOfBest ==
    ASSUME NEW candidates \in SUBSET Route, candidates # {}, NEW to
    PROVE  /\ bestCandidateRoute(candidates) \in candidates
           /\ targetRoute(candidates, to) = targetRoute({bestCandidateRoute(candidates)}, to)
<1> DEFINE best == bestCandidateRoute(candidates)
<1>1. best \in candidates /\ best \in Route
    BY BestIsCandidate
<1> HIDE DEF best
<1>2. bestCandidateRoute({best}) = best
    BY <1>1, BestIsCandidate
<1> QED BY <1>1, <1>2 DEF best, targetRoute

LEMMA TargetIsKernels ==
    ASSUME NEW candidates \in SUBSET Known, NEW f \in Configurations,
           targetRoute(candidates, f.to) # NoRoute
    PROVE  targetRoute(candidates, f.to) \in KernelRoutes
<1>1. candidates \in SUBSET Route
    BY KernelRoutesType
<1>2. CASE candidates = {}
    BY <1>2 DEF KernelRoutes
<1>3. CASE candidates # {}
    <2>1. PICK c \in Known : targetRoute(candidates, f.to) = targetRoute({c}, f.to)
        BY <1>1, <1>3, TargetOfBest
    <2> DEFINE t == targetRoute({c}, f.to)
    <2>2. t \in {targetRoute({d}, g.to) : d \in Known, g \in Configurations}
        OBVIOUS
    <2>3. t # NoRoute
        BY <2>1
    <2> HIDE DEF t
    <2>4. t \in KernelRoutes
        BY <2>2, <2>3 DEF KernelRoutes
    <2> QED BY <2>1, <2>4 DEF t
<1> QED BY <1>2, <1>3

LEMMA HandlerAssumptions ==
    H!NilValues /\ H!ConfigType /\ H!QueueSizeType /\ H!UpdateType
<1>1. H!Route = Route /\ H!LRGConfiguration = LRGConfiguration
    BY DEF H!Route, Route, H!LRGConfiguration, LRGConfiguration,
           H!FromConfiguration, FromConfiguration, H!ToConfiguration, ToConfiguration
<1>2. KernelRoutes \subseteq Route
    BY KernelRoutesType
<1> QED BY <1>1, <1>2, NilValues, ConfigType, QueueSizeType
        DEF H!NilValues, H!ConfigType, H!QueueSizeType, H!UpdateType

-----------------------------------------------------------------------------
(* The steps, in the terms of this module. *)

(* The kernel's tables change, and a subscription is told of it. *)
Changes(e) ==
    /\ e.type = "DELROUTE" => e.route \in rib
    /\ rib' = After(rib, e)
    /\ \/ live' = IF listening THEN Append(live, e) ELSE live
       \/ rib' = rib /\ live' = live
    /\ UNCHANGED <<listening, sync, dump, view>>

(* What the stream sends, and what it leaves. *)
Sends(n) ==
    \/ /\ sync = "start" /\ sync' = "list4"
       /\ n = [type |-> "StartOfRIB", route |-> NoRoute]
       /\ view' = {} /\ UNCHANGED <<live, dump>>
    \/ /\ sync \in {"dump4", "dump6"} /\ sync' = sync
       /\ n \in Event /\ n.type = "NEWROUTE" /\ n.route \in dump
       /\ dump' = dump \ {n.route}
       /\ view' = After(view, n) /\ UNCHANGED live
    \/ /\ sync = "dump6" /\ sync' = "updates"
       /\ n = [type |-> "EndOfRIB", route |-> NoRoute]
       /\ dump = {} /\ UNCHANGED <<view, live, dump>>
    \/ /\ sync = "updates" /\ sync' = "updates" /\ n \in Event
       /\ live # <<>> /\ n = Head(live) /\ live' = Tail(live)
       /\ view' = After(view, n) /\ UNCHANGED dump

(* The handler aims at the best of these candidates, or keeps current. *)
Aims(candidates, current) ==
    LET target == targetRoute(candidates, config.to)
    IN  /\ candidateRoutes' = candidates
        /\ \/ /\ target \in {NoRoute, current}
              /\ currentRoute' = current
              /\ installationTick' = installationTick
           \/ /\ target \notin {NoRoute, current}
              /\ currentRoute' = target
              /\ installationTick' = TRUE

Keeps == UNCHANGED <<currentRoute, candidateRoutes, installationTick>>

(* The handler's answers to a notification. *)
Handles(n) ==
    \/ /\ n.type = "StartOfRIB"
       /\ candidateRoutes' = {} /\ UNCHANGED <<currentRoute, installationTick>>
    \/ /\ n.type = "EndOfRIB"
       /\ Aims(candidateRoutes, currentRoute)
    \/ /\ IsUpdate(n) /\ ToRoute(n.route)
       /\ Aims(candidateRoutes, IF n.type = "NEWROUTE" THEN n.route ELSE NoRoute)
    \/ /\ IsUpdate(n) /\ ~ToRoute(n.route) /\ FromMatch(config.from, n.route)
       /\ Aims(After(candidateRoutes, n), currentRoute)
    \/ /\ IsUpdate(n) /\ ~ToRoute(n.route) /\ ~FromMatch(config.from, n.route)
       /\ Keeps

LEMMA HandleIs ==
    ASSUME NEW n, G!handle(n)
    PROVE  Handles(n)
<1>2. \A r : (G!ToMatch(config.to, r) <=> ToMatch(config.to, r))
             /\ (G!FromMatch(config.from, r) <=> FromMatch(config.from, r))
    BY DEF G!ToMatch, ToMatch, G!FromMatch, FromMatch
<1>3. \A routes, r : /\ G!addCandidateRoute(routes, r) = addCandidateRoute(routes, r)
                     /\ G!removeCandidateRoute(routes, r) = removeCandidateRoute(routes, r)
    BY DEF G!addCandidateRoute, addCandidateRoute, G!Slot, Slot,
           G!removeCandidateRoute, removeCandidateRoute
<1>4. \A routes : G!targetRoute(routes, config.to) = targetRoute(routes, config.to)
    BY DEF G!targetRoute, targetRoute, G!bestCandidateRoute, bestCandidateRoute,
           G!Better, Better
<1>5. \A routes, r : G!installCandidateRoute(routes, r) => Aims(routes, r)
    BY <1>4 DEF G!installCandidateRoute, G!installRoute, Aims
<1>6. CASE n.type = "StartOfRIB" /\ candidateRoutes' = {}
           /\ UNCHANGED <<currentRoute, installationTick>>
    BY <1>6 DEF Handles
<1>7. CASE n.type = "EndOfRIB" /\ G!installCandidateRoute(candidateRoutes, currentRoute)
    BY <1>5, <1>7 DEF Handles
<1>8. CASE IsUpdate(n) /\ G!targetUpdate(n)
    <2>1. ToRoute(n.route)
          /\ Aims(candidateRoutes, IF n.type = "NEWROUTE" THEN n.route ELSE NoRoute)
        BY <1>2, <1>5, <1>8 DEF G!targetUpdate, ToRoute
    <2> QED BY <1>8, <2>1 DEF Handles
<1>9. CASE IsUpdate(n) /\ G!sourceUpdate(n)
    <2>1. ~ToRoute(n.route) /\ FromMatch(config.from, n.route)
          /\ Aims(After(candidateRoutes, n), currentRoute)
        BY <1>2, <1>3, <1>5, <1>9 DEF G!sourceUpdate, ToRoute, After
    <2> QED BY <1>9, <2>1 DEF Handles
<1>10. CASE IsUpdate(n) /\ G!alienUpdate(n)
    <2>1. ~ToRoute(n.route) /\ ~FromMatch(config.from, n.route) /\ Keeps
        BY <1>2, <1>10 DEF G!alienUpdate, ToRoute, Keeps
    <2> QED BY <1>10, <2>1 DEF Handles
<1> QED BY <1>6, <1>7, <1>8, <1>9, <1>10 DEF G!handle, IsUpdate

LEMMA ProcessIs ==
    ASSUME G!processNotification
    PROVE  /\ notification # <<>> /\ notification' = Tail(notification)
           /\ Handles(Head(notification))
           /\ UNCHANGED <<config, pc, dying>>
BY HandleIs DEF G!processNotification

LEMMA StreamTypes ==
    ASSUME P!StreamInv
    PROVE  /\ rib \subseteq Route /\ dump \subseteq Route /\ view \subseteq Route
           /\ live \in Seq(Event) /\ listening \in BOOLEAN
           /\ sync \in {"idle", "start", "list4", "dump4", "dump6", "updates"}
           /\ overflows \in 0..MaxOverflows
           /\ OnePerSlot(rib)
           /\ sync = "list4" => view = {}
           /\ sync = "updates" => dump = {}
BY SameForStream DEF P!StreamInv, P!TypeOK, Event

(* A loss of the subscription. *)
Loses ==
    /\ MaxOverflows # 0 /\ listening' = FALSE
    /\ \E k \in 0..Len(live) : live' = SubSeq(live, 1, k)
    /\ UNCHANGED <<rib, sync, dump, view>>

LEMMA WriteIs ==
    ASSUME NEW r \in Route, R!write(r), UNCHANGED <<listening, sync, dump, view>>
    PROVE  Changes([type |-> "NEWROUTE", route |-> r])
<1>1. rib' = addCandidateRoute(rib, r)
    BY DEF R!write, R!addCandidateRoute, addCandidateRoute, R!Slot, Slot
<1>2. \/ live' = IF listening THEN Append(live, [type |-> "NEWROUTE", route |-> r]) ELSE live
      \/ rib' = rib /\ live' = live
    BY <1>1 DEF R!write, R!report, R!Update, addCandidateRoute
<1>3. rib' = After(rib, [type |-> "NEWROUTE", route |-> r])
    BY <1>1 DEF After
<1> QED BY <1>2, <1>3 DEF Changes

LEMMA KernelIs ==
    ASSUME P!StreamInv, R!Kernel
    PROVE  \/ \E e \in Event : e.route \in External /\ Changes(e)
           \/ Loses
<1>1. ASSUME NEW r \in External, R!KernelReplace(r)
      PROVE  \E e \in Event : e.route \in External /\ Changes(e)
    <2> DEFINE e == [type |-> "NEWROUTE", route |-> r]
    <2>1. e \in Event /\ e.route = r /\ r \in Route
        BY RibType DEF Event
    <2>2. R!write(r) /\ UNCHANGED <<listening, sync, dump, view>>
        BY <1>1 DEF R!KernelReplace
    <2>3. Changes(e)
        BY <2>1, <2>2, WriteIs
    <2> HIDE DEF e
    <2> QED BY <2>1, <2>3
<1>2. ASSUME NEW r \in External, R!KernelDelete(r)
      PROVE  \E e \in Event : e.route \in External /\ Changes(e)
    <2> DEFINE e == [type |-> "DELROUTE", route |-> r]
    <2>1. e \in Event /\ e.route = r
        BY RibType DEF Event
    <2>2. Changes(e)
        BY <1>2 DEF Changes, R!KernelDelete, R!report, R!Update, After,
                    R!removeCandidateRoute, removeCandidateRoute
    <2> HIDE DEF e
    <2> QED BY <2>1, <2>2
<1>3. CASE R!Overflow
    <2>1. overflows < MaxOverflows /\ overflows \in 0..MaxOverflows
        BY <1>3, StreamTypes DEF R!Overflow
    <2>2. MaxOverflows # 0
        BY <2>1, BoundType
    <2> QED BY <1>3, <2>2 DEF R!Overflow, Loses
<1> QED BY <1>1, <1>2, <1>3 DEF R!Kernel

LEMMA SendIs ==
    ASSUME P!StreamInv, NEW n, R!Send(n)
    PROVE  Sends(n) /\ UNCHANGED <<rib, listening>> /\ P!Send(n)
<1>1. \A r : /\ R!addCandidateRoute(view, r) = addCandidateRoute(view, r)
             /\ R!removeCandidateRoute(view, r) = removeCandidateRoute(view, r)
    BY DEF R!addCandidateRoute, addCandidateRoute, R!Slot, Slot,
           R!removeCandidateRoute, removeCandidateRoute
<1>2. P!Send(n)
    BY DEF R!Send, P!Send, R!next, P!next, R!replay, P!replay, R!Mark, P!Mark,
           R!Update, P!Update, R!addCandidateRoute, P!addCandidateRoute, R!Slot, P!Slot,
           R!removeCandidateRoute, P!removeCandidateRoute, R!counters, P!counters
<1>3. UNCHANGED <<rib, listening>>
    BY DEF R!Send
<1>4. Sends(n)
    <2>1. CASE sync = "start" /\ n = R!Mark("StartOfRIB") /\ sync' = "list4"
               /\ UNCHANGED <<live, dump>>
        BY <2>1 DEF R!Send, R!replay, R!Mark, Sends
    <2>2. CASE sync \in {"dump4", "dump6"} /\ UNCHANGED <<live, sync>>
               /\ \E r \in dump : n = R!Update("NEWROUTE", r) /\ dump' = dump \ {r}
        <3>1. n \in Event /\ n.type = "NEWROUTE" /\ n.route \in dump /\ dump' = dump \ {n.route}
            BY <2>2, StreamTypes DEF R!Update, Event
        <3>2. view' = After(view, n)
            BY <1>1, <3>1 DEF R!Send, R!replay, After
        <3> QED BY <2>2, <3>1, <3>2 DEF Sends
    <2>3. CASE sync = "dump6" /\ dump = {} /\ n = R!Mark("EndOfRIB") /\ sync' = "updates"
               /\ UNCHANGED <<live, dump>>
        BY <2>3 DEF R!Send, R!replay, R!Mark, Sends
    <2>4. CASE sync = "updates" /\ live # <<>> /\ n = Head(live) /\ live' = Tail(live)
               /\ UNCHANGED <<sync, dump>>
        <3>1. n \in Event
            BY <2>4, StreamTypes, HeadTailProperties
        <3>2. view' = After(view, n)
            BY <1>1, <3>1 DEF R!Send, R!replay, After, Event
        <3> QED BY <2>4, <3>1, <3>2 DEF Sends
    <2> QED BY <2>1, <2>2, <2>3, <2>4 DEF R!Send, R!next
<1> QED BY <1>2, <1>3, <1>4

(* What the composition does to the stream is a step of the stream. *)
LEMMA StreamSteps ==
    /\ R!Kernel \/ R!Subscribe \/ R!ListIPv4 \/ R!ListIPv6 \/ R!Resync \/ R!ListFails
       => P!Next
    /\ R!newStream => P!newStream
    /\ \A r : R!AddRoute(r) => P!AddRoute(r)
    /\ \A n \in R!Sendable : R!Send(n) => P!Next
<1>1. R!Kernel => P!Kernel
    BY DEF R!Kernel, P!Kernel, R!KernelReplace, P!KernelReplace,
       R!KernelDelete, P!KernelDelete, R!Overflow, P!Overflow,
       R!write, P!write, R!report, P!report, R!Update, P!Update,
       R!addCandidateRoute, P!addCandidateRoute, R!Slot, P!Slot,
       R!removeCandidateRoute, P!removeCandidateRoute
<1>2. R!Subscribe \/ R!ListIPv4 \/ R!ListIPv6 \/ R!Resync \/ R!ListFails
      => P!Subscribe \/ P!ListIPv4 \/ P!ListIPv6 \/ P!Resync \/ P!ListFails
    BY DEF R!Subscribe, P!Subscribe, R!ListIPv4, P!ListIPv4,
       R!ListIPv6, P!ListIPv6, R!ListFails, P!ListFails,
       R!Resync, P!Resync, R!giveUp, P!giveUp, R!counters, P!counters
<1>3. R!newStream => P!newStream
    BY DEF R!newStream, P!newStream, R!counters, P!counters
<1>4. \A r : R!AddRoute(r) => P!AddRoute(r)
    BY DEF R!AddRoute, P!AddRoute, R!write, P!write, R!report, P!report,
       R!Update, P!Update, R!counters, P!counters,
       R!addCandidateRoute, P!addCandidateRoute, R!Slot, P!Slot
<1>5. \A n \in R!Sendable : R!Send(n) => n \in P!Sendable /\ P!Send(n)
    BY DEF R!Send, P!Send, R!next, P!next, R!replay, P!replay, R!Mark, P!Mark,
           R!Update, P!Update, R!addCandidateRoute, P!addCandidateRoute, R!Slot, P!Slot,
           R!removeCandidateRoute, P!removeCandidateRoute, R!counters, P!counters,
           R!Sendable, P!Sendable
<1> QED BY <1>1, <1>2, <1>3, <1>4, <1>5 DEF P!Next

-----------------------------------------------------------------------------
(* Which routes there are: those of the rest of the system, and targets of *)
(* this configuration.                                                     *)
Mine == {r \in KernelRoutes : r \in Known \/ ToRoute(r)}

Owned ==
    /\ rib \subseteq Mine /\ view \subseteq Mine /\ dump \subseteq Mine
    /\ \A i \in 1..Len(live) : live[i].route \in Mine
    /\ \A i \in 1..Len(notification) :
          IsUpdate(notification[i]) => notification[i].route \in Mine
    /\ currentRoute \in Mine \cup {NoRoute}
    /\ candidateRoutes \subseteq Known

(* The handler's invariant, the stream's, and the routes of both. *)
Base ==
    /\ H!Inv
    /\ P!StreamInv
    /\ Owned
    /\ lastBest \in Route \cup {NoRoute}
    /\ restarts \in 0..MaxRestarts

LEMMA HandlerTypes ==
    ASSUME H!Inv
    PROVE  /\ config \in Configurations
           /\ notification \in Seq(H!Notification)
           /\ currentRoute \in Route \cup {NoRoute}
           /\ installationTick \in BOOLEAN
           /\ candidateRoutes # {} =>
                 currentRoute = targetRoute(candidateRoutes, config.to)
           /\ currentRoute # NoRoute => ToRoute(currentRoute)
           /\ \A c \in candidateRoutes :
                 FromMatch(config.from, c) /\ ~ToMatch(config.to, c)
<1>1. H!TypeOK /\ H!CurrentTracksBest /\ H!CurrentInToSlot /\ H!CandidatesAreSources
    BY DEF H!Inv
<1>2. H!Route = Route
    BY DEF H!Route, Route
<1>3. \A r : (H!ToMatch(config.to, r) <=> ToMatch(config.to, r))
             /\ (H!FromMatch(config.from, r) <=> FromMatch(config.from, r))
    BY DEF H!ToMatch, ToMatch, H!FromMatch, FromMatch
<1>4. H!targetRoute(candidateRoutes, config.to) = targetRoute(candidateRoutes, config.to)
    BY DEF H!targetRoute, targetRoute, H!bestCandidateRoute, bestCandidateRoute,
           H!Better, Better
<1>5. /\ config \in Configurations /\ notification \in Seq(H!Notification)
      /\ currentRoute \in Route \cup {NoRoute} /\ installationTick \in BOOLEAN
    BY <1>1, <1>2 DEF H!TypeOK
<1>6. candidateRoutes # {} => currentRoute = targetRoute(candidateRoutes, config.to)
    BY <1>1, <1>4 DEF H!CurrentTracksBest
<1>7. currentRoute # NoRoute => ToRoute(currentRoute)
    BY <1>1, <1>3 DEF H!CurrentInToSlot, ToRoute
<1>8. \A c \in candidateRoutes : FromMatch(config.from, c) /\ ~ToMatch(config.to, c)
    BY <1>1, <1>3 DEF H!CandidatesAreSources
<1> QED BY <1>5, <1>6, <1>7, <1>8

(* Each step of the composition is one of the handler, or none of its.     *)
LEMMA HandlerNext ==
    ASSUME H!Inv, \/ G!processNotification \/ G!InstallSucceeds \/ G!InstallFails
                  \/ G!InstallPanics \/ UNCHANGED gatewayVars
    PROVE  H!Inv'
<1>1. H!Inv /\ [H!Next]_H!vars => H!Inv'
    BY HandlerAssumptions, H!NextInv
<1>2. CASE G!processNotification
    <2>1. H!processNotification
        BY <1>2, Zenon DEF G!processNotification, H!processNotification, G!handle, H!handle,
           G!targetUpdate, H!targetUpdate, G!sourceUpdate, H!sourceUpdate,
           G!alienUpdate, H!alienUpdate, G!installCandidateRoute, H!installCandidateRoute,
           G!installRoute, H!installRoute, G!targetRoute, H!targetRoute,
           G!bestCandidateRoute, H!bestCandidateRoute, G!Better, H!Better,
           G!addCandidateRoute, H!addCandidateRoute, G!Slot, H!Slot,
           G!removeCandidateRoute, H!removeCandidateRoute,
           G!ToMatch, H!ToMatch, G!FromMatch, H!FromMatch
    <2>2. H!Next
        BY <2>1, Zenon DEF H!Next
    <2> QED BY <1>1, <2>2
<1>3. CASE G!InstallSucceeds \/ G!InstallFails \/ G!InstallPanics
    <2>1. H!InstallSucceeds \/ H!InstallFails \/ H!InstallPanics
        BY <1>3 DEF G!InstallSucceeds, H!InstallSucceeds, G!InstallFails, H!InstallFails,
                    G!InstallPanics, H!InstallPanics, G!vars, H!vars
    <2>2. CASE H!InstallSucceeds
        BY <1>1, <2>2 DEF H!Next
    <2>3. CASE H!InstallFails
        BY <1>1, <2>3 DEF H!Next
    <2>4. CASE H!InstallPanics
        BY <1>1, <2>4 DEF H!Next
    <2> QED BY <2>1, <2>2, <2>3, <2>4
<1>4. CASE UNCHANGED gatewayVars
    <2>1. UNCHANGED H!vars
        BY <1>4 DEF gatewayVars, H!vars
    <2> QED BY <1>1, <2>1
<1> QED BY <1>2, <1>3, <1>4

LEMMA HandlerPush ==
    ASSUME H!Inv, NEW n \in H!Notification, G!pushNotification(n)
    PROVE  H!Inv'
<1>1. H!Inv /\ [H!Next]_H!vars => H!Inv'
    BY HandlerAssumptions, H!NextInv
<1>2. H!pushNotification(n)
    BY DEF G!pushNotification, H!pushNotification
<1> QED BY <1>1, <1>2 DEF H!Next

LEMMA HandlerInit == H!Init => H!Inv
BY HandlerAssumptions, H!InitInv

LEMMA HandlerInitNext == H!Init' => H!Inv'
BY HandlerInit, PTL

LEMMA HandlerRestarts ==
    ASSUME H!Inv, G!newGateway
    PROVE  H!Inv'
<1>1. config' \in Configurations
    BY HandlerTypes DEF G!newGateway
<1>2. H!Init'
    BY <1>1 DEF G!newGateway, H!Init
<1> QED BY <1>2, HandlerInitNext

-----------------------------------------------------------------------------
(* All that a step of the composition may do, but for the exported state   *)
(* and the counters.                                                       *)
Stays == UNCHANGED <<config, notification, currentRoute, candidateRoutes,
                     installationTick, lastBest>>

KernelStep(e) ==
    e \in Event /\ e.route \in External /\ Changes(e) /\ Stays

InstallStep ==
    /\ currentRoute # NoRoute /\ installationTick' = FALSE
    /\ Changes([type |-> "NEWROUTE", route |-> currentRoute])
    /\ UNCHANGED <<config, notification, currentRoute, candidateRoutes, lastBest>>

LossStep == Loses /\ Stays

SubscribeStep ==
    /\ sync = "idle" /\ sync' = "start" /\ listening' = TRUE /\ live' = <<>>
    /\ UNCHANGED <<rib, dump, view>> /\ Stays

ListStep ==
    /\ \/ /\ sync = "list4" /\ sync' = "dump4"
          /\ dump' = {r \in rib : r.dst \notin Prefix6}
       \/ /\ sync = "dump4" /\ dump = {} /\ sync' = "dump6"
          /\ dump' = {r \in rib : r.dst \in Prefix6}
    /\ UNCHANGED <<rib, listening, live, view>> /\ Stays

GiveUpStep ==
    /\ sync = "list4" \/ (sync = "updates" /\ ~listening)
    /\ sync' = "idle" /\ listening' = FALSE /\ live' = <<>>
    /\ UNCHANGED <<rib, dump, view>> /\ Stays

NotifyStep(n) ==
    /\ Sends(n) /\ P!Send(n) /\ notification' = Append(notification, n)
    /\ UNCHANGED <<config, currentRoute, candidateRoutes, installationTick, lastBest,
                   rib, listening>>

ProcessStep ==
    /\ notification # <<>> /\ notification' = Tail(notification)
    /\ Handles(Head(notification))
    /\ lastBest' = IF candidateRoutes' = {} THEN lastBest
                   ELSE bestCandidateRoute(candidateRoutes')
    /\ UNCHANGED <<config, rib, listening, live, sync, dump, view>>

RestartStep ==
    /\ notification' = <<>> /\ currentRoute' = NoRoute /\ candidateRoutes' = {}
    /\ installationTick' = FALSE /\ lastBest' = NoRoute
    /\ listening' = FALSE /\ live' = <<>> /\ sync' = "idle" /\ dump' = {} /\ view' = {}
    /\ UNCHANGED <<config, rib>>

SilentStep == Stays /\ UNCHANGED <<rib, listening, live, sync, dump, view>>

Moves ==
    \/ \E e : KernelStep(e)
    \/ InstallStep
    \/ LossStep
    \/ SubscribeStep
    \/ ListStep
    \/ GiveUpStep
    \/ \E n : NotifyStep(n)
    \/ ProcessStep
    \/ RestartStep
    \/ SilentStep

LEMMA StepMoves ==
    ASSUME H!Inv, P!StreamInv, [Next]_vars
    PROVE  Moves
<1>1. UNCHANGED gatewayVars /\ UNCHANGED lastBest => Stays
    BY DEF gatewayVars, Stays
<1>2. CASE Environment
    <2>1. Stays /\ R!Kernel
        BY <1>1, <1>2 DEF Environment
    <2> QED BY <2>1, KernelIs DEF Moves, KernelStep, LossStep
<1>3. CASE Netlink
    <2>1. Stays /\ (R!Subscribe \/ R!ListIPv4 \/ R!ListIPv6 \/ R!Resync)
        BY <1>1, <1>3 DEF Netlink
    <2>2. CASE R!Subscribe
        BY <2>1, <2>2 DEF R!Subscribe, Moves, SubscribeStep
    <2>3. CASE R!ListIPv4 \/ R!ListIPv6
        BY <2>1, <2>3 DEF R!ListIPv4, R!ListIPv6, Moves, ListStep
    <2>4. CASE R!Resync
        BY <2>1, <2>4 DEF R!Resync, R!giveUp, Moves, GiveUpStep
    <2> QED BY <2>1, <2>2, <2>3, <2>4
<1>4. CASE ListFails
    BY <1>1, <1>4 DEF ListFails, R!ListFails, R!giveUp, Moves, GiveUpStep
<1>5. CASE Notify
    <2>1. PICK n : R!Send(n) /\ G!pushNotification(n)
        BY <1>5 DEF Notify
    <2>2. NotifyStep(n)
        BY <1>5, <2>1, SendIs DEF Notify, NotifyStep, G!pushNotification
    <2> QED BY <2>2 DEF Moves
<1>6. CASE Process
    BY <1>6, ProcessIs DEF Process, streamVars, Moves, ProcessStep
<1>7. CASE Install
    <2>1. G!InstallSucceeds /\ R!AddRoute(currentRoute) /\ UNCHANGED lastBest
        BY <1>7 DEF Install
    <2>2. currentRoute \in Route
        BY <2>1, HandlerTypes DEF G!InstallSucceeds
    <2>3. Changes([type |-> "NEWROUTE", route |-> currentRoute])
        BY <2>1, <2>2, WriteIs DEF R!AddRoute
    <2> QED BY <2>1, <2>3 DEF G!InstallSucceeds, Moves, InstallStep
<1>8. CASE InstallFails \/ Panic \/ UNCHANGED vars
    <2>1. Stays
        BY <1>8 DEF InstallFails, G!InstallFails, G!vars, Panic, G!InstallPanics,
                    vars, gatewayVars, Stays
    <2>2. UNCHANGED streamVars
        BY <1>8 DEF InstallFails, Panic, vars
    <2> QED BY <2>1, <2>2 DEF Moves, SilentStep, streamVars
<1>9. CASE Restart
    BY <1>9 DEF Restart, G!newGateway, R!newStream, Moves, RestartStep
<1> QED BY <1>2, <1>3, <1>4, <1>5, <1>6, <1>7, <1>8, <1>9 DEF Next

-----------------------------------------------------------------------------
LEMMA MineAfter ==
    ASSUME NEW routes, routes \subseteq Mine, NEW e, e.route \in Mine
    PROVE  After(routes, e) \subseteq Mine
BY DEF After, addCandidateRoute, removeCandidateRoute

LEMMA MineStays == config' = config => Mine' = Mine
BY DEF Mine, ToRoute

LEMMA ExternalIsMine == External \subseteq Known /\ External \subseteq Mine
<1>1. External \subseteq Known
    BY DEF Known
<1> QED BY <1>1, KernelRoutesType DEF Mine

LEMMA MineIsRoute == Mine \subseteq Route /\ NoRoute \notin Mine
BY KernelRoutesType, NilValues DEF Mine

(* The indexes of a queue to which an element is added, or of which the    *)
(* first is taken.                                                         *)
LEMMA Appended ==
    ASSUME NEW S, NEW q \in Seq(S), NEW e \in S
    PROVE  /\ Append(q, e) \in Seq(S) /\ Len(q) \in Nat
           /\ Len(Append(q, e)) = Len(q) + 1
           /\ \A i \in 1..Len(q) : Append(q, e)[i] = q[i]
           /\ Append(q, e)[Len(q) + 1] = e
           /\ \A i \in 1..Len(Append(q, e)) : i \in 1..Len(q) \/ i = Len(q) + 1
BY AppendProperties, LenProperties

LEMMA Taken ==
    ASSUME NEW S, NEW q \in Seq(S), q # <<>>
    PROVE  /\ Tail(q) \in Seq(S) /\ Len(q) \in Nat
           /\ Len(Tail(q)) = Len(q) - 1 /\ Len(q) >= 1
           /\ Head(q) = q[1] /\ 1 \in 1..Len(q) /\ Head(q) \in S
           /\ \A i \in 1..Len(Tail(q)) : i + 1 \in 1..Len(q) /\ Tail(q)[i] = q[i + 1]
           /\ \A i \in 2..Len(q) : i - 1 \in 1..Len(Tail(q)) /\ Tail(q)[i - 1] = q[i]
<1>1. /\ Tail(q) \in Seq(S) /\ Len(Tail(q)) = Len(q) - 1 /\ Head(q) \in S
      /\ \A i \in 1..Len(Tail(q)) : Tail(q)[i] = q[i + 1]
      /\ Len(q) \in Nat /\ Len(q) # 0 /\ Head(q) = q[1]
    BY HeadTailProperties, LenProperties, EmptySeq
<1> QED BY <1>1

LEMMA Shortened ==
    ASSUME NEW S, NEW q \in Seq(S), NEW k \in 0..Len(q)
    PROVE  /\ SubSeq(q, 1, k) \in Seq(S) /\ Len(SubSeq(q, 1, k)) = k
           /\ \A i \in 1..k : i \in 1..Len(q) /\ SubSeq(q, 1, k)[i] = q[i]
<1>1. Len(q) \in Nat /\ \A i \in 1..k : q[i] \in S
    BY LenProperties, ElementOfSeq
<1> QED BY <1>1, SubSeqProperties

(* What the kernel reports comes from it, what is notified from what it    *)
(* reported or listed, and what is installed is a target.                  *)
LEMMA ChangesOwned ==
    ASSUME P!StreamInv, Owned, NEW e \in Event, e.route \in Mine, Changes(e),
           UNCHANGED <<config, notification, currentRoute, candidateRoutes>>
    PROVE  Owned'
<1>1. Mine' = Mine
    BY MineStays
<1>2. rib' \subseteq Mine
    BY MineAfter DEF Changes, Owned
<1>3. live \in Seq(Event)
    BY StreamTypes
<1>4. \A i \in 1..Len(live') : live'[i].route \in Mine
    <2>1. CASE live' = live
        BY <2>1 DEF Owned
    <2>2. CASE live' = Append(live, e)
        <3>1. /\ \A i \in 1..Len(live) : live'[i] = live[i]
              /\ live'[Len(live) + 1] = e
              /\ \A i \in 1..Len(live') : i \in 1..Len(live) \/ i = Len(live) + 1
            BY <1>3, <2>2, Appended
        <3> QED BY <3>1 DEF Owned
    <2> QED BY <2>1, <2>2 DEF Changes
<1> QED BY <1>1, <1>2, <1>4 DEF Changes, Owned

LEMMA NotifyOwned ==
    ASSUME H!Inv, P!StreamInv, Owned, NEW n, NotifyStep(n)
    PROVE  Owned' /\ n \in H!Notification
<1>1. /\ live \in Seq(Event) /\ notification \in Seq(H!Notification)
      /\ Mine' = Mine /\ Mine \subseteq KernelRoutes
    BY StreamTypes, HandlerTypes, MineStays DEF NotifyStep, Mine
<1>2. IsUpdate(n) => n.route \in Mine
    <2>1. CASE n.route \in dump
        BY <2>1 DEF Owned
    <2>2. CASE live # <<>> /\ n = Head(live)
        BY <1>1, <2>2, Taken DEF Owned
    <2>3. CASE n.type \in {"StartOfRIB", "EndOfRIB"}
        BY <2>3 DEF IsUpdate
    <2> QED BY <2>1, <2>2, <2>3 DEF NotifyStep, Sends
<1>3. n \in H!Notification
    <2>1. CASE n \in Event
        BY <1>1, <1>2, <2>1 DEF Event, IsUpdate, H!Notification
    <2>2. CASE n \in {[type |-> t, route |-> NoRoute] : t \in {"StartOfRIB", "EndOfRIB"}}
        BY <2>2 DEF H!Notification
    <2> QED BY <2>1, <2>2 DEF NotifyStep, Sends
<1>4. \A i \in 1..Len(notification') :
         IsUpdate(notification'[i]) => notification'[i].route \in Mine
    BY <1>1, <1>2, <1>3, Appended DEF NotifyStep, Owned
<1>5. (n \in Event /\ view' = After(view, n)) \/ view' \in {view, {}}
    BY DEF NotifyStep, Sends
<1>6. view' \subseteq Mine
    BY <1>2, <1>5, MineAfter DEF Owned, Event, IsUpdate
<1>7. dump' \subseteq Mine
    BY DEF NotifyStep, Sends, Owned
<1>8. \A i \in 1..Len(live') : live'[i].route \in Mine
    <2>1. CASE live' = live
        BY <2>1 DEF Owned
    <2>2. CASE live # <<>> /\ live' = Tail(live)
        BY <1>1, <2>2, Taken DEF Owned
    <2> QED BY <2>1, <2>2 DEF NotifyStep, Sends
<1> QED BY <1>1, <1>3, <1>4, <1>6, <1>7, <1>8 DEF NotifyStep, Owned

LEMMA AimsOwned ==
    ASSUME config \in Configurations, NEW candidates, candidates \subseteq Known,
           NEW current \in Mine \cup {NoRoute}, Aims(candidates, current)
    PROVE  candidateRoutes' \subseteq Known /\ currentRoute' \in Mine \cup {NoRoute}
<1> DEFINE target == targetRoute(candidates, config.to)
<1>1. target # NoRoute => target \in KernelRoutes
    BY TargetIsKernels
<1>2. target # NoRoute => ToRoute(target)
    <2>1. candidates \in SUBSET Route /\ config.to \in ToConfiguration
        BY KernelRoutesType, ConfigType DEF LRGConfiguration
    <2> QED BY <2>1, TargetInToSlot DEF ToRoute
<1>3. target \in Mine \cup {NoRoute}
    BY <1>1, <1>2 DEF Mine
<1> HIDE DEF target
<1> QED BY <1>3 DEF Aims, target

LEMMA HandlesOwned ==
    ASSUME H!Inv, Owned, NEW n, Handles(n), IsUpdate(n) => n.route \in Mine
    PROVE  candidateRoutes' \subseteq Known /\ currentRoute' \in Mine \cup {NoRoute}
<1>1. config \in Configurations
    BY HandlerTypes
<1>2. candidateRoutes \subseteq Known /\ currentRoute \in Mine \cup {NoRoute}
    BY DEF Owned
<1>3. CASE \/ candidateRoutes' = {} /\ UNCHANGED <<currentRoute, installationTick>>
           \/ Keeps
    BY <1>2, <1>3 DEF Keeps
<1>4. CASE Aims(candidateRoutes, currentRoute)
    BY <1>1, <1>2, <1>4, AimsOwned
<1>5. CASE IsUpdate(n)
           /\ Aims(candidateRoutes, IF n.type = "NEWROUTE" THEN n.route ELSE NoRoute)
    BY <1>1, <1>2, <1>5, AimsOwned
<1>6. CASE IsUpdate(n) /\ ~ToRoute(n.route) /\ Aims(After(candidateRoutes, n), currentRoute)
    <2>1. n.route \in Known
        BY <1>6 DEF Mine
    <2>2. After(candidateRoutes, n) \subseteq Known
        BY <1>2, <2>1 DEF After, addCandidateRoute, removeCandidateRoute
    <2> QED BY <1>1, <1>2, <1>6, <2>2, AimsOwned
<1> QED BY <1>3, <1>4, <1>5, <1>6 DEF Handles

LEMMA ProcessOwned ==
    ASSUME H!Inv, P!StreamInv, Owned, ProcessStep
    PROVE  Owned'
<1> DEFINE n == Head(notification)
<1>1. notification \in Seq(H!Notification) /\ notification # <<>> /\ Mine' = Mine
    BY HandlerTypes, MineStays DEF ProcessStep
<1>2. IsUpdate(n) => n.route \in Mine
    BY <1>1, Taken DEF Owned
<1>3. candidateRoutes' \subseteq Known /\ currentRoute' \in Mine \cup {NoRoute}
    BY <1>2, HandlesOwned DEF ProcessStep
<1>4. \A i \in 1..Len(notification') :
         IsUpdate(notification'[i]) => notification'[i].route \in Mine
    BY <1>1, Taken DEF ProcessStep, Owned
<1> QED BY <1>1, <1>3, <1>4 DEF ProcessStep, Owned

LEMMA MovesOwned ==
    ASSUME H!Inv, P!StreamInv, Owned, Moves
    PROVE  Owned'
<1>0. live \in Seq(Event)
    BY StreamTypes
<1>1. ASSUME NEW e, KernelStep(e) PROVE Owned'
    BY <1>1, ExternalIsMine, ChangesOwned DEF KernelStep, Stays
<1>2. CASE InstallStep
    <2> DEFINE e == [type |-> "NEWROUTE", route |-> currentRoute]
    <2>1. currentRoute \in Mine /\ currentRoute \in Route
        BY <1>2, MineIsRoute DEF InstallStep, Owned
    <2>2. e \in Event /\ e.route \in Mine
        BY <2>1 DEF Event
    <2>3. Changes(e) /\ UNCHANGED <<config, notification, currentRoute, candidateRoutes>>
        BY <1>2 DEF InstallStep
    <2> HIDE DEF e
    <2> QED BY <2>2, <2>3, ChangesOwned
<1>3. CASE LossStep
    <2>1. PICK k \in 0..Len(live) : live' = SubSeq(live, 1, k)
        BY <1>3 DEF LossStep, Loses
    <2>2. \A i \in 1..Len(live') : live'[i].route \in Mine
        BY <1>0, <2>1, Shortened DEF Owned
    <2> QED BY <1>3, <2>2, MineStays DEF LossStep, Loses, Stays, Owned
<1>4. CASE SubscribeStep \/ GiveUpStep \/ RestartStep
    <2>1. /\ live' = <<>> /\ config' = config /\ rib' = rib
          /\ dump' \in {dump, {}} /\ view' \in {view, {}}
          /\ \/ UNCHANGED <<notification, currentRoute, candidateRoutes>>
             \/ notification' = <<>> /\ currentRoute' = NoRoute /\ candidateRoutes' = {}
        BY <1>4 DEF SubscribeStep, GiveUpStep, RestartStep, Stays
    <2>2. \A i \in 1..Len(live') : live'[i].route \in Mine'
        BY <2>1
    <2>3. \A i \in 1..Len(notification') :
             IsUpdate(notification'[i]) => notification'[i].route \in Mine
        BY <2>1 DEF Owned
    <2> QED BY <2>1, <2>2, <2>3, MineStays DEF Owned
<1>5. CASE ListStep
    <2>1. dump' \subseteq rib
        BY <1>5 DEF ListStep
    <2> QED BY <1>5, <2>1, MineStays DEF ListStep, Stays, Owned
<1>6. ASSUME NEW n, NotifyStep(n) PROVE Owned'
    BY <1>6, NotifyOwned
<1>7. CASE SilentStep
    BY <1>7, MineStays DEF SilentStep, Stays, Owned
<1> QED BY <1>1, <1>2, <1>3, <1>4, <1>5, <1>6, <1>7, ProcessOwned DEF Moves

LEMMA InitBase == Init => Base
<1> SUFFICES ASSUME Init PROVE Base
    OBVIOUS
<1>1. H!Inv
    <2>1. H!Init
        BY DEF Init, G!Init, H!Init
    <2> QED BY <2>1, HandlerInit
<1>2. P!StreamInv
    <2>1. P!Init
        BY DEF Init, R!Init, P!Init
    <2> QED BY <2>1, StreamNil, StreamTables, P!InitStream
<1>3. rib \subseteq Known
    BY DEF Init, R!Init, Known
<1>4. rib \subseteq Mine
    BY <1>3, KernelRoutesType DEF Mine
<1>5. live = <<>> /\ notification = <<>> /\ dump = {} /\ view = {}
      /\ currentRoute = NoRoute /\ candidateRoutes = {}
    BY DEF Init, R!Init, G!Init
<1>6. Owned
    BY <1>4, <1>5 DEF Owned
<1>7. restarts \in 0..MaxRestarts
    BY BoundType DEF Init
<1> QED BY <1>1, <1>2, <1>6, <1>7 DEF Init, Base

LEMMA NextBase == Base /\ [Next]_vars => Base'
<1> SUFFICES ASSUME Base, [Next]_vars PROVE Base'
    OBVIOUS
<1>0. H!Inv /\ P!StreamInv /\ Owned
    BY DEF Base
<1>1. Owned'
    BY <1>0, StepMoves, MovesOwned
<1>2. H!Inv'
    <2>1. CASE UNCHANGED gatewayVars
        BY <1>0, <2>1, HandlerNext
    <2>2. CASE Notify
        <3>1. PICK n : R!Send(n) /\ G!pushNotification(n)
            BY <2>2 DEF Notify
        <3>2. NotifyStep(n)
            BY <1>0, <2>2, <3>1, SendIs DEF Notify, NotifyStep, G!pushNotification
        <3>3. n \in H!Notification
            BY <1>0, <3>2, NotifyOwned
        <3> QED BY <1>0, <3>1, <3>3, HandlerPush
    <2>3. CASE Process \/ Install \/ InstallFails \/ Panic
        BY <1>0, <2>3, HandlerNext DEF Process, Install, InstallFails, Panic
    <2>4. CASE Restart
        BY <1>0, <2>4, HandlerRestarts DEF Restart
    <2> QED BY <2>1, <2>2, <2>3, <2>4 DEF Next, Environment, Netlink, ListFails, vars
<1>3. P!StreamInv'
    <2>1. P!StreamInv /\ P!Tables /\ [P!Next]_P!vars => P!StreamInv'
        BY StreamNil, P!NextStream
    <2>2. P!StreamInv /\ P!Tables /\ P!Step => P!StreamInv'
        BY StreamNil, P!StepKeeps
    <2>3. CASE UNCHANGED streamVars
        <3>1. UNCHANGED P!vars
            BY <2>3 DEF streamVars, P!vars, P!counters
        <3> QED BY <1>0, <2>1, <3>1, StreamTables
    <2>4. CASE Environment \/ Netlink \/ ListFails \/ Notify
        <3>1. P!Next
            BY <2>4, StreamSteps DEF Environment, Netlink, ListFails, Notify
        <3> QED BY <1>0, <2>1, <3>1, StreamTables
    <2>5. CASE Install
        <3>1. currentRoute \in Route
            BY <1>0, <2>5, HandlerTypes DEF Install, G!InstallSucceeds
        <3>2. P!AddRoute(currentRoute) /\ currentRoute \in P!Route
            BY <2>5, <3>1, StreamSteps, SameForStream DEF Install
        <3> QED BY <1>0, <2>2, <3>2, StreamTables DEF P!Step
    <2>6. CASE Restart
        <3>1. P!newStream
            BY <2>6, StreamSteps DEF Restart
        <3> QED BY <1>0, <2>2, <3>1, StreamTables DEF P!Step
    <2> QED BY <2>3, <2>4, <2>5, <2>6 DEF Next, Process, InstallFails, Panic, vars
<1>4. lastBest' \in Route \cup {NoRoute}
    <2>1. lastBest \in Route \cup {NoRoute}
        BY DEF Base
    <2>2. candidateRoutes' \subseteq Route
        BY <1>1, KernelRoutesType DEF Owned
    <2>3. candidateRoutes' # {} => bestCandidateRoute(candidateRoutes') \in Route
        BY <2>2, BestIsCandidate
    <2>4. \/ lastBest' \in {lastBest, NoRoute}
          \/ candidateRoutes' # {} /\ lastBest' = bestCandidateRoute(candidateRoutes')
        BY DEF Next, Environment, Netlink, ListFails, Notify, Process, Install,
               InstallFails, Panic, Restart, vars
    <2> QED BY <2>1, <2>3, <2>4
<1>5. restarts' \in 0..MaxRestarts
    <2>1. restarts \in 0..MaxRestarts /\ MaxRestarts \in Nat
        BY BoundType DEF Base
    <2>2. restarts' = restarts \/ (restarts < MaxRestarts /\ restarts' = restarts + 1)
        BY DEF Next, Environment, Netlink, ListFails, Notify, Process, Install,
               InstallFails, Panic, Restart, vars
    <2> QED BY <2>1, <2>2
<1> QED BY <1>1, <1>2, <1>3, <1>4, <1>5 DEF Base

LEMMA BaseHolds == Spec => []Base
BY InitBase, NextBase, PTL DEF Spec

LEMMA BaseTypes == Base => TypeOK
<1> SUFFICES ASSUME Base PROVE TypeOK
    OBVIOUS
<1>1. G!TypeOK
    <2>1. H!TypeOK
        BY DEF Base, H!Inv
    <2> QED BY <2>1 DEF G!TypeOK, H!TypeOK, G!Notification, H!Notification, G!Route, H!Route
<1>2. R!TypeOK
    <2>1. P!TypeOK
        BY DEF Base, P!StreamInv
    <2> QED BY <2>1 DEF R!TypeOK, P!TypeOK, R!Route, P!Route
<1> QED BY <1>1, <1>2 DEF Base, TypeOK

(* The types of the composition: in particular the program never writes to *)
(* the kernel, nor is told, anything but the routes of the rest of the     *)
(* system and the targets of its configuration, and its channel never      *)
(* exceeds its capacity, however late its own writes come back.            *)
THEOREM TypeCorrect == Spec => []TypeOK
BY BaseHolds, BaseTypes, PTL

-----------------------------------------------------------------------------
(* The story that the notifications on their way tell: h[0] is a table     *)
(* whose source routes are candidates, and each notification leads from    *)
(* one table to the next, up to the view of the stream.                    *)
Told(routes, n) ==
    IF n.type = "StartOfRIB" THEN {}
    ELSE IF n.type = "EndOfRIB" THEN routes
    ELSE After(routes, n)

Exact == SourcesKeepOff /\ SourcesKeepTheirSlots

Holds(candidates, sources) ==
    sources \subseteq candidates /\ (Exact => candidates = sources)

StoryOf(h) ==
    /\ h \in [0..Len(notification) -> SUBSET KernelRoutes]
    /\ Holds(candidateRoutes, Sources(h[0]))
    /\ \A i \in 1..Len(notification) : h[i] = Told(h[i - 1], notification[i])
    /\ h[Len(notification)] = view

Story == \E h : StoryOf(h)

(* Whatever is notified, the handler holds the source routes of what was   *)
(* told: one that takes the place of another does so in its candidates.    *)
(* It holds no other if a write in the slot of its gateway touches no      *)
(* source route, and a route it ignores takes the place of none.           *)
LEMMA SourcesFollow ==
    ASSUME config \in Configurations, config' = config,
           NEW routes \in SUBSET KernelRoutes, Holds(candidateRoutes, Sources(routes)),
           NEW n, IsUpdate(n) => n.route \in KernelRoutes, Handles(n)
    PROVE  Holds(candidateRoutes', Sources(Told(routes, n)))
<1>1. CASE n.type = "StartOfRIB" /\ candidateRoutes' = {}
    BY <1>1 DEF Told, Sources, Holds
<1>2. CASE n.type = "EndOfRIB" /\ Aims(candidateRoutes, currentRoute)
    BY <1>2 DEF Told, Sources, Aims
<1>3. CASE IsUpdate(n)
    <2>1. Told(routes, n) = After(routes, n) /\ n.route \in KernelRoutes
        BY <1>3 DEF Told, IsUpdate
    <2>2. CASE ToRoute(n.route)
        <3>1. candidateRoutes' = candidateRoutes
            BY <1>3, <2>2 DEF Handles, Aims, IsUpdate
        <3>2. Sources(After(routes, n)) \subseteq Sources(routes)
            BY <2>2 DEF After, addCandidateRoute, removeCandidateRoute, Sources, ToRoute
        <3>3. ASSUME Exact PROVE Sources(routes) \subseteq Sources(After(routes, n))
            <4>1. \A r \in routes : Slot(r) = Slot(n.route) /\ FromMatch(config.from, r)
                                    => ToRoute(r)
                BY <2>2, <3>3 DEF Exact, SourcesKeepOff, InToSlot, Slot, ToRoute, ToMatch
            <4> QED BY <2>2, <4>1 DEF After, addCandidateRoute, removeCandidateRoute,
                                      Sources, ToRoute
        <3> QED BY <2>1, <3>1, <3>2, <3>3 DEF Holds
    <2>3. CASE ~ToRoute(n.route) /\ FromMatch(config.from, n.route)
        <3>1. candidateRoutes' = After(candidateRoutes, n)
            BY <1>3, <2>3 DEF Handles, Aims, IsUpdate
        <3>2. Sources(After(routes, n)) = After(Sources(routes), n)
            BY <2>3 DEF After, addCandidateRoute, removeCandidateRoute, Sources, ToRoute
        <3>3. Sources(After(routes, n)) \subseteq After(candidateRoutes, n)
            <4>1. Sources(routes) \subseteq candidateRoutes
                BY DEF Holds
            <4>2. n.route \in routes => n.route \in Sources(routes)
                BY <2>3 DEF Sources, ToRoute
            <4> QED BY <3>2, <4>1, <4>2 DEF After, addCandidateRoute, removeCandidateRoute,
                                            Sources
        <3> QED BY <2>1, <3>1, <3>2, <3>3 DEF Holds
    <2>4. CASE ~ToRoute(n.route) /\ ~FromMatch(config.from, n.route)
        <3>1. candidateRoutes' = candidateRoutes
            BY <1>3, <2>4 DEF Handles, Keeps, IsUpdate
        <3>2. Sources(After(routes, n)) \subseteq Sources(routes)
            BY <2>4 DEF After, addCandidateRoute, removeCandidateRoute, Sources, ToRoute
        <3>3. ASSUME Exact PROVE Sources(routes) \subseteq Sources(After(routes, n))
            <4>1. \A r \in routes : Slot(r) = Slot(n.route) /\ ~ToRoute(r)
                                    => ~FromMatch(config.from, r)
                BY <2>1, <2>4, <3>3 DEF Exact, SourcesKeepTheirSlots, ToRoute
            <4> QED BY <2>4, <4>1 DEF After, addCandidateRoute, removeCandidateRoute,
                                      Sources, ToRoute
        <3> QED BY <2>1, <3>1, <3>2, <3>3 DEF Holds
    <2> QED BY <2>2, <2>3, <2>4
<1> QED BY <1>1, <1>2, <1>3 DEF Handles

LEMMA ToldType ==
    ASSUME NEW routes \in SUBSET KernelRoutes, NEW n, IsUpdate(n) => n.route \in KernelRoutes,
           n.type \in {"StartOfRIB", "EndOfRIB", "NEWROUTE", "DELROUTE"}
    PROVE  Told(routes, n) \in SUBSET KernelRoutes
BY DEF Told, After, addCandidateRoute, removeCandidateRoute, IsUpdate

(* A notification is added to the story. *)
LEMMA StoryTold ==
    ASSUME Base, NEW h, StoryOf(h), NEW n, NotifyStep(n)
    PROVE  \E f : /\ StoryOf(f)'
                  /\ \A i \in 0..Len(notification) : f[i] = h[i]
                  /\ f[Len(notification) + 1] = view'
<1> DEFINE k == Len(notification)
<1>0. PICK f : f = [i \in 0..(k + 1) |-> IF i = k + 1 THEN view' ELSE h[i]]
    OBVIOUS
<1>1. /\ n \in H!Notification /\ notification \in Seq(H!Notification)
      /\ notification' = Append(notification, n) /\ Owned'
    BY NotifyOwned, HandlerTypes DEF Base, NotifyStep
<1>2. /\ k \in Nat /\ Len(notification') = k + 1
      /\ \A i \in 1..k : notification'[i] = notification[i]
      /\ notification'[k + 1] = n
      /\ \A i \in 1..(k + 1) : i \in 1..k \/ i = k + 1
    BY <1>1, Appended
<1>3. view' = Told(view, n)
    BY DEF NotifyStep, Sends, Told, Event
<1>4. view' \in SUBSET KernelRoutes
    BY <1>1 DEF Owned, Mine
<1>5. f \in [0..Len(notification') -> SUBSET KernelRoutes]
    BY <1>0, <1>2, <1>4 DEF StoryOf
<1>6. (\A i \in 0..k : f[i] = h[i]) /\ f[k + 1] = view'
    BY <1>0, <1>2
<1>7. Holds(candidateRoutes, Sources(f[0]))'
    <2>1. f[0] = h[0] /\ Holds(candidateRoutes, Sources(h[0]))
        BY <1>2, <1>6 DEF StoryOf
    <2> QED BY <2>1 DEF NotifyStep, Sources, Holds, Exact
<1>8. ASSUME NEW i \in 1..Len(notification') PROVE f[i] = Told(f[i - 1], notification'[i])
    <2>1. CASE i \in 1..k
        <3>1. i \in 0..k /\ i - 1 \in 0..k
            BY <1>2, <2>1
        <3> QED BY <1>2, <1>6, <2>1, <3>1 DEF StoryOf
    <2>2. CASE i = k + 1
        <3>1. i - 1 = k /\ k \in 0..k
            BY <1>2, <2>2
        <3> QED BY <1>2, <1>3, <1>6, <2>2, <3>1 DEF StoryOf
    <2> QED BY <1>2, <2>1, <2>2
<1>9. StoryOf(f)'
    BY <1>2, <1>5, <1>6, <1>7, <1>8 DEF StoryOf
<1> QED BY <1>6, <1>9

(* The first notification is taken from it. *)
LEMMA StoryTaken ==
    ASSUME Base, NEW h, StoryOf(h), ProcessStep
    PROVE  \E f : /\ StoryOf(f)'
                  /\ \A i \in 1..Len(notification) : f[i - 1] = h[i]
<1> DEFINE k == Len(notification)
           n == Head(notification)
<1>0. PICK f : f = [i \in 0..(k - 1) |-> h[i + 1]]
    OBVIOUS
<1>1. notification \in Seq(H!Notification) /\ notification # <<>>
      /\ notification' = Tail(notification)
    BY HandlerTypes DEF Base, ProcessStep
<1>2. /\ k \in Nat /\ k >= 1 /\ Len(notification') = k - 1
      /\ n = notification[1] /\ 1 \in 1..k
      /\ \A i \in 1..(k - 1) : i + 1 \in 1..k /\ notification'[i] = notification[i + 1]
    BY <1>1, Taken
<1>3. \A i \in 0..(k - 1) : i + 1 \in 0..k
    BY <1>2
<1>4. f \in [0..Len(notification') -> SUBSET KernelRoutes]
    BY <1>0, <1>2, <1>3 DEF StoryOf
<1>5. \A i \in 1..k : f[i - 1] = h[i]
    BY <1>0, <1>2
<1>6. \A i \in 0..(k - 1) : f[i] = h[i + 1]
    BY <1>0, <1>2
<1> HIDE DEF n
<1>7. h[1] = Told(h[0], n) /\ h[0] \in SUBSET KernelRoutes
    <2>1. 1 - 1 = 0 /\ 0 \in 0..k
        BY <1>2
    <2> QED BY <1>2, <2>1 DEF StoryOf
<1>8. IsUpdate(n) => n.route \in KernelRoutes
    BY <1>2 DEF Base, Owned, Mine
<1>9. Holds(candidateRoutes', Sources(h[1]))
    BY <1>7, <1>8, SourcesFollow, HandlerTypes DEF Base, ProcessStep, StoryOf, n
<1>10. Holds(candidateRoutes, Sources(f[0]))'
    <2>1. f[0] = h[1]
        BY <1>2, <1>6
    <2> QED BY <1>9, <2>1 DEF ProcessStep, Sources, Holds, Exact
<1>11. ASSUME NEW i \in 1..Len(notification') PROVE f[i] = Told(f[i - 1], notification'[i])
    <2>1. i \in 0..(k - 1) /\ i - 1 \in 0..(k - 1) /\ (i - 1) + 1 = i /\ i + 1 \in 1..k
          /\ (i + 1) - 1 = i
        BY <1>2
    <2>2. h[i + 1] = Told(h[i], notification[i + 1])
        BY <2>1 DEF StoryOf
    <2> QED BY <1>2, <1>6, <2>1, <2>2
<1>12. f[Len(notification')] = view'
    <2>1. k - 1 \in 0..(k - 1) /\ (k - 1) + 1 = k
        BY <1>2
    <2> QED BY <1>2, <1>6, <2>1 DEF StoryOf, ProcessStep
<1>13. StoryOf(f)'
    BY <1>4, <1>10, <1>11, <1>12 DEF StoryOf
<1> QED BY <1>5, <1>13

LEMMA StoryStays ==
    ASSUME NEW h, StoryOf(h), UNCHANGED <<config, notification, candidateRoutes, view>>
    PROVE  StoryOf(h)'
BY DEF StoryOf, Sources, Holds, Exact

(* Nothing was told to a new process. *)
LEMMA StoryStarts ==
    ASSUME notification = <<>>, candidateRoutes = {}, view = {}
    PROVE  \E h : StoryOf(h) /\ h[0] = {}
<1>1. PICK h : h = [i \in 0..0 |-> {}]
    OBVIOUS
<1>2. Len(notification) = 0 /\ 1..0 = {}
    OBVIOUS
<1>3. h \in [0..0 -> SUBSET KernelRoutes] /\ h[0] = {}
    BY <1>1
<1>4. Sources(h[0]) = {}
    BY <1>3 DEF Sources
<1>5. StoryOf(h)
    BY <1>2, <1>3, <1>4 DEF StoryOf, Holds
<1> QED BY <1>3, <1>5

StartsOver == notification = <<>> /\ candidateRoutes = {} /\ view = {}
ToldNothing == \E h : StoryOf(h) /\ h[0] = {}

LEMMA StoryStartsNext == StartsOver' => ToldNothing'
<1>1. StartsOver => ToldNothing
    BY StoryStarts DEF StartsOver, ToldNothing
<1> QED BY <1>1, PTL

LEMMA StoryMoves ==
    ASSUME Base, Story, Moves
    PROVE  Story'
<1>1. PICK h : StoryOf(h)
    BY DEF Story
<1>2. CASE UNCHANGED <<config, notification, candidateRoutes, view>>
    BY <1>1, <1>2, StoryStays DEF Story
<1>3. ASSUME NEW n, NotifyStep(n) PROVE Story'
    <2>1. \E f : StoryOf(f)'
        BY <1>1, <1>3, StoryTold
    <2> QED BY <2>1 DEF Story
<1>4. CASE ProcessStep
    <2>1. \E f : StoryOf(f)'
        BY <1>1, <1>4, StoryTaken
    <2> QED BY <2>1 DEF Story
<1>5. CASE RestartStep
    <2>1. StartsOver'
        BY <1>5 DEF RestartStep, StartsOver
    <2> QED BY <2>1, StoryStartsNext DEF ToldNothing, Story
<1>6. \/ UNCHANGED <<config, notification, candidateRoutes, view>>
      \/ \E n : NotifyStep(n)
      \/ ProcessStep
      \/ RestartStep
    BY DEF Moves, KernelStep, InstallStep, LossStep, SubscribeStep, ListStep, GiveUpStep,
           SilentStep, Stays, Changes, Loses
<1> QED BY <1>2, <1>3, <1>4, <1>5, <1>6

LEMMA StoryHolds == Spec => [](Base /\ Story)
<1>1. Init => Story
    <2>1. Init => StartsOver
        BY DEF Init, G!Init, R!Init, StartsOver
    <2> QED BY <2>1, StoryStarts DEF StartsOver, Story
<1>2. Base /\ Story /\ [Next]_vars => (Base /\ Story)'
    <2>1. Base /\ [Next]_vars => Moves
        BY StepMoves DEF Base
    <2> QED BY <2>1, NextBase, StoryMoves
<1> QED BY <1>1, <1>2, InitBase, PTL DEF Spec

LEMMA StoryGives ==
    Story => SourcesAreCandidates /\ (Exact => CandidatesFollowStream)
<1> SUFFICES ASSUME Story, notification = <<>>
             PROVE  Holds(candidateRoutes, Sources(view))
    BY DEF SourcesAreCandidates, CandidatesFollowStream, Holds
<1>1. PICK h : StoryOf(h)
    BY DEF Story
<1>2. Len(notification) = 0
    OBVIOUS
<1> QED BY <1>1, <1>2 DEF StoryOf

(* Whatever the configuration and whatever the rest of the system writes,  *)
(* also in the slots of sources and of gateways, the handler misses no     *)
(* source route of the replay of the notifications, at every point of a    *)
(* dump, of a resynchronisation and after a restart (gateway.go,           *)
(* processNotification).                                                   *)
THEOREM NoSourceIsMissed == Spec => []SourcesAreCandidates
BY StoryHolds, StoryGives, PTL

(* The same in each direction where what takes the slot of a source is a   *)
(* source: its own writes, which come back among the notifications, make   *)
(* no difference.                                                          *)
THEOREM CandidatesReplay ==
    ASSUME SourcesKeepOff, SourcesKeepTheirSlots
    PROVE  Spec => []CandidatesFollowStream
<1>1. Story => CandidatesFollowStream
    BY StoryGives DEF Exact
<1> QED BY <1>1, StoryHolds, PTL

LEMMA QuietMeans ==
    ASSUME Base, Quiet
    PROVE  /\ sync = "updates" /\ listening /\ live = <<>> /\ dump = {}
           /\ notification = <<>> /\ ~installationTick /\ view = rib
<1>1. sync = "updates" /\ listening /\ live = <<>> /\ notification = <<>> /\ ~installationTick
    BY DEF Quiet, R!CaughtUp
<1>2. P!StreamInv => P!ViewIsRib
    BY StreamNil, P!CaughtUpView
<1>3. view = rib
    BY <1>1, <1>2 DEF Base, P!ViewIsRib, P!CaughtUp
<1> QED BY <1>1, <1>3, StreamTypes DEF Base

(* Once everything was sent and processed, the candidates are the source   *)
(* routes of the kernel: nothing is missed or kept through the listings,   *)
(* the losses, the failures and the restarts, in the same circumstances.   *)
THEOREM CandidatesFromKernel ==
    ASSUME SourcesKeepOff, SourcesKeepTheirSlots
    PROVE  Spec => []CandidatesAreKernels
<1>1. Base /\ CandidatesFollowStream => CandidatesAreKernels
    BY QuietMeans DEF CandidatesAreKernels, CandidatesFollowStream, Quiet
<1> QED BY <1>1, BaseHolds, CandidatesReplay, PTL

LEMMA ApartIsExact == HalvesApart => SourcesKeepOff /\ SourcesKeepTheirSlots
<1> SUFFICES ASSUME HalvesApart PROVE SourcesKeepOff /\ SourcesKeepTheirSlots
    OBVIOUS
<1>1. ASSUME NEW r \in KernelRoutes, NEW f \in Configurations
      PROVE  ~(InToSlot(f.to, r) /\ FromMatch(f.from, r))
    BY DEF HalvesApart, InToSlot, FromMatch
<1>2. ASSUME NEW r \in KernelRoutes, NEW q \in KernelRoutes, NEW f \in Configurations,
             FromMatch(f.from, r), Slot(r) = Slot(q)
      PROVE  FromMatch(f.from, q)
    BY <1>2 DEF HalvesApart, FromMatch, Slot
<1> QED BY <1>1, <1>2 DEF SourcesKeepOff, SourcesKeepTheirSlots

(* For a configuration whose halves are apart, the default protocol of     *)
(* sources included, this takes nothing of the rest of the system: other   *)
(* daemons may write any route in any slot, at any time.                   *)
THEOREM ApartCandidates ==
    HalvesApart /\ Spec => [](CandidatesFollowStream /\ CandidatesAreKernels)
<1>1. CASE HalvesApart
    <2>1. SourcesKeepOff /\ SourcesKeepTheirSlots
        BY <1>1, ApartIsExact
    <2>2. Spec => []CandidatesFollowStream
        BY <2>1, CandidatesReplay
    <2>3. Spec => []CandidatesAreKernels
        BY <2>1, CandidatesFromKernel
    <2> QED BY <2>2, <2>3, PTL
<1> QED BY <1>1

-----------------------------------------------------------------------------
(* The rest of the system neither writes nor removes anything in the slot  *)
(* of a last-resort gateway, whatever may be there at the start.           *)
Untouched == \A r \in External, f \in Configurations : ~InToSlot(f.to, r)

(* What the handler is not told, it cannot repair: either nobody touches   *)
(* the slot of its gateway, or what is written there is a gateway and no   *)
(* subscription is lost.                                                   *)
Watched == Untouched \/ (SlotsAreReserved /\ MaxOverflows = 0)

ToEvent(n) == IsUpdate(n) /\ ToRoute(n.route)

(* An event about a gateway in the slot of a route is on its way from the  *)
(* kernel; one is on its way to the handler, after notification i; one is  *)
(* to be dumped; one is in the kernel.                                     *)
Rivals(r, t) == Slot(r) = Slot(t) /\ ToRoute(r)

LiveOn(t) == \E j \in 1..Len(live) : Rivals(live[j].route, t)
ToldAfter(i) == \E j \in (i + 1)..Len(notification) : ToEvent(notification[j])
DumpOn(t) == \E r \in dump : Rivals(r, t)
Occupied(t) == \E r \in rib : Rivals(r, t)

(* The handler will hear of that slot in a dump to come. *)
Unheard(t) ==
    \/ ~listening
    \/ sync \in {"idle", "start", "list4"}
    \/ sync = "dump4" /\ t.dst \in Prefix6

(* If the kernel does not hold this route, the handler will know. *)
Covered(t, i) ==
    \/ t \in rib
    \/ LiveOn(t)
    \/ ToldAfter(i)
    \/ DumpOn(t)
    \/ Untouched /\ Unheard(t)

(* The handler takes currentRoute for installed. *)
Seen == currentRoute # NoRoute /\ ~installationTick

(* What the handler believes installed, or will after a notification, is   *)
(* in the kernel or will be contradicted.                                  *)
CoverInv ==
    /\ Seen => Covered(currentRoute, 0)
    /\ \A i \in 1..Len(notification) :
          notification[i].type = "NEWROUTE" /\ ToRoute(notification[i].route)
          => Covered(notification[i].route, i)

(* Where nobody else touches it, a gateway once seen stays: the program    *)
(* replaces it but never removes it.                                       *)
SeenOccupied == Seen => Occupied(currentRoute)

NotifiedOccupied ==
    \A i \in 1..Len(notification) :
        ToEvent(notification[i]) =>
            notification[i].type = "NEWROUTE" /\ Occupied(notification[i].route)

LiveOccupied ==
    \A i \in 1..Len(live) :
        InToSlot(config.to, live[i].route) =>
            /\ ToRoute(live[i].route)
            /\ live[i].type = "NEWROUTE" /\ Occupied(live[i].route)

DumpOccupied == \A r \in dump : ToRoute(r) => Occupied(r)

OccupiedInv ==
    Untouched => SeenOccupied /\ NotifiedOccupied /\ LiveOccupied /\ DumpOccupied

(* Where somebody does, no subscription is lost, and before its first dump *)
(* the handler knows nothing.                                              *)
Early == sync \in {"idle", "start", "list4"}

EarlyInv ==
    ~Untouched =>
        /\ listening <=> sync # "idle"
        /\ Early =>
              /\ currentRoute = NoRoute /\ ~installationTick
              /\ candidateRoutes = {} /\ view = {}
              /\ \A i \in 1..Len(notification) : notification[i].type = "StartOfRIB"

-----------------------------------------------------------------------------
LEMMA ToIsInSlot == \A r : ToRoute(r) => InToSlot(config.to, r)
BY DEF ToRoute, ToMatch, InToSlot

LEMMA SameSlot ==
    ASSUME NEW r, NEW t, Slot(r) = Slot(t), ToRoute(t)
    PROVE  InToSlot(config.to, r)
BY DEF Slot, ToRoute, ToMatch, InToSlot

LEMMA UntouchedIsElsewhere ==
    ASSUME config \in Configurations, Untouched, NEW r \in External, NEW t, ToRoute(t)
    PROVE  Slot(r) # Slot(t)
BY SameSlot DEF Untouched

(* What the rest of the system writes in the gateway's slot is a gateway.  *)
LEMMA WatchedSlot ==
    ASSUME config \in Configurations, Watched, NEW r \in External, InToSlot(config.to, r)
    PROVE  ToRoute(r)
<1>1. r \in KernelRoutes
    BY ExternalIsMine, KernelRoutesType
<1> QED BY <1>1 DEF Watched, Untouched, SlotsAreReserved, ToRoute

LEMMA MineInKernel == Mine \subseteq KernelRoutes
BY DEF Mine

LEMMA StayConfig == Moves => config' = config
BY DEF Moves, KernelStep, InstallStep, LossStep, SubscribeStep, ListStep, GiveUpStep,
       NotifyStep, ProcessStep, RestartStep, SilentStep, Stays

LEMMA EarlyMoves ==
    ASSUME Watched, Base, EarlyInv, Moves
    PROVE  EarlyInv'
<1> SUFFICES ASSUME ~Untouched PROVE EarlyInv'
    BY DEF EarlyInv, Untouched
<1>0. /\ MaxOverflows = 0 /\ (listening <=> sync # "idle")
      /\ notification \in Seq(H!Notification)
    BY HandlerTypes DEF Watched, EarlyInv, Base
<1>1. ASSUME NEW e, KernelStep(e) PROVE EarlyInv'
    BY <1>1 DEF KernelStep, Changes, Stays, EarlyInv, Early
<1>2. CASE InstallStep
    BY <1>2 DEF InstallStep, Changes, EarlyInv, Early
<1>3. CASE LossStep
    BY <1>0, <1>3 DEF LossStep, Loses
<1>4. CASE SubscribeStep
    BY <1>4 DEF SubscribeStep, Stays, EarlyInv, Early
<1>5. CASE ListStep
    BY <1>0, <1>5 DEF ListStep, Stays, EarlyInv, Early
<1>6. CASE GiveUpStep
    BY <1>0, <1>6 DEF GiveUpStep, Stays, EarlyInv, Early
<1>7. ASSUME NEW n, NotifyStep(n) PROVE EarlyInv'
    <2>1. CASE sync = "start" /\ sync' = "list4" /\ n.type = "StartOfRIB" /\ view' = {}
        <3>1. n \in H!Notification
            BY <1>7, NotifyOwned DEF Base
        <3>2. \A i \in 1..Len(notification') : notification'[i].type = "StartOfRIB"
            BY <1>0, <1>7, <2>1, <3>1, Appended DEF NotifyStep, EarlyInv, Early
        <3> QED BY <1>0, <1>7, <2>1, <3>2 DEF NotifyStep, EarlyInv, Early
    <2>2. CASE sync' \notin {"idle", "start", "list4"} /\ sync # "idle"
        BY <1>0, <1>7, <2>2 DEF NotifyStep, EarlyInv, Early
    <2> QED BY <1>7, <2>1, <2>2 DEF NotifyStep, Sends
<1>8. CASE ProcessStep
    <2>1. ASSUME Early
          PROVE  /\ currentRoute' = NoRoute /\ ~installationTick' /\ candidateRoutes' = {}
                 /\ \A i \in 1..Len(notification') : notification'[i].type = "StartOfRIB"
        <3>1. notification # <<>> /\ notification' = Tail(notification)
            BY <1>8 DEF ProcessStep
        <3>2. \A i \in 1..Len(notification') : notification'[i].type = "StartOfRIB"
            BY <1>0, <2>1, <3>1, Taken DEF EarlyInv
        <3>3. Head(notification).type = "StartOfRIB"
            BY <1>0, <2>1, <3>1, Taken DEF EarlyInv
        <3>4. candidateRoutes' = {} /\ UNCHANGED <<currentRoute, installationTick>>
            BY <1>8, <3>3 DEF ProcessStep, Handles, IsUpdate
        <3> QED BY <2>1, <3>2, <3>4 DEF EarlyInv
    <2> QED BY <1>0, <1>8, <2>1 DEF ProcessStep, EarlyInv, Early
<1>9. CASE RestartStep
    BY <1>9 DEF RestartStep, EarlyInv, Early
<1>10. CASE SilentStep
    BY <1>10 DEF SilentStep, Stays, EarlyInv, Early
<1> QED BY <1>1, <1>2, <1>3, <1>4, <1>5, <1>6, <1>7, <1>8, <1>9, <1>10 DEF Moves

(* What a notification leaves of the current route. *)
LEMMA AfterHandling ==
    ASSUME NEW n, Handles(n)
    PROVE  /\ Seen' => \/ ~ToEvent(n) /\ Seen /\ currentRoute' = currentRoute
                       \/ ToEvent(n) /\ n.type = "NEWROUTE" /\ currentRoute' = n.route
           /\ currentRoute' = NoRoute =>
                  \/ ~ToEvent(n) /\ currentRoute = NoRoute
                  \/ ToEvent(n) /\ n.type = "DELROUTE"
                  \/ ToEvent(n) /\ n.route = NoRoute
<1>1. CASE \/ candidateRoutes' = {} /\ UNCHANGED <<currentRoute, installationTick>>
              /\ n.type = "StartOfRIB"
           \/ Keeps /\ ~ToRoute(n.route)
    <2>1. ~ToEvent(n)
        BY <1>1 DEF ToEvent, IsUpdate
    <2> QED BY <1>1, <2>1 DEF Keeps, Seen
<1>2. ASSUME NEW candidates, Aims(candidates, currentRoute),
             n.type = "EndOfRIB" \/ ~ToRoute(n.route)
      PROVE  /\ Seen' => ~ToEvent(n) /\ Seen /\ currentRoute' = currentRoute
             /\ currentRoute' = NoRoute => ~ToEvent(n) /\ currentRoute = NoRoute
    <2>1. ~ToEvent(n)
        BY <1>2 DEF ToEvent, IsUpdate
    <2> QED BY <1>2, <2>1 DEF Aims, Seen
<1>3. CASE ToEvent(n)
           /\ Aims(candidateRoutes, IF n.type = "NEWROUTE" THEN n.route ELSE NoRoute)
    <2>1. CASE n.type = "NEWROUTE"
        BY <1>3, <2>1 DEF Aims, Seen
    <2>2. CASE n.type = "DELROUTE"
        BY <1>3, <2>2 DEF Aims, Seen
    <2> QED BY <1>3, <2>1, <2>2 DEF ToEvent, IsUpdate
<1> QED BY <1>1, <1>2, <1>3 DEF Handles, ToEvent

(* A slot stays occupied but for a removal in it. *)
Fills(t) == \E r \in rib' : Rivals(r, t)

LEMMA OccupiedAfter ==
    ASSUME NEW t, Occupied(t), NEW e,
           Slot(e.route) # Slot(t) \/ (e.type = "NEWROUTE" /\ ToRoute(e.route)),
           rib' = After(rib, e)
    PROVE  Fills(t)
<1>1. PICK r \in rib : Rivals(r, t)
    BY DEF Occupied
<1>2. CASE Slot(e.route) = Slot(t) /\ e.type = "NEWROUTE" /\ ToRoute(e.route)
    <2>1. e.route \in rib'
        BY <1>2 DEF After, addCandidateRoute
    <2> QED BY <1>2, <2>1 DEF Fills, Rivals
<1>3. CASE Slot(e.route) # Slot(t)
    <2>1. r \in rib'
        BY <1>1, <1>3 DEF After, addCandidateRoute, removeCandidateRoute, Rivals
    <2> QED BY <1>1, <2>1 DEF Fills
<1> QED BY <1>2, <1>3

LEMMA OccupiedChanges ==
    ASSUME Base, Untouched, NotifiedOccupied, LiveOccupied, DumpOccupied,
           NEW e \in Event, Changes(e),
           e.route \in External \/ (e.type = "NEWROUTE" /\ ToRoute(e.route)),
           UNCHANGED <<config, notification>>
    PROVE  /\ \A t \in Mine : ToRoute(t) /\ Occupied(t) => Fills(t)
           /\ NotifiedOccupied' /\ LiveOccupied' /\ DumpOccupied'
<1>1. config \in Configurations /\ live \in Seq(Event) /\ Owned
    BY HandlerTypes, StreamTypes DEF Base
<1>2. ASSUME NEW t \in Mine, ToRoute(t), Occupied(t) PROVE Fills(t)
    <2>1. Slot(e.route) # Slot(t) \/ (e.type = "NEWROUTE" /\ ToRoute(e.route))
        BY <1>1, <1>2, UntouchedIsElsewhere
    <2> QED BY <1>2, <2>1, OccupiedAfter DEF Changes
<1>3. NotifiedOccupied'
    <2>1. ASSUME NEW i \in 1..Len(notification), ToEvent(notification[i])
          PROVE  notification[i].type = "NEWROUTE" /\ Fills(notification[i].route)
        BY <1>1, <1>2, <2>1 DEF NotifiedOccupied, Owned, ToEvent
    <2> QED BY <2>1 DEF NotifiedOccupied, Occupied, Fills, Rivals, ToEvent, ToRoute
<1>4. LiveOccupied'
    <2>1. ASSUME NEW i \in 1..Len(live'), InToSlot(config.to, live'[i].route)
          PROVE  /\ ToRoute(live'[i].route)
                 /\ live'[i].type = "NEWROUTE" /\ Fills(live'[i].route)
        <3>1. CASE i \in 1..Len(live) /\ live'[i] = live[i]
            BY <1>1, <1>2, <2>1, <3>1 DEF LiveOccupied, Owned
        <3>2. CASE live'[i] = e
            <4>1. e.type = "NEWROUTE" /\ ToRoute(e.route)
                BY <1>1, <2>1, <3>2 DEF Untouched
            <4>2. e.route \in rib'
                BY <4>1 DEF Changes, After, addCandidateRoute
            <4> QED BY <3>2, <4>1, <4>2 DEF Fills, Rivals
        <3> QED BY <1>1, <3>1, <3>2, Appended DEF Changes
    <2> QED BY <2>1 DEF LiveOccupied, Occupied, Fills, Rivals, ToRoute
<1>5. DumpOccupied'
    <2>1. ASSUME NEW r \in dump, ToRoute(r) PROVE Fills(r)
        BY <1>1, <1>2, <2>1 DEF DumpOccupied, Owned
    <2> QED BY <2>1 DEF Changes, DumpOccupied, Occupied, Fills, Rivals, ToRoute
<1> QED BY <1>2, <1>3, <1>4, <1>5

LEMMA OccupiedMoves ==
    ASSUME Base, OccupiedInv, Moves
    PROVE  OccupiedInv'
<1> DEFINE All == SeenOccupied /\ NotifiedOccupied /\ LiveOccupied /\ DumpOccupied
<1> SUFFICES ASSUME Untouched PROVE All'
    BY DEF OccupiedInv, Untouched
<1>0. /\ SeenOccupied /\ NotifiedOccupied /\ LiveOccupied /\ DumpOccupied /\ Owned
      /\ live \in Seq(Event) /\ notification \in Seq(H!Notification)
      /\ config \in Configurations
    BY HandlerTypes, StreamTypes DEF OccupiedInv, Base
<1> USE DEF SeenOccupied, NotifiedOccupied, LiveOccupied, DumpOccupied
<1>1. ASSUME NEW e, KernelStep(e) PROVE All'
    <2> USE DEF KernelStep, Stays
    <2>1. /\ \A t \in Mine : ToRoute(t) /\ Occupied(t) => Fills(t)
          /\ NotifiedOccupied' /\ LiveOccupied' /\ DumpOccupied'
        BY <1>0, <1>1, OccupiedChanges
    <2>2. Seen => currentRoute \in Mine /\ ToRoute(currentRoute)
        BY <1>0, HandlerTypes DEF Seen, Base, Owned
    <2>3. Seen => Fills(currentRoute)
        BY <1>0, <2>1, <2>2
    <2>4. SeenOccupied'
        BY <1>1, <2>3 DEF Seen, Occupied, Fills, Rivals, ToRoute
    <2> QED BY <2>1, <2>4
<1>2. CASE InstallStep
    <2> DEFINE e == [type |-> "NEWROUTE", route |-> currentRoute]
    <2>1. /\ e \in Event /\ e.type = "NEWROUTE" /\ e.route = currentRoute
          /\ ToRoute(e.route) /\ Changes(e)
        BY <1>2, HandlerTypes DEF InstallStep, Event, Base
    <2> HIDE DEF e
    <2>2. NotifiedOccupied' /\ LiveOccupied' /\ DumpOccupied'
        BY <1>0, <1>2, <2>1, OccupiedChanges DEF InstallStep
    <2>3. currentRoute \in rib' /\ currentRoute' = currentRoute
        BY <1>2, <2>1 DEF InstallStep, Changes, After, addCandidateRoute
    <2>4. SeenOccupied'
        <3>1. ToRoute(currentRoute)
            BY <2>1
        <3> QED BY <1>2, <2>3, <3>1 DEF InstallStep, Occupied, Rivals, ToRoute
    <2> QED BY <2>2, <2>4
<1>3. CASE LossStep
    <2>1. PICK k \in 0..Len(live) : live' = SubSeq(live, 1, k)
        BY <1>3 DEF LossStep, Loses
    <2>2. LiveOccupied'
        BY <1>0, <1>3, <2>1, Shortened DEF LossStep, Loses, Stays, Occupied, Rivals, ToEvent, ToRoute
    <2> QED BY <1>0, <1>3, <2>2 DEF LossStep, Loses, Stays, Seen, Occupied, Rivals, ToEvent, ToRoute
<1>4. CASE SubscribeStep \/ GiveUpStep
    <2>1. /\ live' = <<>> /\ UNCHANGED <<rib, dump>> /\ Stays
        BY <1>4 DEF SubscribeStep, GiveUpStep
    <2>2. LiveOccupied'
        BY <2>1
    <2> QED BY <1>0, <2>1, <2>2 DEF Stays, Seen, Occupied, Rivals, ToEvent, ToRoute
<1>5. CASE RestartStep
    <2>1. /\ live' = <<>> /\ notification' = <<>> /\ dump' = {} /\ ~Seen'
        BY <1>5 DEF RestartStep, Seen
    <2> QED BY <2>1
<1>6. CASE ListStep
    <2>1. dump' \subseteq rib'
        BY <1>6 DEF ListStep
    <2>2. DumpOccupied'
        BY <1>6, <2>1 DEF ListStep, Occupied, Rivals, ToRoute
    <2> QED BY <1>0, <1>6, <2>2 DEF ListStep, Stays, Seen, Occupied, Rivals, ToEvent, ToRoute
<1>7. ASSUME NEW n, NotifyStep(n) PROVE All'
    <2>1. n \in H!Notification /\ notification' = Append(notification, n)
        BY <1>7, NotifyOwned DEF Base, NotifyStep
    <2>2. ToEvent(n) => n.type = "NEWROUTE" /\ Occupied(n.route)
        <3>1. CASE n.type = "NEWROUTE" /\ n.route \in dump
            BY <1>0, <3>1 DEF ToEvent
        <3>2. CASE live # <<>> /\ n = Head(live)
            BY <1>0, <3>2, Taken, ToIsInSlot DEF ToEvent
        <3>3. CASE n.type \in {"StartOfRIB", "EndOfRIB"}
            BY <3>3 DEF ToEvent, IsUpdate
        <3> QED BY <1>7, <3>1, <3>2, <3>3 DEF NotifyStep, Sends
    <2>3. NotifiedOccupied'
        BY <1>0, <1>7, <2>1, <2>2, Appended DEF NotifyStep, Occupied, Rivals, ToEvent, ToRoute
    <2>4. LiveOccupied'
        <3>1. CASE live' = live
            BY <1>0, <1>7, <3>1 DEF NotifyStep, Occupied, Rivals, ToEvent, ToRoute
        <3>2. CASE live # <<>> /\ live' = Tail(live)
            BY <1>0, <1>7, <3>2, Taken DEF NotifyStep, Occupied, Rivals, ToEvent, ToRoute
        <3> QED BY <1>7, <3>1, <3>2 DEF NotifyStep, Sends
    <2>5. dump' \subseteq dump
        BY <1>7 DEF NotifyStep, Sends
    <2>6. SeenOccupied' /\ DumpOccupied'
        BY <1>0, <1>7, <2>5 DEF NotifyStep, Seen, Occupied, Rivals, ToRoute
    <2> QED BY <2>3, <2>4, <2>6
<1>8. CASE ProcessStep
    <2> DEFINE n == Head(notification)
    <2>1. /\ notification # <<>> /\ notification' = Tail(notification) /\ Handles(n)
          /\ UNCHANGED <<config, rib, live, dump>>
        BY <1>8 DEF ProcessStep
    <2>2. ToEvent(n) => Occupied(n.route)
        BY <1>0, <2>1, Taken
    <2>3. Seen' => Occupied(currentRoute')
        BY <1>0, <2>1, <2>2, AfterHandling
    <2>4. SeenOccupied'
        BY <2>1, <2>3 DEF Occupied, Rivals, ToRoute
    <2>5. NotifiedOccupied'
        BY <1>0, <2>1, Taken DEF Occupied, Rivals, ToEvent, ToRoute
    <2>6. LiveOccupied' /\ DumpOccupied'
        BY <1>0, <2>1 DEF Occupied, Rivals, ToEvent, ToRoute
    <2> QED BY <2>4, <2>5, <2>6
<1>9. CASE SilentStep
    BY <1>0, <1>9 DEF SilentStep, Stays, Seen, Occupied, Rivals, ToEvent, ToRoute
<1> QED BY <1>1, <1>2, <1>3, <1>4, <1>5, <1>6, <1>7, <1>8, <1>9 DEF Moves

(* Covered after the step, of a route and an index of before it. *)
Recovered(t, i) ==
    \/ t \in rib'
    \/ \E j \in 1..Len(live') : Rivals(live'[j].route, t)
    \/ \E j \in (i + 1)..Len(notification') : ToEvent(notification'[j])
    \/ \E r \in dump' : Rivals(r, t)
    \/ /\ Untouched
       /\ \/ ~listening'
          \/ sync' \in {"idle", "start", "list4"}
          \/ sync' = "dump4" /\ t.dst \in Prefix6

(* What the handler holds or will hold a route for. *)
Bearing(t, i) ==
    /\ t \in Mine /\ ToRoute(t) /\ Covered(t, i)
    /\ Untouched \/ (~Early /\ listening)
    /\ Untouched => Occupied(t)

CoverCtx == Watched /\ Base /\ CoverInv /\ OccupiedInv /\ EarlyInv

(* What the kernel reports in the gateway's slot is a gateway.             *)
LiveReserved ==
    \A j \in 1..Len(live) : InToSlot(config.to, live[j].route) => ToRoute(live[j].route)

LEMMA WatchedIsReserved == Watched /\ Base /\ OccupiedInv => LiveReserved
<1> SUFFICES ASSUME Watched, Base, OccupiedInv, NEW j \in 1..Len(live),
                    InToSlot(config.to, live[j].route)
             PROVE  ToRoute(live[j].route)
    BY DEF LiveReserved
<1>1. CASE Untouched
    BY <1>1 DEF OccupiedInv, LiveOccupied
<1>2. CASE SlotsAreReserved
    <2>1. config \in Configurations /\ live[j].route \in KernelRoutes
        BY HandlerTypes, MineInKernel DEF Base, Owned
    <2> QED BY <1>2, <2>1 DEF SlotsAreReserved, ToRoute
<1> QED BY <1>1, <1>2 DEF Watched

LEMMA ReservedNext ==
    ASSUME Watched, Base', OccupiedInv'
    PROVE  LiveReserved'
<1>1. Watched'
    BY DEF Watched, Untouched, SlotsAreReserved
<1>2. Watched' /\ Base' /\ OccupiedInv' => LiveReserved'
    BY WatchedIsReserved, PTL
<1> QED BY <1>1, <1>2

LEMMA SeenBears == ASSUME CoverCtx, Seen PROVE Bearing(currentRoute, 0)
<1>1. currentRoute \in Mine /\ ToRoute(currentRoute)
    BY HandlerTypes DEF CoverCtx, Base, Owned, Seen
<1>2. Covered(currentRoute, 0)
    BY DEF CoverCtx, CoverInv
<1>3. Untouched \/ (~Early /\ listening)
    BY DEF CoverCtx, EarlyInv, Early, Seen
<1>4. Untouched => Occupied(currentRoute)
    BY DEF CoverCtx, OccupiedInv, SeenOccupied
<1> QED BY <1>1, <1>2, <1>3, <1>4 DEF Bearing

LEMMA ToldBears ==
    ASSUME CoverCtx, NEW i \in 1..Len(notification),
           notification[i].type = "NEWROUTE", ToRoute(notification[i].route)
    PROVE  Bearing(notification[i].route, i)
<1>0. ToEvent(notification[i])
    BY DEF ToEvent, IsUpdate
<1>1. notification[i].route \in Mine
    BY <1>0 DEF CoverCtx, Base, Owned, ToEvent
<1>2. Covered(notification[i].route, i)
    BY DEF CoverCtx, CoverInv
<1>3. Untouched \/ (~Early /\ listening)
    BY DEF CoverCtx, EarlyInv, Early
<1>4. Untouched => Occupied(notification[i].route)
    BY <1>0 DEF CoverCtx, OccupiedInv, NotifiedOccupied
<1> QED BY <1>1, <1>2, <1>3, <1>4 DEF Bearing

LEMMA ChangesCover ==
    ASSUME CoverCtx, NEW t, NEW i, Bearing(t, i),
           NEW e \in Event, Changes(e), UNCHANGED <<config, notification>>,
           e.route \in External \/ ToRoute(e.route)
    PROVE  Recovered(t, i)
<1>0. live \in Seq(Event)
    BY StreamTypes DEF CoverCtx, Base
<1>1. CASE ~listening
    BY <1>1 DEF Bearing, Changes, Recovered
<1>2. CASE listening /\ t \in rib
    <2>1. CASE Slot(e.route) # Slot(t)
        <3>1. t \in rib'
            BY <1>2, <2>1 DEF Changes, After, addCandidateRoute, removeCandidateRoute
        <3> QED BY <3>1 DEF Recovered
    <2>2. CASE Slot(e.route) = Slot(t) /\ live' = Append(live, e)
        <3>1. Len(live) + 1 \in 1..Len(live') /\ live'[Len(live) + 1] = e
            BY <1>0, <2>2, Appended
        <3>2. InToSlot(config.to, e.route)
            BY <2>2, SameSlot DEF Bearing
        <3>3. ToRoute(e.route)
            BY <3>2, WatchedSlot, HandlerTypes DEF CoverCtx, Base
        <3> QED BY <2>2, <3>1, <3>3 DEF Recovered, Rivals
    <2>3. CASE rib' = rib
        BY <1>2, <2>3 DEF Recovered
    <2> QED BY <1>2, <2>1, <2>2, <2>3 DEF Changes
<1>3. CASE LiveOn(t)
    <2>1. PICK j \in 1..Len(live) : Rivals(live[j].route, t)
        BY <1>3 DEF LiveOn
    <2>2. j \in 1..Len(live') /\ live'[j] = live[j]
        BY <1>0, <2>1, Appended DEF Changes
    <2> QED BY <2>1, <2>2 DEF Recovered
<1>4. CASE ToldAfter(i) \/ DumpOn(t) \/ (Untouched /\ Unheard(t))
    BY <1>4 DEF Changes, ToldAfter, DumpOn, Unheard, Recovered, Rivals, ToEvent, ToRoute
<1> QED BY <1>1, <1>2, <1>3, <1>4, StreamTypes DEF Bearing, Covered, CoverCtx, Base

LEMMA SessionCover ==
    ASSUME CoverCtx, NEW t, NEW i, Bearing(t, i),
           LossStep \/ SubscribeStep \/ GiveUpStep
    PROVE  Recovered(t, i)
<1>1. CASE Untouched
    <2>1. ~listening' \/ sync' \in {"idle", "start", "list4"}
        BY DEF LossStep, Loses, SubscribeStep, GiveUpStep
    <2> QED BY <1>1, <2>1 DEF Recovered
<1>2. CASE ~Untouched
    <2>1. MaxOverflows = 0 /\ ~Early /\ listening
        BY <1>2 DEF CoverCtx, Watched, Bearing
    <2> QED BY <2>1 DEF LossStep, Loses, SubscribeStep, GiveUpStep, Early
<1> QED BY <1>1, <1>2

LEMMA ListCover ==
    ASSUME CoverCtx, NEW t, NEW i, Bearing(t, i), ListStep
    PROVE  Recovered(t, i)
<1>0. /\ UNCHANGED <<rib, listening, live, notification, config>>
      /\ \A n : ToEvent(n)' <=> ToEvent(n)
    BY DEF ListStep, Stays, ToEvent, ToRoute
<1>1. CASE Untouched
    <2>1. PICK r \in rib : Rivals(r, t) /\ r.dst = t.dst
        BY <1>1 DEF Bearing, Occupied, Rivals, Slot
    <2>2. CASE sync = "list4" /\ sync' = "dump4" /\ dump' = {q \in rib : q.dst \notin Prefix6}
        BY <1>1, <2>1, <2>2 DEF Recovered
    <2>3. CASE /\ sync = "dump4" /\ dump = {} /\ sync' = "dump6"
               /\ dump' = {q \in rib : q.dst \in Prefix6}
        <3>1. CASE Unheard(t)
            BY <1>0, <1>1, <2>1, <2>3, <3>1 DEF Recovered, Unheard
        <3>2. CASE t \in rib \/ LiveOn(t) \/ ToldAfter(i)
            BY <1>0, <3>2 DEF Recovered, LiveOn, ToldAfter, ToEvent, ToRoute
        <3> QED BY <2>3, <3>1, <3>2 DEF Bearing, Covered, DumpOn
    <2> QED BY <2>2, <2>3 DEF ListStep
<1>2. CASE ~Untouched
    <2>1. sync = "dump4" /\ dump = {}
        BY <1>2 DEF ListStep, Bearing, Early
    <2> QED BY <1>0, <1>2, <2>1 DEF Bearing, Covered, DumpOn, Recovered, LiveOn, ToldAfter,
                                    ToEvent, ToRoute
<1> QED BY <1>1, <1>2

LEMMA NotifyCover ==
    ASSUME CoverCtx, NEW t, NEW i \in 0..Len(notification), Bearing(t, i), NEW n, NotifyStep(n)
    PROVE  Recovered(t, i)
<1>0. /\ n \in H!Notification /\ notification \in Seq(H!Notification)
      /\ notification' = Append(notification, n) /\ live \in Seq(Event) /\ Owned
      /\ config \in Configurations /\ t \in KernelRoutes
    BY NotifyOwned, HandlerTypes, StreamTypes, MineInKernel
       DEF CoverCtx, Base, NotifyStep, Bearing
<1>1. UNCHANGED <<rib, listening, config>> /\ (\A q : ToEvent(q)' <=> ToEvent(q))
    BY DEF NotifyStep, ToEvent, ToRoute
<1>2. /\ Len(notification) \in Nat /\ Len(notification') = Len(notification) + 1
      /\ \A j \in 1..Len(notification) : notification'[j] = notification[j]
      /\ notification'[Len(notification) + 1] = n
    BY <1>0, Appended
<1>3. ASSUME n \in Event, Rivals(n.route, t) PROVE Recovered(t, i)
    <2>2. ToEvent(n)
        BY <1>3 DEF ToEvent, IsUpdate, Event, Rivals
    <2>3. Len(notification) + 1 \in (i + 1)..Len(notification')
        BY <1>2
    <2> QED BY <1>2, <2>2, <2>3 DEF Recovered
<1>4. CASE t \in rib \/ (Untouched /\ ~listening)
    BY <1>1, <1>4 DEF Recovered
<1>5. CASE ToldAfter(i)
    <2>1. PICK j \in (i + 1)..Len(notification) : ToEvent(notification[j])
        BY <1>5 DEF ToldAfter
    <2>2. j \in (i + 1)..Len(notification') /\ notification'[j] = notification[j]
        BY <1>2
    <2> QED BY <2>1, <2>2 DEF Recovered
<1>6. CASE LiveOn(t)
    <2>1. PICK j \in 1..Len(live) : Rivals(live[j].route, t)
        BY <1>6 DEF LiveOn
    <2>2. CASE live' = live
        BY <2>1, <2>2 DEF Recovered
    <2>3. CASE live # <<>> /\ n = Head(live) /\ live' = Tail(live) /\ n \in Event
        <3>1. CASE j = 1
            <4>1. Rivals(n.route, t)
                BY <1>0, <2>1, <2>3, <3>1, Taken
            <4> QED BY <1>3, <2>3, <4>1
        <3>2. CASE j # 1
            <4>1. j \in 2..Len(live)
                BY <1>0, <2>1, <3>2, LenProperties
            <4>2. j - 1 \in 1..Len(live') /\ live'[j - 1] = live[j]
                BY <1>0, <2>3, <4>1, Taken
            <4> QED BY <2>1, <4>2 DEF Recovered
        <3> QED BY <3>1, <3>2
    <2> QED BY <2>2, <2>3 DEF NotifyStep, Sends
<1>7. CASE DumpOn(t)
    <2>1. PICK r \in dump : Rivals(r, t)
        BY <1>7 DEF DumpOn
    <2>2. CASE r \in dump'
        BY <2>1, <2>2 DEF Recovered
    <2>3. CASE n \in Event /\ r = n.route
        BY <1>3, <2>1, <2>3
    <2> QED BY <2>1, <2>2, <2>3 DEF NotifyStep, Sends
<1>8. CASE Untouched /\ Unheard(t)
    <2>1. CASE sync' = sync \/ (sync = "start" /\ sync' = "list4")
        BY <1>1, <1>8, <2>1 DEF Unheard, Recovered
    <2>2. CASE sync = "dump6"
        BY <1>4, <1>8, <2>2 DEF Unheard
    <2> QED BY <2>1, <2>2 DEF NotifyStep, Sends
<1> QED BY <1>4, <1>5, <1>6, <1>7, <1>8 DEF Bearing, Covered

(* The process: an index less for each notification left. *)
LEMMA ProcessCover ==
    ASSUME CoverCtx, NEW t, NEW i \in 1..Len(notification), Bearing(t, i), ProcessStep
    PROVE  Recovered(t, i - 1)
<1>0. /\ notification \in Seq(H!Notification) /\ notification # <<>>
      /\ notification' = Tail(notification)
      /\ UNCHANGED <<config, rib, listening, live, sync, dump, view>>
    BY HandlerTypes DEF CoverCtx, Base, ProcessStep
<1>1. CASE ToldAfter(i)
    <2>1. PICK j \in (i + 1)..Len(notification) : ToEvent(notification[j])
        BY <1>1 DEF ToldAfter
    <2>2. j \in 2..Len(notification) /\ Len(notification') = Len(notification) - 1
          /\ Len(notification) \in Nat
        BY <1>0, Taken
    <2>3. j - 1 \in ((i - 1) + 1)..Len(notification') /\ notification'[j - 1] = notification[j]
        BY <1>0, <2>2, Taken
    <2> QED BY <2>1, <2>3 DEF Recovered
<1>2. CASE t \in rib \/ LiveOn(t) \/ DumpOn(t) \/ (Untouched /\ Unheard(t))
    BY <1>0, <1>2 DEF Recovered, LiveOn, DumpOn, Unheard
<1> QED BY <1>1, <1>2 DEF Bearing, Covered

LEMMA NotifiedCover ==
    ASSUME CoverCtx, Base', NEW n, NotifyStep(n), n.type = "NEWROUTE", ToRoute(n.route)
    PROVE  Recovered(n.route, Len(notification) + 1)
<1>1. UNCHANGED <<rib, listening>> /\ P!Send(n)
    BY DEF NotifyStep
<1>2. CASE ~listening
    <2>1. Untouched
        BY <1>2 DEF CoverCtx, EarlyInv, NotifyStep, Sends
    <2> QED BY <1>1, <1>2, <2>1 DEF Recovered
<1>3. CASE listening /\ n.route \in rib
    BY <1>1, <1>3 DEF Recovered
<1>4. CASE listening /\ n.route \notin rib
    <2>1. P!StreamInv /\ P!StreamInv'
        BY DEF CoverCtx, Base
    <2>2. ~ \A j \in 1..Len(live') : P!Slot(live'[j].route) # P!Slot(n.route)
        BY <1>1, <1>4, <2>1, StreamNil, P!SentIsFresh
    <2>3. \E j \in 1..Len(live') : Slot(live'[j].route) = Slot(n.route)
        BY <2>2, SameForStream
    <2>4. config' = config /\ LiveReserved'
        <3>1. Moves
            BY DEF Moves
        <3>2. OccupiedInv'
            BY <3>1, OccupiedMoves DEF CoverCtx
        <3> QED BY <3>2, ReservedNext DEF CoverCtx, NotifyStep
    <2>5. \A j \in 1..Len(live') :
             InToSlot(config.to, live'[j].route) => ToRoute(live'[j].route)
        BY <2>4 DEF LiveReserved, ToRoute
    <2> QED BY <2>3, <2>5, SameSlot DEF Recovered, Rivals
<1> QED BY <1>2, <1>3, <1>4, StreamTypes DEF CoverCtx, Base

LEMMA CoverNext ==
    ASSUME config' = config,
           Seen' => Recovered(currentRoute', 0),
           \A i \in 1..Len(notification') :
              notification'[i].type = "NEWROUTE" /\ ToRoute(notification'[i].route)
              => Recovered(notification'[i].route, i)
    PROVE  CoverInv'
BY DEF CoverInv, Covered, Recovered, LiveOn, ToldAfter, DumpOn, Unheard, Rivals, ToEvent,
       ToRoute, Seen

LEMMA CoverMoves ==
    ASSUME CoverCtx, Base', Moves
    PROVE  CoverInv'
<1>0. /\ notification \in Seq(H!Notification) /\ config' = config
      /\ config \in Configurations
    BY HandlerTypes, StayConfig DEF CoverCtx, Base
<1>1. ASSUME Stays, \A t, i : Bearing(t, i) => Recovered(t, i)
      PROVE  CoverInv'
    <2>1. Seen' => Seen /\ currentRoute' = currentRoute
        BY <1>1 DEF Stays, Seen
    <2>2. Seen' => Recovered(currentRoute', 0)
        BY <1>1, <2>1, SeenBears
    <2>3. ASSUME NEW i \in 1..Len(notification'),
                 notification'[i].type = "NEWROUTE", ToRoute(notification'[i].route)
          PROVE  Recovered(notification'[i].route, i)
        BY <1>1, <2>3, ToldBears DEF Stays
    <2> QED BY <1>0, <2>2, <2>3, CoverNext
<1>2. ASSUME NEW e, KernelStep(e) PROVE CoverInv'
    <2>1. \A t, i : Bearing(t, i) => Recovered(t, i)
        BY <1>2, ChangesCover DEF KernelStep, Stays
    <2> QED BY <1>1, <1>2, <2>1 DEF KernelStep
<1>3. CASE InstallStep
    <2> DEFINE e == [type |-> "NEWROUTE", route |-> currentRoute]
    <2>1. /\ e \in Event /\ e.type = "NEWROUTE" /\ e.route = currentRoute /\ Changes(e)
          /\ ToRoute(e.route) /\ UNCHANGED <<config, notification, currentRoute>>
        BY <1>3, HandlerTypes DEF InstallStep, Event, CoverCtx, Base
    <2> HIDE DEF e
    <2>2. \A t, i : Bearing(t, i) => Recovered(t, i)
        BY <2>1, ChangesCover
    <2>3. Recovered(currentRoute', 0)
        BY <2>1 DEF Changes, After, addCandidateRoute, Recovered
    <2>4. ASSUME NEW i \in 1..Len(notification'),
                 notification'[i].type = "NEWROUTE", ToRoute(notification'[i].route)
          PROVE  Recovered(notification'[i].route, i)
        BY <2>1, <2>2, <2>4, ToldBears
    <2> QED BY <1>0, <2>3, <2>4, CoverNext
<1>4. CASE LossStep \/ SubscribeStep \/ GiveUpStep
    <2>1. \A t, i : Bearing(t, i) => Recovered(t, i)
        BY <1>4, SessionCover
    <2> QED BY <1>1, <1>4, <2>1 DEF LossStep, SubscribeStep, GiveUpStep
<1>5. CASE ListStep
    <2>1. \A t, i : Bearing(t, i) => Recovered(t, i)
        BY <1>5, ListCover
    <2> QED BY <1>1, <1>5, <2>1 DEF ListStep
<1>6. ASSUME NEW n, NotifyStep(n) PROVE CoverInv'
    <2>1. /\ n \in H!Notification /\ notification' = Append(notification, n)
          /\ UNCHANGED <<currentRoute, installationTick>>
        BY <1>6, NotifyOwned DEF CoverCtx, Base, NotifyStep
    <2>2. \A t : \A i \in 0..Len(notification) : Bearing(t, i) => Recovered(t, i)
        BY <1>6, NotifyCover
    <2>3. 0 \in 0..Len(notification) /\ \A i \in 1..Len(notification) : i \in 0..Len(notification)
        BY <1>0, LenProperties
    <2>4. Seen' => Recovered(currentRoute', 0)
        <3>1. Seen' => Bearing(currentRoute, 0)
            BY <2>1, SeenBears DEF Seen
        <3> QED BY <2>1, <2>2, <2>3, <3>1
    <2>5. ASSUME NEW i \in 1..Len(notification'),
                 notification'[i].type = "NEWROUTE", ToRoute(notification'[i].route)
          PROVE  Recovered(notification'[i].route, i)
        <3>1. CASE i \in 1..Len(notification) /\ notification'[i] = notification[i]
            <4>1. Bearing(notification[i].route, i)
                BY <2>5, <3>1, ToldBears
            <4> QED BY <2>2, <2>3, <3>1, <4>1
        <3>2. CASE i = Len(notification) + 1 /\ notification'[i] = n
            BY <1>6, <2>5, <3>2, NotifiedCover
        <3> QED BY <1>0, <2>1, <3>1, <3>2, Appended
    <2> QED BY <1>0, <2>4, <2>5, CoverNext
<1>7. CASE ProcessStep
    <2> DEFINE n == Head(notification)
    <2>1. /\ notification # <<>> /\ notification' = Tail(notification)
          /\ Handles(n) /\ n = notification[1] /\ 1 \in 1..Len(notification)
          /\ Len(notification) \in Nat
          /\ UNCHANGED <<config, rib, listening, live, sync, dump, view>>
        BY <1>0, <1>7, Taken DEF ProcessStep
    <2>2. \A t : \A i \in 1..Len(notification) : Bearing(t, i) => Recovered(t, i - 1)
        BY <1>7, ProcessCover
    <2>3. ASSUME Seen' PROVE Recovered(currentRoute', 0)
        <3>1. CASE ToEvent(n) /\ n.type = "NEWROUTE" /\ currentRoute' = n.route
            <4>1. Bearing(notification[1].route, 1)
                BY <2>1, <3>1, ToldBears DEF ToEvent
            <4>2. Recovered(notification[1].route, 1 - 1) /\ 1 - 1 = 0
                BY <2>1, <2>2, <4>1
            <4> QED BY <2>1, <3>1, <4>2
        <3>2. CASE ~ToEvent(n) /\ Seen /\ currentRoute' = currentRoute
            <4>1. Bearing(currentRoute, 0)
                BY <3>2, SeenBears
            <4>2. CASE ToldAfter(0)
                <5>1. PICK j \in 1..Len(notification) : ToEvent(notification[j])
                    BY <4>2 DEF ToldAfter
                <5>2. j \in 2..Len(notification)
                    BY <2>1, <3>2, <5>1
                <5>3. j - 1 \in (0 + 1)..Len(notification')
                      /\ notification'[j - 1] = notification[j]
                    BY <1>0, <2>1, <5>2, Taken
                <5> QED BY <5>1, <5>3 DEF Recovered
            <4>3. CASE ~ToldAfter(0)
                BY <2>1, <3>2, <4>1, <4>3
                   DEF Bearing, Covered, Recovered, LiveOn, DumpOn, Unheard
            <4> QED BY <4>2, <4>3
        <3> QED BY <2>1, <2>3, <3>1, <3>2, AfterHandling
    <2>4. ASSUME NEW i \in 1..Len(notification'),
                 notification'[i].type = "NEWROUTE", ToRoute(notification'[i].route)
          PROVE  Recovered(notification'[i].route, i)
        <3>1. i + 1 \in 1..Len(notification) /\ notification'[i] = notification[i + 1]
              /\ (i + 1) - 1 = i
            BY <1>0, <2>1, Taken
        <3>2. Bearing(notification[i + 1].route, i + 1)
            BY <2>4, <3>1, ToldBears
        <3>3. Recovered(notification[i + 1].route, (i + 1) - 1)
            BY <2>2, <3>1, <3>2
        <3> QED BY <3>1, <3>3
    <2> QED BY <1>0, <2>3, <2>4, CoverNext
<1>8. CASE RestartStep
    <2>1. ~Seen' /\ Len(notification') = 0
        BY <1>8 DEF RestartStep, Seen
    <2> QED BY <1>0, <2>1, CoverNext
<1>9. CASE SilentStep
    <2>1. \A t, i : Bearing(t, i) => Recovered(t, i)
        BY <1>9 DEF Bearing, Covered, Recovered, SilentStep, Stays, LiveOn, ToldAfter,
                    DumpOn, Unheard
    <2> QED BY <1>1, <1>9, <2>1 DEF SilentStep
<1> QED BY <1>2, <1>3, <1>4, <1>5, <1>6, <1>7, <1>8, <1>9 DEF Moves

LEMMA CoverHolds == Watched /\ Spec => []CoverCtx
<1>1. Watched /\ Init => CoverCtx
    <2> SUFFICES ASSUME Watched, Init PROVE CoverCtx
        OBVIOUS
    <2>1. /\ currentRoute = NoRoute /\ notification = <<>> /\ live = <<>> /\ dump = {}
          /\ sync = "idle" /\ ~listening /\ ~installationTick /\ view = {}
          /\ candidateRoutes = {}
        BY DEF Init, G!Init, R!Init
    <2>2. 1..Len(notification) = {} /\ 1..Len(live) = {}
        BY <2>1
    <2>3. CoverInv
        BY <2>1, <2>2 DEF CoverInv, Seen
    <2>4. OccupiedInv
        BY <2>1, <2>2 DEF OccupiedInv, SeenOccupied, NotifiedOccupied, LiveOccupied,
                          DumpOccupied, Seen
    <2>5. EarlyInv
        BY <2>1, <2>2 DEF EarlyInv
    <2> QED BY <2>3, <2>4, <2>5, InitBase DEF CoverCtx
<1>2. CoverCtx /\ [Next]_vars => CoverCtx'
    <2> SUFFICES ASSUME CoverCtx, [Next]_vars PROVE CoverCtx'
        OBVIOUS
    <2>1. Base /\ Watched
        BY DEF CoverCtx
    <2>2. Moves /\ Base'
        BY <2>1, StepMoves, NextBase DEF Base
    <2>3. CoverInv'
        BY <2>2, CoverMoves
    <2>4. OccupiedInv' /\ EarlyInv'
        BY <2>1, <2>2, OccupiedMoves, EarlyMoves DEF CoverCtx
    <2>5. Watched'
        BY <2>1 DEF Watched, Untouched
    <2> QED BY <2>2, <2>3, <2>4, <2>5 DEF CoverCtx
<1> QED BY <1>1, <1>2, PTL DEF Spec

LEMMA CoverGives == CoverCtx => CurrentIsReal
<1> SUFFICES ASSUME CoverCtx, Quiet, currentRoute # NoRoute PROVE currentRoute \in rib
    BY DEF CurrentIsReal
<1>1. /\ sync = "updates" /\ listening /\ live = <<>> /\ dump = {} /\ notification = <<>>
      /\ ~installationTick
    BY QuietMeans DEF CoverCtx
<1>2. Covered(currentRoute, 0)
    BY <1>1 DEF CoverCtx, CoverInv, Seen
<1>3. 1..Len(live) = {} /\ (0 + 1)..Len(notification) = {}
    BY <1>1
<1> QED BY <1>1, <1>2, <1>3 DEF Covered, LiveOn, ToldAfter, DumpOn, Unheard

(* Once quiet, the current route is in the kernel: whatever the handler    *)
(* takes for installed was installed by it or reported to it, and what     *)
(* contradicts it has reached it.  It takes that nobody else touches the   *)
(* gateway, or that no subscription is lost: a new dump does not say what  *)
(* has left (gateway.go, processNotification).                             *)
THEOREM CurrentInKernel == Watched /\ Spec => []CurrentIsReal
BY CoverHolds, CoverGives, PTL

-----------------------------------------------------------------------------
(* The end of the last dump is still to be handled, or it was handled and  *)
(* the handler aims at its best candidate.                                 *)
Ending(j) ==
    /\ notification[j].type = "EndOfRIB"
    /\ \A k \in (j + 1)..Len(notification) : notification[k].type # "StartOfRIB"

EndAhead == \E j \in 1..Len(notification) : Ending(j)

NoStart == \A j \in 1..Len(notification) : notification[j].type # "StartOfRIB"

Fresh == Target # NoRoute => currentRoute = Target

FreshInv == sync = "updates" => EndAhead \/ (NoStart /\ Fresh)

LEMMA AimsFresh ==
    ASSUME config' = config, NEW candidates, NEW current, Aims(candidates, current)
    PROVE  Fresh'
BY DEF Aims, Fresh, Target

(* The handler compares its best candidate with its route at each event of *)
(* the kernel that concerns it, and at the end of a dump.                  *)
LEMMA HandlesFresh ==
    ASSUME config' = config, NEW n, Handles(n), n.type # "StartOfRIB"
    PROVE  /\ Fresh => Fresh'
           /\ n.type = "EndOfRIB" => Fresh'
<1>1. CASE Keeps /\ IsUpdate(n)
    BY <1>1 DEF Keeps, IsUpdate, Fresh, Target
<1>2. ASSUME NEW candidates, NEW current, Aims(candidates, current) PROVE Fresh'
    BY <1>2, AimsFresh
<1> QED BY <1>1, <1>2 DEF Handles

LEMMA FreshNotify ==
    ASSUME Base, FreshInv, NEW n, NotifyStep(n)
    PROVE  FreshInv'
<1>1. n \in H!Notification /\ notification \in Seq(H!Notification)
      /\ notification' = Append(notification, n)
    BY NotifyOwned, HandlerTypes DEF Base, NotifyStep
<1>2. /\ Len(notification) \in Nat /\ Len(notification') = Len(notification) + 1
      /\ \A j \in 1..Len(notification) : notification'[j] = notification[j]
      /\ notification'[Len(notification) + 1] = n
      /\ \A j \in 1..Len(notification') : j \in 1..Len(notification) \/ j = Len(notification) + 1
    BY <1>1, Appended
<1>3. CASE sync' # "updates"
    BY <1>3 DEF FreshInv
<1>4. CASE n.type = "EndOfRIB"
    <2>1. Len(notification) + 1 \in 1..Len(notification')
        BY <1>2
    <2>2. \E j \in 1..Len(notification') : /\ notification'[j].type = "EndOfRIB"
             /\ \A k \in (j + 1)..Len(notification') : notification'[k].type # "StartOfRIB"
        BY <1>2, <1>4, <2>1
    <2>3. EndAhead'
        BY <2>2 DEF EndAhead, Ending
    <2> QED BY <2>3 DEF FreshInv
<1>5. CASE sync = "updates" /\ n \in Event
    <2>1. n.type # "StartOfRIB"
        BY <1>5 DEF Event
    <2>2. EndAhead => EndAhead'
        <3>1. ASSUME NEW j \in 1..Len(notification), Ending(j)
              PROVE  j \in 1..Len(notification') /\ notification'[j].type = "EndOfRIB"
                     /\ \A k \in (j + 1)..Len(notification') : notification'[k].type # "StartOfRIB"
            BY <1>2, <2>1, <3>1 DEF Ending
        <3> QED BY <3>1 DEF EndAhead, Ending
    <2>3. NoStart => NoStart'
        BY <1>2, <2>1 DEF NoStart
    <2>4. Fresh => Fresh'
        BY DEF NotifyStep, Fresh, Target
    <2> QED BY <1>5, <2>2, <2>3, <2>4 DEF FreshInv
<1> QED BY <1>3, <1>4, <1>5 DEF NotifyStep, Sends

LEMMA FreshProcess ==
    ASSUME Base, FreshInv, ProcessStep
    PROVE  FreshInv'
<1> DEFINE n == Head(notification)
<1>1. /\ notification \in Seq(H!Notification) /\ notification # <<>>
      /\ notification' = Tail(notification) /\ Handles(n)
      /\ config' = config /\ sync' = sync
    BY HandlerTypes DEF Base, ProcessStep
<1>2. /\ Len(notification) \in Nat /\ Len(notification') = Len(notification) - 1
      /\ n = notification[1] /\ 1 \in 1..Len(notification)
      /\ \A j \in 1..Len(notification') :
            j + 1 \in 1..Len(notification) /\ notification'[j] = notification[j + 1]
      /\ \A j \in 2..Len(notification) :
            j - 1 \in 1..Len(notification') /\ notification'[j - 1] = notification[j]
    BY <1>1, Taken
<1> HIDE DEF n
<1>3. NoStart => NoStart' /\ n.type # "StartOfRIB"
    BY <1>2 DEF NoStart
<1>4. ASSUME NEW j \in 1..Len(notification), j # 1, Ending(j) PROVE EndAhead'
    <2>1. j - 1 \in 1..Len(notification') /\ notification'[j - 1].type = "EndOfRIB"
        BY <1>2, <1>4 DEF Ending
    <2>2. ASSUME NEW k \in ((j - 1) + 1)..Len(notification')
          PROVE  notification'[k].type # "StartOfRIB"
        <3>1. k + 1 \in (j + 1)..Len(notification) /\ notification'[k] = notification[k + 1]
            BY <1>2, <1>4
        <3> QED BY <1>4, <3>1 DEF Ending
    <2> QED BY <2>1, <2>2 DEF EndAhead, Ending
<1>5. ASSUME Ending(1) PROVE NoStart' /\ n.type = "EndOfRIB"
    <2>1. ASSUME NEW k \in 1..Len(notification') PROVE notification'[k].type # "StartOfRIB"
        <3>1. k + 1 \in (1 + 1)..Len(notification) /\ notification'[k] = notification[k + 1]
            BY <1>2
        <3> QED BY <1>5, <3>1 DEF Ending
    <2> QED BY <1>2, <1>5, <2>1 DEF Ending, NoStart
<1>6. NoStart /\ Fresh => NoStart' /\ Fresh'
    BY <1>1, <1>3, HandlesFresh
<1>7. Ending(1) => NoStart' /\ Fresh'
    BY <1>1, <1>5, HandlesFresh
<1> QED BY <1>1, <1>4, <1>6, <1>7 DEF FreshInv, EndAhead

LEMMA FreshMoves ==
    ASSUME Base, FreshInv, Moves
    PROVE  FreshInv'
<1>1. CASE sync' # "updates"
    BY <1>1 DEF FreshInv
<1>2. CASE sync' = sync
           /\ UNCHANGED <<config, notification, currentRoute, candidateRoutes>>
    BY <1>2 DEF FreshInv, EndAhead, Ending, NoStart, Fresh, Target
<1>3. \/ sync' # "updates"
      \/ sync' = sync /\ UNCHANGED <<config, notification, currentRoute, candidateRoutes>>
      \/ \E n : NotifyStep(n)
      \/ ProcessStep
    BY DEF Moves, KernelStep, InstallStep, LossStep, SubscribeStep, ListStep, GiveUpStep,
           RestartStep, SilentStep, Stays, Changes, Loses
<1> QED BY <1>1, <1>2, <1>3, FreshNotify, FreshProcess

LEMMA FreshHolds == Spec => []FreshInv
<1>1. Init => FreshInv
    BY DEF Init, R!Init, FreshInv
<1>2. Base /\ FreshInv /\ [Next]_vars => FreshInv'
    BY StepMoves, FreshMoves DEF Base
<1> QED BY <1>1, <1>2, BaseHolds, PTL DEF Spec

(* Once quiet, the copy of the best candidate, or the blackhole, is in     *)
(* the kernel: what the handler aims at is its current route once the last *)
(* dump is handled (gateway.go, installCandidateRoute), and its current    *)
(* route was written or reported.                                          *)
THEOREM TargetInKernel == Watched /\ Spec => []TargetIsInstalled
<1>1. Base /\ FreshInv /\ CurrentIsReal => TargetIsInstalled
    <2> SUFFICES ASSUME Base, FreshInv, CurrentIsReal, Quiet, Target # NoRoute
                 PROVE  Target \in rib
        BY DEF TargetIsInstalled
    <2>1. sync = "updates" /\ notification = <<>>
        BY QuietMeans
    <2>2. 1..Len(notification) = {}
        BY <2>1
    <2>3. currentRoute = Target
        BY <2>1, <2>2 DEF FreshInv, EndAhead, Fresh
    <2> QED BY <2>3 DEF CurrentIsReal
<1> QED BY <1>1, BaseHolds, FreshHolds, CurrentInKernel, PTL

-----------------------------------------------------------------------------
(* A process that has known a candidate has a current route. *)
RemInv == Untouched /\ lastBest # NoRoute => currentRoute # NoRoute

Configured == config \in Configurations

KeptTarget == candidateRoutes # {} => currentRoute = Target

LEMMA TargetKept == H!Inv' => Configured' /\ KeptTarget'
<1>1. H!Inv => Configured /\ KeptTarget
    BY HandlerTypes DEF Configured, KeptTarget, Target
<1> QED BY <1>1, PTL

LEMMA RemMoves ==
    ASSUME Base, Base', OccupiedInv, RemInv, Moves
    PROVE  RemInv'
<1> SUFFICES ASSUME Untouched, lastBest' # NoRoute PROVE currentRoute' # NoRoute
    BY DEF RemInv, Untouched
<1>1. CASE UNCHANGED <<currentRoute, lastBest>>
    BY <1>1 DEF RemInv
<1>2. CASE ProcessStep /\ candidateRoutes' = {}
    <2> DEFINE n == Head(notification)
    <2>1. /\ notification \in Seq(H!Notification) /\ notification # <<>> /\ Handles(n)
          /\ lastBest' = lastBest
        BY <1>2, HandlerTypes DEF Base, ProcessStep
    <2>2. n = notification[1] /\ 1 \in 1..Len(notification)
        BY <2>1, Taken
    <2>3. ToEvent(n) => n.type = "NEWROUTE"
        BY <2>2 DEF OccupiedInv, NotifiedOccupied
    <2>4. ToEvent(n) => n.route # NoRoute
        BY <2>2, MineIsRoute DEF ToEvent, Base, Owned
    <2>5. currentRoute # NoRoute
        BY <2>1 DEF RemInv
    <2> HIDE DEF n
    <2> QED BY <2>1, <2>3, <2>4, <2>5, AfterHandling
<1>3. CASE ProcessStep /\ candidateRoutes' # {}
    <2>1. config' \in Configurations
          /\ currentRoute' = targetRoute(candidateRoutes', config'.to)
        <3>1. H!Inv'
            BY DEF Base
        <3> QED BY <1>3, <3>1, TargetKept DEF Configured, KeptTarget, Target
    <2>2. candidateRoutes' \in SUBSET Route
        BY KernelRoutesType DEF Base, Owned
    <2>3. config'.to \in ToConfiguration
        BY <2>1, ConfigType DEF LRGConfiguration
    <2> QED BY <1>3, <2>1, <2>2, <2>3, TargetInToSlot
<1>4. CASE RestartStep
    BY <1>4 DEF RestartStep
<1>5. \/ UNCHANGED <<currentRoute, lastBest>>
      \/ ProcessStep
      \/ RestartStep
    BY DEF Moves, KernelStep, InstallStep, LossStep, SubscribeStep, ListStep, GiveUpStep,
           NotifyStep, SilentStep, Stays
<1> QED BY <1>1, <1>2, <1>3, <1>4, <1>5

(* Once quiet, a process that has known a source route has left a          *)
(* last-resort gateway behind it: the loss of the last source route        *)
(* removes nothing (gateway.go, installCandidateRoute), provided that      *)
(* nobody else writes or removes the gateway.                              *)
THEOREM GatewayIsKept == Untouched /\ Spec => []GatewayRemains
<1>1. Init => RemInv
    BY DEF Init, RemInv
<1>2. Base /\ Base' /\ CoverCtx /\ RemInv /\ [Next]_vars => RemInv'
    BY StepMoves, RemMoves DEF Base, CoverCtx
<1>3. Base /\ RemInv /\ CurrentIsReal /\ Untouched => GatewayRemains
    <2> SUFFICES ASSUME Base, RemInv, CurrentIsReal, Untouched, Quiet, lastBest # NoRoute
                 PROVE  GatewayIsThere
        BY DEF GatewayRemains
    <2>1. currentRoute \in rib /\ currentRoute # NoRoute
        BY DEF RemInv, CurrentIsReal
    <2>2. ToRoute(currentRoute)
        BY <2>1, HandlerTypes DEF Base
    <2> QED BY <2>1, <2>2 DEF ToRoute, GatewayIsThere
<1>4. Untouched => Watched
    BY DEF Watched
<1>5. Untouched /\ Spec => [](CoverCtx /\ CurrentIsReal)
    BY <1>4, CoverHolds, CurrentInKernel, PTL
<1>6. Untouched => []Untouched
    <2>1. Untouched => Untouched'
        BY DEF Untouched
    <2> QED BY <2>1, PTL
<1> QED BY <1>1, <1>2, <1>3, <1>5, <1>6, BaseHolds, PTL DEF Spec

-----------------------------------------------------------------------------
(* What arms the ticker sets a route to install, and only the removal of a *)
(* gateway takes it away.                                                  *)
ArmedInv == Untouched => (installationTick => currentRoute # NoRoute) /\ pc # "panicked"

LEMMA TickMoves ==
    ASSUME Base, OccupiedInv, ArmedInv, Moves, Untouched, installationTick'
    PROVE  currentRoute' # NoRoute
<1> DEFINE Unmoved == UNCHANGED <<currentRoute, installationTick>>
<1>1. CASE Unmoved
    BY <1>1 DEF ArmedInv
<1>2. CASE ProcessStep
    <2> DEFINE n == Head(notification)
    <2>1. /\ notification \in Seq(H!Notification) /\ notification # <<>> /\ Handles(n)
        BY <1>2, HandlerTypes DEF Base, ProcessStep
    <2>2. n = notification[1] /\ 1 \in 1..Len(notification)
        BY <2>1, Taken
    <2>3. ToEvent(n) => n.type = "NEWROUTE" /\ n.route # NoRoute
        BY <2>2, MineIsRoute
           DEF OccupiedInv, NotifiedOccupied, ToEvent, Base, Owned
    <2>4. currentRoute' = NoRoute => ~ToEvent(n) /\ currentRoute = NoRoute
        <3> HIDE DEF n
        <3> QED BY <2>1, <2>3, AfterHandling
    <2>5. currentRoute = NoRoute /\ ~ToEvent(n) /\ currentRoute' = NoRoute
          => installationTick' = installationTick
        <3> HIDE DEF n
        <3> QED BY <2>1 DEF Handles, Aims, Keeps, ToEvent
    <2> QED BY <2>4, <2>5 DEF ArmedInv
<1>3. CASE ~installationTick'
    BY <1>3
<1>4. Unmoved \/ ProcessStep \/ ~installationTick'
    BY DEF Moves, KernelStep, InstallStep, LossStep, SubscribeStep, ListStep, GiveUpStep,
           NotifyStep, RestartStep, SilentStep, Stays
<1> HIDE DEF Unmoved
<1> QED BY <1>1, <1>2, <1>3, <1>4

LEMMA PanicComes ==
    ASSUME [Next]_vars, pc' = "panicked"
    PROVE  pc = "panicked" \/ (installationTick /\ currentRoute = NoRoute)
BY DEF Next, Environment, Netlink, ListFails, Notify, Process, Install, InstallFails,
       Panic, Restart, vars, gatewayVars, G!pushNotification, G!processNotification,
       G!InstallSucceeds, G!InstallFails, G!InstallPanics, G!newGateway, G!vars

(* An attempt always has a route to install, and the process does not      *)
(* panic (gateway.go, line 97), where nobody else writes or removes a      *)
(* gateway, or where each gateway has a blackhole: the removal of a        *)
(* gateway without one is what it takes.                                   *)
THEOREM AttemptsHaveRoutes ==
    /\ Untouched \/ \A f \in Configurations : f.to.blackhole
    /\ Spec
    => []AttemptsDoNotPanic
<1>1. CASE Untouched
    <2>1. Init => ArmedInv
        BY DEF Init, G!Init, ArmedInv
    <2>2. CoverCtx /\ ArmedInv /\ [Next]_vars => ArmedInv'
        <3> SUFFICES ASSUME CoverCtx, ArmedInv, [Next]_vars PROVE ArmedInv'
            OBVIOUS
        <3>1. Untouched' <=> Untouched
            BY DEF Untouched
        <3>2. Base /\ OccupiedInv /\ Moves
            BY StepMoves DEF CoverCtx, Base
        <3>3. Untouched /\ installationTick' => currentRoute' # NoRoute
            BY <3>2, TickMoves
        <3>4. Untouched => pc' # "panicked"
            BY PanicComes DEF ArmedInv
        <3> QED BY <3>1, <3>3, <3>4 DEF ArmedInv
    <2>3. Watched
        BY <1>1 DEF Watched
    <2>4. ArmedInv => AttemptsDoNotPanic
        BY <1>1 DEF ArmedInv, AttemptsDoNotPanic
    <2>5. Watched /\ Spec => []CoverCtx
        BY CoverHolds
    <2> QED BY <2>1, <2>2, <2>3, <2>4, <2>5, PTL DEF Spec
<1>2. CASE \A f \in Configurations : f.to.blackhole
    <2>1. Base => AttemptsDoNotPanic
        BY <1>2, HandlerTypes DEF Base, H!Inv, H!BlackholeNeverMissing, AttemptsDoNotPanic
    <2> QED BY <2>1, BaseHolds, PTL
<1> QED BY <1>1, <1>2

-----------------------------------------------------------------------------
(* Two routes in the slot of a gateway are the same for the kernel. *)
OneToS ==
    \A r \in KernelRoutes, q \in KernelRoutes, f \in Configurations :
        ToMatch(f.to, r) /\ ToMatch(f.to, q) => r.tos = q.tos

(* The handler will be told of something about the gateway's slot. *)
Pending(t, i) == ToldAfter(i) \/ LiveOn(t)

(* A gateway that the story has and the handler does not, or will not have *)
(* after the removal of another one, is about to be heard of.              *)
NilExplained(h) ==
    currentRoute = NoRoute =>
        \A t \in h[0] : ToRoute(t) => ~Untouched /\ Pending(t, 0)

RemovalExplained(h) ==
    \A i \in 1..Len(notification) :
        ToEvent(notification[i]) /\ notification[i].type = "DELROUTE" =>
            \A t \in h[i] : ToRoute(t) => Pending(t, i)

EarlyIsEmpty(h) == ~Untouched /\ Early => h[0] = {}

Explained(h) == StoryOf(h) /\ NilExplained(h) /\ RemovalExplained(h) /\ EarlyIsEmpty(h)

ExplainedInv == \E h : Explained(h)

(* Pending after the step. *)
StillPending(t, i) ==
    \/ \E j \in (i + 1)..Len(notification') : ToEvent(notification'[j])
    \/ \E j \in 1..Len(live') : Rivals(live'[j].route, t)

LEMMA ExplainedNext ==
    ASSUME config' = config, NEW h, StoryOf(h)',
           currentRoute' = NoRoute =>
              \A t \in h[0] : ToRoute(t) => ~Untouched /\ StillPending(t, 0),
           \A i \in 1..Len(notification') :
              ToEvent(notification'[i]) /\ notification'[i].type = "DELROUTE" =>
                 \A t \in h[i] : ToRoute(t) => StillPending(t, i),
           ~Untouched /\ Early' => h[0] = {}
    PROVE  ExplainedInv'
<1>1. \A t, i : StillPending(t, i) => Pending(t, i)'
    BY DEF StillPending, Pending, ToldAfter, LiveOn, Rivals, ToEvent, ToRoute
<1>2. NilExplained(h)'
    BY <1>1 DEF NilExplained, ToRoute, Untouched
<1>3. RemovalExplained(h)'
    BY <1>1 DEF RemovalExplained, ToEvent, ToRoute
<1>4. EarlyIsEmpty(h)'
    BY DEF EarlyIsEmpty, Untouched, Early
<1> QED BY <1>2, <1>3, <1>4 DEF Explained, ExplainedInv

(* What is on its way from the kernel arrives, or is still on its way. *)
LEMMA NotifyPending ==
    ASSUME Base, NEW n, NotifyStep(n), NEW t \in KernelRoutes, ToRoute(t),
           NEW i \in 0..Len(notification), Pending(t, i)
    PROVE  StillPending(t, i)
<1>0. /\ n \in H!Notification /\ notification \in Seq(H!Notification)
      /\ notification' = Append(notification, n) /\ live \in Seq(Event) /\ Owned
      /\ config \in Configurations
    BY NotifyOwned, HandlerTypes, StreamTypes DEF Base, NotifyStep
<1>1. /\ Len(notification) \in Nat /\ Len(notification') = Len(notification) + 1
      /\ \A j \in 1..Len(notification) : notification'[j] = notification[j]
      /\ notification'[Len(notification) + 1] = n
    BY <1>0, Appended
<1>2. CASE ToldAfter(i)
    <2>1. PICK j \in (i + 1)..Len(notification) : ToEvent(notification[j])
        BY <1>2 DEF ToldAfter
    <2>2. j \in (i + 1)..Len(notification') /\ notification'[j] = notification[j]
        BY <1>1
    <2> QED BY <2>1, <2>2 DEF StillPending
<1>3. CASE LiveOn(t)
    <2>1. PICK j \in 1..Len(live) : Rivals(live[j].route, t)
        BY <1>3 DEF LiveOn
    <2>2. CASE live' = live
        BY <2>1, <2>2 DEF StillPending
    <2>3. CASE live # <<>> /\ n = Head(live) /\ live' = Tail(live) /\ n \in Event
        <3>1. CASE j = 1
            <4>2. ToEvent(n)
                BY <1>0, <2>1, <2>3, <3>1, Taken DEF Rivals, ToEvent, IsUpdate, Event
            <4>3. Len(notification) + 1 \in (i + 1)..Len(notification')
                BY <1>1
            <4> QED BY <1>1, <4>2, <4>3 DEF StillPending
        <3>2. CASE j # 1
            <4>1. j \in 2..Len(live)
                BY <1>0, <2>1, <3>2, LenProperties
            <4>2. j - 1 \in 1..Len(live') /\ live'[j - 1] = live[j]
                BY <1>0, <2>3, <4>1, Taken
            <4> QED BY <2>1, <4>2 DEF StillPending
        <3> QED BY <3>1, <3>2
    <2> QED BY <2>2, <2>3 DEF NotifyStep, Sends
<1> QED BY <1>2, <1>3 DEF Pending

(* A removal is not sent for a route the view still has, unless something  *)
(* else is reported in its slot.                                           *)
LEMMA RemovalPending ==
    ASSUME CoverCtx, Base', OneToS, OccupiedInv', NEW n, NotifyStep(n),
           ToEvent(n), n.type = "DELROUTE", NEW t \in view', ToRoute(t)
    PROVE  StillPending(t, Len(notification) + 1)
<1>0. /\ n \in H!Notification /\ notification \in Seq(H!Notification)
      /\ notification' = Append(notification, n) /\ config' = config
      /\ config \in Configurations
    BY NotifyOwned, HandlerTypes DEF CoverCtx, Base, NotifyStep
<1>1. Len(notification) + 1 \in 1..Len(notification')
      /\ notification'[Len(notification) + 1] = n
    BY <1>0, Appended
<1>2. ~Untouched
    <2>1. ASSUME Untouched PROVE FALSE
        <3>1. NotifiedOccupied'
            BY <2>1 DEF OccupiedInv, Untouched
        <3>2. \A i \in 1..Len(notification') :
                 ToEvent(notification'[i]) => notification'[i].type = "NEWROUTE"
            BY <1>0, <3>1 DEF NotifiedOccupied, ToEvent, ToRoute
        <3> QED BY <1>1, <3>2
    <2> QED BY <2>1
<1>3. listening
    BY <1>2 DEF CoverCtx, EarlyInv, NotifyStep, Sends
<1>4. Slot(t) = Slot(n.route)
    <2>1. t \in KernelRoutes
        BY <1>0, MineInKernel DEF Base, Owned, Mine
    <2>2. n.route \in KernelRoutes
        <3>1. \A i \in 1..Len(notification') :
                IsUpdate(notification'[i]) => notification'[i].route \in KernelRoutes
            BY DEF Base, Owned, Mine
        <3> QED BY <1>1, <3>1 DEF ToEvent
    <2> QED BY <1>0, <2>1, <2>2 DEF OneToS, ToEvent, ToRoute, ToMatch, Slot
<1>5. P!StreamInv /\ P!StreamInv' /\ P!Send(n) /\ P!Slot(t) = P!Slot(n.route)
    BY <1>4, SameForStream DEF CoverCtx, Base, NotifyStep
<1>6. \E j \in 1..Len(live') : P!Slot(live'[j].route) = P!Slot(t)
    BY <1>3, <1>5, StreamNil, P!SentRemoval
<1>7. \E j \in 1..Len(live') : Slot(live'[j].route) = Slot(t)
    BY <1>6, SameForStream
<1>8. \A j \in 1..Len(live') : InToSlot(config.to, live'[j].route) => ToRoute(live'[j].route)
    BY <1>0, ReservedNext DEF CoverCtx, LiveReserved, ToRoute
<1> QED BY <1>7, <1>8, SameSlot DEF StillPending, Rivals

LEMMA ExplainedNotify ==
    ASSUME CoverCtx, Base', OneToS, OccupiedInv', NEW n, NotifyStep(n), ExplainedInv
    PROVE  ExplainedInv'
<1>0. PICK h : Explained(h)
    BY DEF ExplainedInv
<1>1. /\ n \in H!Notification /\ notification \in Seq(H!Notification)
      /\ notification' = Append(notification, n) /\ config' = config
      /\ currentRoute' = currentRoute /\ Base
    BY NotifyOwned, HandlerTypes DEF CoverCtx, Base, NotifyStep
<1>2. PICK f : /\ StoryOf(f)'
               /\ \A i \in 0..Len(notification) : f[i] = h[i]
               /\ f[Len(notification) + 1] = view'
    BY <1>0, <1>1, StoryTold DEF Explained
<1>3. /\ Len(notification) \in Nat
      /\ \A i \in 1..Len(notification) : notification'[i] = notification[i]
      /\ notification'[Len(notification) + 1] = n
      /\ \A i \in 1..Len(notification') : i \in 1..Len(notification) \/ i = Len(notification) + 1
      /\ 0 \in 0..Len(notification)
      /\ \A i \in 1..Len(notification) : i \in 0..Len(notification)
    BY <1>1, Appended
<1>4. \A i \in 0..Len(notification) : h[i] \subseteq KernelRoutes
    BY <1>0 DEF Explained, StoryOf
<1>5. \A i \in 0..Len(notification) : \A t \in h[i] :
         ToRoute(t) /\ Pending(t, i) => StillPending(t, i)
    BY <1>1, <1>4, NotifyPending
<1>6. ASSUME currentRoute' = NoRoute, NEW t \in f[0], ToRoute(t)
      PROVE  ~Untouched /\ StillPending(t, 0)
    BY <1>0, <1>1, <1>2, <1>3, <1>5, <1>6 DEF Explained, NilExplained
<1>7. ASSUME NEW i \in 1..Len(notification'), ToEvent(notification'[i]),
             notification'[i].type = "DELROUTE", NEW t \in f[i], ToRoute(t)
      PROVE  StillPending(t, i)
    <2>1. CASE i \in 1..Len(notification)
        <3>1. Pending(t, i) /\ t \in h[i] /\ i \in 0..Len(notification)
            BY <1>0, <1>2, <1>3, <1>7, <2>1 DEF Explained, RemovalExplained
        <3> QED BY <1>5, <1>7, <3>1
    <2>2. CASE i = Len(notification) + 1
        BY <1>2, <1>3, <1>7, <2>2, RemovalPending
    <2> QED BY <1>3, <2>1, <2>2
<1>8. ~Untouched /\ Early' => f[0] = {}
    <2>1. Early' => Early
        BY DEF NotifyStep, Sends, Early
    <2> QED BY <1>0, <1>2, <1>3, <2>1 DEF Explained, EarlyIsEmpty
<1> QED BY <1>1, <1>2, <1>6, <1>7, <1>8, ExplainedNext

LEMMA ExplainedProcess ==
    ASSUME CoverCtx, ProcessStep, ExplainedInv
    PROVE  ExplainedInv'
<1>0. PICK h : Explained(h)
    BY DEF ExplainedInv
<1> DEFINE n == Head(notification)
<1>1. /\ notification \in Seq(H!Notification) /\ notification # <<>>
      /\ notification' = Tail(notification) /\ Handles(n) /\ Base
      /\ UNCHANGED <<config, live, sync>>
    BY HandlerTypes DEF CoverCtx, Base, ProcessStep
<1>2. PICK f : /\ StoryOf(f)'
               /\ \A i \in 1..Len(notification) : f[i - 1] = h[i]
    BY <1>0, <1>1, StoryTaken DEF Explained
<1>3. /\ Len(notification) \in Nat /\ Len(notification') = Len(notification) - 1
      /\ n = notification[1] /\ 1 \in 1..Len(notification) /\ 1 - 1 = 0
      /\ \A j \in 1..Len(notification') : /\ j + 1 \in 1..Len(notification) /\ (j + 1) - 1 = j
                                          /\ notification'[j] = notification[j + 1]
      /\ \A j \in 2..Len(notification) :
            j - 1 \in 1..Len(notification') /\ notification'[j - 1] = notification[j]
    BY <1>1, Taken
<1> HIDE DEF n
<1>4. ASSUME NEW t, NEW i \in 0..Len(notification'), Pending(t, i + 1)
      PROVE  StillPending(t, i)
    <2>1. CASE LiveOn(t)
        BY <1>1, <2>1 DEF LiveOn, StillPending
    <2>2. CASE ToldAfter(i + 1)
        <3>1. PICK j \in (i + 1 + 1)..Len(notification) : ToEvent(notification[j])
            BY <2>2 DEF ToldAfter
        <3>2. j \in 2..Len(notification) /\ j - 1 \in (i + 1)..Len(notification')
            BY <1>3
        <3> QED BY <1>3, <3>1, <3>2 DEF StillPending
    <2> QED BY <1>4, <2>1, <2>2 DEF Pending
<1>5. h[1] = Told(h[0], n) /\ f[0] = h[1]
    BY <1>0, <1>2, <1>3 DEF Explained, StoryOf
<1>6. ASSUME currentRoute' = NoRoute, NEW t \in f[0], ToRoute(t)
      PROVE  ~Untouched /\ StillPending(t, 0)
    <2>1. ToEvent(n) => n.route # NoRoute
        BY <1>1, <1>3, MineIsRoute DEF ToEvent, Base, Owned
    <2>2. CASE ~ToEvent(n) /\ currentRoute = NoRoute
        <3>1. t \in h[0]
            BY <1>5, <1>6, <2>2
               DEF Told, After, addCandidateRoute, removeCandidateRoute, ToEvent, IsUpdate
        <3>2. ~Untouched /\ Pending(t, 0)
            BY <1>0, <1>6, <2>2, <3>1 DEF Explained, NilExplained
        <3>3. ToldAfter(0) => ToldAfter(1)
            <4>1. ASSUME NEW j \in (0 + 1)..Len(notification), ToEvent(notification[j])
                  PROVE  j \in (1 + 1)..Len(notification)
                BY <1>3, <2>2, <4>1
            <4> QED BY <4>1 DEF ToldAfter
        <3>4. Pending(t, 0 + 1) /\ 0 \in 0..Len(notification')
            BY <1>3, <3>2, <3>3 DEF Pending
        <3> QED BY <1>4, <3>2, <3>4
    <2>3. CASE ToEvent(n) /\ n.type = "DELROUTE"
        <3>1. ~Untouched
            BY <1>3, <2>3 DEF CoverCtx, OccupiedInv, NotifiedOccupied
        <3>2. Pending(t, 0 + 1) /\ 0 \in 0..Len(notification')
            BY <1>0, <1>3, <1>5, <1>6, <2>3 DEF Explained, RemovalExplained
        <3> QED BY <1>4, <3>1, <3>2
    <2> QED BY <1>1, <1>6, <2>1, <2>2, <2>3, AfterHandling
<1>7. ASSUME NEW i \in 1..Len(notification'), ToEvent(notification'[i]),
             notification'[i].type = "DELROUTE", NEW t \in f[i], ToRoute(t)
      PROVE  StillPending(t, i)
    <2>1. t \in h[i + 1] /\ i \in 0..Len(notification')
        BY <1>2, <1>3, <1>7
    <2>2. Pending(t, i + 1)
        BY <1>0, <1>3, <1>7, <2>1 DEF Explained, RemovalExplained
    <2> QED BY <1>4, <2>1, <2>2
<1>8. ~Untouched /\ Early' => f[0] = {}
    <2>1. ~Untouched /\ Early => n.type = "StartOfRIB"
        BY <1>3 DEF CoverCtx, EarlyInv
    <2> QED BY <1>1, <1>5, <2>1 DEF Early, Told
<1> QED BY <1>1, <1>2, <1>6, <1>7, <1>8, ExplainedNext

(* The other steps say nothing to the handler: none loses what is pending, *)
(* unless nobody touches the gateway or nothing was told yet.              *)
LEMMA ExplainedStays ==
    ASSUME CoverCtx, ExplainedInv,
           UNCHANGED <<config, notification, candidateRoutes, view, currentRoute>>,
           \/ /\ \A t : LiveOn(t) =>
                    \E j \in 1..Len(live') : Rivals(live'[j].route, t)
              /\ Early' => Early
           \/ Untouched
           \/ Early
    PROVE  ExplainedInv'
<1>0. PICK h : Explained(h)
    BY DEF ExplainedInv
<1>1. StoryOf(h)'
    BY <1>0, StoryStays DEF Explained
<1>2. CASE (\A t : LiveOn(t) => \E j \in 1..Len(live') : Rivals(live'[j].route, t))
           /\ (Early' => Early)
    <2>1. \A t, i : Pending(t, i) => StillPending(t, i)
        BY <1>2 DEF Pending, ToldAfter, StillPending, ToEvent, ToRoute
    <2> QED BY <1>0, <1>1, <1>2, <2>1, ExplainedNext
            DEF Explained, NilExplained, RemovalExplained, EarlyIsEmpty
<1>3. CASE Untouched
    <2>1. \A i \in 1..Len(notification) :
             ToEvent(notification[i]) => notification[i].type = "NEWROUTE"
        BY <1>3 DEF CoverCtx, OccupiedInv, NotifiedOccupied
    <2> QED BY <1>0, <1>1, <1>3, <2>1, ExplainedNext DEF Explained, NilExplained
<1>4. CASE ~Untouched /\ Early
    <2>1. h[0] = {}
        BY <1>0, <1>4 DEF Explained, EarlyIsEmpty
    <2>2. \A i \in 1..Len(notification) : notification[i].type = "StartOfRIB"
        BY <1>4 DEF CoverCtx, EarlyInv
    <2> QED BY <1>1, <2>1, <2>2, ExplainedNext
<1> QED BY <1>2, <1>3, <1>4

LEMMA ExplainedStarts == StartsOver' /\ config' = config => ExplainedInv'
<1> SUFFICES ASSUME StartsOver', config' = config PROVE ExplainedInv'
    OBVIOUS
<1>1. PICK h : StoryOf(h)' /\ h[0] = {}
    BY StoryStartsNext DEF ToldNothing
<1>2. Len(notification') = 0 /\ 1..0 = {}
    BY DEF StartsOver
<1> QED BY <1>1, <1>2, ExplainedNext

LEMMA ExplainedMoves ==
    ASSUME CoverCtx, Base', OccupiedInv', OneToS, ExplainedInv, Moves
    PROVE  ExplainedInv'
<1>0. live \in Seq(Event)
    BY StreamTypes DEF CoverCtx, Base
<1>1. ASSUME NEW e \in Event, Changes(e),
             UNCHANGED <<config, notification, currentRoute, candidateRoutes>>
      PROVE  ExplainedInv'
    <2>1. ASSUME NEW t, NEW j \in 1..Len(live), Rivals(live[j].route, t)
          PROVE  j \in 1..Len(live') /\ Rivals(live'[j].route, t)
        BY <1>0, <1>1, <2>1, Appended DEF Changes
    <2>2. \A t : LiveOn(t) => \E j \in 1..Len(live') : Rivals(live'[j].route, t)
        BY <2>1 DEF LiveOn
    <2>3. Early' => Early
        BY <1>1 DEF Changes, Early
    <2> QED BY <1>1, <2>2, <2>3, ExplainedStays DEF Changes
<1>2. ASSUME NEW e, KernelStep(e) PROVE ExplainedInv'
    BY <1>1, <1>2 DEF KernelStep, Stays
<1>3. CASE InstallStep
    <2> DEFINE e == [type |-> "NEWROUTE", route |-> currentRoute]
    <2>1. e \in Event
        BY <1>3, HandlerTypes DEF InstallStep, Event, CoverCtx, Base
    <2>2. Changes(e)
        BY <1>3 DEF InstallStep
    <2> HIDE DEF e
    <2> QED BY <1>1, <1>3, <2>1, <2>2 DEF InstallStep
<1>4. CASE LossStep \/ SubscribeStep \/ GiveUpStep
    <2>1. Untouched \/ Early
        <3>1. ASSUME ~Untouched PROVE Early
            BY <1>4, <3>1 DEF CoverCtx, Watched, EarlyInv, Early, LossStep, Loses,
                              SubscribeStep, GiveUpStep
        <3> QED BY <3>1
    <2> QED BY <1>4, <2>1, ExplainedStays
            DEF LossStep, Loses, SubscribeStep, GiveUpStep, Stays
<1>5. CASE ListStep \/ SilentStep
    <2>1. live' = live /\ (Early' => Early)
        BY <1>5 DEF ListStep, SilentStep, Early
    <2> QED BY <1>5, <2>1, ExplainedStays DEF ListStep, SilentStep, Stays, LiveOn
<1>6. CASE RestartStep
    BY <1>6, ExplainedStarts DEF RestartStep, StartsOver
<1> QED BY <1>2, <1>3, <1>4, <1>5, <1>6, ExplainedNotify, ExplainedProcess DEF Moves

LEMMA ExplainedInit == Init => ExplainedInv
<1> SUFFICES ASSUME Init PROVE ExplainedInv
    OBVIOUS
<1>1. notification = <<>> /\ candidateRoutes = {} /\ view = {}
    BY DEF Init, G!Init, R!Init
<1>2. PICK h : StoryOf(h) /\ h[0] = {}
    BY <1>1, StoryStarts
<1>3. 1..Len(notification) = {}
    BY <1>1
<1>4. Explained(h)
    BY <1>2, <1>3 DEF Explained, NilExplained, RemovalExplained, EarlyIsEmpty
<1> QED BY <1>4 DEF ExplainedInv

LEMMA ExplainedGives ==
    ASSUME CoverCtx, OneToS, ExplainedInv, CurrentIsReal
    PROVE  CurrentIsInstalled
<1> SUFFICES ASSUME Quiet
             PROVE  {r \in rib : ToMatch(config.to, r)} = {currentRoute} \ {NoRoute}
    BY DEF CurrentIsInstalled
<1>0. /\ live = <<>> /\ notification = <<>> /\ view = rib /\ config \in Configurations
      /\ OnePerSlot(rib) /\ rib \subseteq KernelRoutes
    BY QuietMeans, HandlerTypes, StreamTypes, MineInKernel DEF CoverCtx, Base, Owned
<1>1. CASE currentRoute # NoRoute
    <2>1. currentRoute \in rib /\ ToRoute(currentRoute)
        BY <1>1, HandlerTypes DEF CurrentIsReal, CoverCtx, Base
    <2>2. ASSUME NEW r \in rib, ToRoute(r) PROVE r = currentRoute
        <3>1. Slot(r) = Slot(currentRoute)
            BY <1>0, <2>1, <2>2 DEF OneToS, ToRoute, ToMatch, Slot
        <3> QED BY <1>0, <2>1, <3>1 DEF OnePerSlot
    <2> QED BY <1>1, <2>1, <2>2 DEF ToRoute
<1>2. CASE currentRoute = NoRoute
    <2>1. PICK h : Explained(h)
        BY DEF ExplainedInv
    <2>2. h[0] = rib
        BY <1>0, <2>1 DEF Explained, StoryOf
    <2>3. 1..Len(live) = {} /\ (0 + 1)..Len(notification) = {}
        BY <1>0
    <2>4. ASSUME NEW r \in rib, ToRoute(r) PROVE FALSE
        BY <1>2, <2>1, <2>2, <2>3, <2>4
           DEF Explained, NilExplained, Pending, ToldAfter, LiveOn
    <2> QED BY <1>2, <2>4 DEF ToRoute
<1> QED BY <1>1, <1>2

(* Once quiet, the current route is exactly what the kernel holds in the   *)
(* gateway's slot, and nil when it holds nothing: a gateway left there by  *)
(* a former process, or written by somebody else, is always detected       *)
(* (gateway.go, processNotification).  It takes sources of one ToS.        *)
THEOREM CurrentIsDetected == Watched /\ OneToS /\ Spec => []CurrentIsInstalled
<1> DEFINE Ctx == CoverCtx /\ OneToS /\ ExplainedInv
<1>1. Ctx /\ CoverCtx' /\ [Next]_vars => Ctx'
    <2> SUFFICES ASSUME Ctx, CoverCtx', [Next]_vars PROVE Ctx'
        OBVIOUS
    <2>1. Moves
        BY StepMoves DEF CoverCtx, Base
    <2>2. Base' /\ OccupiedInv'
        BY DEF CoverCtx
    <2>3. ExplainedInv'
        BY <2>1, <2>2, ExplainedMoves
    <2>4. OneToS'
        BY DEF OneToS
    <2> QED BY <2>3, <2>4
<1>2. Ctx /\ CurrentIsReal => CurrentIsInstalled
    BY ExplainedGives
<1>3. Watched /\ Spec => [](CoverCtx /\ CurrentIsReal)
    BY CoverHolds, CurrentInKernel, PTL
<1>4. Init => ExplainedInv
    BY ExplainedInit
<1> QED BY <1>1, <1>2, <1>3, <1>4, PTL DEF Spec
-----------------------------------------------------------------------------
(* The kernel's tables change by a counted change of the rest of the       *)
(* system, or by a write of the handler.                                   *)
LEMMA OnlyInstallWrites ==
    ASSUME TypeOK, [Next]_vars, rib' # rib, changes' = changes
    PROVE  G!InstallSucceeds /\ R!write(currentRoute)
<1>1. changes \in Nat
    BY BoundType DEF TypeOK, R!TypeOK
<1>2. ~R!Kernel
    <2>1. ASSUME NEW r, R!KernelReplace(r) \/ R!KernelDelete(r) PROVE FALSE
        BY <1>1, <2>1 DEF R!KernelReplace, R!KernelDelete
    <2>2. ~R!Overflow
        BY DEF R!Overflow
    <2> QED BY <2>1, <2>2 DEF R!Kernel
<1>3. ~(R!Subscribe \/ R!ListIPv4 \/ R!ListIPv6 \/ R!Resync \/ R!ListFails)
    BY DEF R!Subscribe, R!ListIPv4, R!ListIPv6, R!Resync, R!ListFails
<1>4. \A n : ~R!Send(n)
    BY DEF R!Send
<1>5. ~R!newStream /\ ~UNCHANGED streamVars
    BY DEF R!newStream, streamVars
<1>6. Install
    BY <1>2, <1>3, <1>4, <1>5 DEF Next, Environment, Netlink, ListFails, Notify, Process,
       InstallFails, Panic, Restart, vars
<1> QED BY <1>6 DEF Install, R!AddRoute

(* What a write takes away and adds. *)
LEMMA WriteTouches ==
    ASSUME NEW r, R!write(r), rib' # rib
    PROVE  rib' \ rib = {r} /\ \A q \in rib \ rib' : Slot(q) = Slot(r)
<1>1. rib' = addCandidateRoute(rib, r)
    BY DEF R!write, R!addCandidateRoute, addCandidateRoute, R!Slot, Slot
<1>2. r \notin rib /\ rib' = {q \in rib : Slot(q) # Slot(r)} \cup {r}
    BY <1>1 DEF addCandidateRoute
<1> QED BY <1>2

LEMMA WritesCurrent ==
    ASSUME Base, [Next]_vars, rib' # rib, changes' = changes
    PROVE  /\ rib' \ rib = {currentRoute} /\ config' = config
           /\ currentRoute \in Mine /\ ToRoute(currentRoute)
           /\ candidateRoutes # {} => currentRoute = Target
           /\ \A q \in rib \ rib' : Slot(q) = Slot(currentRoute)
<1>1. G!InstallSucceeds /\ R!write(currentRoute)
    BY BaseTypes, OnlyInstallWrites
<1>2. currentRoute # NoRoute /\ config' = config
    BY <1>1 DEF G!InstallSucceeds
<1>3. currentRoute \in Mine /\ ToRoute(currentRoute)
    BY <1>2, HandlerTypes DEF Base, Owned
<1>4. candidateRoutes # {} => currentRoute = Target
    BY HandlerTypes DEF Base, Target
<1> QED BY <1>1, <1>2, <1>3, <1>4, WriteTouches

(* Each write of the program, at any point of a dump, of a                 *)
(* resynchronisation or after a restart, is the copy of the best candidate *)
(* when it knows one, in the slot of its gateway, and takes away nothing   *)
(* that is elsewhere, whatever the configuration (gateway.go,              *)
(* installCandidateRoute and the tick case of runGateway).                 *)
THEOREM WritesStayInSlot == Spec => WritesItsSlotOnly
<1> DEFINE Writes ==
        rib' # rib /\ changes' = changes =>
            /\ rib' \ rib = {currentRoute}
            /\ candidateRoutes # {} => currentRoute = Target
            /\ InToSlot(config.to, currentRoute)
            /\ \A r \in rib \ rib' : Slot(r) = Slot(currentRoute)
<1>1. Base /\ [Next]_vars => [Writes]_vars
    BY WritesCurrent, ToIsInSlot
<1> QED BY <1>1, BaseHolds, PTL DEF Spec, WritesItsSlotOnly

(* A write of the program leaves the source routes of the kernel alone.    *)
WritesSpareSources ==
    [][rib' # rib /\ changes' = changes => Sources(rib') = Sources(rib)]_vars

(* It never costs the kernel a source route, the one it copies to begin    *)
(* with, where the configuration keeps the sources off the gateway's slot: *)
(* the code does not check that it does (gateway.go, targetRoute).         *)
THEOREM WritesCostNoSource == SourcesKeepOff /\ Spec => WritesSpareSources
<1> DEFINE Spares == rib' # rib /\ changes' = changes => Sources(rib') = Sources(rib)
<1>1. ASSUME SourcesKeepOff, Base, [Next]_vars, rib' # rib, changes' = changes
      PROVE  Sources(rib') = Sources(rib)
    <2>1. /\ rib' \ rib = {currentRoute} /\ ToRoute(currentRoute)
          /\ \A q \in rib \ rib' : Slot(q) = Slot(currentRoute)
        BY <1>1, WritesCurrent
    <2>2. config \in Configurations /\ rib \subseteq KernelRoutes
        BY <1>1, HandlerTypes, MineInKernel DEF Base, Owned
    <2>3. \A q \in rib \ rib' : FromMatch(config.from, q) => ToRoute(q)
        BY <1>1, <2>1, <2>2, SameSlot DEF SourcesKeepOff, ToRoute
    <2> QED BY <2>1, <2>3 DEF Sources, ToRoute
<1>2. SourcesKeepOff /\ Base /\ [Next]_vars => [Spares]_vars
    BY <1>1
<1>3. SourcesKeepOff => []SourcesKeepOff
    <2>1. SourcesKeepOff => SourcesKeepOff'
        BY DEF SourcesKeepOff
    <2> QED BY <2>1, PTL
<1> QED BY <1>2, <1>3, BaseHolds, PTL DEF Spec, WritesSpareSources

-----------------------------------------------------------------------------
(* A last-resort gateway that is in the kernel, whoever put it there,      *)
(* never leaves, not for a moment: not while it is replaced, nor when the  *)
(* process stops or crashes, nor when the one that follows it starts       *)
(* knowing nothing.                                                        *)
GatewayNeverLeaves == [][GatewayIsThere => GatewayIsThere']_vars

LEMMA ThereStays ==
    ASSUME Untouched, Base, [Next]_vars, GatewayIsThere
    PROVE  GatewayIsThere'
<1>1. Moves /\ config' = config
    BY StepMoves, StayConfig DEF Base
<1>2. PICK t \in rib : ToRoute(t)
    BY DEF GatewayIsThere, ToRoute
<1>3. config \in Configurations /\ Occupied(t)
    BY <1>2, HandlerTypes DEF Base, Occupied, Rivals
<1>4. ASSUME NEW e, rib' = After(rib, e),
             Slot(e.route) # Slot(t) \/ (e.type = "NEWROUTE" /\ ToRoute(e.route))
      PROVE  Fills(t)
    BY <1>3, <1>4, OccupiedAfter
<1>5. Fills(t)
    <2>1. ASSUME NEW e, KernelStep(e) PROVE Fills(t)
        <3>1. Slot(e.route) # Slot(t)
            BY <1>2, <1>3, <2>1, UntouchedIsElsewhere DEF KernelStep
        <3> QED BY <1>4, <2>1, <3>1 DEF KernelStep, Changes
    <2>2. CASE InstallStep
        <3> DEFINE e == [type |-> "NEWROUTE", route |-> currentRoute]
        <3>1. rib' = After(rib, e) /\ e.type = "NEWROUTE" /\ ToRoute(e.route)
            BY <2>2, HandlerTypes DEF InstallStep, Changes, Base
        <3> HIDE DEF e
        <3> QED BY <1>4, <3>1
    <2>3. CASE rib' = rib
        BY <1>3, <2>3 DEF Occupied, Fills
    <2>4. (\E e : KernelStep(e)) \/ InstallStep \/ rib' = rib
        BY <1>1 DEF Moves, LossStep, Loses, SubscribeStep, ListStep, GiveUpStep,
           NotifyStep, ProcessStep, RestartStep, SilentStep
    <2> QED BY <2>1, <2>2, <2>3, <2>4
<1> QED BY <1>1, <1>5 DEF Fills, Rivals, GatewayIsThere, ToRoute

(* Where nobody else touches the gateway, no order of notifications,       *)
(* losses, refused installations, panics and restarts takes it away: the   *)
(* program only ever replaces it, in one write (netlink.AddRoute).         *)
THEOREM GatewayStays == Untouched /\ Spec => GatewayNeverLeaves
<1>1. ASSUME Untouched, Base, [Next]_vars, GatewayIsThere
      PROVE  GatewayIsThere'
    BY <1>1, ThereStays
<1>2. Untouched /\ Base /\ [Next]_vars => [GatewayIsThere => GatewayIsThere']_vars
    BY <1>1
<1>3. Untouched => []Untouched
    <2>1. Untouched => Untouched'
        BY DEF Untouched
    <2> QED BY <2>1, PTL
<1> QED BY <1>2, <1>3, BaseHolds, PTL DEF Spec, GatewayNeverLeaves

-----------------------------------------------------------------------------
(* While the handler knows of no last-resort gateway, one that is in the   *)
(* kernel is on its way to it, before anything that would make it report   *)
(* the gateway missing: the end of a dump, or a removal.                   *)
Harmless(n) == n.type \in {"StartOfRIB", "NEWROUTE"}

Announced ==
    \E i \in 1..Len(notification) :
        /\ ToEvent(notification[i])
        /\ \A j \in 1..(i - 1) : Harmless(notification[j])

Listed(t) == t \in dump \/ Early \/ (sync = "dump4" /\ t.dst \in Prefix6)

ToBeListed(t) ==
    /\ Listed(t)
    /\ \A j \in 1..Len(notification) : Harmless(notification[j])

AwaitedInv ==
    currentRoute = NoRoute =>
        \A t \in rib : ToRoute(t) => Announced \/ ToBeListed(t)

(* A notification that neither tells of a gateway nor may make it missing  *)
(* leaves the gateway awaited.                                             *)
LEMMA AwaitedTaken ==
    ASSUME NEW t, notification \in Seq(H!Notification), notification # <<>>,
           notification' = Tail(notification), UNCHANGED <<config, sync, dump>>,
           ~ToEvent(Head(notification)), Announced \/ ToBeListed(t)
    PROVE  Harmless(Head(notification)) /\ (Announced' \/ ToBeListed(t)')
<1>0. /\ Len(notification) \in Nat /\ Len(notification') = Len(notification) - 1
      /\ Head(notification) = notification[1] /\ 1 \in 1..Len(notification)
      /\ \A i \in 1..Len(notification') :
            i + 1 \in 1..Len(notification) /\ notification'[i] = notification[i + 1]
      /\ \A i \in 2..Len(notification) :
            i - 1 \in 1..Len(notification') /\ notification'[i - 1] = notification[i]
    BY Taken
<1>1. CASE Announced
    <2>1. PICK i \in 1..Len(notification) :
             /\ ToEvent(notification[i])
             /\ \A j \in 1..(i - 1) : Harmless(notification[j])
        BY <1>1 DEF Announced
    <2>2. i \in 2..Len(notification) /\ 1 \in 1..(i - 1)
        BY <1>0, <2>1
    <2>3. \A j \in 1..((i - 1) - 1) :
             j \in 1..Len(notification') /\ j + 1 \in 1..(i - 1)
        BY <1>0, <2>2
    <2>4. \A j \in 1..((i - 1) - 1) : Harmless(notification'[j])
        BY <1>0, <2>1, <2>3
    <2>5. i - 1 \in 1..Len(notification') /\ ToEvent(notification'[i - 1])
        BY <1>0, <2>1, <2>2
    <2> QED BY <1>0, <2>1, <2>2, <2>4, <2>5 DEF Announced, ToEvent, ToRoute, Harmless
<1>2. CASE ToBeListed(t)
    BY <1>0, <1>2 DEF ToBeListed, Harmless, Listed, Early
<1> QED BY <1>1, <1>2

LEMMA AwaitedTold ==
    ASSUME Base, AwaitedInv, currentRoute = NoRoute, NEW t \in rib, ToRoute(t),
           NEW n, NotifyStep(n)
    PROVE  Announced' \/ ToBeListed(t)'
<1>0. /\ n \in H!Notification /\ notification \in Seq(H!Notification)
      /\ notification' = Append(notification, n) /\ config' = config
    BY NotifyOwned, HandlerTypes DEF Base, NotifyStep
<1>1. /\ Len(notification) \in Nat /\ Len(notification') = Len(notification) + 1
      /\ \A j \in 1..Len(notification) : notification'[j] = notification[j]
      /\ notification'[Len(notification) + 1] = n
    BY <1>0, Appended
<1>2. CASE Announced
    <2>1. PICK i \in 1..Len(notification) :
             /\ ToEvent(notification[i])
             /\ \A j \in 1..(i - 1) : Harmless(notification[j])
        BY <1>2 DEF Announced
    <2>2. i \in 1..Len(notification') /\ notification'[i] = notification[i]
          /\ \A j \in 1..(i - 1) : notification'[j] = notification[j]
        BY <1>1
    <2> QED BY <1>0, <2>1, <2>2 DEF Announced, ToEvent, ToRoute, Harmless
<1>3. CASE ToBeListed(t) /\ n.type = "NEWROUTE" /\ n.route = t
    <2>1. ToEvent(n)
        BY <1>3 DEF ToEvent, IsUpdate
    <2>2. Len(notification) + 1 \in 1..Len(notification')
          /\ \A j \in 1..((Len(notification) + 1) - 1) :
                j \in 1..Len(notification) /\ Harmless(notification'[j])
        BY <1>1, <1>3 DEF ToBeListed
    <2> QED BY <1>0, <1>1, <2>1, <2>2 DEF Announced, ToEvent, ToRoute, Harmless
<1>4. CASE ToBeListed(t) /\ ~(n.type = "NEWROUTE" /\ n.route = t)
    <2>1. /\ Harmless(n)
          /\ Listed(t)'
        <3>1. sync \in {"start", "dump4", "dump6", "updates"} /\ (sync = "updates" => dump = {})
            BY StreamTypes DEF Base, NotifyStep, Sends
        <3> QED BY <1>4, <3>1 DEF ToBeListed, Listed, NotifyStep, Sends, Early, Harmless
    <2>2. \A j \in 1..Len(notification') : j \in 1..Len(notification) \/ j = Len(notification) + 1
        BY <1>1
    <2>3. \A j \in 1..Len(notification') : Harmless(notification'[j])
        BY <1>1, <1>4, <2>1, <2>2 DEF ToBeListed
    <2> QED BY <2>1, <2>3 DEF ToBeListed, Harmless
<1> QED BY <1>2, <1>3, <1>4 DEF AwaitedInv

LEMMA AwaitedMoves ==
    ASSUME Untouched, Base, OccupiedInv, AwaitedInv, Moves
    PROVE  AwaitedInv'
<1> SUFFICES ASSUME currentRoute' = NoRoute, NEW t \in rib', ToRoute(t)
             PROVE  Announced' \/ ToBeListed(t)'
    BY StayConfig DEF AwaitedInv, ToRoute
<1>0. config \in Configurations /\ config' = config
    BY StayConfig, HandlerTypes DEF Base
<1>1. ASSUME currentRoute = NoRoute, t \in rib PROVE Announced \/ ToBeListed(t)
    BY <1>1 DEF AwaitedInv
<1>2. ASSUME UNCHANGED <<config, notification>>, t \in rib, currentRoute = NoRoute,
             Listed(t) => Listed(t)'
      PROVE  Announced' \/ ToBeListed(t)'
    BY <1>1, <1>2 DEF Announced, ToBeListed, ToEvent, ToRoute, Harmless
<1>3. ASSUME NEW e, KernelStep(e) PROVE Announced' \/ ToBeListed(t)'
    <2>1. t # e.route
        BY <1>0, <1>3, UntouchedIsElsewhere DEF KernelStep
    <2>2. t \in rib
        BY <1>3, <2>1 DEF KernelStep, Changes, After, addCandidateRoute, removeCandidateRoute
    <2> QED BY <1>2, <1>3, <2>2 DEF KernelStep, Changes, Stays, Listed, Early
<1>4. CASE InstallStep
    BY <1>4 DEF InstallStep
<1>5. CASE LossStep \/ SubscribeStep \/ SilentStep
    BY <1>2, <1>5 DEF LossStep, Loses, SubscribeStep, SilentStep, Stays, Listed, Early
<1>6. CASE ListStep
    BY <1>2, <1>6 DEF ListStep, Stays, Listed, Early
<1>7. CASE GiveUpStep
    <2>1. sync = "updates" => dump = {}
        BY StreamTypes DEF Base
    <2> QED BY <1>2, <1>7, <2>1 DEF GiveUpStep, Stays, Listed, Early
<1>8. ASSUME NEW n, NotifyStep(n) PROVE Announced' \/ ToBeListed(t)'
    BY <1>8, AwaitedTold DEF NotifyStep
<1>9. CASE ProcessStep
    <2> DEFINE n == Head(notification)
    <2>1. /\ notification \in Seq(H!Notification) /\ notification # <<>> /\ Handles(n)
          /\ notification' = Tail(notification) /\ UNCHANGED <<config, rib, sync, dump>>
          /\ n = notification[1] /\ 1 \in 1..Len(notification)
        BY <1>9, HandlerTypes, Taken DEF Base, ProcessStep
    <2>2. ToEvent(n) => n.type = "NEWROUTE" /\ n.route # NoRoute
        BY <2>1, MineIsRoute DEF OccupiedInv, NotifiedOccupied, ToEvent, Base, Owned
    <2>3. ~ToEvent(n) /\ currentRoute = NoRoute
        <3> HIDE DEF n
        <3> QED BY <2>1, <2>2, AfterHandling
    <2> QED BY <1>1, <2>1, <2>3, AwaitedTaken
<1>10. CASE RestartStep
    BY <1>10 DEF RestartStep, ToBeListed, Listed, Early
<1> QED BY <1>3, <1>4, <1>5, <1>6, <1>7, <1>8, <1>9, <1>10 DEF Moves

(* What a notification makes of the exported state. *)
LEMMA GaugeIs ==
    ASSUME Base, G!processNotification
    PROVE  /\ gauge' = "Installed" => gauge = "Installed"
           /\ gauge' = "Missing" =>
                 \/ gauge = "Missing"
                 \/ /\ currentRoute' = NoRoute
                    /\ ToEvent(Head(notification)) \/ ~Harmless(Head(notification))
<1> DEFINE n == Head(notification)
<1>0. /\ config \in Configurations /\ config.to \in ToConfiguration
      /\ candidateRoutes \subseteq Route
      /\ notification \in Seq(H!Notification) /\ notification # <<>> /\ G!handle(n)
    BY HandlerTypes, ConfigType, KernelRoutesType
       DEF Base, Owned, G!processNotification, LRGConfiguration
<1>1. IsUpdate(n) => n.route \in Route
    BY <1>0, Taken, KernelRoutesType DEF H!Notification, IsUpdate
<1>2. ASSUME NEW candidates, NEW current, G!installCandidateRoute(candidates, current)
      PROVE  /\ gauge' = "Installed" => gauge = "Installed"
             /\ gauge' = "Missing" =>
                   \/ gauge = "Missing"
                   \/ currentRoute' = NoRoute /\ G!targetRoute(candidates, config.to) = NoRoute
    BY <1>2 DEF G!installCandidateRoute, G!installRoute
<1>3. CASE n.type = "StartOfRIB" /\ UNCHANGED gauge
    BY <1>3
<1>4. CASE n.type = "EndOfRIB" /\ G!installCandidateRoute(candidateRoutes, currentRoute)
    BY <1>2, <1>4 DEF Harmless
<1>5. CASE IsUpdate(n) /\ G!targetUpdate(n)
    <2>1. ToEvent(n)
        BY <1>5 DEF ToEvent, ToRoute, G!targetUpdate, G!ToMatch, ToMatch
    <2> QED BY <1>2, <1>5, <2>1 DEF G!targetUpdate
<1>6. CASE IsUpdate(n) /\ G!sourceUpdate(n)
    <2>1. CASE n.type = "DELROUTE"
        BY <1>2, <1>6, <2>1 DEF G!sourceUpdate, Harmless
    <2>2. CASE n.type = "NEWROUTE"
        <3> DEFINE candidates == G!addCandidateRoute(candidateRoutes, n.route)
        <3>1. candidates \in SUBSET Route /\ candidates # {}
            BY <1>0, <1>1, <1>6 DEF G!addCandidateRoute
        <3>2. G!targetRoute(candidates, config.to) = targetRoute(candidates, config.to)
            BY DEF G!targetRoute, targetRoute, G!bestCandidateRoute, bestCandidateRoute,
                   G!Better, Better
        <3>3. G!installCandidateRoute(candidates, currentRoute)
            BY <1>6, <2>2 DEF G!sourceUpdate
        <3> HIDE DEF candidates
        <3>4. G!targetRoute(candidates, config.to) # NoRoute
            BY <1>0, <3>1, <3>2, TargetInToSlot
        <3> QED BY <1>2, <3>3, <3>4
    <2> QED BY <1>6, <2>1, <2>2 DEF IsUpdate
<1>7. CASE G!alienUpdate(n)
    BY <1>7 DEF G!alienUpdate
<1> QED BY <1>0, <1>3, <1>4, <1>5, <1>6, <1>7 DEF G!handle, IsUpdate

LEMMA ExportMoves ==
    ASSUME Untouched, Base, OccupiedInv, AwaitedInv, ExportedStateIsTrue, [Next]_vars
    PROVE  ExportedStateIsTrue'
<1>0. /\ config \in Configurations /\ config' = config /\ Moves
      /\ GatewayIsThere => GatewayIsThere'
    BY StepMoves, StayConfig, ThereStays, HandlerTypes DEF Base
<1>1. ASSUME gauge' = gauge, rib' = rib PROVE ExportedStateIsTrue'
    BY <1>0, <1>1 DEF ExportedStateIsTrue, GatewayIsThere
<1>2. CASE Environment
    <2>1. gauge' = gauge /\ R!Kernel /\ P!StreamInv
        BY <1>2 DEF Environment, gatewayVars, Base
    <2>2. ASSUME NEW e \in Event, e.route \in External, Changes(e),
                 NEW r \in rib', ToMatch(config.to, r)
          PROVE  r \in rib
        <3>1. r # e.route
            BY <1>0, <2>2, UntouchedIsElsewhere DEF ToRoute
        <3> QED BY <2>2, <3>1 DEF Changes, After, addCandidateRoute, removeCandidateRoute
    <2>3. GatewayIsThere' => GatewayIsThere
        <3>1. (\E e \in Event : e.route \in External /\ Changes(e)) \/ Loses
            BY <2>1, KernelIs
        <3> QED BY <1>0, <2>2, <3>1 DEF Loses, GatewayIsThere
    <2> QED BY <1>0, <2>1, <2>3 DEF ExportedStateIsTrue
<1>3. CASE Install
    <2>1. gauge' = "Installed" /\ currentRoute # NoRoute /\ rib' = R!addCandidateRoute(rib, currentRoute)
        BY <1>3 DEF Install, G!InstallSucceeds, R!AddRoute, R!write
    <2>2. currentRoute \in rib' /\ ToMatch(config.to, currentRoute)
        BY <2>1, HandlerTypes DEF R!addCandidateRoute, Base, ToRoute
    <2> QED BY <1>0, <2>1, <2>2 DEF ExportedStateIsTrue, GatewayIsThere
<1>4. CASE Process
    <2> DEFINE n == Head(notification)
    <2>1. G!processNotification /\ rib' = rib
        BY <1>4 DEF Process, streamVars
    <2>2. /\ notification \in Seq(H!Notification) /\ notification # <<>> /\ Handles(n)
          /\ n = notification[1] /\ 1 \in 1..Len(notification)
        BY <2>1, ProcessIs, HandlerTypes, Taken DEF Base
    <2>3. gauge' = "Installed" => GatewayIsThere
        BY <2>1, GaugeIs DEF ExportedStateIsTrue
    <2>4. ASSUME gauge' = "Missing", GatewayIsThere PROVE FALSE
        <3>1. currentRoute' = NoRoute /\ (ToEvent(n) \/ ~Harmless(n))
            BY <2>1, <2>4, GaugeIs DEF ExportedStateIsTrue
        <3>2. ToEvent(n) => n.type = "NEWROUTE" /\ n.route # NoRoute
            BY <2>2, MineIsRoute DEF OccupiedInv, NotifiedOccupied, ToEvent, Base, Owned
        <3>3. ~ToEvent(n) /\ currentRoute = NoRoute
            <4> HIDE DEF n
            <4> QED BY <2>2, <3>1, <3>2, AfterHandling
        <3>4. Announced \/ (\A j \in 1..Len(notification) : Harmless(notification[j]))
            BY <2>4, <3>3 DEF AwaitedInv, GatewayIsThere, ToRoute, ToBeListed
        <3>5. PICK i \in 1..Len(notification) :
                 /\ ToEvent(notification[i])
                 /\ \A j \in 1..(i - 1) : Harmless(notification[j])
            BY <2>2, <3>1, <3>3, <3>4 DEF Announced
        <3>6. 1 \in 1..(i - 1)
            BY <2>2, <3>3, <3>5
        <3> QED BY <2>2, <3>1, <3>3, <3>5, <3>6
    <2> QED BY <1>0, <2>1, <2>3, <2>4 DEF ExportedStateIsTrue, GatewayIsThere
<1>5. CASE Restart
    <2>1. gauge' = "Unset"
        BY <1>5 DEF Restart, G!newGateway
    <2> QED BY <2>1 DEF ExportedStateIsTrue
<1>6. CASE Netlink \/ ListFails
    BY <1>1, <1>6 DEF Netlink, ListFails, gatewayVars, R!Subscribe, R!ListIPv4, R!ListIPv6,
                      R!Resync, R!giveUp, R!ListFails
<1>7. CASE Notify
    BY <1>1, <1>7 DEF Notify, G!pushNotification, R!Send
<1>8. CASE InstallFails \/ Panic \/ UNCHANGED vars
    BY <1>1, <1>8 DEF InstallFails, G!InstallFails, G!vars, Panic, G!InstallPanics,
                      vars, gatewayVars, streamVars
<1> QED BY <1>2, <1>3, <1>4, <1>5, <1>6, <1>7, <1>8 DEF Next

(* What the handler exports is true of the kernel, at every moment, where  *)
(* nobody else touches the gateway: "missing" is never said of a gateway   *)
(* that is there, at no point of the first dump or of one that follows a   *)
(* restart, and "installed" never of one that is not (gateway.go, lines 18 *)
(* and 246): what a dump has not told yet is told before it ends.          *)
THEOREM ExportsTheTruth == Untouched /\ Spec => []ExportedStateIsTrue
<1> DEFINE Export == Untouched /\ CoverCtx /\ AwaitedInv /\ ExportedStateIsTrue
<1>1. Init => AwaitedInv /\ ExportedStateIsTrue
    <2> SUFFICES ASSUME Init PROVE AwaitedInv /\ ExportedStateIsTrue
        OBVIOUS
    <2>1. notification = <<>> /\ sync = "idle" /\ gauge = "Unset"
        BY DEF Init, G!Init, R!Init
    <2>2. 1..Len(notification) = {}
        BY <2>1
    <2> QED BY <2>1, <2>2 DEF AwaitedInv, ToBeListed, Listed, Early, ExportedStateIsTrue
<1>2. Export /\ [Next]_vars => AwaitedInv' /\ ExportedStateIsTrue'
    <2> SUFFICES ASSUME Export, [Next]_vars PROVE AwaitedInv' /\ ExportedStateIsTrue'
        OBVIOUS
    <2>1. Base /\ OccupiedInv /\ Moves
        BY StepMoves DEF CoverCtx, Base
    <2> QED BY <2>1, AwaitedMoves, ExportMoves
<1>3. Untouched => []Untouched
    <2>1. Untouched => Untouched'
        BY DEF Untouched
    <2> QED BY <2>1, PTL
<1>4. Untouched => Watched
    BY DEF Watched
<1> QED BY <1>1, <1>2, <1>3, <1>4, CoverHolds, PTL DEF Spec

-----------------------------------------------------------------------------
(* What Gateway promises of its handler under any notifications.           *)
GatewayPromises ==
    /\ G!CurrentTracksBest
    /\ G!CurrentInToSlot
    /\ G!CandidatesAreSources
    /\ G!BlackholeNeverMissing

(* The handler in the whole program is the one of Gateway: between two     *)
(* restarts each step is one of Gateway or leaves the handler alone, and a *)
(* restart starts it anew.                                                 *)
HandlerIsGateway ==
    [][ IF restarts' = restarts
        THEN G!Next \/ UNCHANGED gatewayVars
        ELSE G!newGateway ]_vars

(* Without a blackhole, while the process lives, losing the last candidate *)
(* makes the gateway ask for nothing and forget nothing.                   *)
LastRouteIsKept ==
    [][ /\ restarts' = restarts
        /\ ~config.to.blackhole
        /\ candidateRoutes' = {} /\ candidateRoutes # {}
        => UNCHANGED <<currentRoute, installationTick>> ]_vars

(* The handler keeps its promises in the whole program too, through the    *)
(* echoes of its own writes, the losses and the restarts (gateway.go).     *)
THEOREM HandlerKeepsPromises == Spec => []GatewayPromises
<1>1. Base => GatewayPromises
    <2> SUFFICES ASSUME Base PROVE GatewayPromises
        OBVIOUS
    <2>1. /\ H!CurrentTracksBest /\ H!CurrentInToSlot /\ H!CandidatesAreSources
          /\ H!BlackholeNeverMissing
        BY DEF Base, H!Inv
    <2>2. G!CurrentTracksBest
        BY <2>1 DEF G!CurrentTracksBest, H!CurrentTracksBest, G!targetRoute, H!targetRoute,
           G!bestCandidateRoute, H!bestCandidateRoute, G!Better, H!Better
    <2>3. G!CurrentInToSlot /\ G!CandidatesAreSources
        BY <2>1 DEF G!CurrentInToSlot, H!CurrentInToSlot, G!CandidatesAreSources,
           H!CandidatesAreSources, G!ToMatch, H!ToMatch, G!FromMatch, H!FromMatch,
           G!Slot, H!Slot
    <2>4. G!BlackholeNeverMissing
        BY <2>1 DEF G!BlackholeNeverMissing,
           H!BlackholeNeverMissing
    <2> QED BY <2>2, <2>3, <2>4 DEF GatewayPromises
<1> QED BY <1>1, BaseHolds, PTL

(* What reaches the handler is what Gateway lets in, however the stream    *)
(* came to send it (netlink/root.go to gateway.go, pushNotification).      *)
THEOREM HandlerRefinesGateway == Spec => HandlerIsGateway
<1> DEFINE Refines == IF restarts' = restarts
                      THEN G!Next \/ UNCHANGED gatewayVars
                      ELSE G!newGateway
<1>1. ASSUME Base, Notify PROVE G!Next
    <2>1. PICK n : R!Send(n) /\ G!pushNotification(n)
        BY <1>1 DEF Notify
    <2>2. NotifyStep(n)
        BY <1>1, <2>1, SendIs DEF Base, Notify, NotifyStep, G!pushNotification
    <2>3. n \in G!Notification
        <3>1. n \in H!Notification
            BY <1>1, <2>2, NotifyOwned DEF Base
        <3> QED BY <3>1 DEF H!Notification, G!Notification
    <2> QED BY <2>1, <2>3 DEF G!Next
<1>2. ASSUME Base, [Next]_vars PROVE Refines
    <2>1. CASE Environment \/ Netlink \/ ListFails \/ UNCHANGED vars
        BY <2>1 DEF Environment, Netlink, ListFails, vars
    <2>2. CASE Notify
        BY <1>1, <1>2, <2>2 DEF Notify
    <2>3. CASE Process \/ Install \/ InstallFails \/ Panic
        <3>1. restarts' = restarts
            BY <2>3 DEF Process, Install, InstallFails, Panic
        <3>2. G!processNotification \/ G!InstallSucceeds \/ G!InstallFails \/ G!InstallPanics
            BY <2>3 DEF Process, Install, InstallFails, Panic
        <3> QED BY <3>1, <3>2 DEF G!Next
    <2>4. CASE Restart
        <3>1. restarts' # restarts
            BY <1>2, <2>4, BoundType DEF Restart, Base
        <3> QED BY <2>4, <3>1 DEF Restart
    <2> QED BY <1>2, <2>1, <2>2, <2>3, <2>4 DEF Next
<1>3. Base /\ [Next]_vars => [Refines]_vars
    BY <1>2
<1> QED BY <1>3, BaseHolds, PTL DEF Spec, HandlerIsGateway

(* Of a program that writes to the kernel it reads, the reason of being of *)
(* the gateway holds as well: the last known route is kept (gateway.go,    *)
(* installCandidateRoute), until the process is restarted.                 *)
THEOREM KeepsTheLastRoute == Spec => LastRouteIsKept
<1> DEFINE Kept == /\ restarts' = restarts
                   /\ ~config.to.blackhole
                   /\ candidateRoutes' = {} /\ candidateRoutes # {}
                   => UNCHANGED <<currentRoute, installationTick>>
<1>1. ASSUME Base, [Next]_vars, restarts' = restarts, ~config.to.blackhole,
             candidateRoutes' = {}, candidateRoutes # {}
      PROVE  UNCHANGED <<currentRoute, installationTick>>
    <2>1. G!processNotification
        <3>1. ~Restart
            BY <1>1, BoundType DEF Restart, Base
        <3>2. ~UNCHANGED candidateRoutes
            BY <1>1
        <3> QED BY <1>1, <3>1, <3>2 DEF Next, Environment, Netlink, ListFails, Notify,
               Process, Install, InstallFails, Panic, vars, gatewayVars,
               G!pushNotification, G!InstallSucceeds, G!InstallFails, G!InstallPanics, G!vars
    <2>2. PICK n : Handles(n) /\ n = Head(notification)
        BY <2>1, ProcessIs
    <2>3. targetRoute({}, config.to) = NoRoute
        BY <1>1 DEF targetRoute, bestCandidateRoute
    <2>4. ASSUME NEW candidates, Aims(candidates, currentRoute)
          PROVE  UNCHANGED <<currentRoute, installationTick>>
        BY <1>1, <2>3, <2>4 DEF Aims
    <2>5. ~Keeps /\ \A r : ~Aims(candidateRoutes, r)
        BY <1>1 DEF Keeps, Aims
    <2> QED BY <2>2, <2>4, <2>5 DEF Handles
<1>2. Base /\ [Next]_vars => [Kept]_vars
    BY <1>1
<1> QED BY <1>2, BaseHolds, PTL DEF Spec, LastRouteIsKept

-----------------------------------------------------------------------------
(* What RibStream promises its subscriber, which is the program whose      *)
(* writes are among the events that it is told.                            *)
StreamPromises == R!ViewIsRib /\ R!NothingIsLost

(* The stream keeps its promises although the subscriber writes to the     *)
(* kernel, whose events it may be told during a dump, and although it may  *)
(* restart at any point of it (netlink/root.go, run; netlink/add.go).      *)
THEOREM StreamKeepsPromises == Spec => []StreamPromises
<1>1. Base => StreamPromises
    <2> SUFFICES ASSUME Base PROVE StreamPromises
        OBVIOUS
    <2>1. P!StreamInv
        BY DEF Base
    <2>2. P!ViewIsRib
        BY <2>1, StreamNil, P!CaughtUpView
    <2>3. P!NothingIsLost
        BY <2>1, StreamNil, P!LeadsToPending DEF P!NothingIsLost
    <2>4. R!ViewIsRib
        BY <2>2 DEF P!ViewIsRib, R!ViewIsRib, P!CaughtUp, R!CaughtUp
    <2>5. R!NothingIsLost
        BY <2>3 DEF P!NothingIsLost, R!NothingIsLost, P!Pending, R!Pending,
           P!addCandidateRoute, R!addCandidateRoute, P!Slot, R!Slot,
           P!removeCandidateRoute, R!removeCandidateRoute
    <2> QED BY <2>4, <2>5 DEF StreamPromises
<1> QED BY <1>1, BaseHolds, PTL
=============================================================================
