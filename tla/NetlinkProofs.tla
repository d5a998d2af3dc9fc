---------------------------- MODULE NetlinkProofs ----------------------------
(***************************************************************************)
(* The state machine of the netlink component and its goroutines, for any  *)
(* tables, any size of the channels and of the socket, and any number of   *)
(* changes, of broken subscriptions and of failed listings.                *)
(***************************************************************************)
EXTENDS Netlink, SequenceTheorems, TLAPS

InTransition == pc \in {"transition", "start", "list", "end"}

(* Before its first success, the machine is led by the subscriber only.    *)
NotYetSubscribed ==
    IF subscribed = "nil" THEN state # "idle"
    ELSE /\ state = "idle" /\ updates \in {"nil", "new"} /\ ~transitionTick
         /\ pc \in {"select", "transition", "start", "list", "done"}

(* Who may have called transition(), and with what channel and ticker.     *)
CalledBy ==
    InTransition =>
        \/ caller = "subscribed" /\ subscribed = "closed"
        \/ /\ caller = "tick" /\ transitionTick
           /\ subscribed = "nil" /\ updates \in {"nil", "new"}
        \/ /\ caller = "updates" /\ ~transitionTick
           /\ subscribed = "nil" /\ updates = "nil"
           /\ Syncing /\ pc \in {"transition", "end"}

(* What the channel that run() reads says of the machine. *)
ReadsFrom ==
    /\ updates = "dump" => /\ Syncing /\ ~transitionTick
                           /\ injecting \/ dumpUpdates.closed \/ dying
    /\ updates = "live" => state = "updateRoutes" /\ ~transitionTick
    /\ pc = "update" => updates \in {"dump", "live"}
    /\ pc \in {"start", "list"} => ~Syncing
    /\ pc = "end" => state = "ipv6Routes"
    /\ injecting => updates = "dump" /\ ~dumpUpdates.closed

(* What will end the present phase. *)
Awaits ==
    /\ Syncing \/ updates = "live" \/ pc \in {"start", "list"} =>
          reading \/ liveUpdates.closed
    /\ pc = "select" /\ subscribed = "nil" /\ updates \in {"nil", "new"} =>
          transitionTick

Inv == TypeOK /\ NotYetSubscribed /\ CalledBy /\ ReadsFrom /\ Awaits

-----------------------------------------------------------------------------
(* A channel after a receive, a send and its close. *)
Bounded(channel) == channel \in Channel /\ Len(channel.queue) <= ChannelSize

LEMMA NewIsBounded == Bounded(NewChannel) /\ NewChannel.closed = FALSE
BY SizeType DEF Bounded, Channel, NewChannel

LEMMA Received ==
    ASSUME NEW c, Bounded(c)
    PROVE  LET d == [c EXCEPT !.queue = SubSeq(@, 2, Len(@))]
           IN  Bounded(d) /\ d.closed = c.closed
<1> DEFINE q == SubSeq(c.queue, 2, Len(c.queue))
<1>1. c.queue \in Seq(Events) /\ Len(c.queue) \in Nat
    BY LenProperties DEF Bounded, Channel
<1>2. q \in Seq(Events) /\ Len(q) <= Len(c.queue)
    <2>1. CASE 2 <= Len(c.queue)
        <3>1. \A k \in 2..Len(c.queue) : c.queue[k] \in Events
            BY <1>1, ElementOfSeq
        <3> QED BY <1>1, <2>1, <3>1, SubSeqProperties
    <2>2. CASE ~(2 <= Len(c.queue))
        <3>1. q = <<>>
            BY <1>1, <2>2, SubSeqEmpty
        <3> QED BY <1>1, <3>1
    <2> QED BY <2>1, <2>2
<1> HIDE DEF q
<1>3. [c EXCEPT !.queue = q] \in Channel
    BY <1>2 DEF Bounded, Channel
<1>4. [c EXCEPT !.queue = q].queue = q /\ [c EXCEPT !.queue = q].closed = c.closed
    BY DEF Bounded, Channel
<1>5. Len(q) <= ChannelSize
    BY <1>1, <1>2, SizeType, LenProperties DEF Bounded
<1> QED BY <1>3, <1>4, <1>5 DEF Bounded, q

LEMMA Sent ==
    ASSUME NEW c, Bounded(c), ~Full(c), NEW e \in Events
    PROVE  LET d == [c EXCEPT !.queue = Append(@, e)]
           IN  Bounded(d) /\ d.closed = c.closed
<1> DEFINE q == Append(c.queue, e)
<1>1. c.queue \in Seq(Events) /\ Len(c.queue) \in Nat
    BY LenProperties DEF Bounded, Channel
<1>2. q \in Seq(Events) /\ Len(q) = Len(c.queue) + 1
    BY <1>1
<1>3. Len(q) <= ChannelSize
    BY <1>1, <1>2, SizeType DEF Full
<1> HIDE DEF q
<1>4. /\ [c EXCEPT !.queue = q] \in Channel
      /\ [c EXCEPT !.queue = q].queue = q /\ [c EXCEPT !.queue = q].closed = c.closed
    BY <1>2 DEF Bounded, Channel
<1> QED BY <1>3, <1>4 DEF Bounded, q

LEMMA Closed ==
    ASSUME NEW c, Bounded(c)
    PROVE  LET d == [c EXCEPT !.closed = TRUE]
           IN  Bounded(d) /\ d.closed = TRUE
BY DEF Bounded, Channel

(* The first update of a channel. *)
LEMMA HeadIsEvent ==
    ASSUME NEW q \in Seq(Events), q # <<>>
    PROVE  Head(q) \in Events /\ Tail(q) \in Seq(Events)
           /\ Len(Tail(q)) = Len(q) - 1 /\ Len(q) \in Nat
BY EmptySeq, LenProperties, HeadTailProperties

-----------------------------------------------------------------------------
(* The types, in three parts. *)
Tables == rib \subseteq Route /\ view \subseteq Route /\ left \subseteq Route

Channels ==
    /\ sock \in Seq(Events) /\ Len(sock) <= SocketSize
    /\ Bounded(liveUpdates) /\ Bounded(dumpUpdates)
    /\ held \in Events \cup {NoUpdate} /\ update \in Events \cup {NoUpdate}

Flags ==
    /\ overflowed \in BOOLEAN /\ reading \in BOOLEAN /\ injecting \in BOOLEAN
    /\ transitionTick \in BOOLEAN /\ cureTick \in BOOLEAN /\ dying \in BOOLEAN

Places ==
    /\ updates \in {"nil", "dump", "live", "new"}
    /\ state \in {"idle", "ipv4Routes", "ipv6Routes", "updateRoutes"}
    /\ subscribed \in {"open", "closed", "nil"}
    /\ pc \in {"select", "transition", "start", "list", "end", "update", "done"}
    /\ caller \in {"tick", "subscribed", "updates"}

Counts == changes \in Nat /\ overflows \in Nat /\ listErrors \in Nat /\ errors \in Nat

Machine == Flags /\ Places /\ Counts

LEMMA TypeParts == TypeOK <=> Tables /\ Channels /\ Machine
BY DEF TypeOK, Tables, Channels, Machine, Flags, Places, Counts, Bounded

LEMMA TypePartsNext == Tables' /\ Channels' /\ Machine' => TypeOK'
BY DEF TypeOK, Tables, Channels, Machine, Flags, Places, Counts, Bounded

(* Nobody but the kernel changes the tables, the callback the view and the *)
(* injection what is left of the dump.                                     *)
LEMMA NextTables ==
    ASSUME Tables, Channels, [Next]_vars
    PROVE  Tables'
<1>1. ASSUME NEW r \in External, NEW type \in {"NEWROUTE", "DELROUTE"},
             KernelChange(type, r)
      PROVE  Tables'
    BY <1>1, RibType DEF KernelChange, injectVars, Tables, addCandidateRoute,
       removeCandidateRoute
<1>2. CASE InjectorSends
    BY <1>2 DEF InjectorSends, Tables
<1>3. CASE ListIPv4
    BY <1>3 DEF ListIPv4, Tables, injectRoutes, injectVars
<1>4. CASE ListIPv6
    BY <1>4 DEF ListIPv6, Tables, injectRoutes, injectVars
<1>5. CASE Notify
    <2>1. update.type = "NEWROUTE" => update.route \in Route
        BY DEF Channels, Events, NoUpdate, Event
    <2> QED BY <1>5, <2>1 DEF Notify, Tables, injectVars, addCandidateRoute,
               removeCandidateRoute
<1>6. CASE UNCHANGED <<rib, view, left>>
    BY <1>6 DEF Tables
<1>7. CASE SocketOverflows \/ ReaderReceives \/ ReaderSends \/ ReaderEnds
           \/ InjectorEnds \/ CureTicks \/ Dies \/ SubscriberComes \/ Stop
    BY <1>6, <1>7 DEF SocketOverflows, ReaderReceives, ReaderSends, ReaderEnds,
       InjectorEnds, CureTicks, Dies, SubscriberComes, Stop, injectVars, outside
<1>8. CASE TransitionTicks \/ Subscribed \/ Updates \/ Subscribe \/ EndRIB
    BY <1>6, <1>8 DEF TransitionTicks, Subscribed, Updates, Subscribe, EndRIB,
       injectVars, outside
<1>9. CASE UNCHANGED vars
    BY <1>6, <1>9 DEF vars, outside, injectVars
<1> QED BY <1>1, <1>2, <1>3, <1>4, <1>5, <1>7, <1>8, <1>9 DEF Next, Run

(* No channel nor socket ever holds more than it can, whoever sends. *)
LEMMA NextChannels ==
    ASSUME Tables, Channels, [Next]_vars
    PROVE  Channels'
<1>1. ASSUME NEW r \in External, NEW type \in {"NEWROUTE", "DELROUTE"},
             KernelChange(type, r)
      PROVE  Channels'
    <2>1. Event(type, r) \in Events
        BY RibType DEF Event, Events
    <2>2. sock' \in Seq(Events) /\ Len(sock') <= SocketSize
        <3>1. CASE UNCHANGED sock
            BY <3>1 DEF Channels
        <3>2. CASE Len(sock) < SocketSize /\ sock' = Append(sock, Event(type, r))
            <4>1. sock \in Seq(Events) /\ Len(sock) \in Nat
                BY LenProperties DEF Channels
            <4>2. Len(sock') = Len(sock) + 1 /\ sock' \in Seq(Events)
                BY <2>1, <3>2, <4>1, AppendProperties
            <4> QED BY <3>2, <4>1, <4>2, SizeType
        <3> QED BY <1>1, <3>1, <3>2 DEF KernelChange, report
    <2>3. UNCHANGED <<liveUpdates, dumpUpdates, held, update>>
        BY <1>1 DEF KernelChange, injectVars, fsmVars
    <2> QED BY <2>2, <2>3 DEF Channels, Bounded
<1>2. CASE ReaderReceives
    <2>1. held' \in Events /\ sock' \in Seq(Events) /\ Len(sock') <= SocketSize
        <3>1. /\ Head(sock) \in Events /\ Tail(sock) \in Seq(Events)
              /\ Len(Tail(sock)) = Len(sock) - 1 /\ Len(sock) \in Nat
            BY <1>2, HeadIsEvent DEF ReaderReceives, Channels
        <3> QED BY <1>2, <3>1, SizeType DEF ReaderReceives, Channels
    <2>2. UNCHANGED <<liveUpdates, dumpUpdates, update>>
        BY <1>2 DEF ReaderReceives, injectVars, fsmVars
    <2> QED BY <2>1, <2>2 DEF Channels, Bounded
<1>3. CASE ReaderSends
    <2>1. Bounded(liveUpdates')
        BY <1>3, Sent DEF ReaderSends, Channels
    <2>2. UNCHANGED <<sock, dumpUpdates, update>> /\ held' = NoUpdate
        BY <1>3 DEF ReaderSends, injectVars, fsmVars
    <2> QED BY <2>1, <2>2 DEF Channels, Bounded
<1>4. CASE ReaderEnds
    <2>1. Bounded(liveUpdates')
        BY <1>4, Closed DEF ReaderEnds, Channels
    <2>2. UNCHANGED <<held, dumpUpdates, update>> /\ sock' = <<>>
        BY <1>4 DEF ReaderEnds, injectVars, fsmVars
    <2>3. <<>> \in Seq(Events) /\ Len(<<>>) <= SocketSize
        BY SizeType
    <2> QED BY <2>1, <2>2, <2>3 DEF Channels, Bounded
<1>5. CASE InjectorSends
    <2>1. PICK r \in left : dumpUpdates' =
                [dumpUpdates EXCEPT !.queue = Append(@, Event("NEWROUTE", r))]
        BY <1>5 DEF InjectorSends
    <2>2. Event("NEWROUTE", r) \in Events
        BY <2>1 DEF Event, Events, Tables
    <2>3. Bounded(dumpUpdates')
        BY <1>5, <2>1, <2>2, Sent DEF InjectorSends, Channels
    <2>4. UNCHANGED <<sock, held, liveUpdates, update>>
        BY <1>5 DEF InjectorSends, subscription, fsmVars
    <2> QED BY <2>3, <2>4 DEF Channels, Bounded
<1>6. CASE InjectorEnds
    <2>1. Bounded(dumpUpdates')
        BY <1>6, Closed DEF InjectorEnds, Channels
    <2>2. UNCHANGED <<sock, held, liveUpdates, update>>
        BY <1>6 DEF InjectorEnds, subscription, fsmVars
    <2> QED BY <2>1, <2>2 DEF Channels, Bounded
<1>7. CASE Updates
    <2>1. Bounded(dumpUpdates') /\ Bounded(liveUpdates')
        BY <1>7, Received DEF Updates, Channels
    <2>2. update' \in Events \cup {NoUpdate}
        BY <1>7, HeadIsEvent DEF Updates, Channels, Bounded, Channel, receive,
           receiveClosed
    <2>3. UNCHANGED <<sock, held>>
        BY <1>7 DEF Updates
    <2> QED BY <2>1, <2>2, <2>3 DEF Channels, Bounded
<1>8. CASE Subscribe \/ ListIPv4 \/ ListIPv6
    <2>1. /\ update' = update
          /\ dumpUpdates' \in {dumpUpdates, NewChannel}
          /\ \/ UNCHANGED <<sock, held, liveUpdates>>
             \/ sock' = <<>> /\ held' = NoUpdate /\ liveUpdates' = NewChannel
        BY <1>8 DEF Subscribe, ListIPv4, ListIPv6, injectRoutes, newSubscription,
           injectVars, subscription
    <2>2. <<>> \in Seq(Events) /\ Len(<<>>) <= SocketSize
        BY SizeType
    <2> QED BY <2>1, <2>2, NewIsBounded DEF Channels, Bounded
<1>9. CASE Notify
    <2>1. /\ update' \in {update, NoUpdate}
          /\ UNCHANGED <<sock, held, liveUpdates, dumpUpdates>>
        BY <1>9 DEF Notify, injectVars, subscription
    <2> QED BY <2>1 DEF Channels, Bounded
<1>10. CASE UNCHANGED <<sock, held, liveUpdates, dumpUpdates, update>>
    BY <1>10 DEF Channels, Bounded
<1>11. CASE SocketOverflows \/ TransitionTicks \/ Subscribed \/ EndRIB \/ CureTicks
            \/ Dies \/ SubscriberComes \/ Stop \/ UNCHANGED vars
    BY <1>10, <1>11 DEF SocketOverflows, TransitionTicks, Subscribed, EndRIB, CureTicks,
       Dies, SubscriberComes, Stop, vars, outside, subscription, injectVars, fsmVars
<1> QED BY <1>1, <1>2, <1>3, <1>4, <1>5, <1>6, <1>7, <1>8, <1>9, <1>11 DEF Next, Run

(* The flags are Booleans. *)
LEMMA NextFlags ==
    ASSUME Flags, [Next]_vars
    PROVE  Flags'
<1>1. CASE TransitionTicks \/ Subscribed \/ EndRIB \/ CureTicks \/ Dies
           \/ SubscriberComes
    BY <1>1 DEF TransitionTicks, Subscribed, EndRIB, CureTicks, Dies, SubscriberComes,
       goto, call, Flags, outside, retryVars, subscription, injectVars, counters
<1>2. CASE Updates
    BY <1>2 DEF Updates, receive, receiveClosed, armTransition, goto, call, Flags,
       retryVars, counters
<1>3. CASE Subscribe
    BY <1>3 DEF Subscribe, newSubscription, goto, fail, armTransition, Flags,
       retryVars, injectVars
<1>4. CASE ListIPv4
    BY <1>4 DEF ListIPv4, newSubscription, injectRoutes, goto, succeed, fail,
       armTransition, Flags, retryVars, injectVars, subscription
<1>5. CASE ListIPv6
    BY <1>5 DEF ListIPv6, injectRoutes, goto, succeed, fail, armTransition, Flags,
       retryVars, injectVars, subscription
<1>6. CASE Notify
    BY <1>6 DEF Notify, goto, succeed, Flags, retryVars, injectVars, subscription,
       counters
<1>7. CASE SocketOverflows \/ ReaderReceives \/ ReaderSends \/ ReaderEnds
    BY <1>7 DEF SocketOverflows, ReaderReceives, ReaderSends, ReaderEnds, Flags,
       fsmVars, retryVars, injectVars, counters
<1>8. CASE InjectorSends \/ InjectorEnds \/ Stop
           \/ \E r \in External, type \in {"NEWROUTE", "DELROUTE"} : KernelChange(type, r)
    BY <1>8 DEF InjectorSends, InjectorEnds, Stop, KernelChange, Flags, fsmVars,
       retryVars, injectVars, subscription, counters
<1>9. CASE UNCHANGED vars
    BY <1>9 DEF vars, outside, Flags, fsmVars, retryVars, injectVars, subscription,
       counters
<1> QED BY <1>1, <1>2, <1>3, <1>4, <1>5, <1>6, <1>7, <1>8, <1>9 DEF Next, Run

(* run(), its state and its channels are somewhere. *)
LEMMA NextPlaces ==
    ASSUME Places, [Next]_vars
    PROVE  Places'
<1>1. CASE TransitionTicks \/ Subscribed \/ EndRIB \/ CureTicks \/ Dies
           \/ SubscriberComes
    BY <1>1 DEF TransitionTicks, Subscribed, EndRIB, CureTicks, Dies, SubscriberComes,
       goto, call, Places, outside, retryVars, subscription, injectVars, counters
<1>2. CASE Updates
    BY <1>2 DEF Updates, receive, receiveClosed, armTransition, goto, call, Places,
       retryVars, counters
<1>3. CASE Subscribe
    BY <1>3 DEF Subscribe, newSubscription, goto, fail, armTransition, Places,
       retryVars, injectVars
<1>4. CASE ListIPv4
    BY <1>4 DEF ListIPv4, newSubscription, injectRoutes, goto, succeed, fail,
       armTransition, Places, retryVars, injectVars, subscription
<1>5. CASE ListIPv6
    BY <1>5 DEF ListIPv6, injectRoutes, goto, succeed, fail, armTransition, Places,
       retryVars, injectVars, subscription
<1>6. CASE Notify
    BY <1>6 DEF Notify, goto, succeed, Places, retryVars, injectVars, subscription,
       counters
<1>7. CASE SocketOverflows \/ ReaderReceives \/ ReaderSends \/ ReaderEnds
    BY <1>7 DEF SocketOverflows, ReaderReceives, ReaderSends, ReaderEnds, Places,
       fsmVars, retryVars, injectVars, counters
<1>8. CASE InjectorSends \/ InjectorEnds \/ Stop
           \/ \E r \in External, type \in {"NEWROUTE", "DELROUTE"} : KernelChange(type, r)
    BY <1>8 DEF InjectorSends, InjectorEnds, Stop, KernelChange, Places, fsmVars,
       retryVars, injectVars, subscription, counters
<1>9. CASE UNCHANGED vars
    BY <1>9 DEF vars, outside, Places, fsmVars, retryVars, injectVars, subscription,
       counters
<1> QED BY <1>1, <1>2, <1>3, <1>4, <1>5, <1>6, <1>7, <1>8, <1>9 DEF Next, Run

(* The counters count. *)
LEMMA NextCounts ==
    ASSUME Counts, [Next]_vars
    PROVE  Counts'
<1>1. CASE TransitionTicks \/ Subscribed \/ EndRIB \/ CureTicks \/ Dies
           \/ SubscriberComes
    BY <1>1 DEF TransitionTicks, Subscribed, EndRIB, CureTicks, Dies, SubscriberComes,
       goto, call, Counts, outside, retryVars, subscription, injectVars, counters
<1>2. CASE Updates
    BY <1>2 DEF Updates, receive, receiveClosed, armTransition, goto, call, Counts,
       retryVars, counters
<1>3. CASE Subscribe
    BY <1>3 DEF Subscribe, newSubscription, goto, fail, armTransition, Counts,
       retryVars, injectVars
<1>4. CASE ListIPv4
    BY <1>4 DEF ListIPv4, newSubscription, injectRoutes, goto, succeed, fail,
       armTransition, Counts, retryVars, injectVars, subscription
<1>5. CASE ListIPv6
    BY <1>5 DEF ListIPv6, injectRoutes, goto, succeed, fail, armTransition, Counts,
       retryVars, injectVars, subscription
<1>6. CASE Notify
    BY <1>6 DEF Notify, goto, succeed, Counts, retryVars, injectVars, subscription,
       counters
<1>7. CASE SocketOverflows \/ ReaderReceives \/ ReaderSends \/ ReaderEnds
    BY <1>7 DEF SocketOverflows, ReaderReceives, ReaderSends, ReaderEnds, Counts,
       fsmVars, retryVars, injectVars, counters
<1>8. CASE InjectorSends \/ InjectorEnds \/ Stop
           \/ \E r \in External, type \in {"NEWROUTE", "DELROUTE"} : KernelChange(type, r)
    BY <1>8 DEF InjectorSends, InjectorEnds, Stop, KernelChange, Counts, fsmVars,
       retryVars, injectVars, subscription, counters
<1>9. CASE UNCHANGED vars
    BY <1>9 DEF vars, outside, Counts, fsmVars, retryVars, injectVars, subscription,
       counters
<1> QED BY <1>1, <1>2, <1>3, <1>4, <1>5, <1>6, <1>7, <1>8, <1>9 DEF Next, Run

-----------------------------------------------------------------------------
(* The steps that run() does not take. *)
Control == NotYetSubscribed /\ CalledBy /\ ReadsFrom /\ Awaits

LEMMA OthersKeepControl ==
    ASSUME Inv, Next, ~Run, ~CureTicks, ~Dies, ~SubscriberComes
    PROVE  Control'
<1>1. Machine /\ Bounded(liveUpdates) /\ Bounded(dumpUpdates)
    BY TypeParts DEF Inv, Channels
<1>2. /\ UNCHANGED fsmVars
      /\ injecting' => injecting
      /\ dumpUpdates'.closed = dumpUpdates.closed \/ (dumpUpdates'.closed = TRUE /\ ~injecting')
      /\ injecting => injecting' \/ dumpUpdates'.closed \/ dying'
      /\ dying => dying'
      /\ reading \/ liveUpdates.closed => reading' \/ liveUpdates'.closed
    <2>1. CASE InjectorSends
        BY <1>1, <2>1, Sent DEF InjectorSends, subscription, Channel, Bounded
    <2>2. CASE InjectorEnds
        BY <1>1, <2>2, Closed DEF InjectorEnds, subscription, Bounded
    <2>3. CASE ReaderEnds
        BY <1>1, <2>3, Closed DEF ReaderEnds, injectVars
    <2>4. CASE ReaderSends
        BY <1>1, <2>4 DEF ReaderSends, injectVars, Bounded, Channel
    <2>5. CASE SocketOverflows \/ ReaderReceives \/ Stop
               \/ \E r \in External, type \in {"NEWROUTE", "DELROUTE"} : KernelChange(type, r)
        BY <2>5 DEF SocketOverflows, ReaderReceives, Stop, KernelChange, injectVars,
           subscription
    <2> QED BY <2>1, <2>2, <2>3, <2>4, <2>5 DEF Next
<1>3. /\ UNCHANGED <<updates, state, subscribed, pc, caller, transitionTick>>
      /\ Syncing' = Syncing /\ InTransition' = InTransition
    BY <1>2 DEF fsmVars, retryVars, Syncing, InTransition
<1>4. NotYetSubscribed' /\ CalledBy'
    BY <1>3 DEF Inv, NotYetSubscribed, CalledBy
<1>5. ReadsFrom'
    BY <1>2, <1>3 DEF Inv, ReadsFrom
<1>6. Awaits'
    BY <1>2, <1>3 DEF Inv, Awaits
<1> QED BY <1>4, <1>5, <1>6 DEF Control

(* The select of run(). *)
LEMMA SelectKeepsControl ==
    ASSUME Inv, TransitionTicks \/ Subscribed \/ CureTicks \/ Dies \/ SubscriberComes
    PROVE  Control'
<1>1. /\ UNCHANGED <<injecting, dumpUpdates, liveUpdates, reading, dying, updates, state,
                     transitionTick>>
      /\ Syncing' = Syncing
    BY DEF TransitionTicks, Subscribed, CureTicks, Dies, SubscriberComes, outside,
       retryVars, injectVars, subscription, Syncing
<1>2. Machine
    BY TypeParts DEF Inv
<1>3. CASE TransitionTicks
    BY <1>1, <1>2, <1>3 DEF TransitionTicks, call, Inv, Control, NotYetSubscribed,
       CalledBy, ReadsFrom, Awaits, InTransition, Machine, Places
<1>4. CASE Subscribed
    BY <1>1, <1>2, <1>4 DEF Subscribed, call, Inv, Control, NotYetSubscribed,
       CalledBy, ReadsFrom, Awaits, InTransition, Machine, Places
<1>5. CASE CureTicks
    BY <1>1, <1>5 DEF CureTicks, Inv, Control, NotYetSubscribed,
       CalledBy, ReadsFrom, Awaits, InTransition
<1>6. CASE Dies
    BY <1>1, <1>6 DEF Dies, goto, Inv, Control, NotYetSubscribed,
       CalledBy, ReadsFrom, Awaits, InTransition
<1>7. CASE SubscriberComes
    BY <1>1, <1>7 DEF SubscriberComes, Inv, Control, NotYetSubscribed,
       CalledBy, ReadsFrom, Awaits, InTransition
<1> QED BY <1>3, <1>4, <1>5, <1>6, <1>7

LEMMA UpdatesKeepsControl ==
    ASSUME Inv, Updates
    PROVE  Control'
<1>1. Machine /\ Bounded(liveUpdates) /\ Bounded(dumpUpdates)
    BY TypeParts DEF Inv, Channels
<1>2. /\ liveUpdates'.closed = liveUpdates.closed
      /\ dumpUpdates'.closed = dumpUpdates.closed
      /\ UNCHANGED <<injecting, reading, dying, state, subscribed>>
      /\ Syncing' = Syncing
    BY <1>1, Received DEF Updates, Syncing
<1>3. \/ /\ pc' = "update" /\ updates \in {"dump", "live"}
         /\ UNCHANGED <<caller, updates, transitionTick>>
      \/ /\ updates' = "nil" /\ state = "updateRoutes" /\ transitionTick' = TRUE
         /\ UNCHANGED <<pc, caller>>
         /\ updates = "dump" => dumpUpdates.closed
      \/ /\ updates' = "nil" /\ state # "updateRoutes" /\ UNCHANGED transitionTick
         /\ pc' = "transition" /\ caller' = "updates"
         /\ updates = "dump" => dumpUpdates.closed
    BY DEF Updates, receive, receiveClosed, goto, call, armTransition, retryVars
<1>4. pc = "select" /\ updates \in {"dump", "live"}
    BY DEF Updates
<1> QED BY <1>1, <1>2, <1>3, <1>4 DEF Inv, Control, NotYetSubscribed, CalledBy,
           ReadsFrom, Awaits, InTransition, Syncing, Machine, Places

(* transition() and the callback. *)
LEMMA SubscribeKeepsControl ==
    ASSUME Inv, Subscribe
    PROVE  Control'
<1>1. Machine
    BY TypeParts DEF Inv
<1>2. /\ UNCHANGED <<injecting, dumpUpdates, dying, state, subscribed, transitionTick>>
      /\ Syncing' = Syncing /\ UNCHANGED caller
      /\ pc = "transition" /\ ~Syncing
      /\ \/ reading' = TRUE /\ updates' = "new" /\ pc' = "start"
         \/ pc' = "select" /\ updates' = updates
    BY DEF Inv, CalledBy, InTransition, Syncing, Subscribe, newSubscription, goto,
       fail, armTransition, retryVars, injectVars
<1> QED BY <1>1, <1>2 DEF Inv, Control, NotYetSubscribed, CalledBy, ReadsFrom, Awaits,
           InTransition, Machine, Places

LEMMA ListIPv4KeepsControl ==
    ASSUME Inv, ListIPv4
    PROVE  Control'
<1>1. Machine
    BY TypeParts DEF Inv
<1>2. pc = "list" /\ ~Syncing /\ caller # "updates" /\ UNCHANGED <<dying, caller>>
      /\ pc' = "select"
    BY DEF Inv, CalledBy, InTransition, ReadsFrom, ListIPv4, goto, succeed, fail
<1>3. CASE /\ injectRoutes({r \in rib : r.dst \notin Prefix6}) /\ state' = "ipv4Routes"
           /\ succeed /\ UNCHANGED subscription
    <2>1. /\ subscribed' = "nil" /\ ~transitionTick' /\ updates' = "dump"
          /\ injecting' = TRUE /\ dumpUpdates'.closed = FALSE
          /\ UNCHANGED <<reading, liveUpdates>> /\ Syncing'
        BY <1>1, <1>2, <1>3, NewIsBounded DEF Inv, CalledBy, NotYetSubscribed,
           InTransition, injectRoutes, succeed, subscription, Syncing, Machine, Places
    <2> QED BY <1>2, <1>3, <2>1 DEF Inv, Control, NotYetSubscribed, CalledBy,
               ReadsFrom, Awaits, InTransition
<1>4. CASE fail /\ UNCHANGED <<injectVars, updates, state>>
    <2>1. /\ UNCHANGED <<subscribed, transitionTick, injecting, dumpUpdates>>
          /\ Syncing' = Syncing
        BY <1>2, <1>4 DEF fail, retryVars, injectVars, Syncing
    <2>2. updates \in {"nil", "new"}
        BY <1>2 DEF Inv, CalledBy, NotYetSubscribed, InTransition
    <2>3. subscribed = "nil" => transitionTick
        BY <1>2 DEF Inv, CalledBy, InTransition
    <2> QED BY <1>1, <1>2, <1>4, <2>1, <2>2, <2>3 DEF Inv, Control, NotYetSubscribed,
               CalledBy, ReadsFrom, Awaits, InTransition, Machine, Places
<1> QED BY <1>3, <1>4 DEF ListIPv4

LEMMA ListIPv6KeepsControl ==
    ASSUME Inv, ListIPv6
    PROVE  Control'
<1>1. Machine
    BY TypeParts DEF Inv
<1>2. /\ pc = "transition" /\ state = "ipv4Routes" /\ Syncing
      /\ subscribed = "nil" /\ updates \in {"nil", "new"}
      /\ UNCHANGED <<dying, caller, reading, liveUpdates>> /\ pc' = "select"
      /\ caller = "tick" => transitionTick
      /\ caller = "updates" => ~transitionTick
      /\ caller \in {"tick", "updates"}
    <2>1. pc = "transition" /\ state = "ipv4Routes" /\ Syncing
        BY DEF ListIPv6, Syncing
    <2>2. UNCHANGED <<dying, reading, liveUpdates>>
        BY DEF ListIPv6, subscription
    <2>3. pc' = "select" /\ caller' = caller
        BY DEF ListIPv6, goto, succeed, fail
    <2>4. subscribed = "nil"
        BY <2>1 DEF Inv, NotYetSubscribed
    <2>5. /\ updates \in {"nil", "new"}
          /\ caller = "tick" => transitionTick
          /\ caller = "updates" => ~transitionTick
          /\ caller \in {"tick", "updates"}
        BY <2>1, <2>4 DEF Inv, CalledBy, InTransition
    <2> QED BY <2>1, <2>2, <2>3, <2>4, <2>5
<1>3. CASE injectRoutes({r \in rib : r.dst \in Prefix6}) /\ state' = "ipv6Routes" /\ succeed
    <2>1. /\ subscribed' = "nil" /\ ~transitionTick' /\ updates' = "dump"
          /\ injecting' = TRUE /\ dumpUpdates'.closed = FALSE /\ Syncing'
        BY <1>2, <1>3, NewIsBounded DEF injectRoutes, succeed, Syncing
    <2> QED BY <1>2, <1>3, <2>1 DEF Inv, Control, NotYetSubscribed, CalledBy,
               ReadsFrom, Awaits, InTransition
<1>4. CASE updates' = "new" /\ fail /\ UNCHANGED <<injectVars, state>>
    <2>1. /\ UNCHANGED <<subscribed, injecting, dumpUpdates>> /\ transitionTick'
          /\ Syncing' = Syncing
        BY <1>2, <1>4 DEF fail, armTransition, retryVars, injectVars, Syncing
    <2> QED BY <1>2, <1>4, <2>1 DEF Inv, Control, NotYetSubscribed, CalledBy,
               ReadsFrom, Awaits, InTransition
<1> QED BY <1>3, <1>4 DEF ListIPv6

LEMMA EndKeepsControl ==
    ASSUME Inv, EndRIB \/ Notify
    PROVE  Control'
<1>1. Machine
    BY TypeParts DEF Inv
<1>2. CASE EndRIB
    <2>1. /\ UNCHANGED <<injecting, dumpUpdates, liveUpdates, reading, dying, updates,
                         state, subscribed, transitionTick, caller>>
          /\ Syncing' = Syncing /\ pc = "transition" /\ pc' = "end"
          /\ state = "ipv6Routes" /\ subscribed = "nil"
        BY <1>1, <1>2 DEF EndRIB, goto, outside, retryVars, injectVars, subscription, Syncing,
           Inv, NotYetSubscribed, Machine, Places
    <2> QED BY <1>1, <2>1 DEF Inv, Control, NotYetSubscribed, CalledBy, ReadsFrom,
               Awaits, InTransition, Machine, Places, Syncing
<1>3. CASE Notify /\ pc = "start"
    <2>1. /\ UNCHANGED <<injecting, dumpUpdates, liveUpdates, reading, dying, updates,
                         state, subscribed, transitionTick, caller>>
          /\ Syncing' = Syncing /\ pc' = "list"
        BY <1>3 DEF Notify, goto, retryVars, injectVars, subscription, Syncing
    <2> QED BY <1>1, <1>3, <2>1 DEF Inv, Control, NotYetSubscribed, CalledBy, ReadsFrom,
               Awaits, InTransition, Machine, Places
<1>4. CASE Notify /\ pc = "end"
    <2>1. subscribed = "nil" /\ Syncing /\ updates \in {"nil", "new"}
          /\ (caller = "tick" \/ ~transitionTick)
        BY <1>4 DEF Inv, CalledBy, NotYetSubscribed, InTransition, ReadsFrom, Syncing
    <2>2. /\ UNCHANGED <<injecting, dumpUpdates, liveUpdates, reading, dying, caller>>
          /\ updates' = "live" /\ state' = "updateRoutes" /\ pc' = "select"
          /\ subscribed' = "nil" /\ ~transitionTick' /\ ~Syncing'
        BY <1>4, <2>1 DEF Notify, succeed, goto, injectVars, subscription, Syncing
    <2> QED BY <2>1, <2>2 DEF Inv, Control, NotYetSubscribed, CalledBy, ReadsFrom,
               Awaits, InTransition
<1>5. CASE Notify /\ pc = "update"
    <2>1. /\ UNCHANGED <<injecting, dumpUpdates, liveUpdates, reading, dying, updates,
                         state, subscribed, transitionTick, caller>>
          /\ Syncing' = Syncing /\ pc' = "select"
        BY <1>5 DEF Notify, goto, retryVars, injectVars, subscription, Syncing
    <2> QED BY <1>1, <1>5, <2>1 DEF Inv, Control, NotYetSubscribed, CalledBy, ReadsFrom,
               Awaits, InTransition, Machine, Places
<1> QED BY <1>2, <1>3, <1>4, <1>5 DEF Notify

LEMMA NextInv == Inv /\ [Next]_vars => Inv'
<1> SUFFICES ASSUME Inv, [Next]_vars PROVE Inv'
    OBVIOUS
<1>1. TypeOK'
    BY TypeParts, TypePartsNext, NextTables, NextChannels, NextFlags,
       NextPlaces, NextCounts DEF Inv, Machine
<1>2. Control'
    <2>1. CASE Run
        BY <2>1, SelectKeepsControl, UpdatesKeepsControl, SubscribeKeepsControl,
           ListIPv4KeepsControl, ListIPv6KeepsControl, EndKeepsControl DEF Run
    <2>2. CASE CureTicks \/ Dies \/ SubscriberComes
        BY <2>2, SelectKeepsControl
    <2>3. CASE Next /\ ~Run /\ ~CureTicks /\ ~Dies /\ ~SubscriberComes
        BY <2>3, OthersKeepControl
    <2>4. CASE UNCHANGED vars
        BY <2>4 DEF vars, outside, fsmVars, retryVars, injectVars, subscription, Inv,
           Control, NotYetSubscribed, CalledBy, ReadsFrom, Awaits, InTransition, Syncing
    <2> QED BY <2>1, <2>2, <2>3, <2>4
<1> QED BY <1>1, <1>2 DEF Inv, Control

LEMMA InitInv == Init => Inv
<1> SUFFICES ASSUME Init PROVE Inv
    OBVIOUS
<1>1. Tables /\ Machine
    BY RibType DEF Init, Tables, Machine, Flags, Places, Counts
<1>2. Channels
    <2>1. <<>> \in Seq(Events) /\ Len(<<>>) <= SocketSize
        BY SizeType
    <2> QED BY <2>1, NewIsBounded DEF Init, Channels
<1>3. Control
    BY NewIsBounded DEF Init, Control, NotYetSubscribed, CalledBy, ReadsFrom, Awaits,
       InTransition, Syncing
<1> QED BY <1>1, <1>2, <1>3, TypeParts DEF Inv, Control

-----------------------------------------------------------------------------
(* The invariant of the machine, of which the theorems below are parts. *)
THEOREM InvariantHolds == Spec => []Inv
BY InitInv, NextInv, PTL DEF Spec

(* The socket and both channels stay within their capacity, whoever sends, *)
(* and everything keeps its type.                                          *)
THEOREM TypeCorrect == Spec => []TypeOK
<1>1. Inv => TypeOK
    BY DEF Inv
<1> QED BY <1>1, InvariantHolds, PTL

(* c.updates, which run() and the goroutine of injectRoutes share without  *)
(* a lock, is not replaced as long as that goroutine is there, and no      *)
(* retry is due meanwhile (netlink/root.go, netlink/observer.go).          *)
THEOREM InjectorIsAlone == Spec => []InjectorOwnsUpdates
<1>1. Inv => InjectorOwnsUpdates
    <2> SUFFICES ASSUME Inv, injecting PROVE InjectorOwnsUpdates
        BY DEF InjectorOwnsUpdates
    <2>1. updates = "dump" /\ Syncing /\ ~transitionTick
        BY DEF Inv, ReadsFrom
    <2>2. subscribed = "nil"
        BY <2>1 DEF Inv, NotYetSubscribed
    <2>3. ~InTransition
        BY <2>1, <2>2 DEF Inv, CalledBy
    <2> QED BY <2>1, <2>3 DEF InjectorOwnsUpdates, InTransition, Inv, TypeOK
<1> QED BY <1>1, InvariantHolds, PTL

(* Whatever fails and whenever, the machine never waits for nothing: the   *)
(* subscriber, a ticker, or a goroutine that ends in closing the channel   *)
(* run() reads will call transition() again (netlink/root.go, run).        *)
THEOREM NeverStuck == Spec => []SomethingWillComeNext
<1>1. Inv => SomethingWillComeNext
    <2> SUFFICES ASSUME Inv, pc = "select", subscribed = "nil" PROVE SomethingWillComeNext
        BY DEF SomethingWillComeNext
    <2>1. updates \in {"nil", "dump", "live", "new"}
        BY DEF Inv, TypeOK
    <2> QED BY <2>1 DEF Inv, ReadsFrom, Awaits, SomethingWillComeNext
<1> QED BY <1>1, InvariantHolds, PTL
=============================================================================
