-------------------------- MODULE NetlinkRefinement --------------------------
(***************************************************************************)
(* The netlink component keeps the promise of RibStream, for any tables,   *)
(* any size of its channels and of the socket, and any number of changes   *)
(* and of failures.  What RibStreamProofs says of the stream of            *)
(* notifications is thereby said of the component.                         *)
(***************************************************************************)
EXTENDS NetlinkProofs

Promise == INSTANCE RibStreamProofs WITH
    MaxListErrors <- MaxErrors,
    listening <- Listening,
    live <- toNotify,
    dump <- toDump

(* The library's goroutine leaves nothing behind when it ends. *)
ReaderCleans ==
    /\ liveUpdates.closed => ~reading
    /\ ~reading => sock = <<>> /\ held = NoUpdate

(* Nobody sends to an idle component. *)
Idle == ~Syncing /\ pc \notin {"start", "list"} /\ updates # "live"
IdleIsEmpty == Idle => ~reading /\ liveUpdates.queue = <<>>

(* A route of a listing is in one place: with the goroutine of             *)
(* injectRoutes, in its channel, or in the hand of run().                  *)
queued == dumpUpdates.queue
DumpOnce ==
    /\ \A i, j \in 1..Len(queued) : queued[i].route = queued[j].route => i = j
    /\ Syncing => \A i \in 1..Len(queued) :
          queued[i].type = "NEWROUTE" /\ queued[i].route \notin left
    /\ pc = "update" => update \in Events
    /\ Syncing /\ pc = "update" =>
          /\ update.type = "NEWROUTE"
          /\ update.route \notin left
          /\ \A i \in 1..Len(queued) : queued[i].route # update.route
    /\ updates # "dump" \/ dumpUpdates.closed => left = {}
    /\ updates # "dump" => queued = <<>>

Link == Inv /\ ReaderCleans /\ IdleIsEmpty /\ DumpOnce

-----------------------------------------------------------------------------
(* Channels and sequences. *)
LEMMA ChannelFields ==
    ASSUME NEW c \in Channel, NEW q
    PROVE  /\ [c EXCEPT !.queue = q].queue = q
           /\ [c EXCEPT !.queue = q].closed = c.closed
           /\ [c EXCEPT !.closed = TRUE].queue = c.queue
           /\ [c EXCEPT !.closed = TRUE].closed = TRUE
           /\ c.queue \in Seq(Events) /\ c.closed \in BOOLEAN
BY DEF Channel

LEMMA PopFields ==
    ASSUME NEW c \in Channel, NEW d, d = [c EXCEPT !.queue = SubSeq(@, 2, Len(@))]
    PROVE  d.queue = SubSeq(c.queue, 2, Len(c.queue)) /\ d.closed = c.closed
BY DEF Channel

LEMMA EventTypes == NoUpdate \notin Events /\ \A r \in Route : Event("NEWROUTE", r) \in Events
                    /\ Event("DELROUTE", r) \in Events
BY DEF NoUpdate, Event, Events

(* SubSeq, as run() takes the first update of a channel. *)
LEMMA Popped ==
    ASSUME NEW q \in Seq(Events)
    PROVE  LET t == SubSeq(q, 2, Len(q))
           IN  /\ q = <<>> => t = <<>>
               /\ q # <<>> => /\ t = Tail(q) /\ Head(q) \in Events /\ t \in Seq(Events)
                              /\ Len(t) = Len(q) - 1 /\ Len(q) \in Nat
                              /\ Head(q) = q[1]
                              /\ \A i \in 1..Len(t) : t[i] = q[i + 1]
<1>1. CASE q = <<>>
    <2>1. Len(q) = 0
        BY <1>1
    <2>2. SubSeq(q, 2, Len(q)) = <<>>
        BY <2>1, SubSeqEmpty
    <2> QED BY <1>1, <2>2
<1>2. CASE q # <<>>
    <2>1. SubSeq(q, 2, Len(q)) = Tail(q)
        BY <1>2, TailIsSubSeq
    <2>2. Head(q) = q[1] /\ Len(q) \in Nat
        BY <1>2, LenProperties
    <2>3. /\ Head(q) \in Events /\ Tail(q) \in Seq(Events) /\ Len(Tail(q)) = Len(q) - 1
          /\ \A i \in 1..Len(Tail(q)) : Tail(q)[i] = q[i + 1]
        BY <1>2, HeadTailProperties
    <2> QED BY <1>2, <2>1, <2>2, <2>3
<1> QED BY <1>1, <1>2

LEMMA ConcatAppend ==
    ASSUME NEW E, NEW a \in Seq(E), NEW s \in Seq(E), NEW e \in E
    PROVE  a \o Append(s, e) = Append(a \o s, e)
<1>1. <<e>> \in Seq(E) /\ Append(s, e) = s \o <<e>>
    BY AppendIsConcat
<1>2. a \o s \in Seq(E)
    BY ConcatProperties
<1>3. Append(a \o s, e) = (a \o s) \o <<e>>
    BY <1>2, AppendIsConcat
<1> QED BY <1>1, <1>3, ConcatAssociative

LEMMA MovesLeft ==
    ASSUME NEW E, NEW a \in Seq(E), NEW s \in Seq(E), s # <<>>
    PROVE  /\ (a \o <<>>) \o s = (a \o <<Head(s)>>) \o Tail(s)
           /\ Tail(s) \in Seq(E) /\ Head(s) \in E
<1>1. Head(s) \in E /\ Tail(s) \in Seq(E) /\ <<Head(s)>> \in Seq(E)
    BY HeadTailProperties
<1>2. s = <<Head(s)>> \o Tail(s)
    <2>1. <<Head(s)>> \o Tail(s) \in Seq(E) /\ Len(<<Head(s)>>) = 1
          /\ Len(<<Head(s)>> \o Tail(s)) = 1 + Len(Tail(s))
        BY <1>1, ConcatProperties
    <2>2. Len(Tail(s)) = Len(s) - 1 /\ Len(s) \in Nat /\ Len(s) # 0
        BY HeadTailProperties, LenProperties, EmptySeq
    <2>3. ASSUME NEW i \in 1..Len(s) PROVE s[i] = (<<Head(s)>> \o Tail(s))[i]
        <3>1. i \in 1..(1 + Len(Tail(s)))
            BY <2>2
        <3>2. (<<Head(s)>> \o Tail(s))[i] = IF i <= 1 THEN <<Head(s)>>[i] ELSE Tail(s)[i - 1]
            BY <1>1, <2>1, <3>1, ConcatProperties
        <3>3. CASE i = 1
            BY <3>2, <3>3
        <3>4. CASE i # 1
            <4>1. i - 1 \in 1..Len(Tail(s)) /\ (i - 1) + 1 = i /\ ~(i <= 1)
                BY <2>2, <3>4
            <4>2. Tail(s)[i - 1] = s[(i - 1) + 1]
                BY <4>1, HeadTailProperties
            <4> QED BY <3>2, <4>1, <4>2
        <3> QED BY <3>3, <3>4
    <2>4. Len(s) = Len(<<Head(s)>> \o Tail(s))
        BY <2>1, <2>2
    <2> QED BY <2>1, <2>3, <2>4, SeqEqual
<1>3. a \o <<>> = a
    BY ConcatEmptySeq
<1>4. (a \o <<Head(s)>>) \o Tail(s) = a \o (<<Head(s)>> \o Tail(s))
    BY <1>1, ConcatAssociative
<1> QED BY <1>1, <1>2, <1>3, <1>4

LEMMA MovesOn ==
    ASSUME NEW E, NEW a \in Seq(E), NEW l \in Seq(E), NEW e \in E
    PROVE  (a \o l) \o <<e>> = (a \o Append(l, e)) \o <<>>
<1>1. <<e>> \in Seq(E) /\ Append(l, e) = l \o <<e>> /\ Append(l, e) \in Seq(E)
    BY AppendIsConcat, AppendProperties
<1>2. a \o Append(l, e) \in Seq(E)
    BY <1>1, ConcatProperties
<1>3. (a \o l) \o <<e>> = a \o (l \o <<e>>)
    BY <1>1, ConcatAssociative
<1> QED BY <1>1, <1>2, <1>3, ConcatEmptySeq

LEMMA FirstLeaves ==
    ASSUME NEW E, NEW e \in E, NEW l \in Seq(E), NEW r \in Seq(E), NEW k \in Seq(E),
           NEW s, s = ((<<e>> \o l) \o r) \o k,
           NEW u, u = ((<<>> \o l) \o r) \o k
    PROVE  s # <<>> /\ Head(s) = e /\ Tail(s) = u
<1> DEFINE t == (l \o r) \o k
<1>1. <<e>> \in Seq(E) /\ Len(<<e>>) = 1 /\ <<e>>[1] = e
    OBVIOUS
<1>2. l \o r \in Seq(E) /\ t \in Seq(E)
    BY ConcatProperties
<1>3. (<<e>> \o l) \o r = <<e>> \o (l \o r)
    BY <1>1, ConcatAssociative
<1>4. (<<e>> \o (l \o r)) \o k = <<e>> \o t
    BY <1>1, <1>2, ConcatAssociative
<1>5. s = <<e>> \o t
    BY <1>3, <1>4
<1>6. <<>> \o l = l
    BY ConcatEmptySeq
<1> HIDE DEF t
<1>7. s \in Seq(E) /\ Len(s) = 1 + Len(t) /\ Len(t) \in Nat
    BY <1>1, <1>2, <1>5, ConcatProperties, LenProperties
<1>8. ASSUME NEW i \in 1..(1 + Len(t))
      PROVE  s[i] = IF i <= 1 THEN <<e>>[i] ELSE t[i - 1]
    BY <1>1, <1>2, <1>5, ConcatProperties
<1>9. s # <<>>
    BY <1>7, EmptySeq
<1>10. Head(s) = e
    <2>1. 1 \in 1..(1 + Len(t)) /\ 1 <= 1
        BY <1>7
    <2>2. s[1] = e
        BY <1>1, <1>8, <2>1
    <2> QED BY <1>7, <1>9, <2>2, HeadTailProperties
<1>11. Tail(s) \in Seq(E) /\ Len(Tail(s)) = Len(t)
    BY <1>7, <1>9, HeadTailProperties
<1>12. ASSUME NEW i \in 1..Len(Tail(s)) PROVE Tail(s)[i] = t[i]
    <2>1. i + 1 \in 1..(1 + Len(t)) /\ ~(i + 1 <= 1) /\ (i + 1) - 1 = i
        BY <1>7, <1>11
    <2>2. Tail(s)[i] = s[i + 1]
        BY <1>7, <1>9, HeadTailProperties
    <2> QED BY <1>8, <2>1, <2>2
<1>13. Tail(s) = t
    BY <1>2, <1>11, <1>12, SeqEqual
<1>14. u = t
    BY <1>6 DEF t
<1> QED BY <1>9, <1>10, <1>13, <1>14

LEMMA PrefixRemains ==
    ASSUME NEW E, NEW a \in Seq(E), NEW s \in Seq(E)
    PROVE  \E n \in 0..Len(a \o s) : a \o <<>> = SubSeq(a \o s, 1, n)
<1>1. Len(a) \in Nat /\ Len(s) \in Nat /\ Len(a \o s) = Len(a) + Len(s)
    BY LenProperties, ConcatProperties
<1>2. a \o <<>> = a
    BY ConcatEmptySeq
<1>3. Len(a) \in 0..Len(a \o s)
    BY <1>1
<1>4. a = SubSeq(a \o s, 1, Len(a))
    <2>1. CASE a = <<>>
        BY <1>1, <2>1, SubSeqEmpty, EmptySeq
    <2>2. CASE a # <<>>
        <3>1. Len(a) # 0
            BY <2>2, EmptySeq
        <3>2. 1 \in 1..Len(a) /\ Len(a) \in 1..Len(a)
            BY <1>1, <3>1
        <3> QED BY <3>2, SubSeqOfConcat1, SubSeqFull
    <2> QED BY <2>1, <2>2
<1> QED BY <1>2, <1>3, <1>4

-----------------------------------------------------------------------------
(* The invariants.  First the library's goroutine and the subscription. *)
LEMMA ChannelTypes ==
    ASSUME Link
    PROVE  /\ liveUpdates \in Channel /\ dumpUpdates \in Channel
           /\ sock \in Seq(Events) /\ held \in Events \cup {NoUpdate}
           /\ rib \subseteq Route /\ view \subseteq Route /\ left \subseteq Route
           /\ overflowed \in BOOLEAN /\ reading \in BOOLEAN
BY TypeParts DEF Link, Inv, Tables, Channels, Bounded, Machine, Flags

LEMMA NextReader == Link /\ [Next]_vars => ReaderCleans'
<1> SUFFICES ASSUME Link, [Next]_vars PROVE ReaderCleans'
    OBVIOUS
<1> USE DEF Link
<1>0. /\ ReaderCleans /\ liveUpdates \in Channel
      /\ reading \in BOOLEAN /\ overflowed \in BOOLEAN
    BY ChannelTypes
<1>1. ASSUME NEW type, NEW r, KernelChange(type, r) PROVE ReaderCleans'
    BY <1>0, <1>1 DEF KernelChange, report, Listening, ReaderCleans
<1>2. CASE ReaderReceives
    BY <1>0, <1>2 DEF ReaderReceives, Listening, ReaderCleans
<1>3. CASE ReaderSends
    <2>1. liveUpdates'.closed = liveUpdates.closed
        BY <1>0, <1>3, ChannelFields DEF ReaderSends
    <2> QED BY <1>0, <1>3, <2>1 DEF ReaderSends, ReaderCleans
<1>4. CASE ReaderEnds
    BY <1>0, <1>4 DEF ReaderEnds, ReaderCleans
<1>5. CASE Updates
    <2>1. /\ \/ liveUpdates' = [liveUpdates EXCEPT !.queue = SubSeq(@, 2, Len(@))]
             \/ UNCHANGED liveUpdates
          /\ UNCHANGED <<reading, sock, held>>
        BY <1>5 DEF Updates
    <2>2. liveUpdates'.closed = liveUpdates.closed
        BY <1>0, <2>1, PopFields
    <2> QED BY <1>0, <2>1, <2>2 DEF ReaderCleans
<1>6. CASE Subscribe
    BY <1>6 DEF Subscribe, newSubscription, NewChannel, ReaderCleans
<1>7. CASE ListIPv4
    BY <1>0, <1>7 DEF ListIPv4, subscription, newSubscription, NewChannel, ReaderCleans
<1>8. CASE \/ SocketOverflows \/ InjectorSends \/ InjectorEnds \/ TransitionTicks
           \/ Subscribed \/ ListIPv6 \/ EndRIB \/ Notify \/ CureTicks \/ Dies
           \/ SubscriberComes \/ Stop \/ UNCHANGED vars
    <2>1. UNCHANGED <<liveUpdates, reading, sock, held>>
        BY <1>8 DEF SocketOverflows, InjectorSends, InjectorEnds, TransitionTicks, Subscribed,
           ListIPv6, EndRIB, Notify, CureTicks, Dies, SubscriberComes, Stop, vars, outside,
           subscription
    <2> QED BY <1>0, <2>1 DEF ReaderCleans
<1> QED BY <1>1, <1>2, <1>3, <1>4, <1>5, <1>6, <1>7, <1>8 DEF Next, Run

LEMMA NextIdle == Link /\ [Next]_vars => IdleIsEmpty'
<1> SUFFICES ASSUME Link, [Next]_vars, Idle' PROVE ~reading' /\ liveUpdates'.queue = <<>>
    BY DEF IdleIsEmpty
<1>0. /\ ReaderCleans /\ IdleIsEmpty /\ liveUpdates \in Channel
      /\ reading \in BOOLEAN
    BY ChannelTypes DEF Link
<1>1. CASE ReaderSends
    <2>1. reading /\ Idle
        BY <1>0, <1>1 DEF ReaderSends, ReaderCleans, fsmVars, Idle, Syncing
    <2> QED BY <1>0, <2>1 DEF IdleIsEmpty
<1>2. CASE ReaderEnds
    <2>1. reading /\ Idle
        BY <1>0, <1>2 DEF ReaderEnds, fsmVars, Idle, Syncing
    <2> QED BY <1>0, <2>1 DEF IdleIsEmpty
<1>3. CASE Updates
    <2>1. CASE updates = "dump"
        <3>1. Syncing /\ UNCHANGED <<state>>
            BY <1>3, <2>1 DEF Updates, Link, Inv, ReadsFrom
        <3> QED BY <3>1 DEF Idle, Syncing
    <2>2. CASE updates = "live" /\ receive(liveUpdates)
        BY <1>3, <2>2 DEF receive, Idle
    <2>3. CASE updates = "live" /\ receiveClosed(liveUpdates)
        <3>1. liveUpdates'.queue = SubSeq(liveUpdates.queue, 2, Len(liveUpdates.queue))
            <4>1. liveUpdates' = [liveUpdates EXCEPT !.queue = SubSeq(@, 2, Len(@))]
                BY <1>3, <2>3 DEF Updates
            <4> QED BY <1>0, <4>1, PopFields
        <3>2. liveUpdates'.queue = <<>>
            BY <1>0, <2>3, <3>1, Popped, ChannelFields DEF receiveClosed
        <3>3. ~reading'
            BY <1>0, <1>3, <2>3 DEF Updates, receiveClosed, ReaderCleans
        <3> QED BY <3>2, <3>3
    <2> QED BY <1>3, <2>1, <2>2, <2>3 DEF Updates
<1>4. CASE Subscribe
    BY <1>4 DEF Subscribe, newSubscription, NewChannel, goto, Idle
<1>5. CASE ListIPv4
    <2>1. CASE injectRoutes({r \in rib : r.dst \notin Prefix6}) /\ state' = "ipv4Routes"
        BY <2>1 DEF Idle, Syncing
    <2>2. CASE newSubscription(FALSE)
        BY <2>2 DEF newSubscription, NewChannel
    <2> QED BY <1>5, <2>1, <2>2 DEF ListIPv4
<1>6. CASE Notify
    <2>1. CASE pc = "start"
        BY <1>6, <2>1 DEF Notify, goto, Idle
    <2>2. CASE pc = "end"
        BY <1>6, <2>2 DEF Notify, goto, Idle
    <2>3. CASE pc = "update"
        <3>1. Idle /\ UNCHANGED <<liveUpdates, reading>>
            BY <1>6, <2>3 DEF Notify, Idle, Syncing, subscription
        <3> QED BY <1>0, <3>1 DEF IdleIsEmpty
    <2> QED BY <1>6, <2>1, <2>2, <2>3 DEF Notify
<1>7. CASE ListIPv6
    <2>1. Syncing'
        BY <1>7 DEF ListIPv6, Syncing
    <2> QED BY <2>1 DEF Idle
<1>8. CASE Dies
    <2>1. Idle /\ UNCHANGED <<liveUpdates, reading>>
        BY <1>8 DEF Dies, goto, Idle, Syncing, outside, subscription
    <2> QED BY <1>0, <2>1 DEF IdleIsEmpty
<1>9. CASE TransitionTicks \/ Subscribed \/ EndRIB
    <2>1. Idle /\ UNCHANGED <<liveUpdates, reading>>
        BY <1>9 DEF TransitionTicks, Subscribed, EndRIB, call, goto, Idle, Syncing, outside,
           subscription
    <2> QED BY <1>0, <2>1 DEF IdleIsEmpty
<1>10. CASE \/ \E r \in External, type \in {"NEWROUTE", "DELROUTE"} : KernelChange(type, r)
            \/ SocketOverflows \/ ReaderReceives \/ InjectorSends \/ InjectorEnds
            \/ CureTicks \/ SubscriberComes \/ Stop \/ UNCHANGED vars
    <2>1. Idle /\ UNCHANGED <<liveUpdates, reading>>
        BY <1>10 DEF KernelChange, SocketOverflows, ReaderReceives, InjectorSends, InjectorEnds,
           CureTicks, SubscriberComes, Stop, vars, outside, fsmVars, subscription, Idle, Syncing
    <2> QED BY <1>0, <2>1 DEF IdleIsEmpty
<1> QED BY <1>1, <1>2, <1>3, <1>4, <1>5, <1>6, <1>7, <1>8, <1>9, <1>10 DEF Next, Run

LEMMA NextDump == Link /\ [Next]_vars => DumpOnce'
<1> SUFFICES ASSUME Link, [Next]_vars PROVE DumpOnce'
    OBVIOUS
<1>0. /\ DumpOnce /\ dumpUpdates \in Channel /\ liveUpdates \in Channel
      /\ left \subseteq Route /\ queued \in Seq(Events)
    BY ChannelTypes, ChannelFields DEF Link, queued
<1>a. Len(queued) \in Nat
    BY <1>0, LenProperties
<1>1. CASE InjectorSends
    <2>1. PICK r \in left : /\ ~Full(dumpUpdates)
                            /\ dumpUpdates' = [dumpUpdates EXCEPT
                                                  !.queue = Append(@, Event("NEWROUTE", r))]
                            /\ left' = left \ {r}
        BY <1>1 DEF InjectorSends
    <2>2. updates = "dump" /\ Syncing /\ ~dumpUpdates.closed
        BY <1>1 DEF InjectorSends, Link, Inv, ReadsFrom
    <2>3. UNCHANGED <<pc, update, updates, state>>
        BY <1>1 DEF InjectorSends, fsmVars
    <2> DEFINE e == Event("NEWROUTE", r)
    <2>4. e \in Events /\ e.type = "NEWROUTE" /\ e.route = r
        BY <1>0, EventTypes DEF Event
    <2> HIDE DEF e
    <2>5. queued' = Append(queued, e) /\ dumpUpdates'.closed = dumpUpdates.closed
        BY <1>0, <2>1, ChannelFields DEF queued, e
    <2>6. /\ Len(queued') = Len(queued) + 1
          /\ \A i \in 1..Len(queued) : queued'[i] = queued[i]
          /\ queued'[Len(queued) + 1] = e
        BY <1>0, <2>4, <2>5, AppendProperties
    <2>7. ASSUME NEW i \in 1..Len(queued')
          PROVE  \/ i \in 1..Len(queued) /\ queued'[i] = queued[i]
                 \/ i = Len(queued) + 1 /\ queued'[i] = e
        BY <1>a, <2>6
    <2>8. \A i \in 1..Len(queued) : queued[i].type = "NEWROUTE" /\ queued[i].route \notin left
        BY <1>0, <2>2 DEF DumpOnce
    <2>9. ASSUME NEW i \in 1..Len(queued'), NEW j \in 1..Len(queued'),
                 queued'[i].route = queued'[j].route
          PROVE  i = j
        BY <1>0, <2>4, <2>7, <2>8, <2>9 DEF DumpOnce
    <2>10. ASSUME NEW i \in 1..Len(queued')
           PROVE  queued'[i].type = "NEWROUTE" /\ queued'[i].route \notin left'
        BY <2>1, <2>4, <2>7, <2>8
    <2>11. ASSUME pc = "update"
           PROVE  /\ update \in Events /\ update.type = "NEWROUTE" /\ update.route \notin left'
                  /\ \A i \in 1..Len(queued') : queued'[i].route # update.route
        <3>1. /\ update \in Events /\ update.type = "NEWROUTE" /\ update.route \notin left
              /\ \A i \in 1..Len(queued) : queued[i].route # update.route
            BY <1>0, <2>2, <2>11 DEF DumpOnce
        <3> QED BY <2>1, <2>4, <2>7, <3>1
    <2> QED BY <2>2, <2>3, <2>5, <2>9, <2>10, <2>11 DEF DumpOnce
<1>2. CASE InjectorEnds
    <2>1. /\ UNCHANGED <<queued, left, pc, update, updates, state>>
          /\ dumpUpdates'.closed => dumpUpdates.closed \/ left = {}
        BY <1>0, <1>2, ChannelFields DEF InjectorEnds, fsmVars, queued
    <2> QED BY <1>0, <2>1 DEF DumpOnce, Syncing
<1>3. CASE Updates
    <2>1. CASE updates = "dump"
        <3>1. Syncing /\ UNCHANGED <<state, left>>
            BY <1>3, <2>1 DEF Updates, Link, Inv, ReadsFrom
        <3>2. dumpUpdates' = [dumpUpdates EXCEPT !.queue = SubSeq(@, 2, Len(@))]
            BY <1>3, <2>1 DEF Updates
        <3>3. queued' = SubSeq(queued, 2, Len(queued)) /\ dumpUpdates'.closed = dumpUpdates.closed
            BY <1>0, <3>2, PopFields DEF queued
        <3>4. CASE receive(dumpUpdates)
            <4>1. queued # <<>> /\ update' = Head(queued) /\ pc' = "update" /\ updates' = updates
                BY <3>4 DEF receive, goto, queued
            <4>2. /\ Head(queued) \in Events /\ Len(queued') = Len(queued) - 1
                  /\ Head(queued) = queued[1]
                  /\ \A i \in 1..Len(queued') : queued'[i] = queued[i + 1]
                BY <1>0, <3>3, <4>1, Popped
            <4>3. 1 \in 1..Len(queued)
                BY <1>0, <1>a, <4>1, EmptySeq
            <4>4. ASSUME NEW i \in 1..Len(queued')
                  PROVE  i + 1 \in 1..Len(queued) /\ i + 1 # 1 /\ queued'[i] = queued[i + 1]
                BY <1>a, <4>2
            <4>5. /\ \A i \in 1..Len(queued) :
                        queued[i].type = "NEWROUTE" /\ queued[i].route \notin left
                  /\ \A i, j \in 1..Len(queued) : queued[i].route = queued[j].route => i = j
                BY <1>0, <3>1 DEF DumpOnce
            <4>6. ASSUME NEW i \in 1..Len(queued'), NEW j \in 1..Len(queued'),
                         queued'[i].route = queued'[j].route
                  PROVE  i = j
                <5>1. /\ i + 1 \in 1..Len(queued) /\ queued'[i] = queued[i + 1]
                      /\ j + 1 \in 1..Len(queued) /\ queued'[j] = queued[j + 1]
                    BY <4>4
                <5>2. i + 1 = j + 1
                    BY <4>5, <4>6, <5>1
                <5> QED BY <5>2
            <4>7. ASSUME NEW i \in 1..Len(queued')
                  PROVE  /\ queued'[i].type = "NEWROUTE" /\ queued'[i].route \notin left'
                         /\ queued'[i].route # update'.route
                <5>1. PICK k \in 1..Len(queued) : k # 1 /\ queued'[i] = queued[k]
                    BY <4>4
                <5>2. queued[k].type = "NEWROUTE" /\ queued[k].route \notin left
                    BY <4>5
                <5>3. queued[k].route # queued[1].route
                    BY <4>3, <4>5, <5>1
                <5>4. update' = queued[1]
                    BY <4>1, <4>2
                <5> QED BY <3>1, <5>1, <5>2, <5>3, <5>4
            <4>8. update' \in Events /\ update'.type = "NEWROUTE" /\ update'.route \notin left'
                BY <3>1, <4>1, <4>2, <4>3, <4>5
            <4>9. dumpUpdates'.closed => left' = {}
                BY <1>0, <3>1, <3>3 DEF DumpOnce
            <4> QED BY <2>1, <4>1, <4>6, <4>7, <4>8, <4>9 DEF DumpOnce
        <3>5. CASE receiveClosed(dumpUpdates)
            <4>1. queued = <<>> /\ dumpUpdates.closed /\ pc' # "update"
                BY <1>3, <3>5 DEF Updates, receiveClosed, call, queued
            <4>2. queued' = <<>> /\ left' = {}
                BY <1>0, <3>1, <3>3, <4>1, Popped DEF DumpOnce
            <4> QED BY <4>1, <4>2 DEF DumpOnce
        <3> QED BY <1>3, <2>1, <3>4, <3>5 DEF Updates
    <2>2. CASE updates = "live"
        <3>1. left = {} /\ queued = <<>> /\ ~Syncing
            BY <1>0, <2>2 DEF DumpOnce, Link, Inv, ReadsFrom, Syncing
        <3>2. UNCHANGED <<state, left, dumpUpdates>>
            BY <1>3, <2>2 DEF Updates
        <3>3. pc' = "update" => update' \in Events
            <4>1. CASE receive(liveUpdates)
                <5>1. liveUpdates.queue \in Seq(Events) /\ liveUpdates.queue # <<>>
                    BY <1>0, <4>1, ChannelFields DEF receive
                <5>2. update' = Head(liveUpdates.queue)
                    BY <4>1 DEF receive
                <5> QED BY <5>1, <5>2, Popped
            <4>2. CASE receiveClosed(liveUpdates)
                BY <1>3, <4>2 DEF Updates, receiveClosed, call
            <4> QED BY <1>3, <2>2, <4>1, <4>2 DEF Updates
        <3> QED BY <3>1, <3>2, <3>3 DEF DumpOnce, queued, Syncing
    <2> QED BY <1>3, <2>1, <2>2 DEF Updates
<1>4. CASE Subscribe
    <2>1. updates # "dump" /\ ~Syncing
        BY <1>4 DEF Subscribe, Link, Inv, ReadsFrom, Syncing
    <2>2. UNCHANGED <<state, left, dumpUpdates>> /\ pc' # "update"
        BY <1>4 DEF Subscribe, injectVars, goto, fail
    <2> QED BY <1>0, <2>1, <2>2 DEF DumpOnce, queued, Syncing
<1>5. ASSUME NEW routes, injectRoutes(routes), pc' = "select" PROVE DumpOnce'
    <2>1. queued' = <<>> /\ dumpUpdates'.closed = FALSE /\ updates' = "dump"
        BY <1>5 DEF injectRoutes, NewChannel, queued
    <2> QED BY <1>5, <2>1 DEF DumpOnce
<1>6. CASE ListIPv4
    <2>1. CASE newSubscription(FALSE) /\ fail /\ UNCHANGED <<injectVars, updates, state>>
        <3>1. UNCHANGED <<left, dumpUpdates, updates>> /\ pc' # "update"
            BY <2>1 DEF injectVars, fail, goto
        <3>2. updates # "dump"
            BY <1>6 DEF ListIPv4, Link, Inv, ReadsFrom
        <3> QED BY <1>0, <3>1, <3>2 DEF DumpOnce, queued
    <2> QED BY <1>5, <1>6, <2>1 DEF ListIPv4, succeed, goto
<1>7. CASE ListIPv6
    <2>1. CASE updates' = "new" /\ fail /\ UNCHANGED <<injectVars, state>>
        <3>1. UNCHANGED <<left, dumpUpdates>> /\ pc' # "update"
            BY <2>1 DEF injectVars, fail, goto
        <3>2. updates # "dump"
            BY <1>7 DEF ListIPv6, Link, Inv, NotYetSubscribed, CalledBy, InTransition
        <3> QED BY <1>0, <2>1, <3>1, <3>2 DEF DumpOnce, queued
    <2> QED BY <1>5, <1>7, <2>1 DEF ListIPv6, succeed, goto
<1>8. CASE Notify
    <2>1. UNCHANGED <<left, dumpUpdates>> /\ pc' # "update"
        BY <1>8 DEF Notify, injectVars, goto, succeed
    <2>2. CASE pc = "end"
        <3>1. updates # "dump"
            BY <2>2 DEF Link, Inv, NotYetSubscribed, CalledBy, InTransition, ReadsFrom
        <3> QED BY <1>0, <2>1, <3>1 DEF DumpOnce, queued
    <2>3. CASE pc # "end"
        <3>1. UNCHANGED <<state, updates>>
            BY <1>8, <2>3 DEF Notify
        <3> QED BY <1>0, <2>1, <3>1 DEF DumpOnce, queued, Syncing
    <2> QED BY <2>2, <2>3
<1>9. CASE \/ \E r \in External, type \in {"NEWROUTE", "DELROUTE"} : KernelChange(type, r)
           \/ SocketOverflows \/ ReaderReceives \/ ReaderSends \/ ReaderEnds
           \/ CureTicks \/ SubscriberComes \/ Stop \/ UNCHANGED vars
    <2>1. UNCHANGED <<left, dumpUpdates, updates, state, pc, update>>
        BY <1>9 DEF KernelChange, SocketOverflows, ReaderReceives, ReaderSends, ReaderEnds,
           CureTicks, SubscriberComes, Stop, vars, outside, fsmVars, injectVars
    <2> QED BY <1>0, <2>1 DEF DumpOnce, queued, Syncing
<1>10. CASE TransitionTicks \/ Subscribed \/ EndRIB \/ Dies
    <2>1. UNCHANGED <<left, dumpUpdates, updates, state>> /\ pc' # "update"
        BY <1>10 DEF TransitionTicks, Subscribed, EndRIB, Dies, call, goto, outside, injectVars
    <2> QED BY <1>0, <2>1 DEF DumpOnce, queued, Syncing
<1> QED BY <1>1, <1>2, <1>3, <1>4, <1>6, <1>7, <1>8, <1>9, <1>10 DEF Next, Run

LEMMA NextLink == Link /\ [Next]_vars => Link'
BY NextInv, NextReader, NextIdle, NextDump DEF Link

LEMMA InitLink == Init => Link
BY InitInv DEF Init, Link, ReaderCleans, IdleIsEmpty, Idle, DumpOnce, queued, NewChannel, Syncing

-----------------------------------------------------------------------------
(* Where the stream is, and what it has still to send. *)
SyncMeans ==
    /\ sync = "dump4" <=> state = "ipv4Routes"
    /\ sync = "dump6" <=> state = "ipv6Routes"
    /\ sync = "start" <=> pc = "start"
    /\ sync = "list4" <=> pc = "list"
    /\ sync = "updates" <=> updates = "live"
    /\ sync = "idle" <=> Idle

LEMMA SyncIs == Link => SyncMeans
<1> SUFFICES ASSUME Link PROVE SyncMeans
    OBVIOUS
<1>1. updates = "live" => state = "updateRoutes" /\ pc \notin {"start", "list"}
    BY DEF Link, Inv, NotYetSubscribed, CalledBy, InTransition, ReadsFrom
<1>2. pc \in {"start", "list"} => ~Syncing
    BY DEF Link, Inv, ReadsFrom
<1> QED BY <1>1, <1>2 DEF SyncMeans, sync, Syncing, Idle

(* What the reader, the socket and the hand of run() hold. *)
LEMMA HeldTypes ==
    ASSUME Link
    PROVE  /\ inReader \in Seq(Events) /\ inSocket \in Seq(Events)
           /\ inHand \in Seq(Events) /\ liveUpdates.queue \in Seq(Events)
           /\ queued \in Seq(Events)
           /\ held # NoUpdate => held \in Events
<1>1. /\ liveUpdates.queue \in Seq(Events) /\ queued \in Seq(Events)
      /\ sock \in Seq(Events) /\ held \in Events \cup {NoUpdate}
    BY ChannelTypes, ChannelFields DEF queued
<1>2. pc = "update" => update \in Events
    BY DEF Link, DumpOnce
<1>3. <<>> \in Seq(Events) /\ \A e \in Events : <<e>> \in Seq(Events)
    OBVIOUS
<1> QED BY <1>1, <1>2, <1>3 DEF inReader, inSocket, inHand

Ahead == IF sync = "updates" THEN inHand ELSE <<>>

LEMMA NotifyIs == toNotify = ((Ahead \o liveUpdates.queue) \o inReader) \o inSocket
BY DEF toNotify, Ahead

LEMMA NotifyIsNext ==
    toNotify' = ((Ahead' \o liveUpdates'.queue) \o inReader') \o inSocket'
BY DEF toNotify, Ahead

LEMMA AheadTypes ==
    ASSUME Link
    PROVE  /\ Ahead \in Seq(Events) /\ Ahead \o liveUpdates.queue \in Seq(Events)
           /\ (Ahead \o liveUpdates.queue) \o inReader \in Seq(Events)
           /\ toNotify \in Seq(Events)
<1>1. Ahead \in Seq(Events)
    BY HeldTypes, EmptySeq DEF Ahead
<1> QED BY <1>1, HeldTypes, NotifyIs, ConcatProperties

(* What is left of the dump, wherever it is. *)
Dumping ==
    left \cup {queued[i].route : i \in 1..Len(queued)}
         \cup (IF pc = "update" /\ updates = "dump" THEN {update.route} ELSE {})

DumpMeans == toDump = Dumping

LEMMA DumpIs == Link => DumpMeans
<1> SUFFICES ASSUME Link PROVE toDump = Dumping
    BY DEF DumpMeans
<1>1. DOMAIN queued = 1..Len(queued)
    BY HeldTypes, LenProperties
<1>2. {e.route : e \in ToSet(dumpUpdates.queue)} = {queued[i].route : i \in 1..Len(queued)}
    BY <1>1 DEF ToSet, queued
<1>3. {e.route : e \in ToSet(inHand)} = IF pc = "update" THEN {update.route} ELSE {}
    BY DEF ToSet, inHand
<1>4. CASE Syncing
    <2>1. pc = "update" => updates = "dump"
        BY <1>4 DEF Link, Inv, ReadsFrom, Syncing
    <2> QED BY <1>2, <1>3, <1>4, <2>1 DEF toDump, Dumping
<1>5. CASE ~Syncing
    <2>1. updates # "dump" /\ left = {} /\ queued = <<>>
        BY <1>5 DEF Link, Inv, ReadsFrom, DumpOnce
    <2> QED BY <1>5, <2>1 DEF toDump, Dumping
<1> QED BY <1>4, <1>5

Meanings == SyncMeans /\ DumpMeans

LEMMA MeaningsHold == Link => Meanings
BY SyncIs, DumpIs DEF Meanings

LEMMA MeaningsNext == Link' => Meanings'
BY MeaningsHold, PTL

-----------------------------------------------------------------------------
(* The steps.  Outside of the component and of its goroutine of            *)
(* injectRoutes, only the receiving end of the stream changes.             *)
Stutters ==
    /\ UNCHANGED <<rib, view, changes, overflows, listErrors>>
    /\ Listening' = Listening /\ toNotify' = toNotify
    /\ sync' = sync /\ toDump' = toDump

LEMMA MachineStays ==
    ASSUME UNCHANGED <<injectVars, updates, state, pc, update>>
    PROVE  sync' = sync /\ toDump' = toDump /\ Ahead' = Ahead
<1>1. sync' = sync /\ Syncing' = Syncing
    BY DEF sync, Syncing
<1>2. inHand' = inHand
    BY DEF inHand
<1> QED BY <1>1, <1>2 DEF toDump, Ahead, injectVars

LEMMA KernelStep ==
    ASSUME Link, NEW r \in External, NEW type \in {"NEWROUTE", "DELROUTE"},
           KernelChange(type, r)
    PROVE  Stream!KernelReplace(r) \/ Stream!KernelDelete(r)
<1>1. sync' = sync /\ toDump' = toDump /\ Ahead' = Ahead
    BY MachineStays DEF KernelChange, fsmVars
<1>2. UNCHANGED <<liveUpdates, inReader, Listening, view, overflows, listErrors, overflowed>>
    BY DEF KernelChange, inReader, Listening
<1>3. toNotify' = IF Listening THEN Append(toNotify, Event(type, r)) ELSE toNotify
    <2>1. CASE ~Listening
        <3>1. inSocket' = inSocket
            BY <1>2, <2>1 DEF KernelChange, report, inSocket
        <3> QED BY <1>1, <1>2, <2>1, <3>1, NotifyIs, NotifyIsNext
    <2>2. CASE Listening
        <3>1. sock' = Append(sock, Event(type, r)) /\ ~overflowed /\ ~overflowed'
            BY <1>2, <2>2 DEF KernelChange, report, Listening
        <3>2. inSocket' = Append(inSocket, Event(type, r))
            BY <3>1 DEF inSocket
        <3>3. Event(type, r) \in Events
            BY RibType DEF Event, Events
        <3> DEFINE read == (Ahead \o liveUpdates.queue) \o inReader
        <3>4. toNotify = read \o inSocket /\ toNotify' = read \o inSocket'
            BY <1>1, <1>2, NotifyIs, NotifyIsNext
        <3>5. read \in Seq(Events) /\ inSocket \in Seq(Events)
            BY AheadTypes, HeldTypes
        <3> HIDE DEF read
        <3>6. toNotify' = Append(toNotify, Event(type, r))
            BY <3>2, <3>3, <3>4, <3>5, ConcatAppend
        <3> QED BY <2>2, <3>6
    <2> QED BY <2>1, <2>2
<1>4. Stream!report(Stream!Update(type, r))
    BY <1>3 DEF Stream!report, Stream!Update, Event
<1>5. CASE type = "NEWROUTE"
    <2>1. rib' = Stream!addCandidateRoute(rib, r)
        BY <1>5 DEF KernelChange, addCandidateRoute, Slot,
           Stream!addCandidateRoute, Stream!Slot
    <2>2. Stream!KernelReplace(r)
        BY <1>1, <1>2, <1>4, <1>5, <2>1 DEF KernelChange, Stream!KernelReplace, Stream!write
    <2> QED BY <2>2
<1>6. CASE type = "DELROUTE"
    <2>1. r \in rib /\ rib' = Stream!removeCandidateRoute(rib, r)
        BY <1>6 DEF KernelChange, removeCandidateRoute, Stream!removeCandidateRoute
    <2>2. Stream!KernelDelete(r)
        BY <1>1, <1>2, <1>4, <1>6, <2>1 DEF KernelChange, Stream!KernelDelete
    <2> QED BY <2>2
<1> QED BY <1>5, <1>6

(* What was read goes on to the component, what was not is lost. *)
LEMMA LossIsOverflow ==
    ASSUME Link, Listening, ~Listening', overflows < MaxOverflows, overflows' = overflows + 1,
           liveUpdates'.queue = liveUpdates.queue, inSocket' = <<>>,
           UNCHANGED <<rib, view, held, changes, listErrors, injectVars, updates,
                       state, pc, update>>
    PROVE  Stream!Overflow
<1>1. sync' = sync /\ toDump' = toDump /\ Ahead' = Ahead
    BY MachineStays
<1>2. inReader' = inReader
    BY DEF inReader
<1> DEFINE read == (Ahead \o liveUpdates.queue) \o inReader
<1>3. toNotify = read \o inSocket /\ toNotify' = read \o <<>>
    BY <1>1, <1>2, NotifyIs, NotifyIsNext
<1>4. read \in Seq(Events) /\ inSocket \in Seq(Events)
    BY AheadTypes, HeldTypes
<1> HIDE DEF read
<1>5. \E n \in 0..Len(toNotify) : toNotify' = SubSeq(toNotify, 1, n)
    BY <1>3, <1>4, PrefixRemains
<1> QED BY <1>1, <1>5 DEF Stream!Overflow, Listening

LEMMA LibrarySteps ==
    ASSUME Link, SocketOverflows \/ ReaderReceives \/ ReaderSends \/ ReaderEnds
    PROVE  Stream!Overflow \/ Stutters
<1>0. /\ overflowed \in BOOLEAN /\ reading \in BOOLEAN /\ liveUpdates \in Channel
      /\ sock \in Seq(Events)
    BY ChannelTypes
<1>1. CASE SocketOverflows
    <2>1. inSocket' = <<>> /\ Listening /\ ~Listening'
        BY <1>1 DEF SocketOverflows, inSocket, Listening
    <2> QED BY <1>1, <2>1, LossIsOverflow DEF SocketOverflows, fsmVars
<1>2. CASE ReaderReceives
    <2>1. sync' = sync /\ toDump' = toDump /\ Ahead' = Ahead
        BY <1>2, MachineStays DEF ReaderReceives, fsmVars
    <2>2. ~overflowed /\ ~overflowed' /\ sock # <<>> /\ Listening' = Listening
        BY <1>0, <1>2 DEF ReaderReceives, Listening
    <2>3. inReader = <<>> /\ inSocket = sock /\ inSocket' = Tail(sock)
        BY <1>2, <2>2 DEF ReaderReceives, inReader, inSocket
    <2>4. Head(sock) \in Events
        BY <1>0, <2>2, HeadTailProperties
    <2>5. inReader' = <<Head(sock)>>
        BY <1>2, <2>4, EventTypes DEF ReaderReceives, inReader
    <2>6. toNotify' = toNotify
        <3>1. liveUpdates' = liveUpdates
            BY <1>2 DEF ReaderReceives
        <3> DEFINE read == Ahead \o liveUpdates.queue
        <3>2. read \in Seq(Events) /\ read' = read
            BY <2>1, <3>1, AheadTypes
        <3>3. toNotify = (read \o inReader) \o inSocket
            BY NotifyIs
        <3>4. toNotify' = (read' \o inReader') \o inSocket'
            BY NotifyIsNext
        <3> HIDE DEF read
        <3>5. (read \o <<>>) \o sock = (read \o <<Head(sock)>>) \o Tail(sock)
            BY <1>0, <2>2, <3>2, MovesLeft
        <3> QED BY <2>3, <2>5, <3>2, <3>3, <3>4, <3>5
    <2> QED BY <1>2, <2>1, <2>2, <2>6 DEF ReaderReceives, Stutters, counters
<1>3. CASE ReaderSends
    <2>1. sync' = sync /\ toDump' = toDump /\ Ahead' = Ahead
        BY <1>3, MachineStays DEF ReaderSends, fsmVars
    <2>2. inReader = <<held>> /\ inReader' = <<>> /\ held \in Events
        BY <1>3, HeldTypes DEF ReaderSends, inReader
    <2>3. liveUpdates'.queue = Append(liveUpdates.queue, held)
        BY <1>0, <1>3, ChannelFields DEF ReaderSends
    <2>4. UNCHANGED <<inSocket, Listening>>
        BY <1>3 DEF ReaderSends, inSocket, Listening
    <2>5. (Ahead' \o liveUpdates'.queue) \o inReader' = (Ahead \o liveUpdates.queue) \o inReader
        <3>1. Ahead \in Seq(Events) /\ liveUpdates.queue \in Seq(Events)
            BY AheadTypes, HeldTypes
        <3>2. (Ahead \o liveUpdates.queue) \o <<held>>
              = (Ahead \o Append(liveUpdates.queue, held)) \o <<>>
            BY <2>2, <3>1, MovesOn
        <3> QED BY <2>1, <2>2, <2>3, <3>2
    <2>6. toNotify' = toNotify
        BY <2>4, <2>5, NotifyIs, NotifyIsNext
    <2> QED BY <1>3, <2>1, <2>4, <2>6 DEF ReaderSends, Stutters, counters
<1>4. CASE ReaderEnds /\ overflowed
    <2>1. sync' = sync /\ toDump' = toDump /\ Ahead' = Ahead
        BY <1>4, MachineStays DEF ReaderEnds, fsmVars
    <2>2. liveUpdates'.queue = liveUpdates.queue
        BY <1>0, <1>4, ChannelFields DEF ReaderEnds
    <2>3. UNCHANGED <<inSocket, inReader>> /\ ~Listening /\ ~Listening'
        BY <1>4 DEF ReaderEnds, inSocket, inReader, Listening
    <2>4. toNotify' = toNotify
        BY <2>1, <2>2, <2>3, NotifyIs, NotifyIsNext
    <2>5. Listening' = Listening
        BY <1>0, <1>4 DEF ReaderEnds, Listening
    <2> QED BY <1>4, <2>1, <2>4, <2>5 DEF ReaderEnds, Stutters
<1>5. CASE ReaderEnds /\ ~overflowed
    <2>1. liveUpdates'.queue = liveUpdates.queue
        BY <1>0, <1>5, ChannelFields DEF ReaderEnds
    <2>2. inSocket' = <<>> /\ Listening /\ ~Listening'
        BY <1>5 DEF ReaderEnds, inSocket, Listening
    <2> QED BY <1>5, <2>1, <2>2, LossIsOverflow DEF ReaderEnds, fsmVars
<1> QED BY <1>1, <1>2, <1>3, <1>4, <1>5

(* The goroutine of injectRoutes: a route goes from one place to the next. *)
LEMMA InjectorSteps ==
    ASSUME Link, Link', InjectorSends \/ InjectorEnds
    PROVE  Stutters
<1>0. /\ dumpUpdates \in Channel /\ left \subseteq Route
      /\ queued \in Seq(Events) /\ Len(queued) \in Nat
    BY ChannelTypes, HeldTypes, LenProperties
<1>1. /\ UNCHANGED <<rib, view, subscription, updates, state, pc, update, counters>>
    BY DEF InjectorSends, InjectorEnds, fsmVars
<1>2. sync' = sync /\ toNotify' = toNotify /\ Listening' = Listening
    <2>1. inHand' = inHand
        BY <1>1 DEF inHand
    <2>2. sync' = sync
        BY <1>1 DEF sync, Syncing
    <2>3. inReader' = inReader /\ inSocket' = inSocket /\ Listening' = Listening
        BY <1>1 DEF inReader, inSocket, Listening, subscription
    <2> QED BY <1>1, <2>1, <2>2, <2>3 DEF toNotify, subscription
<1>3. Dumping' = Dumping
    <2>1. CASE InjectorSends
        <3>1. PICK r \in left : /\ dumpUpdates' = [dumpUpdates EXCEPT
                                                  !.queue = Append(@, Event("NEWROUTE", r))]
                                /\ left' = left \ {r}
            BY <2>1 DEF InjectorSends
        <3> DEFINE e == Event("NEWROUTE", r)
        <3>2. e \in Events /\ e.route = r
            BY <1>0, EventTypes DEF Event
        <3> HIDE DEF e
        <3>3. queued' = Append(queued, e)
            BY <1>0, <3>1, ChannelFields DEF queued, e
        <3>4. /\ Len(queued') = Len(queued) + 1
              /\ \A i \in 1..Len(queued) : queued'[i] = queued[i]
              /\ queued'[Len(queued) + 1] = e
            BY <1>0, <3>2, <3>3, AppendProperties
        <3>5. 1..Len(queued') = (1..Len(queued)) \cup {Len(queued) + 1}
            BY <1>0, <3>4
        <3>6. {queued'[i].route : i \in 1..Len(queued')}
              = {queued[i].route : i \in 1..Len(queued)} \cup {r}
            BY <3>2, <3>4, <3>5
        <3> QED BY <1>1, <3>1, <3>6 DEF Dumping
    <2>2. CASE InjectorEnds
        <3>1. queued' = queued /\ left' = left
            BY <1>0, <2>2, ChannelFields DEF InjectorEnds, queued
        <3> QED BY <1>1, <3>1 DEF Dumping
    <2> QED BY <2>1, <2>2
<1>4. toDump' = toDump
    BY <1>3, MeaningsHold, MeaningsNext DEF Meanings, DumpMeans
<1> QED BY <1>1, <1>2, <1>4 DEF Stutters, counters

(* The other cases of the select, and the calls of the other components. *)
LEMMA OtherSteps ==
    ASSUME Link, Link',
           \/ TransitionTicks \/ Subscribed \/ EndRIB \/ Dies
           \/ CureTicks \/ SubscriberComes \/ Stop
    PROVE  Stutters
<1>1. UNCHANGED <<rib, view, subscription, injectVars, counters, updates, state, update>>
    BY DEF TransitionTicks, Subscribed, EndRIB, Dies, CureTicks, SubscriberComes, Stop,
       outside, fsmVars
<1>2. \/ pc' = pc
      \/ pc \in {"select", "transition"} /\ pc' \in {"transition", "end", "done"}
    BY DEF TransitionTicks, Subscribed, EndRIB, Dies, CureTicks, SubscriberComes, Stop,
       fsmVars, call, goto
<1>3. sync' = sync /\ Syncing' = Syncing
    BY <1>1, <1>2 DEF sync, Syncing
<1>4. inHand' = inHand
    BY <1>1, <1>2 DEF inHand
<1>5. inReader' = inReader /\ inSocket' = inSocket /\ Listening' = Listening
    BY <1>1 DEF inReader, inSocket, Listening, subscription
<1>6. toNotify' = toNotify
    BY <1>1, <1>3, <1>4, <1>5 DEF toNotify, subscription
<1>7. toDump' = toDump
    BY <1>1, <1>3, <1>4 DEF toDump, injectVars
<1> QED BY <1>1, <1>3, <1>5, <1>6, <1>7 DEF Stutters, counters

(* An idle component has nothing to say, and hears nothing. *)
IdleMeans == sync = "idle" => ~Listening /\ toNotify = <<>>

LEMMA IdleHolds == Link => IdleMeans
<1> SUFFICES ASSUME Link, sync = "idle" PROVE ~Listening /\ toNotify = <<>>
    BY DEF IdleMeans
<1>1. ~reading /\ liveUpdates.queue = <<>> /\ sock = <<>> /\ held = NoUpdate
    BY MeaningsHold DEF Link, Meanings, SyncMeans, IdleIsEmpty, ReaderCleans
<1>2. inReader = <<>> /\ inSocket = <<>> /\ Ahead = <<>> /\ ~Listening
    BY <1>1 DEF inReader, inSocket, Ahead, Listening
<1>3. (((<<>> \o <<>>) \o <<>>) \o <<>>) = <<>>
    BY EmptySeq, ConcatEmptySeq
<1> QED BY <1>1, <1>2, <1>3, NotifyIs

LEMMA IdleNext == Link' => IdleMeans'
BY IdleHolds, PTL

(* A route of the dump, or an event, is taken in hand; the end of a dump   *)
(* is not seen before its last route is notified; the end of the live      *)
(* updates is the end of the subscription.                                 *)
LEMMA UpdatesStep ==
    ASSUME Link, Link', Updates
    PROVE  Stream!Resync \/ Stutters
<1>0. /\ dumpUpdates \in Channel /\ liveUpdates \in Channel
      /\ queued \in Seq(Events) /\ Len(queued) \in Nat
      /\ liveUpdates.queue \in Seq(Events)
    BY ChannelTypes, HeldTypes, LenProperties
<1>1. /\ UNCHANGED <<rib, view, sock, overflowed, reading, held, injecting, left, state, counters>>
      /\ pc = "select"
    BY DEF Updates
<1>2. UNCHANGED <<inReader, inSocket, Listening>>
    BY <1>1 DEF inReader, inSocket, Listening
<1>3. Meanings /\ Meanings' /\ IdleMeans'
    BY MeaningsHold, MeaningsNext, IdleNext
<1>4. CASE updates = "dump"
    <2>1. Syncing /\ Syncing' /\ sync' = sync /\ sync # "updates"
        <3>1. Syncing /\ state' = state
            BY <1>1, <1>4 DEF Link, Inv, ReadsFrom
        <3>2. sync = IF state = "ipv4Routes" THEN "dump4" ELSE "dump6"
            BY <3>1 DEF sync, Syncing
        <3>3. sync' = IF state' = "ipv4Routes" THEN "dump4" ELSE "dump6"
            BY <3>1 DEF sync, Syncing
        <3> QED BY <3>1, <3>2, <3>3 DEF Syncing
    <2>2. dumpUpdates' = [dumpUpdates EXCEPT !.queue = SubSeq(@, 2, Len(@))] /\ UNCHANGED liveUpdates
        BY <1>4 DEF Updates
    <2>3. queued' = SubSeq(queued, 2, Len(queued))
        BY <1>0, <2>2, PopFields DEF queued
    <2>4. toNotify' = toNotify
        BY <1>2, <2>1, <2>2 DEF toNotify
    <2>5. Dumping' = Dumping
        <3>1. CASE receive(dumpUpdates)
            <4>1. /\ queued # <<>> /\ update' = Head(queued) /\ pc' = "update"
                  /\ updates' = "dump"
                BY <1>4, <3>1 DEF receive, goto, queued
            <4>2. /\ Len(queued') = Len(queued) - 1 /\ Head(queued) = queued[1]
                  /\ \A i \in 1..Len(queued') : queued'[i] = queued[i + 1]
                BY <1>0, <2>3, <4>1, Popped
            <4>3. Len(queued) # 0
                BY <1>0, <4>1, EmptySeq
            <4>4. ASSUME NEW i \in 1..Len(queued)
                  PROVE  i = 1 \/ \E j \in 1..Len(queued') : i = j + 1
                <5>1. i # 1 => i - 1 \in 1..Len(queued') /\ i = (i - 1) + 1
                    BY <1>0, <4>2
                <5> QED BY <5>1
            <4>5. \A j \in 1..Len(queued') : j + 1 \in 1..Len(queued)
                BY <1>0, <4>2
            <4>6. 1 \in 1..Len(queued)
                BY <1>0, <4>3
            <4>7. {queued[i].route : i \in 1..Len(queued)}
                  = {queued'[i].route : i \in 1..Len(queued')} \cup {queued[1].route}
                <5> DEFINE was == {queued[i].route : i \in 1..Len(queued)}
                           is == {queued'[i].route : i \in 1..Len(queued')}
                <5>1. ASSUME NEW i \in 1..Len(queued)
                      PROVE  queued[i].route \in is \cup {queued[1].route}
                    <6>1. CASE \E j \in 1..Len(queued') : i = j + 1
                        <7>1. PICK j \in 1..Len(queued') : i = j + 1
                            BY <6>1
                        <7>2. queued'[j] = queued[i]
                            BY <4>2, <7>1
                        <7>3. queued'[j].route \in is
                            OBVIOUS
                        <7> QED BY <7>2, <7>3
                    <6> QED BY <4>4, <6>1
                <5>2. ASSUME NEW j \in 1..Len(queued') PROVE queued'[j].route \in was
                    <6>1. queued'[j] = queued[j + 1] /\ j + 1 \in 1..Len(queued)
                        BY <4>2, <4>5
                    <6> QED BY <6>1
                <5>3. queued[1].route \in was
                    BY <4>6
                <5>4. was \subseteq is \cup {queued[1].route}
                    BY <5>1
                <5>5. is \subseteq was
                    BY <5>2
                <5> HIDE DEF was, is
                <5>6. was = is \cup {queued[1].route}
                    BY <5>3, <5>4, <5>5
                <5> QED BY <5>6 DEF was, is
            <4>8. Dumping = left \cup {queued[i].route : i \in 1..Len(queued)}
                BY <1>1 DEF Dumping
            <4>9. Dumping' = left \cup {queued'[i].route : i \in 1..Len(queued')}
                                  \cup {queued[1].route}
                BY <1>1, <4>1, <4>2 DEF Dumping
            <4> HIDE DEF queued
            <4> QED BY <4>7, <4>8, <4>9
        <3>2. CASE receiveClosed(dumpUpdates)
            <4>1. queued = <<>> /\ pc' # "update" /\ left' = left
                BY <1>1, <3>2 DEF receiveClosed, call, queued
            <4>2. queued' = <<>>
                BY <1>0, <2>3, <4>1, Popped
            <4> QED BY <1>1, <4>1, <4>2 DEF Dumping
        <3> QED BY <1>4, <3>1, <3>2 DEF Updates
    <2>6. toDump' = toDump
        BY <1>3, <2>5 DEF Meanings, DumpMeans
    <2> QED BY <1>1, <1>2, <2>1, <2>4, <2>6 DEF Stutters, counters
<1>5. CASE updates = "live"
    <2>1. sync = "updates" /\ ~Syncing /\ ~Syncing' /\ Ahead = <<>>
        BY <1>1, <1>3, <1>5 DEF Link, Inv, ReadsFrom, Syncing, Meanings, SyncMeans, Ahead, inHand
    <2>2. liveUpdates' = [liveUpdates EXCEPT !.queue = SubSeq(@, 2, Len(@))]
        BY <1>5 DEF Updates
    <2>3. liveUpdates'.queue = SubSeq(liveUpdates.queue, 2, Len(liveUpdates.queue))
        BY <1>0, <2>2, PopFields
    <2>4. toDump = {} /\ toDump' = {}
        BY <2>1 DEF toDump
    <2>5. CASE receive(liveUpdates)
        <3>1. /\ liveUpdates.queue # <<>> /\ updates' = "live" /\ pc' = "update"
              /\ update' = Head(liveUpdates.queue)
            BY <1>5, <2>5 DEF receive, goto
        <3>2. sync' = "updates"
            BY <1>3, <3>1 DEF Meanings, SyncMeans
        <3>3. Ahead' = <<Head(liveUpdates.queue)>>
            BY <3>1, <3>2 DEF Ahead, inHand
        <3>4. liveUpdates'.queue = Tail(liveUpdates.queue)
            BY <1>0, <2>3, <3>1, Popped
        <3>5. <<>> \in Seq(Events) /\ <<>> \o <<>> = <<>>
            BY EmptySeq, ConcatEmptySeq
        <3>6. Ahead' \o liveUpdates'.queue \in Seq(Events)
              /\ Ahead' \o liveUpdates'.queue = Ahead \o liveUpdates.queue
            <4>1. (<<>> \o <<>>) \o liveUpdates.queue
                  = (<<>> \o <<Head(liveUpdates.queue)>>) \o Tail(liveUpdates.queue)
                BY <1>0, <3>1, <3>5, MovesLeft
            <4>2. <<Head(liveUpdates.queue)>> \in Seq(Events)
                BY <1>0, <3>1, HeadTailProperties
            <4>3. <<>> \o <<Head(liveUpdates.queue)>> = <<Head(liveUpdates.queue)>>
                BY <4>2, ConcatEmptySeq
            <4>4. Ahead' \o liveUpdates'.queue = Ahead \o liveUpdates.queue
                BY <2>1, <3>3, <3>4, <3>5, <4>1, <4>3
            <4> QED BY <4>4, AheadTypes
        <3>7. toNotify' = toNotify
            BY <1>2, <3>6, NotifyIs, NotifyIsNext
        <3> QED BY <1>1, <1>2, <2>1, <2>4, <3>2, <3>7 DEF Stutters, counters
    <2>6. CASE receiveClosed(liveUpdates)
        <3>1. liveUpdates.queue = <<>> /\ liveUpdates.closed /\ updates' = "nil" /\ pc' = "select"
            BY <1>1, <1>5, <2>6 DEF receiveClosed, call, Link, Inv, ReadsFrom
        <3>2. ~reading /\ sock = <<>> /\ held = NoUpdate
            BY <3>1 DEF Link, ReaderCleans
        <3>3. inReader = <<>> /\ inSocket = <<>> /\ ~Listening
            BY <3>2 DEF inReader, inSocket, Listening
        <3>4. (((<<>> \o <<>>) \o <<>>) \o <<>>) = <<>>
            BY EmptySeq, ConcatEmptySeq
        <3>5. toNotify = <<>>
            BY <2>1, <3>1, <3>3, <3>4, NotifyIs
        <3>6. sync' = "idle"
            BY <1>3, <2>1, <3>1 DEF Idle, Meanings, SyncMeans
        <3>7. Listening' = FALSE /\ toNotify' = <<>>
            BY <1>3, <3>6 DEF IdleMeans, Listening
        <3> QED BY <1>1, <2>1, <2>4, <3>3, <3>5, <3>6, <3>7
                DEF Stream!Resync, Stream!giveUp, Stream!counters, counters
    <2> QED BY <1>5, <2>5, <2>6 DEF Updates
<1> QED BY <1>4, <1>5 DEF Updates

(* A new subscription has nothing from before. *)
LEMMA NewIsEmpty ==
    ASSUME NEW on, newSubscription(on), inHand' = <<>>
    PROVE  toNotify' = <<>> /\ (Listening' <=> on)
<1>1. /\ liveUpdates'.queue = <<>> /\ sock' = <<>> /\ held' = NoUpdate
      /\ overflowed' = FALSE /\ reading' = on
    BY DEF newSubscription, NewChannel
<1>2. inReader' = <<>> /\ inSocket' = <<>> /\ Ahead' = <<>> /\ (Listening' <=> on)
    BY <1>1 DEF inReader, inSocket, Ahead, Listening
<1>3. (((<<>> \o <<>>) \o <<>>) \o <<>>) = <<>>
    BY EmptySeq, ConcatEmptySeq
<1> QED BY <1>1, <1>2, <1>3, NotifyIsNext

LEMMA SubscribeStep ==
    ASSUME Link, Link', Subscribe
    PROVE  Stream!Subscribe \/ Stutters
<1>1. /\ UNCHANGED <<rib, view, injectVars, state, update, changes, overflows, listErrors>>
      /\ pc = "transition" /\ ~Syncing /\ ~Syncing'
    BY DEF Subscribe, Syncing
<1>2. Meanings /\ Meanings' /\ IdleMeans /\ IdleMeans'
    BY MeaningsHold, MeaningsNext, IdleHolds, IdleNext
<1>3. updates # "live"
    BY <1>1 DEF Link, Inv, NotYetSubscribed, CalledBy, InTransition
<1>4. sync = "idle" /\ ~Listening /\ toNotify = <<>>
    BY <1>1, <1>2, <1>3 DEF Meanings, SyncMeans, Idle, IdleMeans
<1>5. toDump = {} /\ toDump' = {}
    BY <1>1 DEF toDump
<1>6. CASE newSubscription(TRUE) /\ goto("start")
    <2>1. pc' = "start" /\ inHand' = <<>>
        BY <1>6 DEF goto, inHand
    <2>2. sync' = "start"
        BY <1>2, <2>1 DEF Meanings, SyncMeans
    <2>3. toNotify' = <<>> /\ Listening' = TRUE
        BY <1>6, <2>1, NewIsEmpty DEF Listening
    <2> QED BY <1>1, <1>4, <1>5, <2>2, <2>3 DEF Stream!Subscribe, Stream!counters
<1>7. CASE newSubscription(FALSE) /\ fail /\ UNCHANGED updates
    <2>1. pc' = "select"
        BY <1>7 DEF fail, goto
    <2>2. sync' = "idle"
        BY <1>1, <1>2, <1>3, <1>7, <2>1 DEF Meanings, SyncMeans, Idle
    <2>3. toNotify' = <<>> /\ ~Listening'
        BY <1>2, <2>2 DEF IdleMeans
    <2>4. Listening' = Listening
        BY <1>4, <2>3 DEF Listening
    <2> QED BY <1>1, <1>4, <1>5, <2>2, <2>3, <2>4 DEF Stutters
<1> QED BY <1>6, <1>7 DEF Subscribe

LEMMA ListIPv4Step ==
    ASSUME Link, Link', ListIPv4
    PROVE  Stream!ListIPv4 \/ Stream!ListFails
<1>1. UNCHANGED <<rib, view, update, changes, overflows>> /\ pc = "list" /\ ~Syncing
    BY DEF ListIPv4, Link, Inv, ReadsFrom
<1>2. Meanings /\ Meanings' /\ IdleMeans'
    BY MeaningsHold, MeaningsNext, IdleNext
<1>3. sync = "list4" /\ toDump = {} /\ Ahead = <<>>
    BY <1>1, <1>2 DEF Meanings, SyncMeans, toDump, Ahead
<1>4. CASE /\ injectRoutes({r \in rib : r.dst \notin Prefix6})
           /\ state' = "ipv4Routes" /\ succeed
           /\ UNCHANGED <<subscription, listErrors>>
    <2>1. sync' = "dump4" /\ pc' = "select" /\ Ahead' = <<>>
        BY <1>2, <1>4 DEF Meanings, SyncMeans, succeed, goto, Ahead
    <2>2. queued' = <<>> /\ left' = {r \in rib : r.dst \notin Prefix6}
        BY <1>4 DEF injectRoutes, NewChannel, queued
    <2>3. {queued'[i].route : i \in 1..Len(queued')} = {}
        BY <2>2
    <2>4. toDump' = {r \in rib : r.dst \notin Prefix6}
        BY <1>2, <2>1, <2>2, <2>3 DEF Meanings, DumpMeans, Dumping
    <2>5. UNCHANGED <<inReader, inSocket, Listening>>
        BY <1>4 DEF inReader, inSocket, Listening, subscription
    <2>6. toNotify' = toNotify
        BY <1>3, <1>4, <2>1, <2>5, NotifyIs, NotifyIsNext DEF subscription
    <2> QED BY <1>1, <1>3, <1>4, <2>1, <2>4, <2>5, <2>6 DEF Stream!ListIPv4, Stream!counters
<1>5. CASE /\ listErrors < MaxErrors /\ listErrors' = listErrors + 1
           /\ newSubscription(FALSE) /\ fail
           /\ UNCHANGED <<injectVars, updates, state>>
    <2>1. pc' = "select" /\ ~Syncing'
        BY <1>1, <1>5 DEF fail, goto, Syncing
    <2>2. updates # "live"
        BY <1>2, <1>3 DEF Meanings, SyncMeans
    <2>3. sync' = "idle"
        BY <1>2, <1>5, <2>1, <2>2 DEF Meanings, SyncMeans, Idle
    <2>4. Listening' = FALSE /\ toNotify' = <<>>
        BY <1>2, <2>3 DEF IdleMeans, Listening
    <2>5. toDump' = {}
        BY <2>1 DEF toDump
    <2> QED BY <1>1, <1>3, <1>5, <2>3, <2>4, <2>5 DEF Stream!ListFails, Stream!giveUp
<1> QED BY <1>4, <1>5 DEF ListIPv4

LEMMA ListIPv6Step ==
    ASSUME Link, Link', ListIPv6
    PROVE  Stream!ListIPv6 \/ Stutters
<1>1. /\ UNCHANGED <<rib, view, subscription, update, changes, overflows, listErrors>>
      /\ pc = "transition" /\ state = "ipv4Routes"
    BY DEF ListIPv6
<1>2. Meanings /\ Meanings'
    BY MeaningsHold, MeaningsNext
<1>3. updates \notin {"dump", "live"} /\ left = {} /\ queued = <<>>
    BY <1>1 DEF Link, Inv, NotYetSubscribed, CalledBy, InTransition, DumpOnce
<1>4. sync = "dump4" /\ toDump = {} /\ Ahead = <<>>
    <2>1. {queued[i].route : i \in 1..Len(queued)} = {}
        BY <1>3
    <2> QED BY <1>1, <1>2, <1>3, <2>1 DEF Meanings, SyncMeans, DumpMeans, Dumping, Ahead
<1>5. UNCHANGED <<inReader, inSocket, Listening>>
    BY <1>1 DEF inReader, inSocket, Listening, subscription
<1>6. ASSUME sync' # "updates" PROVE toNotify' = toNotify
    BY <1>1, <1>4, <1>5, <1>6, NotifyIs, NotifyIsNext DEF subscription, Ahead
<1>7. CASE injectRoutes({r \in rib : r.dst \in Prefix6}) /\ state' = "ipv6Routes" /\ succeed
    <2>1. sync' = "dump6" /\ pc' = "select"
        BY <1>2, <1>7 DEF Meanings, SyncMeans, succeed, goto
    <2>2. queued' = <<>> /\ left' = {r \in rib : r.dst \in Prefix6}
        BY <1>7 DEF injectRoutes, NewChannel, queued
    <2>3. {queued'[i].route : i \in 1..Len(queued')} = {}
        BY <2>2
    <2>4. toDump' = {r \in rib : r.dst \in Prefix6}
        BY <1>2, <2>1, <2>2, <2>3 DEF Meanings, DumpMeans, Dumping
    <2> QED BY <1>1, <1>4, <1>5, <1>6, <2>1, <2>4 DEF Stream!ListIPv6, Stream!counters
<1>8. CASE fail /\ UNCHANGED <<injectVars, state>>
    <2>1. sync' = "dump4" /\ pc' = "select"
        BY <1>1, <1>2, <1>8 DEF Meanings, SyncMeans, fail, goto
    <2>2. queued' = <<>> /\ left' = {}
        BY <1>3, <1>8 DEF injectVars, queued
    <2>3. {queued'[i].route : i \in 1..Len(queued')} = {}
        BY <2>2
    <2>4. toDump' = {}
        BY <1>2, <2>1, <2>2, <2>3 DEF Meanings, DumpMeans, Dumping
    <2> QED BY <1>1, <1>4, <1>5, <1>6, <2>1, <2>4 DEF Stutters
<1> QED BY <1>7, <1>8 DEF ListIPv6

(* Each call of the callback is one notification of the stream. *)
LEMMA NotifyFrame ==
    ASSUME Notify
    PROVE  /\ UNCHANGED <<rib, changes, overflows, listErrors, left, dumpUpdates>>
           /\ UNCHANGED <<liveUpdates, inReader, inSocket, Listening>>
           /\ pc' \in {"list", "select"} /\ inHand' = <<>> /\ Ahead' = <<>>
<1>1. UNCHANGED <<rib, subscription, injectVars, counters>> /\ pc' \in {"list", "select"}
    BY DEF Notify, goto, succeed
<1>2. inHand' = <<>>
    BY <1>1 DEF inHand
<1> QED BY <1>1, <1>2 DEF inReader, inSocket, Listening, subscription, injectVars, counters, Ahead

LEMMA NotifyMarkStep ==
    ASSUME Link, Link', Notify, pc \in {"start", "end"}
    PROVE  \E n \in Stream!Sendable : Stream!Send(n)
<1>1. Meanings /\ Meanings'
    BY MeaningsHold, MeaningsNext
<1>2. Ahead = <<>>
    BY DEF Ahead, inHand
<1>3. toNotify' = toNotify
    BY <1>2, NotifyFrame, NotifyIs, NotifyIsNext
<1>4. CASE pc = "start"
    <2>1. ~Syncing /\ state' = state /\ view' = {} /\ pc' = "list"
        BY <1>4 DEF Notify, goto, Link, Inv, ReadsFrom
    <2>2. sync = "start" /\ sync' = "list4"
        BY <1>1, <1>4, <2>1 DEF Meanings, SyncMeans
    <2>3. toDump = {} /\ toDump' = {}
        BY <2>1 DEF toDump, Syncing
    <2> DEFINE n == Stream!Mark("StartOfRIB")
    <2>4. Stream!next(n) /\ Stream!replay(n) = {}
        BY <1>3, <2>2, <2>3 DEF Stream!next, Stream!replay, Stream!Mark
    <2>5. Stream!Send(n)
        BY <2>1, <2>4, NotifyFrame DEF Stream!Send, Stream!counters
    <2>6. n \in Stream!Sendable
        BY DEF Stream!Sendable
    <2> QED BY <2>5, <2>6
<1>5. CASE pc = "end"
    <2>1. /\ state = "ipv6Routes" /\ state' = "updateRoutes" /\ view' = view
          /\ updates' = "live" /\ updates \notin {"dump", "live"}
        BY <1>5 DEF Notify, Link, Inv, ReadsFrom, NotYetSubscribed, CalledBy, InTransition
    <2>2. sync = "dump6" /\ sync' = "updates"
        BY <1>1, <2>1 DEF Meanings, SyncMeans
    <2>3. left = {} /\ queued = <<>>
        BY <2>1 DEF Link, DumpOnce
    <2>4. {queued[i].route : i \in 1..Len(queued)} = {}
        BY <2>3
    <2>5. toDump = {} /\ toDump' = {}
        BY <1>1, <1>5, <2>1, <2>3, <2>4 DEF Meanings, DumpMeans, Dumping, toDump, Syncing
    <2> DEFINE n == Stream!Mark("EndOfRIB")
    <2>6. Stream!next(n) /\ Stream!replay(n) = view
        BY <1>3, <2>2, <2>5 DEF Stream!next, Stream!replay, Stream!Mark
    <2>7. Stream!Send(n)
        BY <2>1, <2>6, NotifyFrame DEF Stream!Send, Stream!counters
    <2>8. n \in Stream!Sendable
        BY DEF Stream!Sendable
    <2> QED BY <2>7, <2>8
<1> QED BY <1>4, <1>5

LEMMA NotifyUpdateStep ==
    ASSUME Link, Link', Notify, pc = "update"
    PROVE  \E n \in Stream!Sendable : Stream!Send(n)
<1>1. Meanings /\ Meanings'
    BY MeaningsHold, MeaningsNext
<1>2. /\ UNCHANGED <<updates, state>> /\ update \in Events /\ pc' = "select"
      /\ view' = IF update.type = "NEWROUTE" THEN addCandidateRoute(view, update.route)
                 ELSE removeCandidateRoute(view, update.route)
    BY DEF Notify, goto, Link, DumpOnce
<1>3. sync' = sync
    BY <1>2 DEF sync, Syncing
<1>4. update.type \in {"NEWROUTE", "DELROUTE"}
    BY <1>2 DEF Events
<1>5. ASSUME NEW n, n.type = update.type, n.route = update.route
      PROVE  Stream!replay(n) = view'
    BY <1>2, <1>4, <1>5 DEF Stream!replay, addCandidateRoute, removeCandidateRoute, Slot,
       Stream!addCandidateRoute, Stream!removeCandidateRoute, Stream!Slot
<1>6. CASE updates = "dump"
    <2>1. /\ Syncing /\ update.type = "NEWROUTE" /\ update.route \notin left
          /\ \A i \in 1..Len(queued) : queued[i].route # update.route
        BY <1>6 DEF Link, Inv, ReadsFrom, DumpOnce
    <2>2. sync \in {"dump4", "dump6"} /\ Ahead = <<>>
        BY <1>1, <2>1 DEF Meanings, SyncMeans, Syncing, Ahead
    <2>3. toNotify' = toNotify
        BY <2>2, NotifyFrame, NotifyIs, NotifyIsNext
    <2>4. Dumping = left \cup {queued[i].route : i \in 1..Len(queued)} \cup {update.route}
        BY <1>6 DEF Dumping
    <2>5. Dumping' = left \cup {queued[i].route : i \in 1..Len(queued)}
        <3>1. queued' = queued /\ left' = left
            BY NotifyFrame DEF queued
        <3> QED BY <1>2, <3>1 DEF Dumping
    <2>6. update.route \notin left \cup {queued[i].route : i \in 1..Len(queued)}
        BY <2>1
    <2>7. update.route \in toDump /\ toDump' = toDump \ {update.route}
        BY <1>1, <2>4, <2>5, <2>6 DEF Meanings, DumpMeans
    <2> DEFINE n == Stream!Update("NEWROUTE", update.route)
    <2>8. n.type = update.type /\ n.route = update.route
        BY <2>1 DEF Stream!Update
    <2>9. Stream!next(n)
        BY <1>3, <2>2, <2>3, <2>7 DEF Stream!next
    <2>10. Stream!Send(n)
        BY <1>5, <2>8, <2>9, NotifyFrame DEF Stream!Send, Stream!counters
    <2>11. n \in Stream!Sendable
        BY <2>7 DEF Stream!Sendable
    <2> QED BY <2>10, <2>11
<1>7. CASE updates = "live"
    <2>1. ~Syncing /\ ~Syncing'
        BY <1>2, <1>7 DEF Link, Inv, ReadsFrom, Syncing
    <2>2. sync = "updates" /\ Ahead = <<update>>
        BY <1>1, <1>7 DEF Meanings, SyncMeans, Ahead, inHand
    <2>3. toDump = {} /\ toDump' = {}
        BY <2>1 DEF toDump
    <2>4. toNotify # <<>> /\ Head(toNotify) = update /\ Tail(toNotify) = toNotify'
        <3> DEFINE Before(first, l, r, k) == ((first \o l) \o r) \o k
        <3>1. toNotify = Before(<<update>>, liveUpdates.queue, inReader, inSocket)
            BY <2>2, NotifyIs
        <3>2. toNotify' = Before(<<>>, liveUpdates.queue, inReader, inSocket)
            BY NotifyFrame, NotifyIsNext
        <3>3. /\ liveUpdates.queue \in Seq(Events) /\ inReader \in Seq(Events)
              /\ inSocket \in Seq(Events)
            BY HeldTypes
        <3>4. update \in Events
            BY <1>2
        <3>5. ASSUME NEW e \in Events, NEW l \in Seq(Events), NEW r \in Seq(Events),
                     NEW k \in Seq(Events)
              PROVE  /\ Before(<<e>>, l, r, k) # <<>>
                     /\ Head(Before(<<e>>, l, r, k)) = e
                     /\ Tail(Before(<<e>>, l, r, k)) = Before(<<>>, l, r, k)
            BY FirstLeaves
        <3> HIDE DEF Before
        <3> DEFINE read == liveUpdates.queue
        <3>6. read \in Seq(Events)
            BY <3>3
        <3> HIDE DEF read
        <3>7. /\ Before(<<update>>, read, inReader, inSocket) # <<>>
              /\ Head(Before(<<update>>, read, inReader, inSocket)) = update
              /\ Tail(Before(<<update>>, read, inReader, inSocket))
                    = Before(<<>>, read, inReader, inSocket)
            BY <3>3, <3>4, <3>5, <3>6, ZenonT(30)
        <3>8. /\ toNotify = Before(<<update>>, read, inReader, inSocket)
              /\ toNotify' = Before(<<>>, read, inReader, inSocket)
            BY <3>1, <3>2 DEF read
        <3> QED BY <3>7, <3>8, Zenon
    <2>5. Stream!next(update)
        BY <1>3, <2>2, <2>3, <2>4 DEF Stream!next
    <2>6. Stream!Send(update)
        BY <1>5, <2>5, NotifyFrame DEF Stream!Send, Stream!counters
    <2>7. update \in Stream!Sendable
        <3>1. toNotify \in Seq(Events)
            BY AheadTypes
        <3>2. 1 \in 1..Len(toNotify) /\ toNotify[1] = update
            BY <2>4, <3>1, EmptySeq, LenProperties
        <3> QED BY <3>2 DEF Stream!Sendable
    <2> QED BY <2>6, <2>7
<1> QED BY <1>6, <1>7 DEF Link, Inv, ReadsFrom

-----------------------------------------------------------------------------
(* Every step of the component is one of the stream, or none. *)
LEMMA StreamStep ==
    Link /\ Link' /\ [Next]_vars => [Stream!Next]_(Stream!vars)
<1> SUFFICES ASSUME Link, Link', [Next]_vars PROVE Stream!Next \/ UNCHANGED Stream!vars
    OBVIOUS
<1>1. ASSUME Stutters PROVE UNCHANGED Stream!vars
    BY <1>1 DEF Stutters, Stream!vars, Stream!counters
<1>2. CASE \E r \in External, type \in {"NEWROUTE", "DELROUTE"} : KernelChange(type, r)
    BY <1>2, KernelStep DEF Stream!Next, Stream!Kernel
<1>3. CASE SocketOverflows \/ ReaderReceives \/ ReaderSends \/ ReaderEnds
    BY <1>1, <1>3, LibrarySteps DEF Stream!Next, Stream!Kernel
<1>4. CASE InjectorSends \/ InjectorEnds
    BY <1>1, <1>4, InjectorSteps
<1>5. CASE \/ TransitionTicks \/ Subscribed \/ EndRIB \/ Dies
           \/ CureTicks \/ SubscriberComes \/ Stop
    BY <1>1, <1>5, OtherSteps
<1>6. CASE Updates
    BY <1>1, <1>6, UpdatesStep DEF Stream!Next
<1>7. CASE Subscribe
    BY <1>1, <1>7, SubscribeStep DEF Stream!Next
<1>8. CASE ListIPv4
    BY <1>8, ListIPv4Step DEF Stream!Next
<1>9. CASE ListIPv6
    BY <1>1, <1>9, ListIPv6Step DEF Stream!Next
<1>10. CASE Notify
    <2>1. pc \in {"start", "end", "update"}
        BY <1>10 DEF Notify
    <2> QED BY <1>10, <2>1, NotifyMarkStep, NotifyUpdateStep DEF Stream!Next
<1>11. CASE UNCHANGED vars
    <2>1. UNCHANGED <<rib, view, subscription, injectVars, counters, updates, state, pc, update>>
        BY <1>11 DEF vars, outside, fsmVars
    <2>2. sync' = sync /\ toDump' = toDump /\ Ahead' = Ahead
        BY <2>1, MachineStays
    <2>3. UNCHANGED <<inReader, inSocket, Listening, liveUpdates>>
        BY <2>1 DEF inReader, inSocket, Listening, subscription
    <2>4. toNotify' = toNotify
        BY <2>2, <2>3, NotifyIs, NotifyIsNext
    <2> QED BY <1>1, <2>1, <2>2, <2>3, <2>4 DEF Stutters, counters
<1> QED BY <1>2, <1>3, <1>4, <1>5, <1>6, <1>7, <1>8, <1>9, <1>10, <1>11 DEF Next, Run

LEMMA StreamInit == Init => Stream!Init
<1> SUFFICES ASSUME Init PROVE Stream!Init
    OBVIOUS
<1>1. Link
    BY InitLink
<1>2. sync = "idle" /\ toDump = {}
    BY DEF Init, sync, toDump, Syncing
<1>3. toNotify = <<>> /\ Listening = FALSE
    BY <1>1, <1>2, IdleHolds DEF IdleMeans, Listening
<1> QED BY <1>2, <1>3 DEF Init, Stream!Init

LEMMA LinkHolds == Spec => []Link
BY InitLink, NextLink, PTL DEF Spec

(* The state machine, its two channels, the goroutine of injectRoutes and  *)
(* the library's reader, with every failure of a subscription or of a      *)
(* listing, give their subscriber what RibStream says (netlink/root.go,    *)
(* netlink/observer.go).                                                   *)
THEOREM ComponentImplementsStream == Spec => ImplementsRibStream
BY LinkHolds, StreamInit, StreamStep, PTL DEF Spec, ImplementsRibStream, Stream!Spec

-----------------------------------------------------------------------------
(* The theorems about the stream, whose operators are these. *)
LEMMA PromiseRoutes == Promise!NilValues
BY NilValues DEF Promise!NilValues, Promise!Route, Route

LEMMA PromiseTables == Promise!Tables
<1>1. Promise!Route = Route
    BY DEF Promise!Route, Route
<1>2. \A r : Promise!Slot(r) = Slot(r)
    BY DEF Promise!Slot, Slot
<1> QED BY <1>1, <1>2, RibType, SlotType, BoundType DEF Promise!Tables, Promise!OnePerSlot

LEMMA PromiseInit == Stream!Init <=> Promise!Init
BY DEF Stream!Init, Promise!Init

LEMMA PromiseVars == (UNCHANGED Stream!vars) <=> (UNCHANGED Promise!vars)
BY DEF Stream!vars, Promise!vars, Stream!counters, Promise!counters

LEMMA PromiseKernel == Stream!Kernel <=> Promise!Kernel
BY DEF Stream!Kernel, Promise!Kernel, Stream!KernelReplace, Promise!KernelReplace,
   Stream!KernelDelete, Promise!KernelDelete, Stream!Overflow, Promise!Overflow,
   Stream!write, Promise!write, Stream!report, Promise!report, Stream!Update, Promise!Update,
   Stream!addCandidateRoute, Promise!addCandidateRoute, Stream!Slot, Promise!Slot,
   Stream!removeCandidateRoute, Promise!removeCandidateRoute

LEMMA PromiseLists ==
    (Stream!Subscribe \/ Stream!ListIPv4 \/ Stream!ListIPv6 \/ Stream!ListFails \/ Stream!Resync)
    <=> (Promise!Subscribe \/ Promise!ListIPv4 \/ Promise!ListIPv6 \/ Promise!ListFails
         \/ Promise!Resync)
BY DEF Stream!Subscribe, Promise!Subscribe, Stream!ListIPv4, Promise!ListIPv4,
   Stream!ListIPv6, Promise!ListIPv6, Stream!ListFails, Promise!ListFails,
   Stream!Resync, Promise!Resync, Stream!giveUp, Promise!giveUp,
   Stream!counters, Promise!counters

LEMMA PromiseSends ==
    (\E n \in Stream!Sendable : Stream!Send(n)) <=> (\E n \in Promise!Sendable : Promise!Send(n))
BY DEF Stream!Sendable, Promise!Sendable, Stream!Send, Promise!Send, Stream!next, Promise!next,
   Stream!replay, Promise!replay, Stream!Mark, Promise!Mark, Stream!Update, Promise!Update,
   Stream!addCandidateRoute, Promise!addCandidateRoute, Stream!Slot, Promise!Slot,
   Stream!removeCandidateRoute, Promise!removeCandidateRoute, Stream!counters, Promise!counters

LEMMA PromiseSpec == Stream!Spec => Promise!Spec
<1>1. [Stream!Next]_(Stream!vars) => [Promise!Next]_(Promise!vars)
    BY PromiseVars, PromiseKernel, PromiseLists, PromiseSends DEF Stream!Next, Promise!Next
<1> QED BY <1>1, PromiseInit, PTL DEF Stream!Spec, Promise!Spec

(* A subscriber that was sent everything holds exactly the kernel's        *)
(* routes, however the dump and the live updates overlap and however often *)
(* the subscription broke (netlink/root.go: the subscription comes before  *)
(* the dumps, and its updates are notified after them).                    *)
THEOREM SubscriberHoldsTheRib == Spec => []ViewIsRib
<1>1. Promise!ViewIsRib => ViewIsRib
    BY DEF Promise!ViewIsRib, ViewIsRib, Stream!ViewIsRib, Promise!CaughtUp, Stream!CaughtUp
<1>2. Spec => []Promise!ViewIsRib
    BY ComponentImplementsStream, PromiseSpec, PromiseRoutes, PromiseTables,
       Promise!StreamIsFaithful, PTL DEF ImplementsRibStream
<1> QED BY <1>1, <1>2, PTL

(* Between the socket and the callback no update is lost, repeated or out  *)
(* of order: replaying those on their way leads to the kernel's routes     *)
(* (netlink/root.go, run; netlink/observer.go).                            *)
THEOREM NoUpdateIsLost == Spec => []NothingIsLost
<1>1. Promise!NothingIsLost => NothingIsLost
    BY DEF Promise!NothingIsLost, NothingIsLost, Stream!NothingIsLost,
       Promise!Pending, Stream!Pending,
       Stream!addCandidateRoute, Promise!addCandidateRoute, Stream!Slot, Promise!Slot,
       Stream!removeCandidateRoute, Promise!removeCandidateRoute
<1>2. Spec => []Promise!NothingIsLost
    BY ComponentImplementsStream, PromiseSpec, PromiseRoutes, PromiseTables,
       Promise!StreamLosesNothing, PTL DEF ImplementsRibStream
<1> QED BY <1>1, <1>2, PTL
=============================================================================
