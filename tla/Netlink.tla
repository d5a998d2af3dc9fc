------------------------------- MODULE Netlink -------------------------------
(***************************************************************************)
(* The netlink component, src/netlink/root.go and observer.go: run() and   *)
(* transition(), the goroutine of injectRoutes and the two channels; and,  *)
(* external, the library's goroutine that reads the subscription's socket  *)
(* and the kernel that fills it.  It implements RibStream.                 *)
(*                                                                         *)
(* run() leaves its select for transition() and for the callback of the    *)
(* subscriber, which may block: pc says where it is.                       *)
(***************************************************************************)
EXTENDS Routes, Sequences, SequencesExt

CONSTANTS
    Prefix6, InitialRib, External, MaxChanges,   \* see RibStream
    ChannelSize,    \* config.ChannelSize, 0 (a rendez-vous) is not modelled
    SocketSize,     \* events that the socket's receive buffer holds
    MaxOverflows,   \* bound on the subscriptions that break
    MaxErrors       \* bound on the subscriptions and listings that fail

VARIABLES
    rib, changes, overflows, listErrors, view,   \* see RibStream
    sock,         \* the socket's receive buffer
    overflowed,   \* an event did not fit: the next read returns ENOBUFS
    reading,      \* the library's goroutine is there
    held,         \* the event it has read and not sent yet
    liveUpdates,  \* c.liveUpdates, a channel
    injecting,    \* the goroutine of injectRoutes is there
    left,         \* the routes it has still to send
    dumpUpdates,  \* the channel it sends them to
    updates,      \* c.updates: "nil", "dump", "live", or "new" (no sender)
    state,        \* c.state
    subscribed,   \* c.subscribed: "open", "closed", or "nil" once used
    pc,           \* where run() is
    caller,       \* the case of run() that called transition()
    update,       \* the update being notified
    transitionTick,   \* the retry ticker is armed
    cureTick,     \* the cure timer is armed
    dying,        \* the tomb is dying
    errors        \* counter of the other errors

ASSUME SizeType == ChannelSize \in Nat \ {0} /\ SocketSize \in Nat
ASSUME BoundType == {MaxChanges, MaxOverflows, MaxErrors} \subseteq Nat
ASSUME RibType == InitialRib \subseteq SUBSET Route /\ External \subseteq Route
ASSUME FamilyType == Prefix6 \subseteq Prefix
(* A table has one route per slot, whatever it holds at the start. *)
ASSUME SlotType ==
    \A routes \in InitialRib : \A r, q \in routes : Slot(r) = Slot(q) => r = q

subscription == <<sock, overflowed, reading, held, liveUpdates>>
injectVars == <<injecting, left, dumpUpdates>>
retryVars == <<transitionTick, cureTick>>
fsmVars == <<updates, state, subscribed, pc, caller, update, retryVars>>
counters == <<changes, overflows, listErrors, errors>>
\* all that run() leaves alone, except in transition()
outside == <<rib, view, subscription, injectVars, counters, dying>>
vars == <<outside, fsmVars>>

Event(type, r) == [type |-> type, route |-> r]
NoUpdate == Event("EndOfRIB", NoRoute)
Events == [type : {"NEWROUTE", "DELROUTE"}, route : Route]

(* A channel of updates, closed by its sender. *)
NewChannel == [queue |-> <<>>, closed |-> FALSE]
(* Mutant: off by one. *)
Overfull(channel) == Len(channel.queue) > ChannelSize
Full(channel) == Len(channel.queue) >= ChannelSize
Channel == [queue : Seq(Events), closed : BOOLEAN]

TypeOK ==
    /\ {rib, view, left} \subseteq SUBSET Route
    /\ sock \in Seq(Events) /\ Len(sock) <= SocketSize
    /\ \A channel \in {liveUpdates, dumpUpdates} :
          channel \in Channel /\ Len(channel.queue) <= ChannelSize
    /\ {held, update} \subseteq Events \cup {NoUpdate}
    /\ {overflowed, reading, injecting, transitionTick, cureTick, dying} \subseteq BOOLEAN
    /\ updates \in {"nil", "dump", "live", "new"}
    /\ state \in {"idle", "ipv4Routes", "ipv6Routes", "updateRoutes"}
    /\ subscribed \in {"open", "closed", "nil"}
    /\ pc \in {"select", "transition", "start", "list", "end", "update", "done"}
    /\ caller \in {"tick", "subscribed", "updates"}
    /\ {changes, overflows, listErrors, errors} \subseteq Nat

Init ==
    /\ rib \in InitialRib /\ view = {} /\ left = {}
    /\ sock = <<>> /\ liveUpdates = NewChannel /\ dumpUpdates = NewChannel
    /\ held = NoUpdate /\ update = NoUpdate
    /\ overflowed = FALSE /\ reading = FALSE /\ injecting = FALSE
    /\ transitionTick = FALSE /\ cureTick = FALSE /\ dying = FALSE
    /\ updates = "nil" /\ state = "idle" /\ subscribed = "open"
    /\ pc = "select" /\ caller = "subscribed"
    /\ changes = 0 /\ overflows = 0 /\ listErrors = 0 /\ errors = 0

-----------------------------------------------------------------------------
(* External: the kernel and the library's goroutine. *)

Listening == reading /\ ~overflowed

(* The kernel queues an event for the socket, unless there is none, or it  *)
(* has lost some already.                                                  *)
report(event) ==
    \/ ~Listening /\ UNCHANGED sock
    \/ Listening /\ Len(sock) < SocketSize /\ sock' = Append(sock, event)

(* An event does not fit: it is lost, as all the next ones will be. *)
SocketOverflows ==
    /\ Listening
    /\ Len(sock) = SocketSize
    /\ overflows < MaxOverflows
    /\ overflows' = overflows + 1
    /\ overflowed' = TRUE
    /\ UNCHANGED <<rib, view, sock, reading, held, liveUpdates, injectVars,
                   fsmVars, changes, listErrors, errors, dying>>

(* A change of the tables, by this program's AddRoute or by anyone else. *)
KernelChange(type, r) ==
    /\ changes < MaxChanges
    /\ changes' = changes + 1
    /\ \/ type = "NEWROUTE" /\ rib' = addCandidateRoute(rib, r)
       \/ type = "DELROUTE" /\ r \in rib /\ rib' = removeCandidateRoute(rib, r)
    /\ report(Event(type, r))
    /\ UNCHANGED <<view, overflowed, reading, held, liveUpdates, injectVars,
                   fsmVars, overflows, listErrors, errors, dying>>

ReaderReceives ==
    /\ Listening
    /\ held = NoUpdate
    /\ sock # <<>>
    /\ held' = Head(sock)
    /\ sock' = Tail(sock)
    /\ UNCHANGED <<rib, view, overflowed, reading, liveUpdates, injectVars,
                   fsmVars, counters, dying>>

(* The reader never gives up a send. *)
ReaderSends ==
    /\ held # NoUpdate
    /\ ~Full(liveUpdates)
    /\ liveUpdates' = [liveUpdates EXCEPT !.queue = Append(@, held)]
    /\ held' = NoUpdate
    /\ UNCHANGED <<rib, view, sock, overflowed, reading, injectVars, fsmVars,
                   counters, dying>>

(* The read fails, with ENOBUFS or for another reason, whatever the buffer *)
(* still holds: the channel is closed and the goroutine ends.              *)
ReaderEnds ==
    /\ reading
    /\ held = NoUpdate
    /\ \/ overflowed /\ UNCHANGED overflows
       \/ ~overflowed /\ overflows < MaxOverflows /\ overflows' = overflows + 1
    /\ reading' = FALSE
    /\ sock' = <<>>
    /\ liveUpdates' = [liveUpdates EXCEPT !.closed = TRUE]
    /\ UNCHANGED <<rib, view, overflowed, held, injectVars, fsmVars, changes,
                   listErrors, errors, dying>>

-----------------------------------------------------------------------------
(* The goroutine of injectRoutes. *)

InjectorSends ==
    /\ injecting
    /\ ~Full(dumpUpdates)
    /\ \E r \in left :
          /\ dumpUpdates' = [dumpUpdates EXCEPT
                                !.queue = Append(@, Event("NEWROUTE", r))]
          /\ left' = left \ {r}
    /\ UNCHANGED <<rib, view, subscription, injecting, fsmVars, counters, dying>>

(* Mutant: the goroutine is not told of a stop. *)
InjectorEndsOnly ==
    /\ injecting
    /\ left = {} /\ dumpUpdates' = [dumpUpdates EXCEPT !.closed = TRUE]
    /\ injecting' = FALSE
    /\ UNCHANGED <<rib, view, subscription, left, fsmVars, counters, dying>>

(* It closes the channel when everything is sent, not when it is stopped. *)
InjectorEnds ==
    /\ injecting
    /\ \/ left = {} /\ dumpUpdates' = [dumpUpdates EXCEPT !.closed = TRUE]
       \/ left # {} /\ dying /\ UNCHANGED dumpUpdates
    /\ injecting' = FALSE
    /\ UNCHANGED <<rib, view, subscription, left, fsmVars, counters, dying>>

injectRoutes(routes) ==
    /\ injecting' = TRUE
    /\ left' = routes
    /\ dumpUpdates' = NewChannel
    /\ updates' = "dump"

-----------------------------------------------------------------------------
(* The cases of the select of run(). *)

goto(label) == pc' = label /\ UNCHANGED caller

call(by) == pc' = "transition" /\ caller' = by

(* The ticker and the cure timer are created unless they are there. *)
armTransition ==
    /\ transitionTick' = TRUE
    /\ cureTick' = TRUE

TransitionTicks ==
    /\ pc = "select" /\ transitionTick
    /\ call("tick")
    /\ UNCHANGED <<outside, updates, state, subscribed, update, retryVars>>

CureTicks ==
    /\ pc = "select" /\ cureTick
    /\ cureTick' = FALSE
    /\ UNCHANGED <<outside, updates, state, subscribed, pc, caller, update,
                   transitionTick>>

Subscribed ==
    /\ pc = "select" /\ subscribed = "closed"
    /\ call("subscribed")
    /\ UNCHANGED <<outside, updates, state, subscribed, update, retryVars>>

receive(channel) ==
    /\ channel.queue # <<>>
    /\ update' = Head(channel.queue)
    /\ goto("update")
    /\ UNCHANGED <<updates, retryVars>>

(* Mutant: a broken subscription is not retried. *)
receiveClosedForgets(channel) ==
    /\ channel.queue = <<>> /\ channel.closed
    /\ updates' = "nil"
    /\ \/ state = "updateRoutes" /\ UNCHANGED <<pc, caller>>
       \/ state # "updateRoutes" /\ call("updates")
    /\ UNCHANGED <<update, retryVars>>

(* A closed channel shows as an update without a table. *)
receiveClosed(channel) ==
    /\ channel.queue = <<>> /\ channel.closed
    /\ updates' = "nil"
    /\ \/ /\ state = "updateRoutes"
          /\ armTransition
          /\ UNCHANGED <<pc, caller>>
       \/ /\ state # "updateRoutes"
          /\ call("updates")
          /\ UNCHANGED retryVars
    /\ UNCHANGED update

(* Mutant: the select takes the live updates during the dump too. *)
UpdatesUnordered ==
    /\ pc = "select"
    /\ \/ /\ updates = "dump"
          /\ receive(dumpUpdates) \/ receiveClosed(dumpUpdates)
          /\ dumpUpdates' = [dumpUpdates EXCEPT !.queue = SubSeq(@, 2, Len(@))]
          /\ UNCHANGED liveUpdates
       \/ /\ updates \in {"dump", "live"}
          /\ receive(liveUpdates)
          /\ liveUpdates' = [liveUpdates EXCEPT !.queue = SubSeq(@, 2, Len(@))]
          /\ UNCHANGED dumpUpdates
    /\ UNCHANGED <<rib, view, sock, overflowed, reading, held, injecting, left,
                   state, subscribed, counters, dying>>

Updates ==
    /\ pc = "select"
    /\ \/ /\ updates = "dump"
          /\ receive(dumpUpdates) \/ receiveClosed(dumpUpdates)
          /\ dumpUpdates' = [dumpUpdates EXCEPT !.queue = SubSeq(@, 2, Len(@))]
          /\ UNCHANGED liveUpdates
       \/ /\ updates = "live"
          /\ receive(liveUpdates) \/ receiveClosed(liveUpdates)
          /\ liveUpdates' = [liveUpdates EXCEPT !.queue = SubSeq(@, 2, Len(@))]
          /\ UNCHANGED dumpUpdates
    /\ UNCHANGED <<rib, view, sock, overflowed, reading, held, injecting, left,
                   state, subscribed, counters, dying>>

Dies ==
    /\ pc = "select" /\ dying
    /\ goto("done")
    /\ UNCHANGED <<outside, updates, state, subscribed, update, retryVars>>

-----------------------------------------------------------------------------
(* transition().  It ends back in the case that called it. *)

(* Mutant: the ticker that led here goes on. *)
succeedTicking ==
    /\ goto("select")
    /\ subscribed' = IF caller = "subscribed" THEN "nil" ELSE subscribed
    /\ UNCHANGED retryVars

succeed ==
    /\ goto("select")
    /\ transitionTick' = (transitionTick /\ caller # "tick")
    /\ subscribed' = IF caller = "subscribed" THEN "nil" ELSE subscribed
    /\ UNCHANGED cureTick

fail ==
    /\ goto("select")
    /\ \/ caller = "updates" /\ armTransition
       \/ caller # "updates" /\ UNCHANGED retryVars
    /\ UNCHANGED subscribed

(* A subscription replaced or given up is left as it is, with its socket   *)
(* and its goroutine; nobody reads its channel: it is not followed further. *)
newSubscription(on) ==
    /\ sock' = <<>> /\ overflowed' = FALSE
    /\ held' = NoUpdate /\ liveUpdates' = NewChannel
    /\ reading' = on

(* Mutant: the subscriber is not told to start over. *)
SubscribeSilently ==
    /\ pc = "transition" /\ state \in {"idle", "updateRoutes"}
    /\ newSubscription(TRUE)
    /\ updates' = "new"
    /\ goto("list")
    /\ UNCHANGED <<rib, view, injectVars, state, update, subscribed, retryVars,
                   counters, dying>>

(* The subscription comes before the listing. *)
Subscribe ==
    /\ pc = "transition" /\ state \in {"idle", "updateRoutes"}
    /\ \/ /\ newSubscription(TRUE)
          /\ updates' = "new"
          /\ goto("start")
          /\ UNCHANGED <<subscribed, retryVars, errors>>
       \/ /\ errors < MaxErrors
          /\ errors' = errors + 1
          /\ newSubscription(FALSE)
          /\ fail
          /\ UNCHANGED updates
    /\ UNCHANGED <<rib, view, injectVars, state, update, changes, overflows,
                   listErrors, dying>>

ListIPv4 ==
    /\ pc = "list"
    /\ \/ /\ injectRoutes({r \in rib : r.dst \notin Prefix6})
          /\ state' = "ipv4Routes"
          /\ succeed
          /\ UNCHANGED <<subscription, listErrors>>
       \/ /\ listErrors < MaxErrors
          /\ listErrors' = listErrors + 1
          /\ newSubscription(FALSE)
          /\ fail
          /\ UNCHANGED <<injectVars, updates, state>>
    /\ UNCHANGED <<rib, view, update, changes, overflows, errors, dying>>

(* Mutant: the live updates received during the first half are dropped. *)
ListIPv6Drains ==
    /\ pc = "transition" /\ state = "ipv4Routes"
    /\ injectRoutes({r \in rib : r.dst \in Prefix6})
    /\ state' = "ipv6Routes"
    /\ succeed
    /\ liveUpdates' = [liveUpdates EXCEPT !.queue = <<>>]
    /\ UNCHANGED <<rib, view, sock, overflowed, reading, held, update, counters, dying>>

ListIPv6 ==
    /\ pc = "transition" /\ state = "ipv4Routes"
    /\ \/ /\ injectRoutes({r \in rib : r.dst \in Prefix6})
          /\ state' = "ipv6Routes"
          /\ succeed
          /\ UNCHANGED errors
       \/ /\ errors < MaxErrors
          /\ errors' = errors + 1
          /\ updates' = "new"
          /\ fail
          /\ UNCHANGED <<injectVars, state>>
    /\ UNCHANGED <<rib, view, subscription, update, changes, overflows,
                   listErrors, dying>>

EndRIB ==
    /\ pc = "transition" /\ state = "ipv6Routes"
    /\ goto("end")
    /\ UNCHANGED <<outside, updates, state, subscribed, update, retryVars>>

(* notify: the callback returns, the subscriber has the notification. *)
Notify ==
    /\ \/ /\ pc = "start" /\ view' = {}
          /\ goto("list")
          /\ UNCHANGED <<updates, state, update, subscribed, retryVars>>
       \/ /\ pc = "end" /\ UNCHANGED view
          /\ updates' = "live"
          /\ state' = "updateRoutes"
          /\ succeed
          /\ UNCHANGED update
       \/ /\ pc = "update"
          /\ view' = IF update.type = "NEWROUTE"
                     THEN addCandidateRoute(view, update.route)
                     ELSE removeCandidateRoute(view, update.route)
          /\ update' = NoUpdate
          /\ goto("select")
          /\ UNCHANGED <<updates, state, subscribed, retryVars>>
    /\ UNCHANGED <<rib, subscription, injectVars, counters, dying>>

-----------------------------------------------------------------------------
(* Called by the other components: Component.Subscribe and Stop. *)
SubscriberComes ==
    /\ subscribed = "open"
    /\ subscribed' = "closed"
    /\ UNCHANGED <<outside, updates, state, pc, caller, update, retryVars>>

Stop ==
    /\ ~dying
    /\ dying' = TRUE
    /\ UNCHANGED <<rib, view, subscription, injectVars, counters, fsmVars>>

Run == TransitionTicks \/ Subscribed \/ Updates \/ Subscribe \/ ListIPv4
       \/ ListIPv6 \/ EndRIB \/ Notify

Next ==
    \/ \E r \in External, type \in {"NEWROUTE", "DELROUTE"} : KernelChange(type, r)
    \/ SocketOverflows
    \/ ReaderReceives
    \/ ReaderSends
    \/ ReaderEnds
    \/ InjectorSends
    \/ InjectorEnds
    \/ Run
    \/ CureTicks
    \/ Dies
    \/ SubscriberComes
    \/ Stop

Spec == Init /\ [][Next]_vars

(* The goroutines go on when they can, the callback returns, the retry     *)
(* ticker ticks, a subscriber comes.                                       *)
FairSpec ==
    /\ Spec
    /\ WF_vars(Run) /\ WF_vars(Dies) /\ WF_vars(SubscriberComes)
    /\ WF_vars(InjectorSends) /\ WF_vars(InjectorEnds)
    /\ WF_vars(ReaderReceives) /\ WF_vars(ReaderSends)
    /\ WF_vars(overflowed /\ ReaderEnds)
-----------------------------------------------------------------------------
(* The component keeps the promise of RibStream: the two channels, the     *)
(* reader, the socket and the update in hand are one stream of events,     *)
(* which a broken subscription cuts after what was already read.           *)
Syncing == state \in {"ipv4Routes", "ipv6Routes"}
sync ==
    CASE state = "ipv4Routes" -> "dump4"
      [] state = "ipv6Routes" -> "dump6"
      [] ~Syncing /\ pc = "start" -> "start"
      [] ~Syncing /\ pc = "list"  -> "list4"
      [] state = "updateRoutes" /\ updates = "live" -> "updates"
      [] OTHER -> "idle"
inHand == IF pc = "update" THEN <<update>> ELSE <<>>
inReader == IF held = NoUpdate THEN <<>> ELSE <<held>>

inSocket == IF overflowed THEN <<>> ELSE sock
toNotify == (IF sync = "updates" THEN inHand ELSE <<>>)
            \o liveUpdates.queue \o inReader \o inSocket
toDump == IF Syncing
          THEN left \cup {e.route : e \in ToSet(dumpUpdates.queue)}
                    \cup {e.route : e \in ToSet(inHand)}
          ELSE {}

Stream == INSTANCE RibStream WITH
    MaxListErrors <- MaxErrors,
    listening <- Listening,
    live <- toNotify,
    dump <- toDump

ImplementsRibStream == Stream!Spec

(* A subscriber that has been sent everything holds exactly the routes of  *)
(* the kernel, although the dump and the live updates overlap and although *)
(* a subscription may break at any time, during a dump too.                *)
ViewIsRib == Stream!ViewIsRib

(* As long as the subscription is not broken, what is left in the socket,  *)
(* the reader and the channel leads the subscriber to the kernel's routes. *)
NothingIsLost == Stream!NothingIsLost

(* Whatever breaks and however often, once the kernel is left in peace the *)
(* subscriber ends up with the kernel's routes and stays there, unless the *)
(* component is stopped.                                                   *)
EventuallyInSync == <>[](dying \/ (Stream!CaughtUp /\ view = rib))

(* c.updates is shared without a lock by run() and the goroutine of        *)
(* injectRoutes: run() never replaces it while the goroutine may still     *)
(* send to it or close it, and no retry may come in between.               *)
InjectorOwnsUpdates ==
    injecting => /\ updates = "dump" /\ ~transitionTick
                 /\ Syncing /\ pc \in {"select", "update", "done"}

(* The state machine is never stuck: unless it waits for its subscriber,   *)
(* for a goroutine that is there, or was stopped, something will call      *)
(* transition() again.                                                     *)
SomethingWillComeNext ==
    pc = "select" =>
        \/ dying
        \/ subscribed # "nil"
        \/ transitionTick
        \/ updates = "dump" /\ (injecting \/ dumpUpdates.closed)
        \/ updates = "live" /\ (reading \/ liveUpdates.closed)

(* Stop() comes to its end: run() and the goroutine it has spawned both    *)
(* leave, from anywhere in a dump or a retry.                              *)
StopEnds == dying ~> (pc = "done" /\ ~injecting)
=============================================================================
