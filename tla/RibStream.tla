------------------------------ MODULE RibStream ------------------------------
(***************************************************************************)
(* What the netlink component (src/netlink) promises its subscriber, with  *)
(* the kernel behind it: a stream of notifications that starts with a dump *)
(* of the routes, goes on with their changes in order, and starts over     *)
(* when the kernel has dropped some because the receiver was too slow.     *)
(*                                                                         *)
(* The kernel and the netlink library are external: they are modelled from *)
(* what the component asks of them.  Channels and goroutines are left out. *)
(***************************************************************************)
EXTENDS Routes, Sequences

CONSTANTS
    Prefix6,       \* the prefixes of the IPv6 family, the others are IPv4
    InitialRib,    \* the contents the kernel's tables may start with
    External,      \* the routes that the rest of the system adds or removes
    MaxChanges,    \* bound on those changes
    MaxOverflows,  \* bound on the losses of the subscription
    MaxListErrors  \* bound on the failures to list the routes

VARIABLES
    rib,         \* the kernel's routes, one per slot
    listening,   \* the subscription receives the kernel's events
    live,        \* the events received and not sent yet
    sync,        \* where the stream is
    dump,        \* routes of the last listing that are still to be sent
    view,        \* history: what replaying the notifications sent gives
    changes, overflows, listErrors   \* counters of the bounded events

counters == <<changes, overflows, listErrors>>
vars == <<rib, listening, live, sync, dump, view, counters>>

Update(type, r) == [type |-> type, route |-> r]
Mark(type) == [type |-> type, route |-> NoRoute]

TypeOK ==
    /\ rib \in SUBSET Route
    /\ listening \in BOOLEAN
    /\ live \in Seq([type : {"NEWROUTE", "DELROUTE"}, route : Route])
    /\ sync \in {"idle", "start", "list4", "dump4", "dump6", "updates"}
    /\ dump \in SUBSET Route
    /\ view \in SUBSET Route
    /\ changes \in 0..MaxChanges
    /\ overflows \in 0..MaxOverflows
    /\ listErrors \in 0..MaxListErrors

Init ==
    /\ rib \in InitialRib
    /\ listening = FALSE
    /\ live = <<>>
    /\ sync = "idle"
    /\ dump = {}
    /\ view = {}
    /\ changes = 0
    /\ overflows = 0
    /\ listErrors = 0

-----------------------------------------------------------------------------
(* The kernel.  A route takes the place of the one in its slot, which is   *)
(* reported by the new route alone; the report of a removal is exact.      *)

report(event) == live' = IF listening THEN Append(live, event) ELSE live

(* RouteReplace.  Writing the route that is there already is not a change; *)
(* the kernel may report it or not.                                        *)
write(r) ==
    /\ rib' = addCandidateRoute(rib, r)
    /\ \/ report(Update("NEWROUTE", r))
       \/ r \in rib /\ UNCHANGED live

KernelReplace(r) ==
    /\ changes < MaxChanges
    /\ changes' = changes + 1
    /\ write(r)
    /\ UNCHANGED <<listening, sync, dump, view, overflows, listErrors>>

KernelDelete(r) ==
    /\ changes < MaxChanges
    /\ r \in rib
    /\ changes' = changes + 1
    /\ rib' = removeCandidateRoute(rib, r)
    /\ report(Update("DELROUTE", r))
    /\ UNCHANGED <<listening, sync, dump, view, overflows, listErrors>>

(* Component.AddRoute, when the kernel accepts the route. *)
AddRoute(r) ==
    /\ write(r)
    /\ UNCHANGED <<listening, sync, dump, view, counters>>

(* The socket's buffer overflows, or reading it fails: what was in it and  *)
(* what comes next is lost, what the program already read is not.          *)
Overflow ==
    /\ listening
    /\ overflows < MaxOverflows
    /\ overflows' = overflows + 1
    /\ listening' = FALSE
    /\ \E k \in 0..Len(live) : live' = SubSeq(live, 1, k)
    /\ UNCHANGED <<rib, sync, dump, view, changes, listErrors>>

-----------------------------------------------------------------------------
(* transition, from idle or updateRoutes: the subscription comes first,    *)
(* "otherwise, we may lose some updates".                                  *)
Subscribe ==
    /\ sync = "idle"
    /\ sync' = "start"
    /\ listening' = TRUE
    /\ live' = <<>>
    /\ UNCHANGED <<rib, dump, view, counters>>

(* What an abandoned subscription still receives is read by nobody. *)
giveUp ==
    /\ sync' = "idle"
    /\ listening' = FALSE
    /\ live' = <<>>

(* injectRoutes lists the IPv4 routes once StartOfRIB is sent...           *)
ListIPv4 ==
    /\ sync = "list4"
    /\ sync' = "dump4"
    /\ dump' = {r \in rib : r.dst \notin Prefix6}
    /\ UNCHANGED <<rib, listening, live, view, counters>>

(* ... and the IPv6 ones once the IPv4 ones are sent, as many times as it  *)
(* takes to succeed.                                                       *)
ListIPv6 ==
    /\ sync = "dump4"
    /\ dump = {}
    /\ sync' = "dump6"
    /\ dump' = {r \in rib : r.dst \in Prefix6}
    /\ UNCHANGED <<rib, listening, live, view, counters>>

(* When the first listing fails the subscription is given up, and the next *)
(* attempt subscribes anew.                                                *)
ListFails ==
    /\ sync = "list4"
    /\ listErrors < MaxListErrors
    /\ listErrors' = listErrors + 1
    /\ giveUp
    /\ UNCHANGED <<rib, dump, view, changes, overflows>>

(* Mutant: the routes are listed again without a new subscription. *)
ResyncListsOnly ==
    /\ sync = "updates"
    /\ live = <<>>
    /\ ~listening
    /\ sync' = "start"
    /\ UNCHANGED <<rib, listening, live, dump, view, counters>>

(* The live updates are exhausted and their channel is closed. *)
Resync ==
    /\ sync = "updates"
    /\ live = <<>>
    /\ ~listening
    /\ giveUp
    /\ UNCHANGED <<rib, dump, view, counters>>

(* Mutant: the live updates are not kept for the end of the dump. *)
nextUnordered(n) ==
    \/ /\ sync = "start"
       /\ n = Mark("StartOfRIB")
       /\ sync' = "list4"
       /\ UNCHANGED <<live, dump>>
    \/ /\ sync \in {"dump4", "dump6"}
       /\ \E r \in dump : n = Update("NEWROUTE", r) /\ dump' = dump \ {r}
       /\ UNCHANGED <<live, sync>>
    \/ /\ sync = "dump6"
       /\ dump = {}
       /\ n = Mark("EndOfRIB")
       /\ sync' = "updates"
       /\ UNCHANGED <<live, dump>>
    \/ /\ sync \in {"dump4", "dump6", "updates"}
       /\ live # <<>>
       /\ n = Head(live)
       /\ live' = Tail(live)
       /\ UNCHANGED <<sync, dump>>

(* The next notification the stream sends, and what it leaves to send. *)
next(n) ==
    \/ /\ sync = "start"
       /\ n = Mark("StartOfRIB")
       /\ sync' = "list4"
       /\ UNCHANGED <<live, dump>>
    \/ /\ sync \in {"dump4", "dump6"}
       /\ \E r \in dump : n = Update("NEWROUTE", r) /\ dump' = dump \ {r}
       /\ UNCHANGED <<live, sync>>
    \/ /\ sync = "dump6"
       /\ dump = {}
       /\ n = Mark("EndOfRIB")
       /\ sync' = "updates"
       /\ UNCHANGED <<live, dump>>
    \/ /\ sync = "updates"
       /\ live # <<>>
       /\ n = Head(live)
       /\ live' = Tail(live)
       /\ UNCHANGED <<sync, dump>>

(* A subscriber that replays the notifications. *)
replay(n) ==
    CASE n.type = "StartOfRIB" -> {}
      [] n.type = "EndOfRIB"   -> view
      [] n.type = "NEWROUTE"   -> addCandidateRoute(view, n.route)
      [] n.type = "DELROUTE"   -> removeCandidateRoute(view, n.route)

Send(n) ==
    /\ next(n)
    /\ view' = replay(n)
    /\ UNCHANGED <<rib, listening, counters>>

(* What the stream can send next. *)
Sendable ==
    {Mark("StartOfRIB"), Mark("EndOfRIB")}
    \cup {Update("NEWROUTE", r) : r \in dump}
    \cup {live[i] : i \in 1..Len(live)}

-----------------------------------------------------------------------------
(* A new process: its component is idle, the kernel's routes are the same. *)
newStream ==
    /\ listening' = FALSE
    /\ live' = <<>>
    /\ sync' = "idle"
    /\ dump' = {}
    /\ view' = {}
    /\ UNCHANGED <<rib, counters>>

Kernel ==
    \/ \E r \in External : KernelReplace(r)
    \/ \E r \in External : KernelDelete(r)
    \/ Overflow

Next ==
    \/ Kernel
    \/ Subscribe
    \/ ListIPv4
    \/ ListIPv6
    \/ ListFails
    \/ Resync
    \/ \E n \in Sendable : Send(n)

Spec == Init /\ [][Next]_vars

-----------------------------------------------------------------------------
CaughtUp == sync = "updates" /\ listening /\ live = <<>>

(* A subscriber that has been sent everything holds exactly the routes of  *)
(* the kernel, although the listing and the events that precede it overlap *)
(* and although a subscription may break at any time, during a dump too.   *)
ViewIsRib == CaughtUp => view = rib

(* As long as the subscription is not broken, replaying what is left to    *)
(* send leads to the routes of the kernel.                                 *)
Pending ==
    LET f[i \in 0..Len(live)] ==
            IF i = 0 THEN view
            ELSE IF live[i].type = "NEWROUTE"
                 THEN addCandidateRoute(f[i - 1], live[i].route)
                 ELSE removeCandidateRoute(f[i - 1], live[i].route)
    IN  f[Len(live)]

NothingIsLost == sync = "updates" /\ listening => Pending = rib
=============================================================================
