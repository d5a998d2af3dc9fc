------------------------------ MODULE LastResort ------------------------------
(***************************************************************************)
(* The program at work: the kernel's routes, the stream of notifications   *)
(* of the netlink component (RibStream), and the handler of one gateway    *)
(* (Gateway) that writes to the kernel, whose own writes come back to it   *)
(* as notifications, late.  The process may be stopped or may crash at any *)
(* point, and start again with nothing but what is left in the kernel.     *)
(***************************************************************************)
EXTENDS Routes, Sequences

CONSTANTS
    Configurations, QueueSize,                             \* see Gateway
    Prefix6, InitialRib, External,                         \* see RibStream
    MaxChanges, MaxOverflows, MaxListErrors,
    MaxRestarts                     \* bound on the restarts of the process

VARIABLES
    config, notification, currentRoute, candidateRoutes,   \* see Gateway
    installationTick, gauge, pc, dying,
    rib, listening, live, sync, dump, view,                \* see RibStream
    changes, overflows, listErrors,
    lastBest,    \* history: the last best candidate of this process
    restarts     \* counter of the restarts

gatewayVars == <<config, notification, currentRoute, candidateRoutes,
                 installationTick, gauge, pc, dying>>
streamVars == <<rib, listening, live, sync, dump, view,
                changes, overflows, listErrors>>
vars == <<gatewayVars, streamVars, lastBest, restarts>>

(* Every route that can be in the kernel: the program only adds targets.   *)
Known == External \cup UNION InitialRib
KernelRoutes ==
    (Known \cup {targetRoute({c}, f.to) : c \in Known, f \in Configurations}
           \cup {targetRoute({}, f.to) : f \in Configurations}) \ {NoRoute}

G == INSTANCE Gateway WITH Update <- KernelRoutes
R == INSTANCE RibStream

ASSUME ConfigType == Configurations \subseteq LRGConfiguration
ASSUME QueueSizeType == QueueSize \in Nat \ {0}
ASSUME RibType == InitialRib \subseteq SUBSET Route /\ External \subseteq Route
ASSUME FamilyType == Prefix6 \subseteq Prefix
ASSUME BoundType == {MaxChanges, MaxOverflows, MaxListErrors, MaxRestarts} \subseteq Nat

(* A table has one route per slot, whatever it holds at the start. *)
ASSUME SlotType ==
    \A routes \in InitialRib : \A r, q \in routes : Slot(r) = Slot(q) => r = q

TypeOK ==
    /\ G!TypeOK
    /\ R!TypeOK
    /\ lastBest \in Route \cup {NoRoute}
    /\ restarts \in 0..MaxRestarts

Init ==
    /\ G!Init
    /\ R!Init
    /\ lastBest = NoRoute
    /\ restarts = 0

-----------------------------------------------------------------------------
(* The kernel's tables change, or a subscription is lost. *)
Environment == R!Kernel /\ UNCHANGED <<gatewayVars, lastBest, restarts>>

(* The netlink component, except for its callback. *)
Netlink ==
    /\ pc = "running"
    /\ R!Subscribe \/ R!ListIPv4 \/ R!ListIPv6 \/ R!Resync
    /\ UNCHANGED <<gatewayVars, lastBest, restarts>>

ListFails ==
    /\ pc = "running"
    /\ R!ListFails
    /\ UNCHANGED <<gatewayVars, lastBest, restarts>>

(* The callback given to Subscribe: notify calls pushNotification. *)
Notify ==
    /\ pc = "running"
    /\ \E n \in R!Sendable : R!Send(n) /\ G!pushNotification(n)
    /\ UNCHANGED <<lastBest, restarts>>

Process ==
    /\ G!processNotification
    /\ lastBest' = IF candidateRoutes' = {} THEN lastBest
                   ELSE bestCandidateRoute(candidateRoutes')
    /\ UNCHANGED <<streamVars, restarts>>

(* The kernel accepts the route: it is in its table and will be reported. *)
Install ==
    /\ G!InstallSucceeds
    /\ R!AddRoute(currentRoute)
    /\ UNCHANGED <<lastBest, restarts>>

(* The kernel refuses the route, for as long as it wants. *)
InstallFails ==
    /\ G!InstallFails
    /\ UNCHANGED <<streamVars, lastBest, restarts>>

Panic ==
    /\ G!InstallPanics
    /\ UNCHANGED <<streamVars, lastBest, restarts>>

(* A new process after a stop or a crash, at any point: only the kernel's  *)
(* tables outlive it.                                                      *)
Restart ==
    /\ restarts < MaxRestarts
    /\ restarts' = restarts + 1
    /\ G!newGateway
    /\ R!newStream
    /\ lastBest' = NoRoute

Next ==
    \/ Environment
    \/ Netlink
    \/ ListFails
    \/ Notify
    \/ Process
    \/ Install
    \/ InstallFails
    \/ Panic
    \/ Restart

Spec == Init /\ [][Next]_vars

(* Each goroutine goes on when it can: select serves a channel that stays  *)
(* ready in the end.  WF on Install says that the kernel does not refuse   *)
(* for ever a route that the gateway goes on trying.                       *)
FairSpec ==
    /\ Spec
    /\ WF_vars(Netlink)
    /\ WF_vars(Notify)
    /\ WF_vars(Process)
    /\ WF_vars(Install)
    /\ WF_vars(Panic)

-----------------------------------------------------------------------------
Sources(routes) ==
    {r \in routes : FromMatch(config.from, r) /\ ~ToMatch(config.to, r)}

(* What takes the place of a last-resort gateway, and the other way round, *)
(* be it one or not: "to" has a protocol, the kernel's slots have none.    *)
InToSlot(to, r) ==
    r.dst = to.prefix /\ r.table = to.table /\ r.priority = to.metric

GatewayIsThere == \E r \in rib : ToMatch(config.to, r)

Target == targetRoute(candidateRoutes, config.to)

(* Everything was sent and processed, and nothing is left to install. *)
Quiet ==
    /\ R!CaughtUp
    /\ notification = <<>>
    /\ pc = "running"
    /\ ~installationTick

(* Whatever the rest of the system writes, the handler misses no source    *)
(* route: those that a replay of the notifications gives are candidates,   *)
(* at every point of a dump, of a resynchronisation and after a restart,   *)
(* although its own routes are in the stream and although what it ignores  *)
(* takes the place of sources that it goes on holding (gateway.go:191).    *)
SourcesAreCandidates ==
    pc = "running" /\ notification = <<>> => Sources(view) \subseteq candidateRoutes

(* And, where nothing but a source takes the place of a source, it holds   *)
(* no other: none that has left is ever copied again.                      *)
CandidatesFollowStream ==
    pc = "running" /\ notification = <<>> => candidateRoutes = Sources(view)

(* Once quiet, the candidates are the source routes of the kernel, in the  *)
(* same circumstances.                                                     *)
CandidatesAreKernels == Quiet => candidateRoutes = Sources(rib)

(* The point of the program: once quiet, the copy of the best candidate    *)
(* (or the blackhole) is in the kernel's table, whatever the gateway was   *)
(* doing when the changes and the echoes of its own writes reached it.     *)
TargetIsInstalled == Quiet /\ Target # NoRoute => Target \in rib

(* Once quiet, a route that was known by this process has left a           *)
(* last-resort gateway behind it.                                          *)
GatewayRemains == Quiet /\ lastBest # NoRoute => GatewayIsThere

(* What is exported is true of the kernel, at every moment and not only    *)
(* once quiet: "missing" only while there is no last-resort gateway        *)
(* (gateway.go:18), "installed" only while there is one, where nobody else *)
(* uses its slot.  Nothing told during a dump, before the gateway's own    *)
(* turn in it comes, may make it missing.                                  *)
ExportedStateIsTrue ==
    /\ gauge = "Missing" => ~GatewayIsThere
    /\ gauge = "Installed" => GatewayIsThere

(* Once quiet, the current route is the one of the kernel's table, and it  *)
(* is nil when there is none: "detected again on start".  That there is    *)
(* one only takes sources of one ToS.                                      *)
CurrentIsInstalled ==
    Quiet => {r \in rib : ToMatch(config.to, r)} = {currentRoute} \ {NoRoute}

(* The "to" half does not tell the copies of routes of two ToS apart,      *)
(* which are two routes for the kernel, and the removal of any clears the  *)
(* current route; still, once quiet, the current route is never one that   *)
(* has left the kernel.                                                    *)
CurrentIsReal == Quiet => currentRoute \in rib \cup {NoRoute}

(* A write of the program, which is a change of the kernel's tables that   *)
(* the rest of the system did not make, stays in the slot of its gateway:  *)
(* it adds the current route, the copy of the best candidate when there is *)
(* one, and takes away at most what was in that slot, which may be a       *)
(* source route if the configuration puts one there.                       *)
WritesItsSlotOnly ==
    [][ rib' # rib /\ changes' = changes =>
          /\ rib' \ rib = {currentRoute}
          /\ candidateRoutes # {} => currentRoute = Target
          /\ InToSlot(config.to, currentRoute)
          /\ \A r \in rib \ rib' : Slot(r) = Slot(currentRoute) ]_vars

(* The program settles: once the kernel is left in peace the handler stops *)
(* answering its own echoes, with the best candidate installed.            *)
Converges ==
    <>[](pc # "panicked" =>
            Quiet /\ (Target # NoRoute => Target \in rib))

-----------------------------------------------------------------------------
(* What the documentation says and the code does not do. *)

(* "Installation will be retried until it succeeds" (gateway.go:265): the  *)
(* handler does not end with an attempt to come.                           *)
AttemptsDoNotPanic == pc # "panicked"

(* "Previous RIB should be discarded" (observer.go:15), so that what was   *)
(* lost is noticed: once quiet the best candidate is installed, also       *)
(* when the last-resort gateway was removed during an overflow.            *)
TargetIsInstalledAfterOverflow == TargetIsInstalled

(* "a blackhole route will be used (...) if no route can be selected and   *)
(* we don't have a last resort route already installed"                    *)
(* (configuration.rst:197): a write of a blackhole never takes the place   *)
(* of a last-resort gateway.                                               *)
BlackholeOnlyWhenMissing ==
    [][ \A r \in rib' \ rib :
            r.via = Blackhole => ~\E o \in rib : Slot(o) = Slot(r) ]_vars

(* "In this case, the last known route is kept" (index.rst:11): once quiet *)
(* and without any candidate, the copy of the last best one is installed.  *)
LastKnownIsInstalled ==
    Quiet /\ candidateRoutes = {} /\ lastBest # NoRoute =>
        targetRoute({lastBest}, config.to) \in rib
=============================================================================
