------------------------------- MODULE Gateway -------------------------------
(***************************************************************************)
(* The handler of one last-resort gateway, the goroutine runGateway of     *)
(* src/gateways/gateway.go: it takes notifications from its channel, keeps *)
(* the candidates and the current route, and installs the current route in *)
(* the kernel from a retry ticker.                                         *)
(*                                                                         *)
(* The handler trusts nothing of what it is notified, so Spec lets any     *)
(* sequence of notifications come in; LastResort restricts them to what    *)
(* the netlink component sends.                                            *)
(***************************************************************************)
EXTENDS Routes, Sequences

CONSTANTS
    Configurations,  \* the configurations a gateway may be started with
    QueueSize,       \* capacity of the notification channel (100 in the code)
    Update           \* the routes that updates may carry

VARIABLES
    config,            \* the configuration of this gateway, never written to
    notification,      \* the channel
    currentRoute,      \* the route in the "to" slot, wanted or seen; or nil
    candidateRoutes,   \* the routes that match the "from" half
    installationTick,  \* the retry ticker is armed
    gauge,             \* the exported state gw<index>.state
    pc,                \* the goroutine
    dying              \* the component has been asked to stop

ASSUME ConfigType == Configurations \subseteq LRGConfiguration
ASSUME QueueSizeType == QueueSize \in Nat \ {0}
ASSUME UpdateType == Update \subseteq Route

vars == <<config, notification, currentRoute, candidateRoutes,
          installationTick, gauge, pc, dying>>

(* One of the three members of netlink.Notification is set; an update is a *)
(* netlink.RouteUpdate, RTM_NEWROUTE or RTM_DELROUTE.                      *)
Notification == [type : {"StartOfRIB", "EndOfRIB"}, route : {NoRoute}]
           \cup [type : {"NEWROUTE", "DELROUTE"}, route : Update]

TypeOK ==
    /\ config \in Configurations
    /\ notification \in Seq(Notification)
    /\ Len(notification) <= QueueSize
    /\ currentRoute \in Route \cup {NoRoute}
    /\ candidateRoutes \in SUBSET Update
    /\ installationTick \in BOOLEAN
    /\ gauge \in {"Unset", "Missing", "Installing", "Installed"}
    /\ pc \in {"running", "stopped", "panicked"}
    /\ dying \in BOOLEAN

Init ==
    /\ config \in Configurations
    /\ notification = <<>>
    /\ currentRoute = NoRoute
    /\ candidateRoutes = {}
    /\ installationTick = FALSE
    /\ gauge = "Unset"
    /\ pc = "running"
    /\ dying = FALSE

-----------------------------------------------------------------------------
(* Mutant: the channel has no bound. *)
pushUnbounded(n) ==
    /\ notification' = Append(notification, n)
    /\ UNCHANGED <<config, currentRoute, candidateRoutes, installationTick,
                   gauge, pc, dying>>

(* pushNotification: the netlink goroutine blocks while the channel is full. *)
pushNotification(n) ==
    /\ Len(notification) < QueueSize
    /\ notification' = Append(notification, n)
    /\ UNCHANGED <<config, currentRoute, candidateRoutes, installationTick,
                   gauge, pc, dying>>

(* installRoute arms a fresh ticker: its first tick is immediate. *)
installRoute ==
    /\ gauge' = "Installing"
    /\ installationTick' = TRUE

(* Mutant: a gateway without candidates is said to be missing. *)
installCandidateMissing(candidates, current) ==
    LET target == targetRoute(candidates, config.to)
    IN  /\ candidateRoutes' = candidates
        /\ \/ /\ target = NoRoute
              /\ currentRoute' = current
              /\ gauge' = "Missing"
              /\ UNCHANGED installationTick
           \/ /\ target # NoRoute
              /\ target = current
              /\ currentRoute' = current
              /\ UNCHANGED <<gauge, installationTick>>
           \/ /\ target \notin {NoRoute, current}
              /\ currentRoute' = target
              /\ installRoute

(* installCandidateRoute, called with the candidates and the current route *)
(* that the notification leaves: aim at the best candidate, unless there   *)
(* is none (the current route is kept) or it is the current route.         *)
installCandidateRoute(candidates, current) ==
    LET target == targetRoute(candidates, config.to)
    IN  /\ candidateRoutes' = candidates
        /\ \/ /\ target = NoRoute
              /\ currentRoute' = current
              /\ gauge' = IF current = NoRoute THEN "Missing" ELSE gauge
              /\ UNCHANGED installationTick
           \/ /\ target # NoRoute
              /\ target = current
              /\ currentRoute' = current
              /\ UNCHANGED <<gauge, installationTick>>
           \/ /\ target \notin {NoRoute, current}
              /\ currentRoute' = target
              /\ installRoute

(* Mutants: nothing follows the removal of the gateway; the gateway is not *)
(* recognised when it is seen.                                             *)
targetUpdateForgets(n) ==
    /\ ToMatch(config.to, n.route)
    /\ \/ /\ n.type = "DELROUTE"
          /\ currentRoute' = NoRoute
          /\ UNCHANGED <<candidateRoutes, installationTick, gauge>>
       \/ /\ n.type = "NEWROUTE"
          /\ installCandidateRoute(candidateRoutes, n.route)

targetUpdateIgnoresNew(n) ==
    /\ ToMatch(config.to, n.route)
    /\ \/ /\ n.type = "DELROUTE"
          /\ installCandidateRoute(candidateRoutes, NoRoute)
       \/ /\ n.type = "NEWROUTE"
          /\ UNCHANGED <<currentRoute, candidateRoutes, installationTick, gauge>>

(* An update of the "to" slot overrides the current route; it is looked at *)
(* first, so the gateway is never a candidate for itself.                  *)
targetUpdate(n) ==
    /\ ToMatch(config.to, n.route)
    /\ \/ /\ n.type = "DELROUTE"
          /\ installCandidateRoute(candidateRoutes, NoRoute)
       \/ /\ n.type = "NEWROUTE"
          /\ installCandidateRoute(candidateRoutes, n.route)

(* Mutant: nothing follows the removal of a candidate. *)
sourceUpdateForgets(n) ==
    /\ ~ToMatch(config.to, n.route)
    /\ FromMatch(config.from, n.route)
    /\ \/ /\ n.type = "DELROUTE"
          /\ candidateRoutes' = removeCandidateRoute(candidateRoutes, n.route)
          /\ UNCHANGED <<currentRoute, installationTick, gauge>>
       \/ /\ n.type = "NEWROUTE"
          /\ installCandidateRoute(addCandidateRoute(candidateRoutes, n.route),
                                   currentRoute)

(* Mutant: what is in the slot of a candidate counts as known already. *)
sourceUpdateKeepsFirst(n) ==
    /\ ~ToMatch(config.to, n.route)
    /\ FromMatch(config.from, n.route)
    /\ \/ /\ n.type = "DELROUTE"
          /\ installCandidateRoute(removeCandidateRoute(candidateRoutes, n.route),
                                   currentRoute)
       \/ /\ n.type = "NEWROUTE"
          /\ IF \E c \in candidateRoutes : Slot(c) = Slot(n.route)
             THEN installCandidateRoute(candidateRoutes, currentRoute)
             ELSE installCandidateRoute(candidateRoutes \cup {n.route}, currentRoute)

sourceUpdate(n) ==
    /\ ~ToMatch(config.to, n.route)
    /\ FromMatch(config.from, n.route)
    /\ \/ /\ n.type = "DELROUTE"
          /\ installCandidateRoute(removeCandidateRoute(candidateRoutes, n.route),
                                   currentRoute)
       \/ /\ n.type = "NEWROUTE"
          /\ installCandidateRoute(addCandidateRoute(candidateRoutes, n.route),
                                   currentRoute)

alienUpdate(n) ==
    /\ ~ToMatch(config.to, n.route)
    /\ ~FromMatch(config.from, n.route)
    /\ UNCHANGED <<currentRoute, candidateRoutes, installationTick, gauge>>

(* Mutant: a new RIB does not discard the former one. *)
handleKeepsRIB(n) ==
    \/ /\ n.type \in {"StartOfRIB", "EndOfRIB"}
       /\ installCandidateRoute(candidateRoutes, currentRoute)
    \/ /\ n.type \in {"NEWROUTE", "DELROUTE"}
       /\ targetUpdate(n) \/ sourceUpdate(n) \/ alienUpdate(n)

(* The cases of processNotification. *)
handle(n) ==
    \/ /\ n.type = "StartOfRIB"
       /\ candidateRoutes' = {}
       /\ UNCHANGED <<currentRoute, installationTick, gauge>>
    \/ /\ n.type = "EndOfRIB"
       /\ installCandidateRoute(candidateRoutes, currentRoute)
    \/ /\ n.type \in {"NEWROUTE", "DELROUTE"}
       /\ targetUpdate(n) \/ sourceUpdate(n) \/ alienUpdate(n)

processNotification ==
    /\ pc = "running"
    /\ notification # <<>>
    /\ notification' = Tail(notification)
    /\ handle(Head(notification))
    /\ UNCHANGED <<config, pc, dying>>

-----------------------------------------------------------------------------
(* The tick case of runGateway, by the outcome of Netlink.AddRoute.        *)
InstallSucceeds ==
    /\ pc = "running"
    /\ installationTick
    /\ currentRoute # NoRoute
    /\ installationTick' = FALSE
    /\ gauge' = "Installed"
    /\ UNCHANGED <<config, notification, currentRoute, candidateRoutes, pc, dying>>

(* Mutant: an error ends the attempts. *)
InstallGivesUp ==
    /\ pc = "running"
    /\ installationTick
    /\ currentRoute # NoRoute
    /\ installationTick' = FALSE
    /\ UNCHANGED <<config, notification, currentRoute, candidateRoutes, gauge,
                   pc, dying>>

(* On an error only counters and logs change: the ticker ticks again. *)
InstallFails ==
    /\ pc = "running"
    /\ installationTick
    /\ currentRoute # NoRoute
    /\ UNCHANGED vars

(* *gateway.state.currentRoute with a nil pointer ends the process. *)
InstallPanics ==
    /\ pc = "running"
    /\ installationTick
    /\ currentRoute = NoRoute
    /\ pc' = "panicked"
    /\ UNCHANGED <<config, notification, currentRoute, candidateRoutes,
                   installationTick, gauge, dying>>

(* Component.Stop kills the tomb.  The handler notices when its select     *)
(* picks that case, in any order with the notifications left to process.   *)
Kill ==
    /\ ~dying
    /\ dying' = TRUE
    /\ UNCHANGED <<config, notification, currentRoute, candidateRoutes,
                   installationTick, gauge, pc>>

Stopped ==
    /\ pc = "running"
    /\ dying
    /\ pc' = "stopped"
    /\ installationTick' = FALSE
    /\ UNCHANGED <<config, notification, currentRoute, candidateRoutes, gauge,
                   dying>>

(* newGateway and the start of runGateway, in a new process with the same  *)
(* configuration.                                                          *)
newGateway ==
    /\ notification' = <<>>
    /\ currentRoute' = NoRoute
    /\ candidateRoutes' = {}
    /\ installationTick' = FALSE
    /\ gauge' = "Unset"
    /\ pc' = "running"
    /\ dying' = FALSE
    /\ UNCHANGED config

Next ==
    \/ \E n \in Notification : pushNotification(n)
    \/ processNotification
    \/ InstallSucceeds
    \/ InstallFails
    \/ InstallPanics
    \/ Kill
    \/ Stopped

Spec == Init /\ [][Next]_vars

-----------------------------------------------------------------------------
(* Whatever the order of the notifications, while the gateway knows a      *)
(* candidate its current route is the best candidate moved to the "to"     *)
(* slot: no path of processNotification changes the candidates or the      *)
(* current route and returns without the other following.                  *)
CurrentTracksBest ==
    candidateRoutes # {} =>
        currentRoute = targetRoute(candidateRoutes, config.to)

(* The current route is always in the "to" slot: a source route is never   *)
(* what gets installed, even after the last-resort gateway is seen back as *)
(* an update of a prefix, table and metric that the "from" half matches.   *)
CurrentInToSlot == currentRoute # NoRoute => ToMatch(config.to, currentRoute)

(* A gateway never feeds itself: its own route in the kernel, which the    *)
(* "from" half may match too, does not become a candidate, and the         *)
(* candidates hold at most one route per slot.                             *)
CandidatesAreSources ==
    /\ \A c \in candidateRoutes :
          FromMatch(config.from, c) /\ ~ToMatch(config.to, c)
    /\ \A c, d \in candidateRoutes : Slot(c) = Slot(d) => c = d

(* With a blackhole there is always something to install: such a gateway   *)
(* is never reported missing and its handler never has a nil route to      *)
(* install, whatever is removed while an attempt is pending.               *)
BlackholeNeverMissing ==
    config.to.blackhole =>
        /\ installationTick => currentRoute # NoRoute
        /\ gauge # "Missing"
        /\ pc # "panicked"

(* The reason of being of the program: when the last candidate goes, or    *)
(* the RIB starts over, a gateway without a blackhole keeps what it has    *)
(* and asks for nothing new.                                               *)
LastRouteKept ==
    [][ /\ ~config.to.blackhole
        /\ candidateRoutes' = {} /\ candidateRoutes # {}
        => UNCHANGED <<currentRoute, installationTick>> ]_vars

(* A wanted route is never dropped on the way: when the current route      *)
(* becomes one that no update has just reported, an attempt is armed; and  *)
(* an armed attempt goes away only with a success or a stop.               *)
WantedRouteIsArmed ==
    [][ /\ currentRoute' \notin {currentRoute, NoRoute}
           /\ currentRoute' # Head(notification).route
           => installationTick' /\ gauge' = "Installing"
        /\ installationTick /\ ~installationTick'
           => gauge' = "Installed" \/ pc' = "stopped" ]_vars
=============================================================================
