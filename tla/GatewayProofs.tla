---------------------------- MODULE GatewayProofs ----------------------------
(***************************************************************************)
(* The handler's invariants, for every configuration, every set of routes  *)
(* and every size of the notification channel.                             *)
(*                                                                         *)
(* All of them are decided by installCandidateRoute, which every update    *)
(* ends with: lemma InstallCandidateRoute says what it establishes from    *)
(* the candidates and the current route it is given, and the proof of each *)
(* kind of notification only shows that it is given suitable ones.         *)
(***************************************************************************)
EXTENDS Gateway, RoutesLemmas

(* The conjunction of the invariants is inductive: CurrentTracksBest needs *)
(* the type of the candidates, BlackholeNeverMissing the current route of  *)
(* both.                                                                   *)
Inv ==
    /\ TypeOK
    /\ CurrentTracksBest
    /\ CurrentInToSlot
    /\ CandidatesAreSources
    /\ BlackholeNeverMissing

(* The part of the invariant about the gateway's own state, for any        *)
(* candidates; the channel and the goroutine take no part in it.           *)
LocalInv ==
    /\ config \in LRGConfiguration
    /\ currentRoute \in Route \cup {NoRoute}
    /\ candidateRoutes \in SUBSET Update
    /\ installationTick \in BOOLEAN
    /\ gauge \in {"Unset", "Missing", "Installing", "Installed"}
    /\ CurrentTracksBest
    /\ CurrentInToSlot
    /\ CandidatesAreSources
    /\ config.to.blackhole =>
          (installationTick => currentRoute # NoRoute) /\ gauge # "Missing"

(* Suitable arguments of installCandidateRoute: candidates that match, one *)
(* per slot, and a current route in the "to" slot or nil.                  *)
Suitable(candidates, current) ==
    /\ candidates \in SUBSET Update
    /\ \A c \in candidates : FromMatch(config.from, c) /\ ~ToMatch(config.to, c)
    /\ \A c, d \in candidates : Slot(c) = Slot(d) => c = d
    /\ current \in Route \cup {NoRoute}
    /\ current # NoRoute => ToMatch(config.to, current)

(* installCandidateRoute re-establishes the invariant from any suitable    *)
(* candidates and current route, which need not be those of the state.     *)
LEMMA InstallCandidateRoute ==
    ASSUME LocalInv, NEW candidates, NEW current,
           Suitable(candidates, current),
           installCandidateRoute(candidates, current),
           config' = config
    PROVE  LocalInv'
<1> DEFINE target == targetRoute(candidates, config.to)
<1>1. config.to \in ToConfiguration /\ candidates \in SUBSET Route
    BY UpdateType DEF LRGConfiguration, Suitable, LocalInv
<1>2. /\ target \in Route \cup {NoRoute}
      /\ target # NoRoute => ToMatch(config.to, target)
      /\ candidates # {} \/ config.to.blackhole => target # NoRoute
    BY <1>1, TargetInToSlot
<1>3. candidateRoutes' = candidates
    BY DEF installCandidateRoute
<1>4. CandidatesAreSources'
    BY <1>3 DEF CandidatesAreSources, Suitable
<1>5. CASE /\ target = NoRoute
           /\ currentRoute' = current
           /\ gauge' = IF current = NoRoute THEN "Missing" ELSE gauge
           /\ UNCHANGED installationTick
    <2>1. candidates = {} /\ ~config.to.blackhole
        BY <1>2, <1>5
    <2>2. CurrentTracksBest' /\ CurrentInToSlot'
        BY <1>3, <1>5, <2>1 DEF CurrentTracksBest, CurrentInToSlot, Suitable
    <2> QED BY <1>3, <1>4, <1>5, <2>1, <2>2 DEF LocalInv, Suitable
<1>6. CASE /\ target # NoRoute
           /\ target = current
           /\ currentRoute' = current
           /\ UNCHANGED <<gauge, installationTick>>
    <2>1. CurrentTracksBest' /\ CurrentInToSlot'
        BY <1>3, <1>6 DEF CurrentTracksBest, CurrentInToSlot, Suitable
    <2> QED BY <1>3, <1>4, <1>6, <2>1 DEF LocalInv, Suitable
<1>7. CASE /\ target \notin {NoRoute, current}
           /\ currentRoute' = target
           /\ installRoute
    <2>1. CurrentTracksBest' /\ CurrentInToSlot'
        BY <1>2, <1>3, <1>7 DEF CurrentTracksBest, CurrentInToSlot
    <2> QED BY <1>2, <1>3, <1>4, <1>7, <2>1
            DEF LocalInv, Suitable, installRoute
<1> QED BY <1>5, <1>6, <1>7 DEF installCandidateRoute

(* One notification, whatever it says, keeps the invariant. *)
LEMMA HandleKeepsLocalInv ==
    ASSUME LocalInv, NEW n \in Notification, handle(n), config' = config
    PROVE  LocalInv'
<1>1. Suitable(candidateRoutes, currentRoute)
    BY DEF LocalInv, CandidatesAreSources, CurrentInToSlot, Suitable
<1>2. CASE /\ n.type = "StartOfRIB"
           /\ candidateRoutes' = {}
           /\ UNCHANGED <<currentRoute, installationTick, gauge>>
    BY <1>2 DEF LocalInv, CurrentTracksBest, CurrentInToSlot, CandidatesAreSources
<1>3. CASE /\ n.type = "EndOfRIB"
           /\ installCandidateRoute(candidateRoutes, currentRoute)
    BY <1>1, <1>3, InstallCandidateRoute
<1>4. CASE n.type \in {"NEWROUTE", "DELROUTE"}
    <2>1. n.route \in Update /\ n.route \in Route
        BY <1>4, UpdateType DEF Notification
    <2>2. CASE targetUpdate(n)
        <3>1. Suitable(candidateRoutes, NoRoute)
            BY <1>1 DEF Suitable
        <3>2. Suitable(candidateRoutes, n.route)
            BY <1>1, <2>1, <2>2 DEF Suitable, targetUpdate
        <3> QED BY <2>2, <3>1, <3>2, InstallCandidateRoute DEF targetUpdate
    <2>3. CASE sourceUpdate(n)
        <3>1. Suitable(removeCandidateRoute(candidateRoutes, n.route), currentRoute)
            BY <1>1 DEF Suitable, removeCandidateRoute
        <3>2. Suitable(addCandidateRoute(candidateRoutes, n.route), currentRoute)
            BY <1>1, <2>1, <2>3, AddKeepsSlots DEF Suitable, sourceUpdate
        <3> QED BY <2>3, <3>1, <3>2, InstallCandidateRoute DEF sourceUpdate
    <2>4. CASE alienUpdate(n)
        BY <2>4 DEF alienUpdate, LocalInv, CurrentTracksBest, CurrentInToSlot,
                    CandidatesAreSources
    <2> QED BY <1>4, <2>2, <2>3, <2>4, handle(n) DEF handle
<1> QED BY <1>2, <1>3, <1>4 DEF handle

(* The invariant of a running gateway gives the part about its own state. *)
LEMMA InvGivesLocalInv == Inv /\ pc = "running" => LocalInv
BY ConfigType DEF Inv, LocalInv, TypeOK, BlackholeNeverMissing

LEMMA InitInv == Init => Inv
<1> SUFFICES ASSUME Init PROVE Inv
    OBVIOUS
<1>1. TypeOK
    <2>1. notification \in Seq(Notification) /\ Len(notification) <= QueueSize
        BY QueueSizeType DEF Init
    <2>2. candidateRoutes \in SUBSET Update
        BY DEF Init
    <2>3. currentRoute \in Route \cup {NoRoute}
        BY DEF Init
    <2> QED BY <2>1, <2>2, <2>3 DEF Init, TypeOK
<1>2. CurrentTracksBest /\ CurrentInToSlot /\ CandidatesAreSources
    BY DEF Init, CurrentTracksBest, CurrentInToSlot, CandidatesAreSources
<1>3. BlackholeNeverMissing
    BY DEF Init, BlackholeNeverMissing
<1> QED BY <1>1, <1>2, <1>3 DEF Inv

LEMMA NextInv == Inv /\ [Next]_vars => Inv'
<1> SUFFICES ASSUME Inv, [Next]_vars PROVE Inv'
    OBVIOUS
<1> USE DEF Inv
<1>1. ASSUME NEW n \in Notification, pushNotification(n) PROVE Inv'
    <2>1. TypeOK'
        BY <1>1, QueueSizeType DEF TypeOK, pushNotification
    <2> QED BY <1>1, <2>1
            DEF pushNotification, CurrentTracksBest, CurrentInToSlot,
                CandidatesAreSources, BlackholeNeverMissing
<1>2. CASE processNotification
    <2>1. /\ Head(notification) \in Notification
          /\ notification' \in Seq(Notification)
          /\ Len(notification') <= QueueSize
        BY <1>2, QueueSizeType DEF TypeOK, processNotification
    <2>2. LocalInv
        BY <1>2, InvGivesLocalInv DEF processNotification
    <2>3. LocalInv'
        BY <1>2, <2>1, <2>2, HandleKeepsLocalInv DEF processNotification
    <2>4. TypeOK' /\ pc' # "panicked"
        BY <1>2, <2>1, <2>3 DEF TypeOK, LocalInv, processNotification
    <2> QED BY <2>3, <2>4 DEF LocalInv, BlackholeNeverMissing
<1>3. CASE InstallSucceeds
    BY <1>3 DEF InstallSucceeds, TypeOK, CurrentTracksBest, CurrentInToSlot,
                CandidatesAreSources, BlackholeNeverMissing
<1>4. CASE InstallFails
    BY <1>4 DEF InstallFails, vars, TypeOK, CurrentTracksBest, CurrentInToSlot,
                CandidatesAreSources, BlackholeNeverMissing
<1>5. CASE InstallPanics
    BY <1>5 DEF InstallPanics, TypeOK, CurrentTracksBest, CurrentInToSlot,
                CandidatesAreSources, BlackholeNeverMissing
<1>6. CASE Kill
    BY <1>6 DEF Kill, TypeOK, CurrentTracksBest, CurrentInToSlot,
                CandidatesAreSources, BlackholeNeverMissing
<1>7. CASE Stopped
    BY <1>7 DEF Stopped, TypeOK, CurrentTracksBest, CurrentInToSlot,
                CandidatesAreSources, BlackholeNeverMissing
<1>8. CASE UNCHANGED vars
    BY <1>8 DEF vars, TypeOK, CurrentTracksBest, CurrentInToSlot,
                CandidatesAreSources, BlackholeNeverMissing
<1> QED BY <1>1, <1>2, <1>3, <1>4, <1>5, <1>6, <1>7, <1>8 DEF Next

(* The handler's variables keep their types, the channel its bound. *)
THEOREM TypeCorrect == Spec => []TypeOK
BY InitInv, NextInv, PTL DEF Spec, Inv

(* While a candidate is known the current route is the best one, moved to  *)
(* the "to" slot.                                                          *)
THEOREM TracksBest == Spec => []CurrentTracksBest
BY InitInv, NextInv, PTL DEF Spec, Inv

(* Only routes of the "to" slot are ever the current one, and so written,  *)
(* whatever is reported and in whatever order.                             *)
THEOREM OwnSlotOnly == Spec => []CurrentInToSlot
BY InitInv, NextInv, PTL DEF Spec, Inv

(* The gateway never feeds itself: its own route is not among its          *)
(* candidates even when the "from" half matches it, and no two candidates  *)
(* contest one slot.                                                       *)
THEOREM SourcesOnly == Spec => []CandidatesAreSources
BY InitInv, NextInv, PTL DEF Spec, Inv

(* A gateway with a blackhole never dereferences a nil route. *)
THEOREM BlackholeIsSafe == Spec => []BlackholeNeverMissing
BY InitInv, NextInv, PTL DEF Spec, Inv

-----------------------------------------------------------------------------
(* Without a blackhole, losing the last candidate changes neither the      *)
(* current route nor what is being installed.                              *)
THEOREM KeepsLastRoute == Spec => LastRouteKept
<1> DEFINE Kept == /\ ~config.to.blackhole
                   /\ candidateRoutes' = {} /\ candidateRoutes # {}
                   => UNCHANGED <<currentRoute, installationTick>>
<1>1. ASSUME Next, ~config.to.blackhole, candidateRoutes' = {}, candidateRoutes # {}
      PROVE  UNCHANGED <<currentRoute, installationTick>>
    <2>1. processNotification
        BY <1>1 DEF Next, pushNotification, InstallSucceeds, InstallFails,
                    InstallPanics, Kill, Stopped, vars
    <2> DEFINE n == Head(notification)
    <2>2. \A candidates, current :
              installCandidateRoute(candidates, current) => candidateRoutes' = candidates
        BY DEF installCandidateRoute
    <2>3. ~targetUpdate(n) /\ ~alienUpdate(n)
        BY <1>1, <2>2 DEF targetUpdate, alienUpdate
    <2>4. ASSUME NEW candidates, installCandidateRoute(candidates, currentRoute)
          PROVE  UNCHANGED <<currentRoute, installationTick>>
        <3>1. candidates = {}
            BY <1>1, <2>2, <2>4
        <3>2. targetRoute(candidates, config.to) = NoRoute
            BY <1>1, <3>1 DEF targetRoute, bestCandidateRoute
        <3> QED BY <2>4, <3>2 DEF installCandidateRoute
    <2> QED BY <2>1, <2>3, <2>4 DEF processNotification, handle, sourceUpdate
<1>2. [Next]_vars => [Kept]_vars
    BY <1>1
<1> QED BY <1>2, PTL DEF Spec, LastRouteKept

(* A route the gateway wants and has not just seen in the kernel is always *)
(* armed for installation, and an armed installation ends by a success or  *)
(* with the handler.                                                       *)
THEOREM ArmsWantedRoute == Spec => WantedRouteIsArmed
<1> DEFINE Armed ==
        /\ currentRoute' \notin {currentRoute, NoRoute}
           /\ currentRoute' # Head(notification).route
           => installationTick' /\ gauge' = "Installing"
        /\ installationTick /\ ~installationTick'
           => gauge' = "Installed" \/ pc' = "stopped"
<1>1. ASSUME NEW candidates, NEW current,
             current \in {currentRoute, NoRoute, Head(notification).route},
             installCandidateRoute(candidates, current)
      PROVE  Armed
    BY <1>1 DEF installCandidateRoute, installRoute
<1>2. ASSUME Next PROVE Armed
    <2>1. CASE processNotification
        <3> DEFINE n == Head(notification)
        <3>1. CASE targetUpdate(n)
            BY <1>1, <3>1 DEF targetUpdate
        <3>2. CASE sourceUpdate(n)
            BY <1>1, <3>2 DEF sourceUpdate
        <3>3. CASE alienUpdate(n)
            BY <3>3 DEF alienUpdate
        <3> QED BY <1>1, <2>1, <3>1, <3>2, <3>3 DEF processNotification, handle
    <2> QED BY <1>2, <2>1 DEF Next, pushNotification, InstallSucceeds,
            InstallFails, InstallPanics, Kill, Stopped, vars
<1>3. [Next]_vars => [Armed]_vars
    BY <1>2
<1> QED BY <1>3, PTL DEF Spec, WantedRouteIsArmed
=============================================================================
