---------------------------- MODULE CandidateList ----------------------------
(***************************************************************************)
(* The slice gatewayState.candidateRoutes and the three functions that     *)
(* read and write it, as src/gateways/gateway.go has them.  It implements  *)
(* CandidateSlots, and the sets and operators of Routes that the other     *)
(* modules use stand for it: ConfiguredGateway runs both side by side.     *)
(***************************************************************************)
EXTENDS Routes, Sequences, SequencesExt

CONSTANT Candidate   \* routes, among which those the "from" half matches

VARIABLES
    candidateRoutes,   \* []*Route
    last               \* history: the last notification

(* The loops over the slice, in its order: what they have kept of its      *)
(* first n routes.                                                         *)
listWithout(list, dropped) ==
    LET kept[n \in 0..Len(list)] ==
            IF n = 0 THEN <<>>
            ELSE IF list[n] \in dropped THEN kept[n - 1]
            ELSE Append(kept[n - 1], list[n])
    IN  kept[Len(list)]

inSlot(list, route) == {current \in ToSet(list) : Slot(current) = Slot(route)}

(* Mutant: a removal takes away the slot's route whatever it is. *)
listRemoveSlot(list, route) == listWithout(list, inSlot(list, route))

listRemove(list, route) == listWithout(list, {route})

(* Mutants: the replaced route stays; it wins over the new one. *)
listAddWithoutReplacing(list, route) ==
    IF Contains(list, route) THEN list ELSE Append(list, route)

listAddKeepsFirst(list, route) ==
    IF inSlot(list, route) # {} THEN list ELSE Append(list, route)

(* The loop returns as soon as it meets an equal route, without the routes *)
(* it has dropped until then.                                              *)
listAdd(list, route) ==
    IF Contains(list, route)
    THEN list
    ELSE Append(listWithout(list, inSlot(list, route)), route)

(* Mutant: the ToS is compared after the priority. *)
listBestPriorityFirst(list) ==
    LET best[n \in 0..Len(list)] ==
            IF n = 0 THEN NoRoute
            ELSE IF best[n - 1] = NoRoute \/ best[n - 1].priority > list[n].priority
                 THEN list[n] ELSE best[n - 1]
    IN  best[Len(list)]

(* The best of the first n routes. *)
listBest(list) ==
    LET best[n \in 0..Len(list)] ==
            IF n = 0 THEN NoRoute
            ELSE IF best[n - 1] = NoRoute \/ Better(list[n], best[n - 1])
                 THEN list[n] ELSE best[n - 1]
    IN  best[Len(list)]

-----------------------------------------------------------------------------
Init ==
    /\ candidateRoutes = <<>>
    /\ last = <<"StartOfRIB", NoRoute>>

StartOfRIB ==
    /\ candidateRoutes' = <<>>
    /\ last' = <<"StartOfRIB", NoRoute>>

NewRoute(r) ==
    /\ candidateRoutes' = listAdd(candidateRoutes, r)
    /\ last' = <<"NEWROUTE", r>>

DelRoute(r) ==
    /\ candidateRoutes' = listRemove(candidateRoutes, r)
    /\ last' = <<"DELROUTE", r>>

-----------------------------------------------------------------------------
Listed == ToSet(candidateRoutes)

(* The list never holds two routes of one slot, nor one route twice: a     *)
(* replaced route cannot stay behind the one that replaced it.  This is    *)
(* what makes the early return of addCandidateRoute harmless.              *)
OneRoutePerSlot ==
    \A i, j \in DOMAIN candidateRoutes :
        Slot(candidateRoutes[i]) = Slot(candidateRoutes[j]) => i = j

(* The scan of bestCandidateRoute over the list in arrival order returns   *)
(* the one minimum of the set: the "older one in case of equality" of its  *)
(* comment never has to decide.                                            *)
BestIgnoresArrivalOrder ==
    /\ listBest(candidateRoutes) = bestCandidateRoute(Listed)
    /\ \A c \in Listed : c = listBest(candidateRoutes)
                         \/ Better(listBest(candidateRoutes), c)

(* The listed route of each slot. *)
slotsOf ==
    [s \in {Slot(r) : r \in Candidate} |->
        IF \E r \in Listed : Slot(r) = s
        THEN CHOOSE r \in Listed : Slot(r) = s
        ELSE NoRoute]

(* The slice implements one route per slot, last announcement wins: what   *)
(* the comment of addCandidateRoute promises ("it is replaced").  Both     *)
(* remember the last notification, so that a step must do what it says.    *)
Abstract == INSTANCE CandidateSlots WITH slots <- slotsOf

ImplementsCandidateSlots == Abstract!Spec
=============================================================================
