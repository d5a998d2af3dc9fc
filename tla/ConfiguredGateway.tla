--------------------------- MODULE ConfiguredGateway ---------------------------
(***************************************************************************)
(* One gateway from its lines of the configuration file to the routes it   *)
(* asks for: the document of Configuration, the handler of Gateway, and    *)
(* the slice of CandidateList next to the set that Gateway has for it.     *)
(***************************************************************************)
EXTENDS Gateway, Configuration

CONSTANTS
    Documents,  \* the lists that the section "gateways" of the file may hold
    NextHop6    \* the next hops of the IPv6 family, the others are IPv4

(* The kernel refuses a route whose next hop is of the other family. *)
ASSUME DocumentsType == \A d \in Documents : \A i \in DOMAIN d : Documented(d[i])
ASSUME KernelFamilies ==
    \A r \in Update : r.via # Blackhole => (r.via \in NextHop6 <=> r.dst \in Prefix6)

VARIABLES
    documents,  \* the section "gateways"
    index,      \* this gateway's place in it
    slice,      \* gatewayState.candidateRoutes
    last        \* history: see CandidateList

detailVars == <<slice, last>>

L == INSTANCE CandidateList WITH candidateRoutes <- slice, Candidate <- Update

document == documents[index]

(* Component.Start gives a document of the list to each of its gateways.   *)
ConfiguredInit ==
    /\ documents \in {d \in Documents : AcceptedList(d)}
    /\ index \in DOMAIN documents
    /\ config = UnmarshalYAML(document)
    /\ Init
    /\ L!Init

(* What the notification does to the slice. *)
sliceFollows(n) ==
    \/ n.type = "StartOfRIB" /\ L!StartOfRIB
    \/ n.type = "EndOfRIB" /\ UNCHANGED detailVars
    \/ /\ n.type \in {"NEWROUTE", "DELROUTE"}
       /\ ToMatch(config.to, n.route) \/ ~FromMatch(config.from, n.route)
       /\ UNCHANGED detailVars
    \/ /\ n.type \in {"NEWROUTE", "DELROUTE"}
       /\ ~ToMatch(config.to, n.route)
       /\ FromMatch(config.from, n.route)
       /\ \/ n.type = "NEWROUTE" /\ L!NewRoute(n.route)
          \/ n.type = "DELROUTE" /\ L!DelRoute(n.route)

ConfiguredNext ==
    /\ \/ processNotification /\ sliceFollows(Head(notification))
       \/ /\ \/ \E n \in Notification : pushNotification(n)
             \/ InstallSucceeds
             \/ InstallFails
             \/ InstallPanics
             \/ Kill
             \/ Stopped
          /\ UNCHANGED detailVars
    /\ UNCHANGED <<documents, index>>

configuredVars == <<vars, documents, index, detailVars>>

ConfiguredSpec == ConfiguredInit /\ [][ConfiguredNext]_configuredVars

-----------------------------------------------------------------------------
(* What the user has written, read without the decoder. *)

Says(half, key) == key \in DOMAIN document[half]

(* The first name in the files has this id. *)
Means(lines, given, id) ==
    \/ "id" \in DOMAIN given /\ id = given.id
    \/ /\ "name" \in DOMAIN given
       /\ \E i \in DOMAIN lines :
             /\ lines[i] = [name |-> given.name, id |-> id]
             /\ \A j \in 1..(i - 1) : lines[j].name # given.name

(* "By default, this is the same as the selected route" (configuration.rst *)
(* says for the prefix and the table of "to"), else a constant.            *)
DocumentedSlot(route) ==
    /\ route.dst = IF Says("to", "prefix") THEN document.to.prefix
                                           ELSE document.from.prefix
    /\ IF Says("to", "table") THEN Means(rt_tables, document.to.table, route.table)
       ELSE IF Says("from", "table")
            THEN Means(rt_tables, document.from.table, route.table)
            ELSE route.table = 254
    /\ IF Says("to", "protocol")
       THEN Means(rt_protos, document.to.protocol, route.protocol)
       ELSE route.protocol = 254
    /\ route.priority = IF Says("to", "metric") THEN document.to.metric
                                                ELSE MaxMetric

DocumentedSource(route) ==
    /\ route.dst = document.from.prefix
    /\ IF Says("from", "table") THEN Means(rt_tables, document.from.table, route.table)
                                ELSE route.table = 254
    /\ Says("from", "protocol") => Means(rt_protos, document.from.protocol, route.protocol)
    /\ Says("from", "metric") => route.priority = document.from.metric

-----------------------------------------------------------------------------
(* From the file to the kernel: whatever is left out of the file, and      *)
(* whatever the order of the notifications, what the gateway asks for is   *)
(* in the slot that the file describes, and a copy of nothing but a route  *)
(* that the file describes.                                                *)
FollowsDocument ==
    /\ currentRoute # NoRoute => DocumentedSlot(currentRoute)
    /\ \A c \in candidateRoutes : DocumentedSource(c)

(* A route of one family is never asked for with a next hop of the other,  *)
(* which the copy of the best candidate to another prefix would make of    *)
(* halves of different families, also when one of them is left out.        *)
FamilyKept ==
    currentRoute # NoRoute /\ currentRoute.via # Blackhole =>
        (currentRoute.via \in NextHop6 <=> currentRoute.dst \in Prefix6)

(* The slice holds the routes of the set that stands for it in Gateway,    *)
(* after any sequence of notifications.                                    *)
SliceIsSet == L!Listed = candidateRoutes

OneRoutePerSlot == L!OneRoutePerSlot
BestIgnoresArrivalOrder == L!BestIgnoresArrivalOrder
ImplementsCandidateSlots == L!ImplementsCandidateSlots
=============================================================================
