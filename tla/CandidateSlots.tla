--------------------------- MODULE CandidateSlots ---------------------------
(***************************************************************************)
(* What the list of candidates of a gateway promises: for each slot, the   *)
(* last route announced there and not withdrawn since, like the kernel.    *)
(***************************************************************************)
EXTENDS Routes

CONSTANT Candidate   \* routes, among which those the "from" half matches

VARIABLES
    slots,   \* the candidate of each slot, or NoRoute
    last     \* the last notification: "StartOfRIB", "NEWROUTE", "DELROUTE"

Slots == {Slot(r) : r \in Candidate}

Empty == [s \in Slots |-> NoRoute]

Discard ==
    /\ slots' = Empty
    /\ last' = <<"StartOfRIB", NoRoute>>

Announce(r) ==
    /\ slots' = [slots EXCEPT ![Slot(r)] = r]
    /\ last' = <<"NEWROUTE", r>>

(* The withdrawal of a route that is not there is ignored. *)
Withdraw(r) ==
    /\ slots' = [slots EXCEPT ![Slot(r)] = IF @ = r THEN NoRoute ELSE @]
    /\ last' = <<"DELROUTE", r>>

Init == slots = Empty /\ last = <<"StartOfRIB", NoRoute>>

Next == Discard \/ \E r \in Candidate : Announce(r) \/ Withdraw(r)

Spec == Init /\ [][Next]_<<slots, last>>
=============================================================================
