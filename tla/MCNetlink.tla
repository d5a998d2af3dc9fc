------------------------------ MODULE MCNetlink ------------------------------
(* Two routes that contest an IPv4 slot and an IPv6 one, which come and    *)
(* go, and an IPv4 one that stays, so that a dump may exceed its channel.  *)
EXTENDS Netlink

CONSTANTS default, default6, main, bgp, n1, n2

MCRoute(dst, priority, via) ==
    [dst |-> dst, table |-> main, protocol |-> bgp,
     priority |-> priority, tos |-> 0, via |-> via]

MCExternal ==
    {MCRoute(default, 1, n1), MCRoute(default, 1, n2), MCRoute(default6, 1, n1)}

MCInitialRib ==
    {s \cup {MCRoute(default, 2, n1)} : s \in
        {e \in SUBSET MCExternal : \A r, q \in e : Slot(r) = Slot(q) => r = q}}
=============================================================================
