----------------------------- MODULE MCLastResort -----------------------------
(* One gateway, whose blackhole is one of WithBlackhole; two source routes *)
(* c1 and c2 in the main table, the second one worse by its ToS or by its  *)
(* priority; the last-resort gateway t1 in a table of its own or in the    *)
(* same one.  With TouchTarget, the rest of the system also adds or        *)
(* removes it.  With Rival, another program writes c3 in the slot of c1: a *)
(* source too for the gateway without a blackhole, whose "from" half takes *)
(* any protocol, and a route to ignore for the one with a blackhole.       *)
EXTENDS LastResort

CONSTANTS default, main, lrgtable, bgp, lrg, n1, n2, WithBlackhole,
          TouchTarget, Rival, WorseToS, WorsePriority

MCConfigurations ==
    {[from |-> [prefix |-> default, table |-> main,
                protocol |-> IF Rival /\ b THEN bgp ELSE Wildcard,
                metric |-> Wildcard],
      to   |-> [prefix |-> default, table |-> lrgtable, protocol |-> lrg,
                metric |-> 9, blackhole |-> b]] : b \in WithBlackhole}

MCRoute(table, protocol, priority, tos, via) ==
    [dst |-> default, table |-> table, protocol |-> protocol,
     priority |-> priority, tos |-> tos, via |-> via]

c1 == MCRoute(main, bgp, 1, 0, n1)
c2 == MCRoute(main, bgp, WorsePriority, WorseToS, n2)
c3 == MCRoute(main, lrg, 1, 0, n2)
t1 == MCRoute(lrgtable, lrg, 9, 0, n1)

MCExternal ==
    {c1, c2} \cup (IF TouchTarget THEN {t1} ELSE {}) \cup (IF Rival THEN {c3} ELSE {})

MCInitialRib ==
    {s \in SUBSET {c1, c2, t1} : \A r, q \in s : Slot(r) = Slot(q) => r = q}
=============================================================================
