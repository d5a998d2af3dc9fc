------------------------------ MODULE MCGateway ------------------------------
(* Documents with and without each key, and routes of both families: the   *)
(* gateway of the documentation's first example in its widest form (no     *)
(* protocol: "from" matches the "to" slot too); another prefix, table and  *)
(* metric; names; IPv6; and lists refused for one of their documents.      *)
(* Sources: two that contest a slot, one of a worse ToS and a better       *)
(* priority, one of a worse priority.                                      *)
EXTENDS ConfiguredGateway

CONSTANTS default, other, default6, n1, n2, n6

MCTable == 0..255

MCLines == <<[id |-> 0, name |-> ""], [id |-> 254, name |-> "main"],
             [id |-> 90, name |-> "public"], [id |-> 57, name |-> ""]>>

MCProtocols == <<[id |-> 0, name |-> ""], [id |-> 10, name |-> "mrt"],
                 [id |-> 254, name |-> "lrg"], [id |-> 100, name |-> "mrt"],
                 [id |-> 1000, name |-> "outofrange"]>>

None == [key \in {} |-> default]
Named(n) == [name |-> n]
Id(n) == [id |-> n]
From(block) == [from |-> block, to |-> None]

Wide(b) == [from |-> [prefix |-> default], to |-> [blackhole |-> b]]
Elsewhere == [from |-> [prefix |-> default, protocol |-> Named("mrt")],
              to |-> [prefix |-> other, table |-> Named("public"),
                      protocol |-> Id(254), metric |-> 2]]
SameTable == [from |-> [prefix |-> default, table |-> Named("public"), metric |-> 1],
              to |-> [protocol |-> Named("lrg"), metric |-> 2]]
Six == From([prefix |-> default6])

(* Not accepted. *)
MixedFamilies == [from |-> [prefix |-> default], to |-> [prefix |-> default6]]
OnlyTo == [from |-> None, to |-> [prefix |-> default]]
OutOfRange == From([prefix |-> default, protocol |-> Named("outofrange")])
Unknown == From([prefix |-> default, table |-> Named("nowhere")])
BigMetric == [from |-> [prefix |-> default], to |-> [metric |-> MaxMetric + 1]]
NoPure == From([prefix |-> BadPrefix])

MCDocuments ==
    {<<>>, <<Wide(FALSE)>>, <<Wide(TRUE)>>, <<Elsewhere, Six>>, <<SameTable>>}
    \cup {<<Wide(FALSE), d>> :
            d \in {MixedFamilies, OnlyTo, OutOfRange, Unknown, BigMetric, NoPure}}

(* What these decode to, families compared or not. *)
MCConfigurations ==
    {UnmarshalYAML(d) : d \in {Wide(TRUE), Wide(FALSE), Elsewhere, SameTable, Six,
                               MixedFamilies}}

MCRoute(dst, table, protocol, priority, tos, via) ==
    [dst |-> dst, table |-> table, protocol |-> protocol,
     priority |-> priority, tos |-> tos, via |-> via]

MCUpdate ==
    {MCRoute(default, 254, 10, 1, 0, n1), MCRoute(default, 254, 10, 1, 0, n2),
     MCRoute(default, 254, 10, 0, 1, n2), MCRoute(default, 254, 10, 2, 0, n2),
     MCRoute(default, 254, 254, MaxMetric, 0, n1),
     MCRoute(default, 254, 254, MaxMetric, 0, n2),
     MCRoute(default, 90, 100, 1, 0, n1), MCRoute(default, 90, 254, 2, 0, n1),
     MCRoute(other, 90, 254, 2, 0, n2),
     MCRoute(default6, 254, 10, 1, 0, n6),
     MCRoute(default6, 254, 254, MaxMetric, 0, n6)}
=============================================================================
