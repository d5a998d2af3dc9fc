---------------------------- MODULE Configuration ----------------------------
(***************************************************************************)
(* How the gateways of a configuration file are decoded (src/gateways/     *)
(* config.go, src/config): what is left out gets a default value, or the   *)
(* value of the other half; names are looked up in the files of iproute2.  *)
(*                                                                         *)
(* The document of a gateway is [from |-> block, to |-> block]; a block is *)
(* a record that has the keys that are there and no other.  A block that   *)
(* is not there is an empty one; keys without a value (YAML's null) are    *)
(* left out.                                                               *)
(***************************************************************************)
EXTENDS Routes, Sequences

CONSTANTS
    Prefix6,    \* the prefixes of the IPv6 family, the others are IPv4
    BadPrefix,  \* text that is not a prefix, or has bits out of its mask
    ipPlaceholder,  \* a prefix of IPv6 that stands for a missing one
    NoPrefix,   \* the zero value of a Prefix
    rt_tables, rt_protos,  \* the lines of the files, in the order they are read
    MaxMetric,  \* the highest metric (2^32 - 1 in the code)
    Failed      \* the error of a decoder

ASSUME IdType == Table = 0..255 /\ Protocol = 0..255 /\ MaxMetric \in Nat
ASSUME FamilyType == Prefix6 \subseteq Prefix
ASSUME LinesType ==
    {rt_tables, rt_protos} \subseteq Seq([id : Nat, name : STRING])
ASSUME FailedType ==
    /\ Failed \notin Prefix \cup {NoPrefix, ipPlaceholder} \cup Nat \cup BOOLEAN
    /\ {NoPrefix, ipPlaceholder, BadPrefix} \cap Prefix = {}

-----------------------------------------------------------------------------
(* Values. *)

(* The first line with this name decides, also when its id is of no use.   *)
(* A line that does not start with a number has id 0 and no name (""), one *)
(* with nothing after its number no name either: such a line is what an    *)
(* empty name finds.                                                       *)
findNameRTFiles(lines, name) ==
    LET Named == {i \in DOMAIN lines : lines[i].name = name}
    IN  IF Named = {} THEN Failed
        ELSE LET first == CHOOSE i \in Named : \A j \in Named : i <= j
             IN  IF lines[first].id > 255 THEN Failed ELSE lines[first].id

(* Table.UnmarshalYAML and Protocol.UnmarshalYAML: [id |-> n] or           *)
(* [name |-> n], which is what a negative number is too.                   *)
identifier(lines, given) ==
    IF "name" \in DOMAIN given THEN findNameRTFiles(lines, given.name)
    ELSE IF given.id > 255 THEN Failed ELSE given.id

prefix(given) == IF given = BadPrefix THEN Failed ELSE given

metric(given) == IF given > MaxMetric THEN Failed ELSE given

(* A block, each of its keys decoded. *)
decoded(block) ==
    [key \in DOMAIN block |->
        CASE key = "prefix"    -> prefix(block[key])
          [] key = "table"     -> identifier(rt_tables, block[key])
          [] key = "protocol"  -> identifier(rt_protos, block[key])
          [] key = "metric"    -> metric(block[key])
          [] key = "blackhole" -> block[key]]

(* The documents that the decoder is given for a gateway, good or bad. *)
Documented(document) ==
    /\ DOMAIN document.from \subseteq {"prefix", "protocol", "metric", "table"}
    /\ DOMAIN document.to \subseteq {"prefix", "protocol", "metric", "table", "blackhole"}
    /\ \A half \in {"from", "to"} : \A key \in DOMAIN document[half] :
          document[half][key] \in
              CASE key = "prefix"    -> Prefix \cup {BadPrefix}
                [] key \in {"table", "protocol"} -> [id : Nat] \cup [name : STRING]
                [] key = "metric"    -> Nat
                [] key = "blackhole" -> BOOLEAN

WellFormed(document) ==
    \A half \in {"from", "to"} :
        \A key \in DOMAIN document[half] : decoded(document[half])[key] # Failed

-----------------------------------------------------------------------------
(* A gateway. *)

DefaultToMetric == MaxMetric
DefaultToProtocol == 254
DefaultTable == 254

raw == [from |-> [prefix |-> ipPlaceholder, protocol |-> Wildcard,
                  metric |-> Wildcard, table |-> DefaultTable],
        to   |-> [prefix |-> NoPrefix, protocol |-> DefaultToProtocol,
                  metric |-> DefaultToMetric, table |-> 0, blackhole |-> FALSE]]

(* Decoding into a value leaves the fields that are not there alone. *)
into(block, value) ==
    [field \in DOMAIN value |->
        IF field \in DOMAIN block THEN decoded(block)[field] ELSE value[field]]

unmarshal(document, value) ==
    [from |-> into(document.from, value.from),
     to   |-> into(document.to, value.to)]

copyFromTo(value) ==
    [value EXCEPT !.to.prefix = value.from.prefix, !.to.table = value.from.table]

(* Mutant: the values are copied after the last decoding. *)
UnmarshalCopiesLast(document) == copyFromTo(unmarshal(document, raw))

(* The document is decoded twice: what "from" got the first time is what   *)
(* "to" has by default the second time.                                    *)
UnmarshalYAML(document) ==
    unmarshal(document, copyFromTo(unmarshal(document, raw)))

(* net.IP.To4() is not nil *)
IPv4(p) == p \in Prefix \ Prefix6

(* Mutant: the families are not compared. *)
compatibleIfGiven(value) == value.from.prefix # ipPlaceholder

compatible(value) ==
    /\ value.from.prefix # ipPlaceholder
    /\ IPv4(value.from.prefix) <=> IPv4(value.to.prefix)

(* The documents that LRGConfiguration.UnmarshalYAML returns no error for. *)
Accepted(document) == WellFormed(document) /\ compatible(UnmarshalYAML(document))

(* Configuration.UnmarshalYAML: a list of documents, none of which fails.  *)
AcceptedList(documents) ==
    /\ documents # <<>>
    /\ \A i \in DOMAIN documents : Accepted(documents[i])
=============================================================================
