--------------------------- MODULE ConfiguredProofs ---------------------------
(***************************************************************************)
(* From the document of a gateway to the routes it asks for, for every     *)
(* document, every content of the files of names and every sequence of     *)
(* notifications.  The decoder fixes the two halves of the configuration   *)
(* (lemmas below); GatewayProofs says what the handler does with them.     *)
(***************************************************************************)
EXTENDS ConfiguredGateway, GatewayProofs, SequenceTheorems

(* A name that is found is that of the first line that has it. *)
LEMMA NameFound ==
    ASSUME NEW lines \in Seq([id : Nat, name : STRING]), NEW name,
           NEW id, id = findNameRTFiles(lines, name), id # Failed
    PROVE  \E i \in DOMAIN lines :
              /\ lines[i] = [name |-> name, id |-> id]
              /\ \A j \in 1..(i - 1) : lines[j].name # name
<1> DEFINE Named == {i \in DOMAIN lines : lines[i].name = name}
<1>1. Named # {} /\ Named \in SUBSET Nat /\ DOMAIN lines = 1..Len(lines)
    <2>1. Named # {}
        BY Zenon DEF findNameRTFiles
    <2>2. DOMAIN lines = 1..Len(lines) /\ Len(lines) \in Nat
        BY LenProperties
    <2> QED BY <2>1, <2>2
<1>2. \E i \in Named : \A j \in Named : i <= j
    BY <1>1, LeastNat
<1> DEFINE first == CHOOSE i \in Named : \A j \in Named : i <= j
<1>3. first \in Named /\ \A j \in Named : first <= j
    BY <1>2
<1>4. id = lines[first].id
    <2>1. id = IF Named = {} THEN Failed
               ELSE IF lines[first].id > 255 THEN Failed ELSE lines[first].id
        BY DEF findNameRTFiles
    <2> HIDE DEF first, Named
    <2> QED BY <1>1, <2>1
<1> HIDE DEF first
<1>5. lines[first] \in [id : Nat, name : STRING] /\ lines[first].name = name
    <2>1. first \in 1..Len(lines)
        BY <1>1, <1>3
    <2> QED BY <1>3, <2>1, ElementOfSeq
<1>6. lines[first] = [name |-> name, id |-> id]
    BY <1>4, <1>5
<1>7. ASSUME NEW j \in 1..(first - 1) PROVE lines[j].name # name
    <2>1. j \in DOMAIN lines /\ ~(first <= j)
        BY <1>1, <1>3
    <2> QED BY <1>3, <2>1
<1> QED BY <1>3, <1>6, <1>7

(* What a table or a protocol that decodes is. *)
LEMMA IdentifierMeans ==
    ASSUME NEW lines \in Seq([id : Nat, name : STRING]),
           NEW given \in [id : Nat] \cup [name : STRING],
           identifier(lines, given) # Failed
    PROVE  Means(lines, given, identifier(lines, given))
<1>1. CASE "name" \in DOMAIN given
    <2>1. identifier(lines, given) = findNameRTFiles(lines, given.name)
        BY <1>1 DEF identifier
    <2> QED BY <1>1, <2>1, NameFound DEF Means
<1>2. CASE "name" \notin DOMAIN given
    <2>1. given \in [id : Nat] /\ "id" \in DOMAIN given
        BY <1>2
    <2>2. identifier(lines, given) = given.id
        BY <1>2 DEF identifier
    <2> QED BY <2>1, <2>2 DEF Means
<1> QED BY <1>1, <1>2

-----------------------------------------------------------------------------
(* The configuration is what its document decodes to. *)
Decodes ==
    /\ documents \in Documents
    /\ index \in DOMAIN documents
    /\ Accepted(document)
    /\ config = UnmarshalYAML(document)

(* The fields of a value into which a block is decoded. *)
LEMMA IntoField ==
    ASSUME NEW block, NEW value, NEW field \in DOMAIN value
    PROVE  into(block, value)[field] =
              IF field \in DOMAIN block THEN decoded(block)[field] ELSE value[field]
BY DEF into

LEMMA DecodedKeys ==
    ASSUME NEW block, \A key \in DOMAIN block : decoded(block)[key] # Failed
    PROVE  /\ "prefix" \in DOMAIN block => decoded(block)["prefix"] = block.prefix
           /\ "metric" \in DOMAIN block => decoded(block)["metric"] = block.metric
           /\ "table" \in DOMAIN block =>
                 decoded(block)["table"] = identifier(rt_tables, block.table)
           /\ "protocol" \in DOMAIN block =>
                 decoded(block)["protocol"] = identifier(rt_protos, block.protocol)
<1>1. "prefix" \in DOMAIN block => decoded(block)["prefix"] = prefix(block.prefix)
    BY DEF decoded
<1>2. "metric" \in DOMAIN block => decoded(block)["metric"] = metric(block.metric)
    BY DEF decoded
<1>3. "table" \in DOMAIN block =>
         decoded(block)["table"] = identifier(rt_tables, block.table)
    BY DEF decoded
<1>4. "protocol" \in DOMAIN block =>
         decoded(block)["protocol"] = identifier(rt_protos, block.protocol)
    BY DEF decoded
<1>5. "prefix" \in DOMAIN block => prefix(block.prefix) = block.prefix
    BY <1>1 DEF prefix
<1>6. "metric" \in DOMAIN block => metric(block.metric) = block.metric
    BY <1>2 DEF metric
<1> QED BY <1>1, <1>2, <1>3, <1>4, <1>5, <1>6

(* The fields of a configuration that was accepted: those of the document, *)
(* else those of the other half, else the defaults.                        *)
writtenTable == IF Says("from", "table")
                THEN identifier(rt_tables, document.from.table) ELSE DefaultTable

FieldsAsWritten ==
    /\ Says("from", "prefix") /\ config.from.prefix = document.from.prefix
    /\ config.from.table = writtenTable
    /\ config.from.protocol = IF Says("from", "protocol")
             THEN identifier(rt_protos, document.from.protocol) ELSE Wildcard
    /\ config.from.metric = IF Says("from", "metric")
             THEN document.from.metric ELSE Wildcard
    /\ config.to.prefix = IF Says("to", "prefix")
             THEN document.to.prefix ELSE document.from.prefix
    /\ config.to.table = IF Says("to", "table")
             THEN identifier(rt_tables, document.to.table) ELSE writtenTable
    /\ config.to.protocol = IF Says("to", "protocol")
             THEN identifier(rt_protos, document.to.protocol) ELSE DefaultToProtocol
    /\ config.to.metric = IF Says("to", "metric")
             THEN document.to.metric ELSE DefaultToMetric

LEMMA FieldsDecoded == Decodes => FieldsAsWritten
<1> SUFFICES ASSUME Decodes PROVE FieldsAsWritten
    OBVIOUS
<1> DEFINE from == document.from
           to   == document.to
           one  == unmarshal(document, raw)
           two  == copyFromTo(one)
<1>1. /\ config = unmarshal(document, two)
      /\ WellFormed(document) /\ config.from.prefix # ipPlaceholder
    BY DEF Decodes, UnmarshalYAML, Accepted, compatible
<1>2. /\ one.from = into(from, raw.from)
      /\ one.to = into(to, raw.to)
    BY DEF unmarshal
<1>3. /\ two.from = one.from
      /\ DOMAIN two.to = DOMAIN one.to
      /\ two.to.protocol = one.to.protocol /\ two.to.metric = one.to.metric
      /\ two.to.prefix = one.from.prefix /\ two.to.table = one.from.table
    BY DEF copyFromTo, unmarshal, into, raw
<1>4. /\ config.from = into(from, two.from)
      /\ config.to = into(to, two.to)
    BY <1>1 DEF unmarshal
<1>5. /\ \A key \in DOMAIN from : decoded(from)[key] # Failed
      /\ \A key \in DOMAIN to : decoded(to)[key] # Failed
    <2>1. document["from"] = document.from /\ document["to"] = document.to
        OBVIOUS
    <2> QED BY <1>1, <2>1 DEF WellFormed
<1>6. /\ DOMAIN raw.from = {"prefix", "protocol", "metric", "table"}
      /\ DOMAIN raw.to = {"prefix", "protocol", "metric", "table", "blackhole"}
    BY DEF raw
<1>7. /\ DOMAIN one.from = DOMAIN raw.from /\ DOMAIN one.to = DOMAIN raw.to
      /\ DOMAIN two.from = DOMAIN raw.from /\ DOMAIN two.to = DOMAIN raw.to
    BY <1>2, <1>3 DEF into
<1> HIDE DEF from, to, one, two
<1>8. /\ one.from.prefix = IF "prefix" \in DOMAIN from THEN from.prefix ELSE ipPlaceholder
      /\ one.from.table = IF "table" \in DOMAIN from
                          THEN identifier(rt_tables, from.table) ELSE DefaultTable
      /\ one.from.protocol = IF "protocol" \in DOMAIN from
                          THEN identifier(rt_protos, from.protocol) ELSE Wildcard
      /\ one.from.metric = IF "metric" \in DOMAIN from THEN from.metric ELSE Wildcard
    BY <1>2, <1>5, <1>6, IntoField, DecodedKeys DEF raw
<1>9. /\ one.to.protocol = IF "protocol" \in DOMAIN to
                          THEN identifier(rt_protos, to.protocol) ELSE DefaultToProtocol
      /\ one.to.metric = IF "metric" \in DOMAIN to THEN to.metric ELSE DefaultToMetric
    BY <1>2, <1>5, <1>6, IntoField, DecodedKeys DEF raw
<1>10. /\ config.from.prefix = one.from.prefix /\ config.from.table = one.from.table
       /\ config.from.protocol = one.from.protocol
       /\ config.from.metric = one.from.metric
    BY <1>3, <1>4, <1>5, <1>6, <1>7, <1>8, IntoField, DecodedKeys
<1>11. /\ config.to.prefix = IF "prefix" \in DOMAIN to THEN to.prefix ELSE one.from.prefix
       /\ config.to.table = IF "table" \in DOMAIN to
                            THEN identifier(rt_tables, to.table) ELSE one.from.table
       /\ config.to.protocol = one.to.protocol /\ config.to.metric = one.to.metric
    BY <1>3, <1>4, <1>5, <1>6, <1>7, <1>9, IntoField, DecodedKeys
<1>12. "prefix" \in DOMAIN from
    BY <1>1, <1>8, <1>10
<1>13. /\ \A key : Says("from", key) <=> key \in DOMAIN from
       /\ \A key : Says("to", key) <=> key \in DOMAIN to
    BY DEF Says, from, to
<1>14. document.from = from /\ document.to = to
    BY DEF from, to
<1> QED BY <1>8, <1>9, <1>10, <1>11, <1>12, <1>13, <1>14 DEF FieldsAsWritten, writtenTable

(* A table or a protocol of an accepted document is an identifier of its   *)
(* file.                                                                   *)
LEMMA NamesDecoded ==
    ASSUME Decodes, NEW half \in {"from", "to"}
    PROVE  /\ Says(half, "table") =>
                 LET id == identifier(rt_tables, document[half].table)
                 IN  id \in Nat /\ Means(rt_tables, document[half].table, id)
           /\ Says(half, "protocol") =>
                 LET id == identifier(rt_protos, document[half].protocol)
                 IN  id \in Nat /\ Means(rt_protos, document[half].protocol, id)
<1> DEFINE block == document[half]
<1>1. Documented(document) /\ WellFormed(document)
    BY DocumentsType DEF Decodes, Accepted, document
<1>2. \A key \in DOMAIN block : decoded(block)[key] # Failed
    BY <1>1 DEF WellFormed
<1>3. /\ "table" \in DOMAIN block => block["table"] \in [id : Nat] \cup [name : STRING]
      /\ "protocol" \in DOMAIN block => block["protocol"] \in [id : Nat] \cup [name : STRING]
    BY <1>1 DEF Documented
<1>4. ASSUME NEW lines \in Seq([id : Nat, name : STRING]),
             NEW given \in [id : Nat] \cup [name : STRING],
             identifier(lines, given) # Failed
      PROVE  identifier(lines, given) \in Nat /\ Means(lines, given, identifier(lines, given))
    <2> DEFINE id == identifier(lines, given)
    <2>1. Means(lines, given, id)
        BY <1>4, IdentifierMeans
    <2> HIDE DEF id
    <2>2. ASSUME "id" \in DOMAIN given, id = given.id
          PROVE  id \in Nat
        <3>1. given \notin [name : STRING]
            <4>1. \A g \in [name : STRING] : DOMAIN g = {"name"}
                OBVIOUS
            <4> QED BY <2>2, <4>1
        <3>2. given \in [id : Nat]
            BY <3>1
        <3> QED BY <2>2, <3>2
    <2>3. ASSUME \E i \in DOMAIN lines : lines[i] = [name |-> given.name, id |-> id]
          PROVE  id \in Nat
        <3>1. PICK i \in DOMAIN lines : lines[i] = [name |-> given.name, id |-> id]
            BY <2>3
        <3>2. lines[i] \in [id : Nat, name : STRING]
            <4>1. i \in 1..Len(lines)
                BY LenProperties
            <4> QED BY <4>1, ElementOfSeq
        <3>3. lines[i].id \in Nat
            BY <3>2
        <3>4. lines[i].id = id
            BY <3>1
        <3> QED BY <3>3, <3>4
    <2>4. id \in Nat
        BY <2>1, <2>2, <2>3 DEF Means
    <2> QED BY <2>1, <2>4 DEF id
<1> HIDE DEF block
<1>5. /\ "table" \in DOMAIN block => identifier(rt_tables, block.table) # Failed
      /\ "protocol" \in DOMAIN block => identifier(rt_protos, block.protocol) # Failed
    BY <1>2, DecodedKeys
<1>6. \A key : Says(half, key) <=> key \in DOMAIN block
    BY DEF Says, block
<1>7. /\ "table" \in DOMAIN block => block.table \in [id : Nat] \cup [name : STRING]
      /\ "protocol" \in DOMAIN block => block.protocol \in [id : Nat] \cup [name : STRING]
    BY <1>3
<1>8. rt_tables \in Seq([id : Nat, name : STRING]) /\ rt_protos \in Seq([id : Nat, name : STRING])
    BY LinesType
<1> QED BY <1>4, <1>5, <1>6, <1>7, <1>8 DEF block

(* A route that the "to" half matches is in the slot that the document     *)
(* describes, one that the "from" half matches is a source it describes.   *)
LEMMA MatchesAsWritten ==
    ASSUME Decodes, NEW route \in Route
    PROVE  /\ ToMatch(config.to, route) => DocumentedSlot(route)
           /\ FromMatch(config.from, route) => DocumentedSource(route)
<1>1. FieldsAsWritten
    BY FieldsDecoded
<1>2. /\ document["from"] = document.from /\ document["to"] = document.to
    OBVIOUS
<1>3. /\ Says("from", "table") =>
            Means(rt_tables, document.from.table, identifier(rt_tables, document.from.table))
      /\ Says("to", "table") =>
            Means(rt_tables, document.to.table, identifier(rt_tables, document.to.table))
      /\ Says("from", "protocol") =>
            /\ identifier(rt_protos, document.from.protocol) \in Nat
            /\ Means(rt_protos, document.from.protocol,
                     identifier(rt_protos, document.from.protocol))
      /\ Says("to", "protocol") =>
            Means(rt_protos, document.to.protocol, identifier(rt_protos, document.to.protocol))
    BY <1>2, NamesDecoded
<1>4. Says("from", "metric") => document.from.metric \in Nat
    <2>1. Documented(document)
        BY DocumentsType DEF Decodes, document
    <2>2. "metric" \in DOMAIN document["from"] => document["from"]["metric"] \in Nat
        BY <2>1 DEF Documented
    <2> QED BY <2>2 DEF Says
<1>5. ASSUME ToMatch(config.to, route) PROVE DocumentedSlot(route)
    <2>1. /\ route.dst = config.to.prefix /\ route.table = config.to.table
          /\ route.protocol = config.to.protocol /\ route.priority = config.to.metric
        BY <1>5 DEF ToMatch
    <2> QED BY <1>1, <1>3, <2>1 DEF FieldsAsWritten, writtenTable, DocumentedSlot,
               DefaultTable, DefaultToProtocol, DefaultToMetric
<1>6. ASSUME FromMatch(config.from, route) PROVE DocumentedSource(route)
    <2>1. /\ route.dst = config.from.prefix /\ route.table = config.from.table
          /\ config.from.protocol \in {Wildcard, route.protocol}
          /\ config.from.metric \in {Wildcard, route.priority}
        BY <1>6 DEF FromMatch
    <2> QED BY <1>1, <1>3, <1>4, <2>1, NilValues
            DEF FieldsAsWritten, writtenTable, DocumentedSource, DefaultTable
<1> QED BY <1>5, <1>6

-----------------------------------------------------------------------------
LEMMA InitConfigured == ConfiguredInit => Init /\ Decodes
BY DEF ConfiguredInit, AcceptedList, Decodes, document

LEMMA NextConfigured == [ConfiguredNext]_configuredVars => [Next]_vars
<1>1. ASSUME ConfiguredNext PROVE Next
    BY <1>1 DEF ConfiguredNext, Next
<1> QED BY <1>1 DEF configuredVars

LEMMA ConfigKept == [Next]_vars => config' = config
BY DEF Next, vars, pushNotification, processNotification, InstallSucceeds,
       InstallFails, InstallPanics, Kill, Stopped

LEMMA NextDecodes == Decodes /\ [ConfiguredNext]_configuredVars => Decodes'
<1> SUFFICES ASSUME Decodes, [ConfiguredNext]_configuredVars PROVE Decodes'
    OBVIOUS
<1>1. config' = config /\ documents' = documents /\ index' = index
    BY NextConfigured, ConfigKept DEF ConfiguredNext, configuredVars
<1> QED BY <1>1 DEF Decodes, document

(* A gateway that was configured from a file is a gateway: what Gateway    *)
(* promises of any configuration it keeps.                                 *)
THEOREM ConfiguredIsGateway == ConfiguredSpec => Spec
BY InitConfigured, NextConfigured, PTL DEF ConfiguredSpec, Spec

(* From the file to the kernel: what a gateway asks for is in the slot     *)
(* that its document describes, and a copy of a route it describes, the    *)
(* two decodings, the defaults and the names included.                     *)
THEOREM AsksWhatIsWritten == ConfiguredSpec => []FollowsDocument
<1>1. Inv /\ Decodes => FollowsDocument
    <2> SUFFICES ASSUME Inv, Decodes PROVE FollowsDocument
        OBVIOUS
    <2>1. currentRoute # NoRoute => currentRoute \in Route /\ ToMatch(config.to, currentRoute)
        BY DEF Inv, TypeOK, CurrentInToSlot
    <2>2. \A c \in candidateRoutes : c \in Route /\ FromMatch(config.from, c)
        BY UpdateType DEF Inv, TypeOK, CandidatesAreSources
    <2> QED BY <2>1, <2>2, MatchesAsWritten DEF FollowsDocument
<1> QED BY <1>1, InitConfigured, NextConfigured, NextDecodes, InitInv, NextInv, PTL
        DEF ConfiguredSpec

-----------------------------------------------------------------------------
(* The families of the two halves are the same, and the next hop of a      *)
(* current route that is not a blackhole comes from one of them.           *)
OfFamily(route) ==
    route # NoRoute /\ route.via # Blackhole =>
        (route.via \in NextHop6 <=> config.to.prefix \in Prefix6)

LEMMA FamiliesAgree ==
    ASSUME Decodes, TypeOK
    PROVE  config.from.prefix \in Prefix6 <=> config.to.prefix \in Prefix6
<1>1. config.from.prefix \in Prefix /\ config.to.prefix \in Prefix
    BY ConfigType DEF TypeOK, LRGConfiguration, FromConfiguration, ToConfiguration
<1>2. IPv4(config.from.prefix) <=> IPv4(config.to.prefix)
    BY DEF Decodes, Accepted, compatible
<1> QED BY <1>1, <1>2 DEF IPv4

LEMMA InstallKeepsFamily ==
    ASSUME Decodes, TypeOK, config' = config,
           NEW candidates \in SUBSET Update, NEW current, OfFamily(current),
           \A c \in candidates : FromMatch(config.from, c),
           installCandidateRoute(candidates, current)
    PROVE  OfFamily(currentRoute)'
<1> DEFINE target == targetRoute(candidates, config.to)
           best   == bestCandidateRoute(candidates)
<1>1. currentRoute' \in {current, target}
    BY DEF installCandidateRoute
<1>2. target \in {NoRoute} \/ target.via \in {Blackhole, best.via}
    BY DEF targetRoute
<1>3. CASE candidates = {}
    <2>1. best = NoRoute
        BY <1>3 DEF bestCandidateRoute
    <2>2. target = NoRoute \/ target.via = Blackhole
        BY <2>1 DEF targetRoute
    <2> QED BY <1>1, <2>2 DEF OfFamily
<1>4. CASE candidates # {}
    <2>1. best \in candidates
        BY <1>4, UpdateType, BestIsCandidate
    <2>2. best.dst = config.from.prefix
        BY <2>1 DEF FromMatch
    <2>3. best.via # Blackhole => (best.via \in NextHop6 <=> config.to.prefix \in Prefix6)
        BY <2>1, <2>2, KernelFamilies, FamiliesAgree
    <2> HIDE DEF best, target
    <2> QED BY <1>1, <1>2, <2>3 DEF OfFamily
<1> QED BY <1>3, <1>4

LEMMA NextOfFamily ==
    ASSUME Inv, Decodes, OfFamily(currentRoute), [Next]_vars
    PROVE  OfFamily(currentRoute)'
<1> USE DEF Inv
<1>1. config' = config
    BY ConfigKept
<1>2. CASE processNotification
    <2> DEFINE n == Head(notification)
    <2>1. n \in Notification /\ handle(n)
        BY <1>2 DEF processNotification, TypeOK
    <2> HIDE DEF n
    <2>2. /\ candidateRoutes \in SUBSET Update
          /\ \A c \in candidateRoutes : FromMatch(config.from, c)
        BY DEF TypeOK, CandidatesAreSources
    <2>3. CASE UNCHANGED currentRoute
        BY <1>1, <2>3 DEF OfFamily
    <2>4. CASE n.type = "EndOfRIB"
        BY <1>1, <2>1, <2>2, <2>4, InstallKeepsFamily DEF handle
    <2>5. CASE n.type \in {"NEWROUTE", "DELROUTE"}
        <3>1. n.route \in Update
            BY <2>1, <2>5 DEF Notification
        <3>2. CASE targetUpdate(n)
            <4>1. ToMatch(config.to, n.route)
                BY <3>2 DEF targetUpdate
            <4>2. OfFamily(n.route)
                BY <3>1, <4>1, KernelFamilies DEF OfFamily, ToMatch
            <4>3. OfFamily(NoRoute)
                BY DEF OfFamily
            <4> QED BY <1>1, <2>2, <3>2, <4>2, <4>3, InstallKeepsFamily DEF targetUpdate
        <3>3. CASE sourceUpdate(n)
            <4>1. /\ removeCandidateRoute(candidateRoutes, n.route) \subseteq candidateRoutes
                  /\ addCandidateRoute(candidateRoutes, n.route)
                        \subseteq candidateRoutes \cup {n.route}
                  /\ FromMatch(config.from, n.route)
                BY <3>3 DEF removeCandidateRoute, addCandidateRoute, sourceUpdate
            <4>2. CASE installCandidateRoute(removeCandidateRoute(candidateRoutes, n.route),
                                             currentRoute)
                BY <1>1, <2>2, <4>1, <4>2, InstallKeepsFamily
            <4>3. CASE installCandidateRoute(addCandidateRoute(candidateRoutes, n.route),
                                             currentRoute)
                <5>1. /\ addCandidateRoute(candidateRoutes, n.route) \in SUBSET Update
                      /\ \A c \in addCandidateRoute(candidateRoutes, n.route) :
                            FromMatch(config.from, c)
                    BY <2>2, <3>1, <4>1
                <5> QED BY <1>1, <4>3, <5>1, InstallKeepsFamily
            <4> QED BY <3>3, <4>2, <4>3 DEF sourceUpdate
        <3>4. CASE alienUpdate(n)
            BY <2>3, <3>4 DEF alienUpdate
        <3> QED BY <2>1, <2>5, <3>2, <3>3, <3>4 DEF handle
    <2>6. n.type = "StartOfRIB" => UNCHANGED currentRoute
        BY <2>1 DEF handle
    <2> QED BY <2>1, <2>3, <2>4, <2>5, <2>6 DEF Notification
<1>3. CASE UNCHANGED currentRoute
    BY <1>1, <1>3 DEF OfFamily
<1>4. [Next]_vars => processNotification \/ UNCHANGED currentRoute
    BY DEF Next, vars, pushNotification, InstallSucceeds, InstallFails,
           InstallPanics, Kill, Stopped
<1> QED BY <1>2, <1>3, <1>4

(* No route is asked for with a next hop of the other family than its      *)
(* prefix: the comparison of the two prefixes by LRGConfiguration's        *)
(* decoder is enough, as the kernel has no such route to copy.             *)
THEOREM KeepsFamily == ConfiguredSpec => []FamilyKept
<1>1. ConfiguredInit => OfFamily(currentRoute)
    BY DEF ConfiguredInit, Init, OfFamily
<1>2. Inv /\ OfFamily(currentRoute) => FamilyKept
    BY DEF Inv, CurrentInToSlot, ToMatch, OfFamily, FamilyKept
<1>3. Inv /\ Decodes /\ OfFamily(currentRoute) /\ [ConfiguredNext]_configuredVars
         => OfFamily(currentRoute)'
    BY NextConfigured, NextOfFamily
<1> QED BY <1>1, <1>2, <1>3, InitConfigured, NextConfigured, NextDecodes, InitInv,
           NextInv, PTL DEF ConfiguredSpec

-----------------------------------------------------------------------------
(* The slice of CandidateList, next to the set of Gateway.                 *)
Elements(q) == {q[i] : i \in 1..Len(q)}

Distinct(q) == \A i \in 1..Len(q), j \in 1..Len(q) : q[i] = q[j] => i = j

(* The loop of listWithout, on a function that holds what it has kept. *)
Keeping(f, list, dropped, m) ==
    [n \in 0..m |-> IF n = 0 THEN <<>>
                    ELSE IF list[n] \in dropped THEN f[n - 1]
                    ELSE Append(f[n - 1], list[n])]

(* The loop has a result, for every number of rounds. *)
LEMMA KeepingExists ==
    ASSUME NEW list, NEW dropped, NEW m \in Nat
    PROVE  \E f : f = Keeping(f, list, dropped, m)
<1> DEFINE Runs(k) == \E f : f = Keeping(f, list, dropped, k)
           Bad == {k \in Nat : ~Runs(k)}
<1>1. Runs(0)
    <2>1. PICK f : f = [n \in 0..0 |-> <<>>]
        OBVIOUS
    <2>2. f = Keeping(f, list, dropped, 0)
        BY <2>1 DEF Keeping
    <2> QED BY <2>2
<1>2. ASSUME NEW k \in Nat, Runs(k) PROVE Runs(k + 1)
    <2>1. PICK f : f = Keeping(f, list, dropped, k)
        BY <1>2
    <2>2. PICK g : g = [n \in 0..(k + 1) |->
                          IF n = k + 1
                          THEN IF list[n] \in dropped THEN f[n - 1]
                               ELSE Append(f[n - 1], list[n])
                          ELSE f[n]]
        OBVIOUS
    <2>3. \A n \in 0..k : g[n] = f[n]
        BY <2>2
    <2>4. \A n \in 0..k : f[n] = IF n = 0 THEN <<>>
                                 ELSE IF list[n] \in dropped THEN f[n - 1]
                                      ELSE Append(f[n - 1], list[n])
        BY <2>1 DEF Keeping
    <2>5. ASSUME NEW n \in 0..(k + 1)
          PROVE  g[n] = IF n = 0 THEN <<>>
                        ELSE IF list[n] \in dropped THEN g[n - 1]
                             ELSE Append(g[n - 1], list[n])
        <3>1. CASE n = 0
            <4>1. 0 \in 0..k
                OBVIOUS
            <4> QED BY <2>3, <2>4, <3>1, <4>1
        <3>2. CASE n \in 1..k
            <4>1. n \in 0..k /\ n - 1 \in 0..k /\ n # 0
                BY <3>2
            <4> QED BY <2>3, <2>4, <4>1
        <3>3. CASE n = k + 1
            <4>1. n - 1 \in 0..k /\ n # 0
                BY <3>3
            <4> QED BY <2>2, <2>3, <3>3, <4>1
        <3> QED BY <3>1, <3>2, <3>3
    <2>6. g = Keeping(g, list, dropped, k + 1)
        <3>1. g = [n \in 0..(k + 1) |-> g[n]]
            BY <2>2
        <3> QED BY <2>5, <3>1 DEF Keeping
    <2> QED BY <2>6
<1> HIDE DEF Runs
<1>3. ASSUME Bad # {} PROVE FALSE
    <2>1. PICK k \in Bad : \A j \in Bad : k <= j
        BY <1>3, LeastNat
    <2>2. k # 0 /\ k \in Nat /\ k - 1 \in Nat /\ k - 1 \notin Bad
        BY <1>1, <2>1
    <2>3. Runs((k - 1) + 1) /\ (k - 1) + 1 = k
        BY <1>2, <2>2
    <2> QED BY <2>1, <2>3
<1>4. Runs(m)
    BY <1>3
<1> QED BY <1>4 DEF Runs

(* What a loop keeps: the routes that are not dropped, each once. *)
KeptOf(q, list, dropped, n) ==
    /\ q \in Seq(Route)
    /\ \A j \in 1..Len(q) : \E i \in 1..n : q[j] = list[i] /\ list[i] \notin dropped
    /\ \A i \in 1..n : list[i] \notin dropped => \E j \in 1..Len(q) : q[j] = list[i]
    /\ Distinct(q)

LEMMA KeptAppend ==
    ASSUME NEW list \in Seq(Route), Distinct(list), NEW dropped,
           NEW n \in 1..Len(list), NEW q, KeptOf(q, list, dropped, n - 1)
    PROVE  /\ list[n] \in dropped => KeptOf(q, list, dropped, n)
           /\ list[n] \notin dropped => KeptOf(Append(q, list[n]), list, dropped, n)
<1>0. list[n] \in Route /\ Len(list) \in Nat /\ q \in Seq(Route)
    BY ElementOfSeq, LenProperties DEF KeptOf
<1>1. ASSUME NEW i \in 1..n PROVE i \in 1..(n - 1) \/ i = n
    BY <1>0
<1>2. 1..(n - 1) \subseteq 1..n
    BY <1>0
<1>3. CASE list[n] \in dropped
    BY <1>0, <1>1, <1>2, <1>3 DEF KeptOf
<1>4. CASE list[n] \notin dropped
    <2> DEFINE p == Append(q, list[n])
    <2>1. /\ p \in Seq(Route) /\ Len(p) = Len(q) + 1 /\ Len(q) \in Nat
          /\ \A j \in 1..Len(q) : p[j] = q[j]
          /\ p[Len(q) + 1] = list[n]
          /\ \A j \in 1..Len(p) : j \in 1..Len(q) \/ j = Len(q) + 1
        BY <1>0, AppendProperties, LenProperties
    <2> HIDE DEF p
    <2>2. \A j \in 1..Len(p) : \E i \in 1..n : p[j] = list[i] /\ list[i] \notin dropped
        <3>1. ASSUME NEW j \in 1..Len(q)
              PROVE  \E i \in 1..n : q[j] = list[i] /\ list[i] \notin dropped
            <4>1. PICK i \in 1..(n - 1) : q[j] = list[i] /\ list[i] \notin dropped
                BY DEF KeptOf
            <4> QED BY <1>2, <4>1
        <3>2. \E i \in 1..n : list[n] = list[i] /\ list[i] \notin dropped
            <4>1. n \in 1..n
                BY <1>0
            <4> QED BY <1>4, <4>1
        <3>3. ASSUME NEW j \in 1..Len(p)
              PROVE  \E i \in 1..n : p[j] = list[i] /\ list[i] \notin dropped
            <4>1. CASE j \in 1..Len(q)
                <5>1. p[j] = q[j]
                    BY <2>1, <4>1
                <5> QED BY <3>1, <4>1, <5>1
            <4>2. CASE j = Len(q) + 1
                <5>1. p[j] = list[n]
                    BY <2>1, <4>2
                <5> QED BY <3>2, <5>1
            <4> QED BY <2>1, <4>1, <4>2
        <3> QED BY <3>3
    <2>3. \A i \in 1..n : list[i] \notin dropped => \E j \in 1..Len(p) : p[j] = list[i]
        <3>1. ASSUME NEW i \in 1..(n - 1), list[i] \notin dropped
              PROVE  \E j \in 1..Len(p) : p[j] = list[i]
            <4>1. PICK j \in 1..Len(q) : q[j] = list[i]
                BY <3>1 DEF KeptOf
            <4>2. j \in 1..Len(p) /\ p[j] = list[i]
                BY <2>1, <4>1
            <4> QED BY <4>2
        <3>2. Len(q) + 1 \in 1..Len(p)
            BY <2>1
        <3> QED BY <1>1, <2>1, <3>1, <3>2
    <2>4. \A j \in 1..Len(q) : q[j] # list[n]
        <3>1. ASSUME NEW j \in 1..Len(q), q[j] = list[n] PROVE FALSE
            <4>1. PICK i \in 1..(n - 1) : list[n] = list[i]
                BY <3>1 DEF KeptOf
            <4>2. i \in 1..Len(list) /\ i # n
                BY <1>0, <4>1
            <4> QED BY <4>1, <4>2 DEF Distinct
        <3> QED BY <3>1
    <2>5. Distinct(p)
        BY <2>1, <2>4 DEF KeptOf, Distinct
    <2>6. KeptOf(p, list, dropped, n)
        BY <2>1, <2>2, <2>3, <2>5 DEF KeptOf
    <2> QED BY <1>4, <2>6 DEF p
<1> QED BY <1>3, <1>4

LEMMA WithoutKeeps ==
    ASSUME NEW list \in Seq(Route), Distinct(list), NEW dropped
    PROVE  /\ L!listWithout(list, dropped) \in Seq(Route)
           /\ Elements(L!listWithout(list, dropped)) = Elements(list) \ dropped
           /\ Distinct(L!listWithout(list, dropped))
<1> DEFINE m == Len(list)
           kept == CHOOSE f : f = Keeping(f, list, dropped, m)
<1>0. m \in Nat
    BY LenProperties
<1>1. kept = Keeping(kept, list, dropped, m)
    BY <1>0, KeepingExists
<1>2. L!listWithout(list, dropped) = kept[m]
    BY DEF L!listWithout, Keeping
<1> HIDE DEF kept, m
<1>3. kept[0] = <<>> /\ \A n \in 1..m :
         kept[n] = IF list[n] \in dropped THEN kept[n - 1] ELSE Append(kept[n - 1], list[n])
    <2>1. 0 \in 0..m /\ \A n \in 1..m : n \in 0..m /\ n # 0
        BY <1>0
    <2> QED BY <1>1, <2>1 DEF Keeping
<1> DEFINE Good(n) == KeptOf(kept[n], list, dropped, n)
           Bad == {n \in 0..m : ~Good(n)}
<1>4. Good(0)
    BY <1>3 DEF KeptOf, Distinct
<1>5. \A n \in 1..m : Good(n - 1) => Good(n)
    BY <1>3, KeptAppend DEF m
<1> HIDE DEF Good
<1>6. ASSUME Bad # {} PROVE FALSE
    <2>1. Bad \subseteq Nat
        BY <1>0
    <2>2. PICK n \in Bad : \A j \in Bad : n <= j
        BY <1>6, <2>1, LeastNat
    <2>3. n \in 1..m /\ n - 1 \in 0..m /\ n - 1 \notin Bad
        BY <1>0, <1>4, <2>2
    <2> QED BY <1>5, <2>2, <2>3
<1>7. KeptOf(kept[m], list, dropped, m)
    BY <1>0, <1>6 DEF Good
<1>8. Elements(kept[m]) = Elements(list) \ dropped
    <2>1. ASSUME NEW r \in Elements(kept[m]) PROVE r \in Elements(list) /\ r \notin dropped
        <3>1. PICK j \in 1..Len(kept[m]) : kept[m][j] = r
            BY DEF Elements
        <3>2. PICK i \in 1..m : r = list[i] /\ list[i] \notin dropped
            BY <1>7, <3>1 DEF KeptOf
        <3> QED BY <3>2 DEF Elements, m
    <2>2. ASSUME NEW r \in Elements(list), r \notin dropped PROVE r \in Elements(kept[m])
        <3>1. PICK i \in 1..m : r = list[i]
            BY DEF Elements, m
        <3>2. PICK j \in 1..Len(kept[m]) : kept[m][j] = r
            BY <1>7, <2>2, <3>1 DEF KeptOf
        <3> QED BY <3>2 DEF Elements
    <2> QED BY <2>1, <2>2
<1> QED BY <1>2, <1>7, <1>8 DEF KeptOf

OneSlot(q) ==
    \A i \in 1..Len(q), j \in 1..Len(q) : Slot(q[i]) = Slot(q[j]) => i = j

(* What the two functions that write the slice do to it: what those of     *)
(* Routes do to the set of its elements, and never two routes of one slot. *)
LEMMA SubsetKeepsSlots ==
    ASSUME NEW list, NEW q, OneSlot(list), Distinct(q), Elements(q) \subseteq Elements(list)
    PROVE  OneSlot(q)
<1> SUFFICES ASSUME NEW i \in 1..Len(q), NEW j \in 1..Len(q), Slot(q[i]) = Slot(q[j])
             PROVE  i = j
    BY DEF OneSlot
<1>1. q[i] \in Elements(list) /\ q[j] \in Elements(list)
    BY DEF Elements
<1>2. PICK a \in 1..Len(list) : q[i] = list[a]
    BY <1>1 DEF Elements
<1>3. PICK b \in 1..Len(list) : q[j] = list[b]
    BY <1>1 DEF Elements
<1>4. a = b
    BY <1>2, <1>3 DEF OneSlot
<1> QED BY <1>2, <1>3, <1>4 DEF Distinct

LEMMA ListRemoves ==
    ASSUME NEW list \in Seq(Route), OneSlot(list), NEW r \in Route
    PROVE  /\ L!listRemove(list, r) \in Seq(Route)
           /\ Elements(L!listRemove(list, r)) = removeCandidateRoute(Elements(list), r)
           /\ OneSlot(L!listRemove(list, r))
<1>1. Distinct(list)
    BY DEF OneSlot, Distinct
<1> DEFINE q == L!listWithout(list, {r})
<1>2. q \in Seq(Route) /\ Elements(q) = Elements(list) \ {r} /\ Distinct(q)
    BY <1>1, WithoutKeeps
<1>3. L!listRemove(list, r) = q
    BY DEF L!listRemove
<1> HIDE DEF q
<1> QED BY <1>2, <1>3, SubsetKeepsSlots DEF removeCandidateRoute

LEMMA ListAdds ==
    ASSUME NEW list \in Seq(Route), OneSlot(list), NEW r \in Route
    PROVE  /\ L!listAdd(list, r) \in Seq(Route)
           /\ Elements(L!listAdd(list, r)) = addCandidateRoute(Elements(list), r)
           /\ OneSlot(L!listAdd(list, r))
<1>1. Distinct(list)
    BY DEF OneSlot, Distinct
<1>2. L!Contains(list, r) <=> r \in Elements(list)
    BY DEF L!Contains, Elements
<1>3. CASE r \in Elements(list)
    <2>1. L!listAdd(list, r) = list
        BY <1>2, <1>3 DEF L!listAdd
    <2> QED BY <1>3, <2>1 DEF addCandidateRoute
<1>4. CASE r \notin Elements(list)
    <2> DEFINE dropped == L!inSlot(list, r)
               q == L!listWithout(list, dropped)
               p == Append(q, r)
    <2>1. q \in Seq(Route) /\ Elements(q) = Elements(list) \ dropped /\ Distinct(q)
        BY <1>1, WithoutKeeps
    <2>2. dropped = {c \in Elements(list) : Slot(c) = Slot(r)}
        <3>1. DOMAIN list = 1..Len(list)
            BY LenProperties
        <3> QED BY <3>1 DEF L!inSlot, L!ToSet, Elements, L!Slot, Slot
    <2>3. L!listAdd(list, r) = p
        BY <1>2, <1>4 DEF L!listAdd
    <2> HIDE DEF dropped, q
    <2>4. /\ p \in Seq(Route) /\ Len(p) = Len(q) + 1 /\ Len(q) \in Nat
          /\ \A j \in 1..Len(q) : p[j] = q[j]
          /\ p[Len(q) + 1] = r
          /\ \A j \in 1..Len(p) : j \in 1..Len(q) \/ j = Len(q) + 1
        BY <2>1, AppendProperties, LenProperties
    <2> HIDE DEF p
    <2>5. OneSlot(q)
        BY <2>1, SubsetKeepsSlots
    <2>6. \A j \in 1..Len(q) : Slot(q[j]) # Slot(r)
        BY <2>1, <2>2 DEF Elements
    <2>7. OneSlot(p)
        BY <2>4, <2>5, <2>6 DEF OneSlot
    <2>8. Elements(p) = Elements(q) \cup {r}
        <3>1. Len(q) + 1 \in 1..Len(p) /\ \A j \in 1..Len(q) : j \in 1..Len(p)
            BY <2>4
        <3>2. ASSUME NEW j \in 1..Len(p) PROVE p[j] \in Elements(q) \cup {r}
            BY <2>4 DEF Elements
        <3>3. ASSUME NEW j \in 1..Len(q) PROVE q[j] \in Elements(p)
            BY <2>4, <3>1 DEF Elements
        <3>4. r \in Elements(p)
            BY <2>4, <3>1 DEF Elements
        <3>5. Elements(p) \subseteq Elements(q) \cup {r}
            BY <3>2 DEF Elements
        <3>6. Elements(q) \subseteq Elements(p)
            BY <3>3 DEF Elements
        <3> QED BY <3>4, <3>5, <3>6
    <2>9. Elements(p) = addCandidateRoute(Elements(list), r)
        BY <1>4, <2>1, <2>2, <2>8 DEF addCandidateRoute
    <2> QED BY <2>3, <2>4, <2>7, <2>9
<1> QED BY <1>3, <1>4

-----------------------------------------------------------------------------
SliceInv ==
    /\ slice \in Seq(Route)
    /\ OneSlot(slice)
    /\ Elements(slice) = candidateRoutes

LEMMA InitSlice == ConfiguredInit => SliceInv
<1> SUFFICES ASSUME ConfiguredInit PROVE SliceInv
    OBVIOUS
<1>1. slice = <<>> /\ candidateRoutes = {}
    BY DEF ConfiguredInit, Init, L!Init
<1>2. 1..Len(slice) = {}
    BY <1>1
<1> QED BY <1>1, <1>2 DEF SliceInv, OneSlot, Elements

(* The set keeps step with the slice. *)
LEMMA SetFollows ==
    ASSUME NEW n, handle(n), config' = config
    PROVE  /\ n.type = "StartOfRIB" => candidateRoutes' = {}
           /\ n.type = "EndOfRIB" => candidateRoutes' = candidateRoutes
           /\ n.type \in {"NEWROUTE", "DELROUTE"} =>
                candidateRoutes' =
                   IF ToMatch(config.to, n.route) \/ ~FromMatch(config.from, n.route)
                   THEN candidateRoutes
                   ELSE IF n.type = "NEWROUTE"
                        THEN addCandidateRoute(candidateRoutes, n.route)
                        ELSE removeCandidateRoute(candidateRoutes, n.route)
<1>1. \A candidates, current :
         installCandidateRoute(candidates, current) => candidateRoutes' = candidates
    BY DEF installCandidateRoute
<1>2. targetUpdate(n) => ToMatch(config.to, n.route) /\ candidateRoutes' = candidateRoutes
    BY <1>1 DEF targetUpdate
<1>3. alienUpdate(n) => /\ ~ToMatch(config.to, n.route) /\ ~FromMatch(config.from, n.route)
                        /\ candidateRoutes' = candidateRoutes
    BY DEF alienUpdate
<1>4. sourceUpdate(n) =>
         /\ ~ToMatch(config.to, n.route) /\ FromMatch(config.from, n.route)
         /\ candidateRoutes' = IF n.type = "NEWROUTE"
                               THEN addCandidateRoute(candidateRoutes, n.route)
                               ELSE removeCandidateRoute(candidateRoutes, n.route)
    BY <1>1 DEF sourceUpdate
<1> QED BY <1>1, <1>2, <1>3, <1>4 DEF handle

(* The four things that a step does to the slice. *)
SliceStarts == slice' = <<>> /\ candidateRoutes' = {} /\ L!StartOfRIB

SliceAdds(r) ==
    slice' = L!listAdd(slice, r) /\ candidateRoutes' = addCandidateRoute(candidateRoutes, r)
    /\ L!NewRoute(r)

SliceRemoves(r) ==
    slice' = L!listRemove(slice, r) /\ candidateRoutes' = removeCandidateRoute(candidateRoutes, r)
    /\ L!DelRoute(r)

SliceStays == UNCHANGED <<slice, last, candidateRoutes>>

LEMMA SliceMoves ==
    ASSUME TypeOK, [ConfiguredNext]_configuredVars
    PROVE  \/ SliceStarts
           \/ \E r \in Update : SliceAdds(r) \/ SliceRemoves(r)
           \/ SliceStays
<1> DEFINE n == Head(notification)
<1>1. CASE processNotification /\ sliceFollows(n)
    <2>1. handle(n) /\ config' = config /\ notification # <<>>
        BY <1>1 DEF processNotification
    <2>2. n \in Notification
        BY <2>1, HeadTailProperties DEF TypeOK
    <2>3. n.type \in {"NEWROUTE", "DELROUTE"} => n.route \in Update
        BY <2>2 DEF Notification
    <2> HIDE DEF n
    <2>4. CASE n.type = "StartOfRIB" /\ L!StartOfRIB
        BY <2>1, <2>4, SetFollows DEF SliceStarts, L!StartOfRIB
    <2>5. CASE n.type = "EndOfRIB" /\ UNCHANGED detailVars
        BY <2>1, <2>5, SetFollows DEF SliceStays, detailVars
    <2>6. CASE /\ n.type \in {"NEWROUTE", "DELROUTE"}
               /\ ToMatch(config.to, n.route) \/ ~FromMatch(config.from, n.route)
               /\ UNCHANGED detailVars
        BY <2>1, <2>6, SetFollows DEF SliceStays, detailVars
    <2>7. CASE /\ ~ToMatch(config.to, n.route) /\ FromMatch(config.from, n.route)
               /\ n.type = "NEWROUTE" /\ L!NewRoute(n.route)
        BY <2>1, <2>3, <2>7, SetFollows DEF SliceAdds, L!NewRoute
    <2>8. CASE /\ ~ToMatch(config.to, n.route) /\ FromMatch(config.from, n.route)
               /\ n.type = "DELROUTE" /\ L!DelRoute(n.route)
        BY <2>1, <2>3, <2>8, SetFollows DEF SliceRemoves, L!DelRoute
    <2> QED BY <1>1, <2>4, <2>5, <2>6, <2>7, <2>8 DEF sliceFollows, n
<1>2. CASE UNCHANGED detailVars /\ \/ \E m \in Notification : pushNotification(m)
                                   \/ InstallSucceeds \/ InstallFails \/ InstallPanics
                                   \/ Kill \/ Stopped
    BY <1>2 DEF detailVars, SliceStays, pushNotification, InstallSucceeds, InstallFails,
                InstallPanics, Kill, Stopped, vars
<1>3. CASE UNCHANGED configuredVars
    BY <1>3 DEF configuredVars, vars, detailVars, SliceStays
<1> QED BY <1>1, <1>2, <1>3 DEF ConfiguredNext

LEMMA NextSlice ==
    ASSUME TypeOK, SliceInv, [ConfiguredNext]_configuredVars
    PROVE  SliceInv'
<1>1. CASE SliceStarts
    <2>1. slice' = <<>> /\ candidateRoutes' = {}
        BY <1>1 DEF SliceStarts
    <2>2. 1..Len(slice') = {}
        BY <2>1
    <2> QED BY <2>1, <2>2 DEF SliceInv, OneSlot, Elements
<1>2. ASSUME NEW r \in Update, SliceAdds(r) PROVE SliceInv'
    <2>1. r \in Route
        BY UpdateType
    <2>2. /\ slice' \in Seq(Route) /\ OneSlot(slice')
          /\ Elements(slice') = addCandidateRoute(Elements(slice), r)
        BY <1>2, <2>1, ListAdds DEF SliceInv, SliceAdds
    <2> QED BY <1>2, <2>2 DEF SliceInv, SliceAdds, OneSlot, Elements
<1>3. ASSUME NEW r \in Update, SliceRemoves(r) PROVE SliceInv'
    <2>1. r \in Route
        BY UpdateType
    <2>2. /\ slice' \in Seq(Route) /\ OneSlot(slice')
          /\ Elements(slice') = removeCandidateRoute(Elements(slice), r)
        BY <1>3, <2>1, ListRemoves DEF SliceInv, SliceRemoves
    <2> QED BY <1>3, <2>2 DEF SliceInv, SliceRemoves, OneSlot, Elements
<1>4. CASE SliceStays
    BY <1>4 DEF SliceStays, SliceInv, OneSlot, Elements
<1> QED BY <1>1, <1>2, <1>3, <1>4, SliceMoves

LEMMA SliceHolds == ConfiguredSpec => [](Inv /\ SliceInv)
<1>1. Inv => TypeOK
    BY DEF Inv
<1>2. ConfiguredSpec => []Inv
    BY ConfiguredIsGateway, InitInv, NextInv, PTL DEF Spec
<1> QED BY <1>1, <1>2, InitSlice, NextSlice, PTL DEF ConfiguredSpec

LEMMA ListedIs == slice \in Seq(Route) => L!Listed = Elements(slice)
<1>1. slice \in Seq(Route) => DOMAIN slice = 1..Len(slice)
    BY LenProperties
<1> QED BY <1>1 DEF L!Listed, L!ToSet, Elements

(* The slice of the code holds the routes of the set that stands for it,   *)
(* after any sequence of notifications: what the other modules prove of    *)
(* the set is about the code (gateway.go, gatewayState.candidateRoutes).   *)
THEOREM SliceStandsForSet == ConfiguredSpec => []SliceIsSet
<1>1. SliceInv => SliceIsSet
    BY ListedIs DEF SliceInv, SliceIsSet
<1> QED BY <1>1, SliceHolds, PTL

(* A replaced route never stays behind the one that replaces it, although  *)
(* addCandidateRoute returns early on an equal route.                      *)
THEOREM SlotsAreKept == ConfiguredSpec => []OneRoutePerSlot
<1>1. SliceInv => OneRoutePerSlot
    <2> SUFFICES ASSUME SliceInv PROVE OneRoutePerSlot
        OBVIOUS
    <2>1. DOMAIN slice = 1..Len(slice)
        BY LenProperties DEF SliceInv
    <2> QED BY <2>1 DEF SliceInv, OneSlot, OneRoutePerSlot, L!OneRoutePerSlot, L!Slot, Slot
<1> QED BY <1>1, SliceHolds, PTL

-----------------------------------------------------------------------------
(* The loop of listBest. *)
Choosing(f, list, m) ==
    [n \in 0..m |-> IF n = 0 THEN NoRoute
                    ELSE IF f[n - 1] = NoRoute \/ Better(list[n], f[n - 1])
                         THEN list[n] ELSE f[n - 1]]

LEMMA ChoosingExists ==
    ASSUME NEW list, NEW m \in Nat
    PROVE  \E f : f = Choosing(f, list, m)
<1> DEFINE Runs(k) == \E f : f = Choosing(f, list, k)
           Bad == {k \in Nat : ~Runs(k)}
<1>1. Runs(0)
    <2>1. PICK f : f = [n \in 0..0 |-> NoRoute]
        OBVIOUS
    <2>2. f = Choosing(f, list, 0)
        BY <2>1 DEF Choosing
    <2> QED BY <2>2
<1>2. ASSUME NEW k \in Nat, Runs(k) PROVE Runs(k + 1)
    <2>1. PICK f : f = Choosing(f, list, k)
        BY <1>2
    <2>2. PICK g : g = [n \in 0..(k + 1) |->
                          IF n = k + 1
                          THEN IF f[n - 1] = NoRoute \/ Better(list[n], f[n - 1])
                               THEN list[n] ELSE f[n - 1]
                          ELSE f[n]]
        OBVIOUS
    <2>3. \A n \in 0..k : g[n] = f[n]
        BY <2>2
    <2>4. \A n \in 0..k : f[n] = IF n = 0 THEN NoRoute
                                 ELSE IF f[n - 1] = NoRoute \/ Better(list[n], f[n - 1])
                                      THEN list[n] ELSE f[n - 1]
        BY <2>1 DEF Choosing
    <2>5. ASSUME NEW n \in 0..(k + 1)
          PROVE  g[n] = IF n = 0 THEN NoRoute
                        ELSE IF g[n - 1] = NoRoute \/ Better(list[n], g[n - 1])
                             THEN list[n] ELSE g[n - 1]
        <3>1. CASE n = 0
            <4>1. 0 \in 0..k
                OBVIOUS
            <4> QED BY <2>3, <2>4, <3>1, <4>1
        <3>2. CASE n \in 1..k
            <4>1. n \in 0..k /\ n - 1 \in 0..k /\ n # 0
                BY <3>2
            <4> QED BY <2>3, <2>4, <4>1
        <3>3. CASE n = k + 1
            <4>1. n - 1 \in 0..k /\ n # 0
                BY <3>3
            <4> QED BY <2>2, <2>3, <3>3, <4>1
        <3> QED BY <3>1, <3>2, <3>3
    <2>6. g = Choosing(g, list, k + 1)
        <3>1. g = [n \in 0..(k + 1) |-> g[n]]
            BY <2>2
        <3> QED BY <2>5, <3>1 DEF Choosing
    <2> QED BY <2>6
<1> HIDE DEF Runs
<1>3. ASSUME Bad # {} PROVE FALSE
    <2>1. PICK k \in Bad : \A j \in Bad : k <= j
        BY <1>3, LeastNat
    <2>2. k # 0 /\ k \in Nat /\ k - 1 \in Nat /\ k - 1 \notin Bad
        BY <1>1, <2>1
    <2>3. Runs((k - 1) + 1) /\ (k - 1) + 1 = k
        BY <1>2, <2>2
    <2> QED BY <2>1, <2>3
<1>4. Runs(m)
    BY <1>3
<1> QED BY <1>4 DEF Runs

(* The best so far is one of the routes that were met, and none beats it. *)
BestOf(b, list, n) ==
    /\ b \in Route
    /\ \E i \in 1..n : b = list[i]
    /\ \A i \in 1..n : ~Better(list[i], b)

LEMMA BetterOrder ==
    ASSUME NEW a \in Route, NEW b \in Route, NEW c \in Route
    PROVE  /\ ~Better(a, a)
           /\ Better(a, b) /\ ~Better(c, b) => ~Better(c, a)
<1>1. {a.tos, b.tos, c.tos, a.priority, b.priority, c.priority} \subseteq Nat
    BY DEF Route
<1> QED BY <1>1 DEF Better

LEMMA ListBestIs ==
    ASSUME NEW list \in Seq(Route)
    PROVE  /\ Elements(list) = {} => L!listBest(list) = NoRoute
           /\ Elements(list) # {} =>
                 /\ L!listBest(list) \in Elements(list)
                 /\ \A c \in Elements(list) : ~Better(c, L!listBest(list))
<1> DEFINE m == Len(list)
           best == CHOOSE f : f = Choosing(f, list, m)
<1>0. m \in Nat /\ \A n \in 1..m : list[n] \in Route
    BY LenProperties, ElementOfSeq
<1>1. best = Choosing(best, list, m)
    BY <1>0, ChoosingExists
<1>2. L!listBest(list) = best[m]
    BY DEF L!listBest, Choosing, L!Better, Better
<1> HIDE DEF best, m
<1>3. best[0] = NoRoute /\ \A n \in 1..m :
         best[n] = IF best[n - 1] = NoRoute \/ Better(list[n], best[n - 1])
                   THEN list[n] ELSE best[n - 1]
    <2>1. 0 \in 0..m /\ \A n \in 1..m : n \in 0..m /\ n # 0
        BY <1>0
    <2> QED BY <1>1, <2>1 DEF Choosing
<1> DEFINE Good(n) == BestOf(best[n], list, n)
           Bad == {n \in 1..m : ~Good(n)}
<1>4. 1 \in 1..m => Good(1)
    <2> SUFFICES ASSUME 1 \in 1..m PROVE Good(1)
        OBVIOUS
    <2>1. best[1] = list[1] /\ list[1] \in Route /\ 1 \in 1..1
        <3>1. 1 - 1 = 0
            OBVIOUS
        <3> QED BY <1>0, <1>3, <3>1
    <2>2. \A i \in 1..1 : i = 1
        OBVIOUS
    <2> QED BY <2>1, <2>2, BetterOrder DEF BestOf
<1>5. ASSUME NEW n \in 2..m, Good(n - 1) PROVE Good(n)
    <2>1. /\ n \in 1..m /\ n \in 1..n /\ \A i \in 1..n : i = n \/ i \in 1..(n - 1)
          /\ 1..(n - 1) \subseteq 1..n /\ \A i \in 1..n : i \in 1..m
        BY <1>0
    <2>2. best[n - 1] \in Route /\ best[n - 1] # NoRoute /\ list[n] \in Route
        BY <1>0, <1>5, <2>1, NilValues DEF BestOf
    <2>3. CASE Better(list[n], best[n - 1])
        <3>1. best[n] = list[n]
            BY <1>3, <2>1, <2>3
        <3>2. \A i \in 1..(n - 1) : ~Better(list[i], list[n])
            BY <1>0, <1>5, <2>1, <2>2, <2>3, BetterOrder DEF BestOf
        <3>3. ~Better(list[n], list[n])
            BY <2>2, BetterOrder
        <3> QED BY <2>1, <2>2, <3>1, <3>2, <3>3 DEF BestOf
    <2>4. CASE ~Better(list[n], best[n - 1])
        <3>1. best[n] = best[n - 1]
            BY <1>3, <2>1, <2>2, <2>4
        <3>2. \E i \in 1..n : best[n - 1] = list[i]
            <4>1. PICK i \in 1..(n - 1) : best[n - 1] = list[i]
                BY <1>5 DEF BestOf
            <4> QED BY <2>1, <4>1
        <3> QED BY <1>5, <2>1, <2>2, <2>4, <3>1, <3>2 DEF BestOf
    <2> QED BY <2>3, <2>4
<1> HIDE DEF Good
<1>6. ASSUME Bad # {} PROVE FALSE
    <2>1. Bad \subseteq Nat
        BY <1>0
    <2>2. PICK n \in Bad : \A j \in Bad : n <= j
        BY <1>6, <2>1, LeastNat
    <2>3. n \in 2..m /\ n - 1 \in 1..m /\ n - 1 \notin Bad
        BY <1>0, <1>4, <2>2
    <2> QED BY <1>5, <2>2, <2>3
<1>7. CASE m = 0
    <2>1. Elements(list) = {}
        BY <1>7 DEF Elements, m
    <2> QED BY <1>2, <1>3, <1>7, <2>1
<1>8. CASE m # 0
    <2>1. m \in 1..m /\ Elements(list) # {}
        BY <1>0, <1>8 DEF Elements, m
    <2>2. BestOf(best[m], list, m)
        BY <1>6, <2>1 DEF Good
    <2>3. best[m] \in Elements(list)
        BY <2>2 DEF BestOf, Elements, m
    <2>4. \A c \in Elements(list) : ~Better(c, best[m])
        BY <2>2 DEF BestOf, Elements, m
    <2> QED BY <1>2, <2>1, <2>3, <2>4
<1> QED BY <1>7, <1>8

(* The sources of one gateway differ by their ToS or their priority when   *)
(* they are in two slots: the best of them is one.                         *)
LEMMA BestIsOne ==
    ASSUME NEW routes \in SUBSET Route, \A r, q \in routes : Slot(r) = Slot(q) => r = q,
           \A r \in routes : FromMatch(config.from, r),
           NEW b \in routes, \A c \in routes : ~Better(c, b), NEW c \in routes
    PROVE  c = b \/ Better(b, c)
<1>1. {b.tos, c.tos, b.priority, c.priority} \subseteq Nat
    BY DEF Route
<1>2. CASE b.tos = c.tos /\ b.priority = c.priority
    <2>1. Slot(b) = Slot(c)
        BY <1>2 DEF Slot, FromMatch
    <2> QED BY <2>1
<1>3. CASE ~(b.tos = c.tos /\ b.priority = c.priority)
    BY <1>1, <1>3 DEF Better
<1> QED BY <1>2, <1>3

(* The scan of the slice in the order of the arrivals finds the one best   *)
(* route of the set: a dump, a replacement or a resynchronisation, which   *)
(* change that order, do not change the choice (gateway.go,                *)
(* bestCandidateRoute).                                                    *)
THEOREM BestIsOfTheSet == ConfiguredSpec => []BestIgnoresArrivalOrder
<1>1. ASSUME Inv, SliceInv PROVE BestIgnoresArrivalOrder
    <2> DEFINE routes == candidateRoutes
               b == L!listBest(slice)
    <2>1. /\ slice \in Seq(Route) /\ L!Listed = routes /\ Elements(slice) = routes
        BY <1>1, ListedIs DEF SliceInv
    <2>2. \A r, q \in routes : Slot(r) = Slot(q) => r = q
        BY <1>1 DEF SliceInv, OneSlot, Elements
    <2>3. routes \in SUBSET Route /\ \A r \in routes : FromMatch(config.from, r)
        BY <1>1, UpdateType DEF Inv, TypeOK, CandidatesAreSources
    <2>4. \A s : L!bestCandidateRoute(s) = bestCandidateRoute(s)
        BY DEF L!bestCandidateRoute, bestCandidateRoute, L!Better, Better
    <2>5. \A r, q : L!Better(r, q) <=> Better(r, q)
        BY DEF L!Better, Better
    <2>6. CASE routes = {}
        <3>1. b = NoRoute /\ bestCandidateRoute(routes) = NoRoute
            BY <2>1, <2>6, ListBestIs DEF bestCandidateRoute
        <3> QED BY <2>1, <2>4, <2>6, <3>1 DEF BestIgnoresArrivalOrder, L!BestIgnoresArrivalOrder
    <2>7. CASE routes # {}
        <3>1. b \in routes /\ \A c \in routes : ~Better(c, b)
            BY <2>1, <2>7, ListBestIs
        <3> HIDE DEF b
        <3>2. \A c \in routes : c = b \/ Better(b, c)
            BY <2>2, <2>3, <3>1, BestIsOne
        <3>3. bestCandidateRoute(routes) = b
            BY <2>3, <2>7, <3>1, <3>2, BestIsCandidate
        <3> QED BY <2>1, <2>4, <2>5, <3>2, <3>3
                DEF BestIgnoresArrivalOrder, L!BestIgnoresArrivalOrder, b
    <2> QED BY <2>6, <2>7
<1> QED BY <1>1, SliceHolds, PTL

-----------------------------------------------------------------------------
(* The route of each slot, of a set. *)
Held(routes) ==
    [s \in {Slot(r) : r \in Update} |->
        IF \E r \in routes : Slot(r) = s
        THEN CHOOSE r \in routes : Slot(r) = s
        ELSE NoRoute]

SetOneSlot(routes) == \A r, q \in routes : Slot(r) = Slot(q) => r = q

LEMMA HeldIs ==
    ASSUME NEW routes, SetOneSlot(routes)
    PROVE  \A s \in {Slot(r) : r \in Update} :
              /\ \A r \in routes : Slot(r) = s => Held(routes)[s] = r
              /\ (\A r \in routes : Slot(r) # s) => Held(routes)[s] = NoRoute
BY DEF Held, SetOneSlot

LEMMA HeldExtends ==
    ASSUME NEW routes, NEW g, g = [s \in {Slot(r) : r \in Update} |-> g[s]],
           \A s \in {Slot(r) : r \in Update} : Held(routes)[s] = g[s]
    PROVE  Held(routes) = g
BY DEF Held

LEMMA HeldAdd ==
    ASSUME NEW routes, routes \subseteq Route, SetOneSlot(routes), NEW r \in Update
    PROVE  Held(addCandidateRoute(routes, r)) = [Held(routes) EXCEPT ![Slot(r)] = r]
<1> DEFINE new == addCandidateRoute(routes, r)
           g == [Held(routes) EXCEPT ![Slot(r)] = r]
           Slots == {Slot(q) : q \in Update}
<1>1. SetOneSlot(new) /\ r \in new
    BY DEF SetOneSlot, addCandidateRoute
<1>2. \A q : Slot(q) # Slot(r) => (q \in new <=> q \in routes)
    BY DEF addCandidateRoute
<1>3. g = [s \in Slots |-> IF s = Slot(r) THEN r ELSE Held(routes)[s]]
    BY DEF Held
<1> HIDE DEF new, g, Slots
<1>4. ASSUME NEW s \in Slots PROVE Held(new)[s] = g[s]
    <2>1. CASE s = Slot(r)
        BY <1>1, <1>3, <2>1, HeldIs DEF Slots
    <2>2. CASE s # Slot(r) /\ \E q \in routes : Slot(q) = s
        <3>1. PICK q \in routes : Slot(q) = s
            BY <2>2
        <3>2. q \in new
            BY <1>2, <2>2, <3>1
        <3> QED BY <1>1, <1>3, <2>2, <3>1, <3>2, HeldIs DEF Slots
    <2>3. CASE s # Slot(r) /\ \A q \in routes : Slot(q) # s
        <3>1. \A q \in new : Slot(q) # s
            BY <1>2, <2>3
        <3> QED BY <1>1, <1>3, <2>3, <3>1, HeldIs DEF Slots
    <2> QED BY <2>1, <2>2, <2>3
<1>5. g = [s \in Slots |-> g[s]]
    BY <1>3
<1> QED BY <1>4, <1>5, HeldExtends DEF new, g, Slots

LEMMA HeldRemove ==
    ASSUME NEW routes, routes \subseteq Route, SetOneSlot(routes), NEW r \in Update
    PROVE  Held(removeCandidateRoute(routes, r)) =
              [Held(routes) EXCEPT ![Slot(r)] = IF Held(routes)[Slot(r)] = r THEN NoRoute
                                                ELSE Held(routes)[Slot(r)]]
<1> DEFINE new == removeCandidateRoute(routes, r)
           g == [Held(routes) EXCEPT ![Slot(r)] = IF Held(routes)[Slot(r)] = r THEN NoRoute
                                                  ELSE Held(routes)[Slot(r)]]
           Slots == {Slot(q) : q \in Update}
<1>0. r # NoRoute
    BY UpdateType, NilValues
<1>1. SetOneSlot(new) /\ \A q : q \in new <=> q \in routes /\ q # r
    BY DEF SetOneSlot, removeCandidateRoute
<1>2. g = [s \in Slots |-> IF s = Slot(r) /\ Held(routes)[s] = r THEN NoRoute
                           ELSE Held(routes)[s]]
    BY DEF Held
<1> HIDE DEF new, g, Slots
<1>3. ASSUME NEW s \in Slots PROVE Held(new)[s] = g[s]
    <2>1. CASE \E q \in routes : Slot(q) = s
        <3>1. PICK q \in routes : Slot(q) = s
            BY <2>1
        <3>2. Held(routes)[s] = q
            BY <3>1, HeldIs DEF Slots
        <3>3. CASE q = r
            <4>1. \A p \in new : Slot(p) # s
                BY <1>1, <3>1, <3>3 DEF SetOneSlot
            <4>2. Held(new)[s] = NoRoute
                BY <1>1, <4>1, HeldIs DEF Slots
            <4> QED BY <1>2, <3>1, <3>2, <3>3, <4>2
        <3>4. CASE q # r
            <4>1. q \in new
                BY <1>1, <3>1, <3>4
            <4>2. Held(new)[s] = q
                BY <1>1, <3>1, <4>1, HeldIs DEF Slots
            <4> QED BY <1>2, <3>2, <3>4, <4>2
        <3> QED BY <3>3, <3>4
    <2>2. CASE \A q \in routes : Slot(q) # s
        <3>1. \A q \in new : Slot(q) # s
            BY <1>1, <2>2
        <3>2. Held(new)[s] = NoRoute /\ Held(routes)[s] = NoRoute
            BY <1>1, <2>2, <3>1, HeldIs DEF Slots
        <3> QED BY <1>2, <3>2
    <2> QED BY <2>1, <2>2
<1>4. g = [s \in Slots |-> g[s]]
    BY <1>2
<1> QED BY <1>3, <1>4, HeldExtends DEF new, g, Slots

LEMMA HeldNone == Held({}) = [s \in {Slot(r) : r \in Update} |-> NoRoute]
BY DEF Held

LEMMA HeldSlots == SliceInv => L!slotsOf = Held(candidateRoutes)
<1> SUFFICES ASSUME SliceInv PROVE L!slotsOf = Held(candidateRoutes)
    OBVIOUS
<1>1. L!Listed = candidateRoutes
    BY ListedIs DEF SliceInv
<1> QED BY <1>1 DEF L!slotsOf, L!Slot, Slot, Held

SlotsAgree == L!slotsOf = Held(candidateRoutes)

LEMMA HeldSlotsNext == SliceInv' => SlotsAgree'
<1>1. SliceInv => SlotsAgree
    BY HeldSlots DEF SlotsAgree
<1> QED BY <1>1, PTL

LEMMA SetSlots ==
    ASSUME SliceInv
    PROVE  candidateRoutes \subseteq Route /\ SetOneSlot(candidateRoutes)
<1>1. \A i \in 1..Len(slice) : slice[i] \in Route
    BY ElementOfSeq DEF SliceInv
<1> QED BY <1>1 DEF SliceInv, OneSlot, Elements, SetOneSlot

(* The slice keeps what CandidateSlots promises: for each slot the last    *)
(* route announced there and not withdrawn since ("If a route has the same *)
(* table, prefix, tos and priority, it is replaced", gateway.go:213).      *)
THEOREM SliceImplementsSlots == ConfiguredSpec => ImplementsCandidateSlots
<1> DEFINE Slots == {Slot(r) : r \in Update}
<1>1. L!Abstract!Slots = Slots
    BY DEF L!Abstract!Slots, L!Abstract!Slot, Slot
<1>2. ConfiguredInit => L!Abstract!Init
    <2> SUFFICES ASSUME ConfiguredInit PROVE L!Abstract!Init
        OBVIOUS
    <2>1. candidateRoutes = {} /\ last = <<"StartOfRIB", NoRoute>>
        BY DEF ConfiguredInit, Init, L!Init
    <2>2. L!slotsOf = [s \in Slots |-> NoRoute]
        BY <2>1, InitSlice, HeldSlots, HeldNone
    <2> QED BY <1>1, <2>1, <2>2 DEF L!Abstract!Init, L!Abstract!Empty
<1>3. TypeOK /\ SliceInv /\ SliceInv' /\ [ConfiguredNext]_configuredVars
      => [L!Abstract!Next]_<<L!slotsOf, last>>
    <2> SUFFICES ASSUME TypeOK, SliceInv, SliceInv', [ConfiguredNext]_configuredVars
                 PROVE  [L!Abstract!Next]_<<L!slotsOf, last>>
        OBVIOUS
    <2>1. L!slotsOf = Held(candidateRoutes) /\ L!slotsOf' = Held(candidateRoutes')
        BY HeldSlots, HeldSlotsNext DEF SlotsAgree, Held
    <2>2. candidateRoutes \subseteq Route /\ SetOneSlot(candidateRoutes)
        BY SetSlots
    <2>3. \A r : L!Abstract!Slot(r) = Slot(r)
        BY DEF L!Abstract!Slot, Slot
    <2>4. CASE SliceStarts
        <3>1. L!slotsOf' = [s \in Slots |-> NoRoute] /\ last' = <<"StartOfRIB", NoRoute>>
            BY <2>1, <2>4, HeldNone DEF SliceStarts, L!StartOfRIB
        <3> QED BY <1>1, <3>1 DEF L!Abstract!Next, L!Abstract!Discard, L!Abstract!Empty
    <2>5. ASSUME NEW r \in Update, SliceAdds(r) PROVE L!Abstract!Next
        <3>1. L!slotsOf' = [L!slotsOf EXCEPT ![Slot(r)] = r] /\ last' = <<"NEWROUTE", r>>
            BY <2>1, <2>2, <2>5, HeldAdd DEF SliceAdds, L!NewRoute
        <3>2. L!Abstract!Announce(r)
            BY <2>3, <3>1 DEF L!Abstract!Announce
        <3> QED BY <3>2 DEF L!Abstract!Next
    <2>6. ASSUME NEW r \in Update, SliceRemoves(r) PROVE L!Abstract!Next
        <3>1. L!slotsOf' = [L!slotsOf EXCEPT ![Slot(r)] =
                                IF L!slotsOf[Slot(r)] = r THEN NoRoute
                                ELSE L!slotsOf[Slot(r)]]
              /\ last' = <<"DELROUTE", r>>
            BY <2>1, <2>2, <2>6, HeldRemove DEF SliceRemoves, L!DelRoute
        <3>2. L!Abstract!Withdraw(r)
            BY <2>3, <3>1 DEF L!Abstract!Withdraw
        <3> QED BY <3>2 DEF L!Abstract!Next
    <2>7. CASE SliceStays
        BY <2>1, <2>7 DEF SliceStays
    <2> QED BY <2>4, <2>5, <2>6, <2>7, SliceMoves
<1>4. Inv => TypeOK
    BY DEF Inv
<1>5. Inv /\ SliceInv /\ (Inv /\ SliceInv)' /\ [ConfiguredNext]_configuredVars
      => [L!Abstract!Next]_<<L!slotsOf, last>>
    BY <1>3, <1>4
<1> QED BY <1>2, <1>5, SliceHolds, PTL
        DEF ConfiguredSpec, ImplementsCandidateSlots, L!ImplementsCandidateSlots, L!Abstract!Spec
=============================================================================
