------------------------------ MODULE Inventory ------------------------------
(***************************************************************************)
(* InventoryService: a gRPC server over one table, parts, which a migration*)
(* fills and nothing updates; so it is a constant here.  No SELECT has an  *)
(* ORDER BY: Postgres returns the rows in any order, and List brings them  *)
(* into the order of the request, or sorts them by name.                   *)
(***************************************************************************)
EXTENDS Integers, SequencesExt

CONSTANTS
    Catalog,    \* the table parts: Catalog[uuid] is the row of a part
    BadUUID,    \* an empty or malformed UUID, or uuid.Nil
    Queries,    \* the arguments of ListParts that callers use
    Callers,
    DbFails     \* TRUE when a query of InventoryService may fail

PartTypes == {"HULL", "ENGINE", "SHIELD", "WEAPON"}

\* The column part_type is free text: "UNSPECIFIED" is every other text, and in
\* a query no filter.  Of a name only the place in the alphabet counts.
ASSUME CatalogAssumption ==
    /\ IsFiniteSet(DOMAIN Catalog)
    /\ \A p \in DOMAIN Catalog :
          /\ Catalog[p].part_type \in PartTypes \cup {"UNSPECIFIED"}
          /\ Catalog[p].name \in Nat
          /\ Catalog[p].price \in Int
          /\ Catalog[p].stock_quantity \in Int

ASSUME QueriesAssumption == \A q \in Queries : IsFiniteSet(ToSet(q.uuids))

ASSUME BadUUIDIsNoPart == BadUUID \notin DOMAIN Catalog

VARIABLES
    query,      \* query[c]: the arguments of c's call
    listing     \* listing[c]: the answer to it

inventoryVars == <<query, listing>>

NoQuery == [uuids |-> <<>>, part_type |-> "none"]

Status(code) == [code |-> code, parts |-> <<>>]

Listed(s) == [code |-> "OK", parts |-> s]

-----------------------------------------------------------------------------
\* The WHERE clause of List: a type is looked at only when no UUID is given.
Selected(q) ==
    IF q.uuids # <<>> THEN ToSet(q.uuids) \cap DOMAIN Catalog
    ELSE {p \in DOMAIN Catalog :
             q.part_type # "UNSPECIFIED" => Catalog[p].part_type = q.part_type}

\* The part that a row is scanned to.
PartToModel(u) ==
    [uuid |-> u, name |-> Catalog[u].name, price |-> Catalog[u].price,
     part_type |-> Catalog[u].part_type, stock_quantity |-> Catalog[u].stock_quantity]

\* What the query may give: the parts of its rows, in any order.
Scanned(q) ==
    {[i \in DOMAIN uuids |-> PartToModel(uuids[i])] : uuids \in SetToSeqs(Selected(q))}

PartsByUUID(parts) ==
    [u \in {part.uuid : part \in ToSet(parts)} |->
        CHOOSE part \in ToSet(parts) : part.uuid = u]

ByName(p, q) == p.name <= q.name

\* Wrong: the rows as they were scanned.
AsScanned(q, parts) ==
    IF ToSet(q.uuids) \subseteq DOMAIN PartsByUUID(parts)
    THEN {Listed(parts)}
    ELSE {Status("NotFound")}

\* A part for each UUID of the request, found in the map of those scanned.
ListByUUIDs(q, parts) ==
    LET partsByUUID  == PartsByUUID(parts)
        orderedParts == [i \in DOMAIN q.uuids |-> partsByUUID[q.uuids[i]]]
    IN  IF ToSet(q.uuids) \subseteq DOMAIN partsByUUID
        THEN {Listed(orderedParts)}
        ELSE {Status("NotFound")}

\* Wrong: not sorted.
ListUnsorted(parts) == {Listed(parts)}

\* sort.Slice, which is not stable: parts of one name come in any order.
ListByName(parts) ==
    {Listed(s) : s \in {t \in SetToSeqs(ToSet(parts)) : IsSorted(t, ByName)}}

\* What ListParts may answer.
ListParts(q) ==
    IF BadUUID \in ToSet(q.uuids) THEN {Status("InvalidArgument")}
    ELSE (IF DbFails THEN {Status("Internal")} ELSE {})
         \cup UNION {IF q.uuids # <<>> THEN ListByUUIDs(q, parts) ELSE ListByName(parts) :
                        parts \in Scanned(q)}

GetPart(u) ==
    IF u = BadUUID THEN {Status("InvalidArgument")}
    ELSE {IF u \in DOMAIN Catalog THEN Listed(<<PartToModel(u)>>) ELSE Status("NotFound")}
         \cup (IF DbFails THEN {Status("Internal")} ELSE {})

InventoryInit ==
    /\ query = [c \in Callers |-> NoQuery]
    /\ listing = [c \in Callers |-> Status("none")]

Call(c, q, answers) ==
    /\ listing[c].code = "none"
    /\ query' = [query EXCEPT ![c] = q]
    /\ \E answer \in answers : listing' = [listing EXCEPT ![c] = answer]

InventoryNext ==
    \E c \in Callers :
        \/ \E q \in Queries : Call(c, q, ListParts(q))
        \/ \E q \in Queries : \E u \in ToSet(q.uuids) :
              Call(c, [uuids |-> <<u>>, part_type |-> "none"], GetPart(u))

InventorySpec == InventoryInit /\ [][InventoryNext]_inventoryVars

-----------------------------------------------------------------------------
(* Properties                                                              *)

\* In whatever order the rows come, a list by UUIDs has at each place the part
\* asked for there, with the columns of its own row, parts asked for twice
\* included; and it is refused whole only when one of them is unknown
\* (list.go:56-71).
ListsAsAsked ==
    \A c \in Callers :
        LET asked == query[c].uuids
            got   == listing[c]
        IN  asked # <<>> =>
                /\ got.code = "OK" =>
                      /\ DOMAIN got.parts = DOMAIN asked
                      /\ \A i \in DOMAIN asked : got.parts[i] = PartToModel(asked[i])
                /\ got.code = "NotFound" => ~ (ToSet(asked) \subseteq DOMAIN Catalog)

Before(s, p, q) == \E i, j \in DOMAIN s : i < j /\ s[i] = p /\ s[j] = q

\* The list of everything has every part once; the list of a type is a piece of
\* it: its parts of that type, once each, and any two of them in the same order
\* unless they share a name (list.go:25-28, 74-76).
ListingsAgree ==
    \A c, d \in Callers :
        LET all   == listing[c].parts
            piece == listing[d].parts
        IN  /\ query[c] = [uuids |-> <<>>, part_type |-> "UNSPECIFIED"]
            /\ query[d].uuids = <<>> /\ query[d].part_type \in PartTypes
            /\ listing[c].code = "OK" /\ listing[d].code = "OK"
            => /\ IsInjective(all) /\ IsInjective(piece)
               /\ ToSet(all) = {PartToModel(u) : u \in DOMAIN Catalog}
               /\ ToSet(piece) = {p \in ToSet(all) : p.part_type = query[d].part_type}
               /\ \A p, q \in ToSet(piece) :
                     Before(piece, p, q) =>
                         Before(all, p, q) \/ p.name = q.name
=============================================================================
