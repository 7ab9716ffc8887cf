------------------------------ MODULE Checkout ------------------------------
(***************************************************************************)
(* How an order comes into being and is shown: Create, from the request to *)
(* the COMMIT, and Get, which puts the order together again from its rows. *)
(* OrderService takes over where Create has drawn the UUID of the order.   *)
(*                                                                         *)
(* Create runs outside any transaction until it has everything; then one   *)
(* transaction inserts the order and its items, a statement at a time.     *)
(***************************************************************************)
EXTENDS Inventory

CONSTANTS
    OrderUUIDs,   \* what uuid.NewRandom draws from
    None,         \* an optional part that is not asked for, or a UUID not set
    Inputs,       \* the bodies of POST /orders that clients send
    Limit,        \* one more than the greatest int64
    Faults        \* "db": a statement fails; "commit": the acknowledgement of
                  \* a COMMIT is lost; "crash": the order service stops

Part == DOMAIN Catalog

Fields == {"hull", "engine", "shield", "weapon"}

ASSUME InputsAssumption ==
    \A in \in Inputs :
        /\ in = [f \in Fields |-> in[f]]
        /\ None \notin {in.hull, in.engine}

\* A UUID that is not set is none of the UUIDs of orders, and differs from one
\* that is malformed; a body is no UUID.
ASSUME NoneAssumption == None \notin Inputs \cup OrderUUIDs \cup {BadUUID}

ASSUME InputsAreNoUUIDs == Inputs \cap OrderUUIDs = {}

ASSUME LimitAssumption == Limit \in Nat \ {0}

VARIABLES
    orders,     \* the UUIDs in the table orders
    items,      \* the table order_items
    pc, input,
    draft,      \* draft[r]: the order that Create put together
    tx,         \* tx[r]: the rows its transaction has inserted
    found,      \* found[r]: the rows that Get has read
    response

checkoutVars == <<orders, items, pc, input, draft, tx, found, response>>

vars == <<inventoryVars, checkoutVars>>

NoRows == [orders |-> {}, items |-> {}]

NoDraft == [uuid |-> None, items |-> <<>>, total |-> 0]

NoResponse == [code |-> 0, order |-> None, total |-> 0, shown |-> None]

Init ==
    /\ InventoryInit
    /\ orders = {}
    /\ items = {}
    /\ pc = [r \in Callers |-> "idle"]
    /\ input = [r \in Callers |-> None]
    /\ draft = [r \in Callers |-> NoDraft]
    /\ tx = [r \in Callers |-> NoRows]
    /\ found = [r \in Callers |-> <<>>]
    /\ response = [r \in Callers |-> NoResponse]

Goto(r, label) == pc' = [pc EXCEPT ![r] = label]

Reply(r, answer) ==
    /\ Goto(r, "done")
    /\ response' = [response EXCEPT ![r] = answer]

Refuse(r, code) == Reply(r, [NoResponse EXCEPT !.code = code])

-----------------------------------------------------------------------------
(* What Create makes of the request and of the parts.                      *)

Requested(uuid, part_type) ==
    IF uuid = None THEN <<>> ELSE <<[uuid |-> uuid, part_type |-> part_type]>>

requestedParts(in) ==
    Requested(in.hull, "HULL") \o Requested(in.engine, "ENGINE")
        \o Requested(in.shield, "SHIELD") \o Requested(in.weapon, "WEAPON")

partUUIDs(in) == [i \in DOMAIN requestedParts(in) |-> requestedParts(in)[i].uuid]

Item(requested, price) ==
    [part |-> requested.uuid, part_type |-> requested.part_type, price |-> price]

\* Wrong: a sum that does not fit is kept.
WideAdd(a, b) == a + b

\* Two's complement addition of int64.
Add(a, b) == ((a + b + Limit) % (2 * Limit)) - Limit

Total(list) == FoldLeft(LAMBDA sum, item : Add(sum, item.price), 0, list)

Begin(r, in) ==
    /\ pc[r] = "idle"
    /\ input' = [input EXCEPT ![r] = in]
    /\ IF BadUUID \in {in[f] : f \in Fields}
       THEN Refuse(r, 400)
       ELSE Goto(r, "ListParts") /\ UNCHANGED response
    /\ UNCHANGED <<inventoryVars, orders, items, draft, tx, found>>

CallListParts(r) ==
    /\ pc[r] = "ListParts"
    /\ LET q == [uuids |-> partUUIDs(input[r]), part_type |-> "UNSPECIFIED"]
       IN  Call(r, q, ListParts(q))
    /\ Goto(r, "Price")
    /\ UNCHANGED <<orders, items, input, draft, tx, found, response>>

RefuseListing(r) ==
    /\ pc[r] = "Price"
    /\ listing[r].code # "OK"
    /\ Refuse(r, CASE listing[r].code = "NotFound"        -> 404
                   [] listing[r].code = "InvalidArgument" -> 400
                   [] OTHER                               -> 500)
    /\ UNCHANGED <<inventoryVars, orders, items, input, draft, tx, found>>

\* Wrong: only the first part is looked at.
HullOutOfStock(r) ==
    listing[r].parts[1].stock_quantity <= 0

\* A part in the answer has no stock.
OutOfStock(r) ==
    \E part \in ToSet(listing[r].parts) : part.stock_quantity <= 0

partByUUID(r) == PartsByUUID(listing[r].parts)

\* A requested part is not in the answer.
Missing(r) == ~ (ToSet(partUUIDs(input[r])) \subseteq DOMAIN partByUUID(r))

RefuseParts(r) ==
    /\ pc[r] = "Price"
    /\ listing[r].code = "OK"
    /\ OutOfStock(r) \/ Missing(r)
    /\ Refuse(r, IF OutOfStock(r) THEN 409 ELSE 404)
    /\ UNCHANGED <<inventoryVars, orders, items, input, draft, tx, found>>

\* The items, each at the price of its part in the answer.
pricedItems(r) ==
    [i \in DOMAIN requestedParts(input[r]) |->
        LET requested == requestedParts(input[r])[i]
        IN  Item(requested, partByUUID(r)[requested.uuid].price)]

\* Wrong: only the required parts are added up.
DraftWithoutExtras(r, o) ==
    [uuid |-> o, items |-> pricedItems(r), total |-> Total(SubSeq(pricedItems(r), 1, 2))]

Draft(r, o) == [uuid |-> o, items |-> pricedItems(r), total |-> Total(pricedItems(r))]

NewRandom(o) == o \notin {draft[r].uuid : r \in Callers}

Draw(r) ==
    /\ pc[r] = "Price"
    /\ listing[r].code = "OK"
    /\ ~ OutOfStock(r) /\ ~ Missing(r)
    /\ \E o \in OrderUUIDs : NewRandom(o) /\ draft' = [draft EXCEPT ![r] = Draft(r, o)]
    /\ Goto(r, "InsertOrder")
    /\ UNCHANGED <<inventoryVars, orders, items, input, tx, found, response>>

-----------------------------------------------------------------------------
(* The transaction of Create.                                              *)

\* Wrong: the statements run on the pool, each in a transaction of its own.
WriteThrough(r, rows) ==
    /\ orders' = orders \cup rows.orders
    /\ items' = items \cup rows.items
    /\ UNCHANGED tx

\* db is the transaction of the context (DefaultTrOrDB).
Write(r, rows) ==
    /\ tx' = [tx EXCEPT ![r] = [orders |-> @.orders \cup rows.orders,
                                items  |-> @.items \cup rows.items]]
    /\ UNCHANGED <<orders, items>>

ItemRow(r, i) ==
    LET item == draft[r].items[i]
    IN  [order |-> draft[r].uuid, part |-> item.part,
         part_type |-> item.part_type, price |-> item.price]

InsertOrder(r) ==
    /\ pc[r] = "InsertOrder"
    /\ Write(r, [NoRows EXCEPT !.orders = {draft[r].uuid}])
    /\ Goto(r, "InsertItem")
    /\ UNCHANGED <<inventoryVars, input, draft, found, response>>

\* The item that comes next.
NextItem(r) == Cardinality(tx[r].items) + 1

\* The key of order_items is (order_uuid, part_uuid).
Duplicate(r) ==
    \E row \in items \cup tx[r].items :
        row.order = draft[r].uuid /\ row.part = draft[r].items[NextItem(r)].part

InsertItem(r) ==
    /\ pc[r] = "InsertItem"
    /\ ~ Duplicate(r)
    /\ Write(r, [NoRows EXCEPT !.items = {ItemRow(r, NextItem(r))}])
    /\ Goto(r, IF NextItem(r) = Len(draft[r].items) THEN "Commit" ELSE "InsertItem")
    /\ UNCHANGED <<inventoryVars, input, draft, found, response>>

CommitTx(r) ==
    /\ pc[r] = "Commit"
    /\ orders' = orders \cup tx[r].orders
    /\ items' = items \cup tx[r].items
    /\ tx' = [tx EXCEPT ![r] = NoRows]
    /\ UNCHANGED <<inventoryVars, input, draft, found>>

Commit(r) ==
    /\ CommitTx(r)
    /\ Reply(r, [NoResponse EXCEPT !.code = 201, !.order = draft[r].uuid,
                                   !.total = draft[r].total])

CommitUnknown(r) ==
    /\ "commit" \in Faults
    /\ CommitTx(r)
    /\ Refuse(r, 500)

Statements == {"InsertOrder", "InsertItem", "Commit", "GetOrder", "GetItems"}

\* A statement fails: of Get with the answer 500, of Create with a ROLLBACK.
StatementFails(r) ==
    /\ pc[r] \in Statements
    /\ "db" \in Faults \/ (pc[r] = "InsertItem" /\ Duplicate(r))
    /\ tx' = [tx EXCEPT ![r] = NoRows]
    /\ Refuse(r, 500)
    /\ UNCHANGED <<inventoryVars, orders, items, input, draft, found>>

-----------------------------------------------------------------------------
(* Get: two statements and OrderToModel.                                   *)

BeginGet(r, o) ==
    /\ pc[r] = "idle"
    /\ input' = [input EXCEPT ![r] = o]
    /\ Goto(r, "GetOrder")
    /\ UNCHANGED <<inventoryVars, orders, items, draft, tx, found, response>>

GetOrder(r) ==
    /\ pc[r] = "GetOrder"
    /\ IF input[r] \in orders
       THEN Goto(r, "GetItems") /\ UNCHANGED response
       ELSE Refuse(r, 404)
    /\ UNCHANGED <<inventoryVars, orders, items, input, draft, tx, found>>

\* The rows come in any order.
GetItems(r) ==
    /\ pc[r] = "GetItems"
    /\ \E rows \in SetToSeqs({row \in items : row.order = input[r]}) :
          found' = [found EXCEPT ![r] = rows]
    /\ Goto(r, "OrderToModel")
    /\ UNCHANGED <<inventoryVars, orders, items, input, draft, tx, response>>

\* The last row of a type names the part.
PartOf(rows, part_type) ==
    FoldLeft(LAMBDA uuid, row : IF row.part_type = part_type THEN row.part ELSE uuid,
             None, rows)

OrderToModel(rows) ==
    [hull |-> PartOf(rows, "HULL"), engine |-> PartOf(rows, "ENGINE"),
     shield |-> PartOf(rows, "SHIELD"), weapon |-> PartOf(rows, "WEAPON")]

Show(r) ==
    /\ pc[r] = "OrderToModel"
    /\ Reply(r, [code |-> 200, order |-> input[r], total |-> Total(found[r]),
                 shown |-> OrderToModel(found[r])])
    /\ UNCHANGED <<inventoryVars, orders, items, input, draft, tx, found>>

-----------------------------------------------------------------------------
\* The process stops: Postgres rolls back what was not committed.
Crash ==
    /\ "crash" \in Faults
    /\ \E r \in Callers : pc[r] \notin {"idle", "done", "lost"}
    /\ pc' = [r \in Callers |-> IF pc[r] \in {"idle", "done"} THEN pc[r] ELSE "lost"]
    /\ tx' = [r \in Callers |-> NoRows]
    /\ UNCHANGED <<inventoryVars, orders, items, input, draft, found, response>>

Next ==
    \/ \E r \in Callers :
          \/ \E in \in Inputs : Begin(r, in)
          \/ CallListParts(r) \/ RefuseListing(r) \/ RefuseParts(r) \/ Draw(r)
          \/ InsertOrder(r) \/ InsertItem(r) \/ Commit(r) \/ CommitUnknown(r)
          \/ StatementFails(r)
          \/ \E o \in OrderUUIDs : BeginGet(r, o)
          \/ GetOrder(r) \/ GetItems(r) \/ Show(r)
    \/ Crash

Spec == Init /\ [][Next]_vars

-----------------------------------------------------------------------------
(* Properties                                                              *)

Asked(in) == {in[f] : f \in Fields} \ {None}

Types ==
    /\ orders \subseteq OrderUUIDs
    /\ items \subseteq [order : OrderUUIDs, part : Part, part_type : PartTypes, price : Int]
    /\ \A r \in Callers :
          /\ input[r] \in Inputs \cup OrderUUIDs \cup {None}
          /\ draft[r].total \in -Limit .. Limit - 1
          /\ response[r].code \in {0, 200, 201, 400, 404, 409, 500}

\* Orders and their items appear together, wherever Create fails or stops: the
\* rows in the tables are those of the drafts that were committed, whole, with a
\* hull and an engine, no part twice and each at its own price
\* (create.go:57-100, repository.go:35-73).
OrdersAreWhole ==
    /\ \A row \in items : row.order \in orders /\ row.price = Catalog[row.part].price
    /\ \A o \in orders : \E r \in Callers :
          /\ draft[r].uuid = o
          /\ {row \in items : row.order = o} = {ItemRow(r, i) : i \in DOMAIN draft[r].items}
          /\ Cardinality(Asked(input[r])) = Len(draft[r].items)

\* An order that was created is there, and Get shows it as it was asked for and
\* at the price that Create answered, in whatever order its rows are read
\* (converter/order.go:17-60, create.go:66-81).
ShownAsOrdered ==
    \A c \in Callers : response[c].code = 201 =>
        /\ response[c].order \in orders
        /\ \A g \in Callers : response[g].code = 200 /\ input[g] = response[c].order =>
              response[g].shown = input[c] /\ response[g].total = response[c].total

\* The answer tells the truth about the parts, whatever fails: an order is made
\* only when all are known and in stock and none is asked for twice, and each
\* refusal names a reason that holds (create.go:15-86, errors.go:11-34).
AnswersAreTrue ==
    \A r \in Callers : input[r] \in Inputs /\ pc[r] = "done" =>
        LET asked == Asked(input[r])
            known == asked \subseteq Part
            exhausted == \E p \in asked \cap Part : Catalog[p].stock_quantity <= 0
            twice == Cardinality(asked) < Len(requestedParts(input[r]))
        IN  CASE response[r].code = 201 -> known /\ ~ exhausted /\ ~ twice
              [] response[r].code = 400 -> BadUUID \in asked
              [] response[r].code = 404 -> ~ known /\ BadUUID \notin asked
              [] response[r].code = 409 -> known /\ exhausted
              [] response[r].code = 500 -> BadUUID \notin asked
              [] OTHER -> FALSE

\* The hull of an order is a hull, and so on (create_order_request.yaml:10-29).
PartsFitTheirPlaces ==
    \A row \in items : Catalog[row.part].part_type = row.part_type
=============================================================================
