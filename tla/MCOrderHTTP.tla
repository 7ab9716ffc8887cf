----------------------------- MODULE MCOrderHTTP -----------------------------
(***************************************************************************)
(* OrderHTTP with two UUIDs: the calls with each combination of optional   *)
(* parts, every body of up to three entries, every path of up to five      *)
(* pieces below /api/v1/orders, and each way in which a body can be framed.*)
(***************************************************************************)
EXTENDS OrderHTTP

CONSTANTS u1, u2

MCUUIDs == {u1, u2}

MCCalls ==
    [op : {"createOrder"}, arg : {Nothing},
     struct : [hull_uuid : {u1}, engine_uuid : MCUUIDs,
               shield_uuid : {u2, Unset, Null}, weapon_uuid : {u1, Unset, Null}]]
        \cup [op : {"getOrder", "cancelOrder"}, arg : MCUUIDs, struct : {Nothing}]
        \cup [op : {"payOrder"}, arg : {u1},
              struct : [payment_method : PaymentMethods \cup {"BITCOIN"}]]

Docs(keys, tokens) == SeqOf([key : keys, token : tokens], 3)

Text == Token("string", "text")

CreateDocs ==
    Docs({"hull_uuid", "engine_uuid", "shield_uuid", "extra"},
         {Token("string", u1), Token("null", "null"), Text})

PayDocs ==
    Docs({"payment_method", "extra"},
         {Token("string", "CARD"), Token("number", "1"), Token("null", "null"), Text})

Paths == {<<Prefix>> \o p : p \in SeqOf({"/", u1, "%2F", "pay", "cancel"}, 4)} \cup {<<>>, <<"text">>}

Framed(doc) ==
    [ctype : {"", JSON, "text/plain"}, size : {"zero", "empty", "full"},
     text : {"object", "trailing", "malformed"}, doc : {doc}]

Pay == Encode(PayOrderRequest, [payment_method |-> "SBP"])

Create ==
    Encode(CreateOrderRequest,
           [hull_uuid |-> u1, engine_uuid |-> u2, shield_uuid |-> Unset, weapon_uuid |-> Unset])

MCRequests ==
    [method : {"POST"}, path : {<<Prefix>>}, body : {Body(doc) : doc \in CreateDocs} \cup Framed(Create)]
        \cup [method : {"POST"}, path : {<<Prefix, "/", u1, "/", "pay">>},
              body : {Body(doc) : doc \in PayDocs} \cup Framed(Pay)]
        \cup [method : {"GET", "POST", "OPTIONS"}, path : Paths, body : {Body(Pay)}]

\* An order before, during and after its payment, and cancelled.
MCOrders ==
    LET Order(status, transaction, method) ==
            [OrderUUID : {u1}, HullUUID : {u1}, EngineUUID : {u2}, ShieldUUID : {Nothing, u2},
             WeaponUUID : {Nothing, u1}, TotalPrice : {7}, TransactionUUID : {transaction},
             PaymentMethod : {method}, Status : {status}, CreatedAt : Instants]
    IN  Order("PENDING_PAYMENT", Nothing, Nothing) \cup Order("PAYMENT_PROCESSING", Nothing, Nothing)
            \cup Order("PAID", u2, "CARD") \cup Order("CANCELLED", Nothing, Nothing)
=============================================================================
