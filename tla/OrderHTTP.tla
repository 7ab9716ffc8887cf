------------------------------ MODULE OrderHTTP ------------------------------
(***************************************************************************)
(* One exchange over the HTTP interface of the order service: a call of    *)
(* the generated client, or a request that some other program wrote; the   *)
(* router and the generated handler of the server; the API layer, whose    *)
(* service answers as it likes; and the client again, which reads the reply.*)
(*                                                                         *)
(* Exchanges share nothing, so that one is enough.                         *)
(***************************************************************************)
EXTENDS OrderRouter

CONSTANTS
    Calls,     \* the calls of the generated client: [op, arg, struct]
    Requests,  \* what other programs send: [method, path, body]
    Orders,    \* what the service returns for an order, as model.Order
    Faults,    \* "read": the body cannot be read; "write": the body of the
               \* reply cannot be written; "reply": the reply is lost
    Nothing

\* Paths and documents are sequences; calls and orders have the types of the Go
\* structs, in which an enum is any string.
IsSequence(s) == s \in Seq(ToSet(s))

ASSUME RequestsAssumption ==
    \A r \in Requests : IsSequence(r.path) /\ IsSequence(r.body.doc)

ASSUME CallsAssumption ==
    /\ Nothing \notin Calls
    /\ \A c \in Calls :
        \/ /\ c.op = "createOrder"
           /\ c.struct \in [hull_uuid : UUIDs, engine_uuid : UUIDs,
                            shield_uuid : UUIDs \cup {Unset, Null}, weapon_uuid : UUIDs \cup {Unset, Null}]
        \/ c.op \in {"getOrder", "cancelOrder"} /\ c.arg \in UUIDs
        \/ /\ c.op = "payOrder" /\ c.arg \in UUIDs
           /\ c.struct = [payment_method |-> c.struct.payment_method]
           /\ c.struct.payment_method \notin {Unset, Null}

ASSUME OrdersAssumption ==
    \A o \in Orders :
        /\ {o.OrderUUID, o.HullUUID, o.EngineUUID} \subseteq UUIDs
        /\ {o.ShieldUUID, o.WeaponUUID, o.TransactionUUID} \subseteq UUIDs \cup {Nothing}
        /\ o.TotalPrice \in Int
        /\ o.PaymentMethod \in PaymentMethods \cup {Nothing}
        /\ o.CreatedAt \in Instants

JSON == "application/json"

\* A body: its content type, its size ("zero": ContentLength is 0; "empty": of
\* unknown length, and nothing comes; "full"), and its text: one object,
\* an object with something behind it, or no JSON.
NoBody == [ctype |-> "", size |-> "zero", text |-> "malformed", doc |-> <<>>]

Body(doc) == [ctype |-> JSON, size |-> "full", text |-> "object", doc |-> doc]

VARIABLES
    stage,
    call,      \* the call of the generated client, if it was one
    wire,      \* the request as it was sent
    seen,      \* what the service was called with
    answer,    \* what the API layer returned
    reply,     \* the reply as it was sent
    result,    \* what the call of the generated client returned
    failed     \* the faults that have struck

vars == <<stage, call, wire, seen, answer, reply, result, failed>>

Init ==
    /\ stage = "idle"
    /\ call = Nothing
    /\ wire = Nothing
    /\ seen = Nothing
    /\ answer = Nothing
    /\ reply = Nothing
    /\ result = Nothing
    /\ failed = {}

Fault(kind) ==
    /\ kind \in Faults
    /\ failed' = failed \cup {kind}

-----------------------------------------------------------------------------
(* The client sends.  The generated one does not validate what it is given.*)

SendTo(method, path, body) ==
    /\ stage = "idle"
    /\ stage' = "sent"
    /\ wire' = [method |-> method, path |-> path, body |-> body]
    /\ UNCHANGED <<seen, answer, reply, result, failed>>

sendCreateOrder(c) ==
    /\ c.op = "createOrder"
    /\ SendTo("POST", <<Prefix>>, Body(Encode(CreateOrderRequest, c.struct)))

sendGetOrder(c) ==
    /\ c.op = "getOrder"
    /\ SendTo("GET", <<Prefix, "/", c.arg>>, NoBody)

sendPayOrder(c) ==
    /\ c.op = "payOrder"
    /\ SendTo("POST", <<Prefix, "/", c.arg, "/", "pay">>, Body(Encode(PayOrderRequest, c.struct)))

sendCancelOrder(c) ==
    /\ c.op = "cancelOrder"
    /\ SendTo("POST", <<Prefix, "/", c.arg, "/", "cancel">>, NoBody)

Call ==
    \E c \in Calls :
        /\ call' = c
        /\ sendCreateOrder(c) \/ sendGetOrder(c) \/ sendPayOrder(c) \/ sendCancelOrder(c)

OtherSends ==
    \E r \in Requests :
        /\ SendTo(r.method, r.path, r.body)
        /\ UNCHANGED call

-----------------------------------------------------------------------------
(* The server up to the API layer.                                         *)

Escaped == \E i \in DOMAIN wire.path : wire.path[i] = "%2F"

Route == ServeHTTP(wire.method, wire.path)

Respond(code, ctype, text, doc) ==
    /\ stage' = "replied"
    /\ reply' = [code |-> code, ctype |-> ctype, text |-> text, doc |-> doc]

\* The default error handler of ogen.
ErrorHandler(code) ==
    Respond(code, JSON, "object", <<Entry("error_message", Token("string", "text"))>>)

Serve ==
    /\ stage = "sent"
    /\ CASE Route.kind = "notFound"   -> Respond(404, "text/plain", "malformed", <<>>)
         [] Route.kind = "notAllowed" -> Respond(NotAllowedCode(wire.method), "", "malformed", <<>>)
         [] OTHER                     -> stage' = "decode" /\ UNCHANGED reply
    /\ UNCHANGED <<call, wire, seen, answer, result, failed>>

\* The steps of each handler before it calls the API layer.
handleCreateOrderRequest == {"DecodeRequest"}

handleGetOrderRequest == {"DecodeParams"}

handlePayOrderRequest == {"DecodeParams", "DecodeRequest"}

handleCancelOrderRequest == {"DecodeParams"}

Steps ==
    [createOrder |-> handleCreateOrderRequest, getOrder |-> handleGetOrderRequest,
     payOrder |-> handlePayOrderRequest, cancelOrder |-> handleCancelOrderRequest]

ParamsFit == "DecodeParams" \in Steps[Route.op] => ValidParams(Route.op, Route.arg, Escaped)

DecodeParamsFails ==
    /\ stage = "decode"
    /\ ~ParamsFit
    /\ ErrorHandler(400)
    /\ UNCHANGED <<call, wire, seen, answer, result, failed>>

Rejection(code) == [code |-> code, struct |-> Nothing]

\* A request decoder: content type, size, the object, what is behind it.
DecodeRequest(body, schema) ==
    LET decoded == Decode(schema, body.doc)
    IN  CASE body.ctype = ""                             -> Rejection(400)
          [] body.ctype \notin {"", JSON}                -> Rejection(415)
          [] body.ctype = JSON /\ body.size # "full"     -> Rejection(400)
          [] OTHER -> IF body.text = "object" /\ decoded.ok
                      THEN [code |-> 0, struct |-> decoded.struct]
                      ELSE Rejection(400)

decodeCreateOrderRequest(body) == DecodeRequest(body, CreateOrderRequest)

decodePayOrderRequest(body) ==
    LET request == DecodeRequest(body, PayOrderRequest)
    IN  IF request.code = 0 /\ ~ValidPayOrderRequest(request.struct)
        THEN Rejection(400)
        ELSE request

Decoding ==
    CASE Route.op = "createOrder" -> decodeCreateOrderRequest(wire.body)
      [] Route.op = "payOrder"    -> decodePayOrderRequest(wire.body)
      [] OTHER                    -> [code |-> 0, struct |-> Nothing]

DecodeRequestFails ==
    /\ stage = "decode"
    /\ ParamsFit
    /\ Decoding.code # 0
    /\ ErrorHandler(Decoding.code)
    /\ UNCHANGED <<call, wire, seen, answer, result, failed>>

ReadFails ==
    /\ stage = "decode"
    /\ ParamsFit
    /\ "DecodeRequest" \in Steps[Route.op]
    /\ wire.body.ctype = JSON
    /\ wire.body.size # "zero"
    /\ Fault("read")
    /\ ErrorHandler(400)
    /\ UNCHANGED <<call, wire, seen, answer, result>>

-----------------------------------------------------------------------------
(* The API layer: what it makes of the request, and what it returns.       *)

\* Wrong: null is a value.
GetSet(opt) == IF opt = Unset THEN Nothing ELSE opt

\* OptNilUUID.Get: a value that is neither unset nor null.
Get(opt) == IF opt \in {Unset, Null} THEN Nothing ELSE opt

CreateInput(struct) ==
    [HullUUID |-> struct.hull_uuid, EngineUUID |-> struct.engine_uuid,
     ShieldUUID |-> Get(struct.shield_uuid), WeaponUUID |-> Get(struct.weapon_uuid)]

\* PaymentMethodToModel: the four methods, and "" for anything else.
PaymentMethodToModel(method) == IF method \in PaymentMethods THEN method ELSE ""

ServiceCall(op, arg, struct) ==
    [op    |-> op,
     order |-> IF op = "createOrder" THEN Nothing ELSE Param(arg, Escaped)[1],
     input |-> CASE op = "createOrder" -> CreateInput(struct)
                 [] op = "payOrder"    -> PaymentMethodToModel(struct.payment_method)
                 [] OTHER              -> Nothing]

OptOf(value) == IF value = Nothing THEN Unset ELSE value

\* A status that clients are not told, like that of an order that is being
\* paid, is shown as PENDING_PAYMENT.
OrderStatusToDTO(status) ==
    IF status \in {"PAID", "CANCELLED"} THEN status ELSE "PENDING_PAYMENT"

OrderToDTO(order) ==
    [order_uuid |-> order.OrderUUID, hull_uuid |-> order.HullUUID,
     engine_uuid |-> order.EngineUUID, shield_uuid |-> OptOf(order.ShieldUUID),
     weapon_uuid |-> OptOf(order.WeaponUUID), total_price |-> order.TotalPrice,
     transaction_uuid |-> OptOf(order.TransactionUUID),
     payment_method |-> OptOf(order.PaymentMethod),
     status |-> OrderStatusToDTO(order.Status), created_at |-> order.CreatedAt]

Answer(code, struct) == [code |-> code, struct |-> struct]

ErrorAnswers(codes) == {Answer(code, [code |-> code, message |-> "text"]) : code \in codes}

CreateOrderAnswers ==
    {Answer(201, [order_uuid |-> o.OrderUUID, total_price |-> o.TotalPrice]) : o \in Orders}
        \cup ErrorAnswers({400, 404, 409, 500})

GetOrderAnswers == {Answer(200, OrderToDTO(o)) : o \in Orders} \cup ErrorAnswers({404, 500})

PayOrderAnswers ==
    {Answer(200, [transaction_uuid |-> u]) : u \in UUIDs} \cup ErrorAnswers({400, 404, 409, 500})

CancelOrderAnswers == {Answer(200, <<>>)} \cup ErrorAnswers({404, 409, 500})

Answers ==
    [createOrder |-> CreateOrderAnswers, getOrder |-> GetOrderAnswers,
     payOrder |-> PayOrderAnswers, cancelOrder |-> CancelOrderAnswers]

Handle ==
    /\ stage = "decode"
    /\ ParamsFit
    /\ Decoding.code = 0
    /\ seen' = ServiceCall(Route.op, Route.arg, Decoding.struct)
    /\ answer' \in Answers[Route.op]
    /\ stage' = "encode"
    /\ UNCHANGED <<call, wire, reply, result, failed>>

EncodeResponse ==
    /\ stage = "encode"
    /\ Respond(answer.code, JSON, "object", Encode(Encoded[Route.op][answer.code], answer.struct))
    /\ UNCHANGED <<call, wire, seen, answer, result, failed>>

\* The header has been written: what the error handler writes then comes too
\* late for the code and does not complete the body.
WriteFails ==
    /\ stage = "encode"
    /\ Fault("write")
    /\ Respond(answer.code, JSON, "malformed", <<>>)
    /\ UNCHANGED <<call, wire, seen, answer, result>>

-----------------------------------------------------------------------------
(* The generated client reads the reply.                                   *)

CallFails == [kind |-> "error"]

Returned(code, struct) == [kind |-> "answer", code |-> code, struct |-> struct]

ValidatorOf(op, code, struct) == op = "getOrder" /\ code = 200 => ValidOrderDto(struct)

\* decode...Response: the code must be one of the operation, the content type
\* that of JSON, and the body one object of the type of this code.
DecodeResponse(op) ==
    IF reply.code \notin DOMAIN Decoded[op] \/ reply.ctype # JSON \/ reply.text # "object"
    THEN CallFails
    ELSE LET decoded == Decode(Decoded[op][reply.code], reply.doc)
         IN  IF decoded.ok /\ ValidatorOf(op, reply.code, decoded.struct)
             THEN Returned(reply.code, decoded.struct)
             ELSE CallFails

Receive ==
    /\ stage = "replied"
    /\ stage' = "done"
    /\ result' = IF call = Nothing THEN Nothing ELSE DecodeResponse(call.op)
    /\ UNCHANGED <<call, wire, seen, answer, reply, failed>>

LoseReply ==
    /\ stage = "replied"
    /\ stage' = "done"
    /\ Fault("reply")
    /\ result' = IF call = Nothing THEN Nothing ELSE CallFails
    /\ UNCHANGED <<call, wire, seen, answer, reply>>

Next ==
    \/ Call \/ OtherSends
    \/ Serve \/ DecodeParamsFails \/ DecodeRequestFails \/ ReadFails
    \/ Handle \/ EncodeResponse \/ WriteFails
    \/ Receive \/ LoseReply

Spec == Init /\ [][Next]_vars

-----------------------------------------------------------------------------
\* What the service can be called with: the order of the path, and values of
\* the right types.
Seen ==
    [op : {"createOrder"}, order : {Nothing},
     input : [HullUUID : UUIDs, EngineUUID : UUIDs,
              ShieldUUID : UUIDs \cup {Nothing}, WeaponUUID : UUIDs \cup {Nothing}]]
        \cup [op : {"payOrder"}, order : UUIDs, input : PaymentMethods]
        \cup [op : {"getOrder", "cancelOrder"}, order : UUIDs, input : {Nothing}]

\* A call of the service and an answer are something.
ASSUME NothingAssumption ==
    Nothing \notin Seen /\ \A op \in Operations : Nothing \notin Answers[op]

\* Whatever was sent, the service is only called with UUIDs where it expects
\* UUIDs and with one of the four payment methods, and each reply has the code
\* of the operation or of the server.
Types ==
    /\ stage \in {"idle", "sent", "decode", "encode", "replied", "done"}
    /\ call \in Calls \cup {Nothing}
    /\ seen # Nothing => seen \in Seen
    /\ answer # Nothing => answer \in Answers[Route.op]
    /\ reply # Nothing => reply.code \in {200, 201, 204, 400, 404, 405, 409, 415, 500}
    /\ failed \subseteq Faults

\* ServeHTTP serves exactly the paths and methods of the OpenAPI document, once
\* the handler has looked at the UUID in the path, and FindPath, which goes the
\* same ways in code of its own, finds the same operation there: with an empty
\* parameter, escaped slashes and more path behind a known one, too.
RoutesAsDocumented ==
    wire # Nothing =>
        LET documented == Documented(wire.method, wire.path)
            found == FindPath(wire.method, wire.path)
            served == Route.kind = "found" /\ ParamsFit
        IN  /\ served <=> documented # "none"
            /\ served => Route.op = documented /\ found.op = documented
            /\ found.kind = "found" <=> Route.kind = "found"

\* The requests that the OpenAPI document allows: the schema of each body.  Of a
\* key that comes twice the document does not speak: each value must be of its
\* type, and the last one counts.
IsUUID(token) == token.type = "string" /\ token.value \in UUIDs

Keys(doc) == {e.key : e \in ToSet(doc)}

ConformingBody(op, doc) ==
    CASE op = "createOrder" ->
            /\ {"hull_uuid", "engine_uuid"} \subseteq Keys(doc)
            /\ \A e \in ToSet(doc) :
                /\ e.key \in {"hull_uuid", "engine_uuid"} => IsUUID(e.token)
                /\ e.key \in {"shield_uuid", "weapon_uuid"} => IsUUID(e.token) \/ e.token.type = "null"
      [] op = "payOrder" ->
            /\ "payment_method" \in Keys(doc)
            /\ \A e \in ToSet(doc) : e.key = "payment_method" => e.token.type = "string"
            /\ SelectLastInSeq(doc, LAMBDA e : e.key = "payment_method") \in
                    {i \in DOMAIN doc : doc[i].token.value \in PaymentMethods}

Conforming ==
    LET op == Documented(wire.method, wire.path)
    IN  /\ op # "none"
        /\ op \in {"createOrder", "payOrder"} =>
                /\ wire.body.ctype = JSON
                /\ wire.body.size = "full"
                /\ wire.body.text = "object"
                /\ ConformingBody(op, wire.body.doc)

\* The service is called for exactly the requests that the document allows: no
\* other one gets through the decoders and validators, and none is refused, unless
\* its body could not be read.
AcceptsWhatIsDocumented ==
    /\ seen # Nothing => Conforming
    /\ stage \in {"replied", "done"} /\ Conforming => seen # Nothing \/ "read" \in failed

\* What a call of the generated client says is what the service is called with:
\* the operation, the order, the parts, of which an optional one that is unset
\* and one that is null are both none, and the payment method.  Only a method
\* that does not exist, which the client sends all the same, is refused.
HandlerGetsWhatWasAsked ==
    call # Nothing /\ stage \in {"encode", "replied", "done"} /\ "read" \notin failed =>
        CASE call.op = "createOrder" ->
                /\ seen # Nothing /\ seen.op = "createOrder"
                /\ seen.input.HullUUID = call.struct.hull_uuid
                /\ seen.input.EngineUUID = call.struct.engine_uuid
                /\ \A field \in {<<seen.input.ShieldUUID, call.struct.shield_uuid>>,
                                 <<seen.input.WeaponUUID, call.struct.weapon_uuid>>} :
                       field[1] = IF field[2] \in UUIDs THEN field[2] ELSE Nothing
          [] call.op = "payOrder" /\ call.struct.payment_method \notin PaymentMethods ->
                seen = Nothing
          [] OTHER ->
                /\ seen # Nothing /\ seen.op = call.op /\ seen.order = call.arg
                /\ call.op = "payOrder" => seen.input = call.struct.payment_method

\* One struct is the other, but for the fractions of a second of created_at.
ToTheSecond(got, sent) ==
    /\ DOMAIN got = DOMAIN sent
    /\ \A name \in DOMAIN sent \ {"created_at"} : got[name] = sent[name]
    /\ "created_at" \in DOMAIN sent =>
          /\ got.created_at % Second = 0
          /\ got.created_at <= sent.created_at /\ sent.created_at < got.created_at + Second

\* What a call of the generated client returns is what the API layer answered,
\* code and fields, of which created_at comes in whole seconds.  It returns an
\* error if the service was not called or if writing the reply or bringing it
\* back failed, and never the answer to something else, like the router's own
\* 404 for the 404 of an unknown order.
ClientGetsTheAnswer ==
    call # Nothing /\ stage = "done" =>
        IF answer # Nothing /\ failed = {}
        THEN /\ result.kind = "answer" /\ result.code = answer.code
             /\ ToTheSecond(result.struct, answer.struct)
        ELSE result = CallFails

\* error.yaml is the one schema of all errors, and each operation that takes a
\* parameter or a body documents 400 with it: a refusal of a known operation has
\* a code and a message.
RefusalsAreDocumented ==
    reply # Nothing /\ Route.kind = "found" /\ reply.code >= 400 /\ failed = {} =>
        reply.ctype = JSON /\ Decode(Error, reply.doc).ok
=============================================================================
