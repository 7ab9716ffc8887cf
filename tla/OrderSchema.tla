----------------------------- MODULE OrderSchema -----------------------------
(***************************************************************************)
(* The JSON of the HTTP interface (shared/pkg/openapi/order/v1): what the  *)
(* generated types write, what they accept and what their validators       *)
(* refuse.                                                                 *)
(*                                                                         *)
(* A document is the sequence of the entries of one object.  Of the value  *)
(* of an entry only its JSON type counts and, of a string, what it reads   *)
(* as: an instant is a number, and stands for its text, too.  A Go struct  *)
(* is a function from the names of its fields.                             *)
(***************************************************************************)
EXTENDS Integers, SequencesExt

CONSTANTS
    UUIDs,      \* the strings that uuid.Parse accepts
    Instants,   \* the values of time.Time, in fractions of a second
    Second,     \* how many of these a second has
    Unset,      \* a field of type OptNil... that is not set
    Null        \* a field of type OptNil... that is set to null

PaymentMethods == {"CARD", "SBP", "CREDIT_CARD", "INVESTOR_MONEY"}

OrderStatuses == {"PENDING_PAYMENT", "PAID", "CANCELLED"}

\* What is not set and what is null is no value of any type.
ASSUME OptAssumption ==
    /\ Unset # Null
    /\ \A opt \in {Unset, Null} :
        /\ opt \notin UUIDs
        /\ opt \notin PaymentMethods \cup OrderStatuses \cup {"text"}
        /\ opt \notin Int

\* json.EncodeDateTime writes time.RFC3339, which has no fractions.
EncodeDateTime(t) == t - (t % Second)

ASSUME InstantsAssumption ==
    /\ Second \in Nat \ {0}
    /\ Instants \subseteq Nat
    /\ \A t \in Instants : EncodeDateTime(t) \in Instants

Token(type, value) == [type |-> type, value |-> value]

Entry(key, token) == [key |-> key, token |-> token]

-----------------------------------------------------------------------------
(* The values of fields.  An enum takes every string: only Validate knows  *)
(* its members.                                                            *)

DecodeUUID(token) == token.type = "string" /\ token.value \in UUIDs

DecodeInt(token) == token.type = "number"

DecodeStr(token) == token.type = "string"

DecodeDateTime(token) == token.type = "string" /\ token.value \in Instants

DecodeOrderStatus(token) == token.type = "string"

DecodePaymentMethod(token) == token.type = "string"

DecodeOptNilUUID(token) == token.type = "null" \/ DecodeUUID(token)

DecodeOptNilPaymentMethod(token) == token.type = "null" \/ DecodePaymentMethod(token)

\* A token that a field of this kind accepts.
Accepts(kind, token) ==
    CASE kind = "UUID"                -> DecodeUUID(token)
      [] kind = "Int"                 -> DecodeInt(token)
      [] kind = "Str"                 -> DecodeStr(token)
      [] kind = "DateTime"            -> DecodeDateTime(token)
      [] kind = "OrderStatus"         -> DecodeOrderStatus(token)
      [] kind = "PaymentMethod"       -> DecodePaymentMethod(token)
      [] kind = "OptNilUUID"          -> DecodeOptNilUUID(token)
      [] kind = "OptNilPaymentMethod" -> DecodeOptNilPaymentMethod(token)

-----------------------------------------------------------------------------
(* The types: their fields in the order in which they are written, and the *)
(* mask of the required ones, whose bits count the fields from 0.          *)

Field(name, kind) == [name |-> name, kind |-> kind]

Schema(fields, mask) == [fields |-> fields, mask |-> mask]

\* Wrong: the first bit is missing in the mask.
CreateOrderRequestMasked ==
    Schema(<<Field("hull_uuid", "UUID"), Field("engine_uuid", "UUID"),
             Field("shield_uuid", "OptNilUUID"), Field("weapon_uuid", "OptNilUUID")>>,
           {1})

CreateOrderRequest ==
    Schema(<<Field("hull_uuid", "UUID"), Field("engine_uuid", "UUID"),
             Field("shield_uuid", "OptNilUUID"), Field("weapon_uuid", "OptNilUUID")>>,
           {0, 1})

CreateOrderResponse ==
    Schema(<<Field("order_uuid", "UUID"), Field("total_price", "Int")>>, {0, 1})

PayOrderRequest == Schema(<<Field("payment_method", "PaymentMethod")>>, {0})

PayOrderResponse == Schema(<<Field("transaction_uuid", "UUID")>>, {0})

CancelOrderResponse == Schema(<<>>, {})

Error == Schema(<<Field("code", "Int"), Field("message", "Str")>>, {0, 1})

OrderDtoFields ==
    <<Field("order_uuid", "UUID"), Field("hull_uuid", "UUID"), Field("engine_uuid", "UUID"),
      Field("shield_uuid", "OptNilUUID"), Field("weapon_uuid", "OptNilUUID"),
      Field("total_price", "Int"), Field("transaction_uuid", "OptNilUUID"),
      Field("payment_method", "OptNilPaymentMethod"), Field("status", "OrderStatus"),
      Field("created_at", "DateTime")>>

\* Wrong: payment_method is required instead of total_price.
OrderDtoShifted == Schema(OrderDtoFields, {0, 1, 2, 7, 8, 9})

OrderDto == Schema(OrderDtoFields, {0, 1, 2, 5, 8, 9})

Names(schema) == {f.name : f \in ToSet(schema.fields)}

KindOf(schema, name) == (CHOOSE f \in ToSet(schema.fields) : f.name = name).kind

Required(schema) == {schema.fields[bit + 1].name : bit \in schema.mask}

-----------------------------------------------------------------------------
EncodeValue(kind, value) ==
    CASE kind = "Int"      -> Token("number", value)
      [] kind = "DateTime" -> Token("string", EncodeDateTime(value))
      [] OTHER             -> Token("string", value)

\* What is written of a field: nothing if it is not set.
EncodeField(field, value) ==
    CASE value = Unset -> <<>>
      [] value = Null  -> <<Entry(field.name, Token("null", "null"))>>
      [] OTHER         -> <<Entry(field.name, EncodeValue(field.kind, value))>>

\* encodeFields: one field after the other.
Encode(schema, struct) ==
    FoldLeft(LAMBDA doc, field : doc \o EncodeField(field, struct[field.name]), <<>>, schema.fields)

Failure == [ok |-> FALSE, struct |-> <<>>]

Success(struct) == [ok |-> TRUE, struct |-> struct]

\* The last value of a key.
LastValue(doc, name) ==
    LET i == SelectLastInSeq(doc, LAMBDA e : e.key = name)
    IN  IF i = 0 THEN Unset
        ELSE IF doc[i].token.type = "null" THEN Null ELSE doc[i].token.value

\* Decode: unknown keys are skipped; each value of a known key is read, so that
\* all must be acceptable, and the last one stays; then the required fields must
\* have been seen.
Decode(schema, doc) ==
    LET known == {e \in ToSet(doc) : e.key \in Names(schema)}
    IN  IF /\ \A e \in known : Accepts(KindOf(schema, e.key), e.token)
           /\ Required(schema) \subseteq {e.key : e \in known}
        THEN Success([name \in Names(schema) |-> LastValue(doc, name)])
        ELSE Failure

-----------------------------------------------------------------------------
(* The validators.                                                         *)

ValidPaymentMethod(method) == method \in PaymentMethods

ValidOrderStatus(status) == status \in OrderStatuses

\* Wrong: no value is compared.
AnyPayOrderRequest(struct) == TRUE

ValidPayOrderRequest(struct) == ValidPaymentMethod(struct.payment_method)

ValidOrderDto(struct) ==
    /\ struct.payment_method \in {Unset, Null} \/ ValidPaymentMethod(struct.payment_method)
    /\ ValidOrderStatus(struct.status)

-----------------------------------------------------------------------------
(* The answers of each operation: the type that is written and read under  *)
(* each code.  The error types of an operation are Error under other names.*)

AsError(codes) == [code \in codes |-> Error]

\* The type of a success, and those of the errors.
Coded(success, schema, errors) ==
    [code \in {success} \cup DOMAIN errors |-> IF code = success THEN schema ELSE errors[code]]

CancelOrderErrors == AsError({400, 404, 409, 500})

CreateOrderErrors == AsError({400, 404, 409, 500})

GetOrderErrors == AsError({400, 404, 500})

PayOrderErrors == AsError({400, 404, 409, 500})

EncodedCancelOrder == Coded(200, CancelOrderResponse, CancelOrderErrors)

EncodedCreateOrder == Coded(201, CreateOrderResponse, CreateOrderErrors)

EncodedGetOrder == Coded(200, OrderDto, GetOrderErrors)

EncodedPayOrder == Coded(200, PayOrderResponse, PayOrderErrors)

Encoded ==
    [cancelOrder |-> EncodedCancelOrder, createOrder |-> EncodedCreateOrder,
     getOrder |-> EncodedGetOrder, payOrder |-> EncodedPayOrder]

DecodedCancelOrder == Coded(200, CancelOrderResponse, CancelOrderErrors)

DecodedCreateOrder == Coded(201, CreateOrderResponse, CreateOrderErrors)

DecodedGetOrder == Coded(200, OrderDto, GetOrderErrors)

DecodedPayOrder == Coded(200, PayOrderResponse, PayOrderErrors)

Decoded ==
    [cancelOrder |-> DecodedCancelOrder, createOrder |-> DecodedCreateOrder,
     getOrder |-> DecodedGetOrder, payOrder |-> DecodedPayOrder]
=============================================================================
