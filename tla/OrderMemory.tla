----------------------------- MODULE OrderMemory -----------------------------
(***************************************************************************)
(* The order service as the tests assemble it (pkg/handler): the same      *)
(* handlers and service, the same client of PaymentService, and orders kept*)
(* in a map under one mutex instead of in Postgres.                        *)
(*                                                                         *)
(* An operation of the repository is one critical section, so that it is   *)
(* one action: an operation that is refused returns the order that refused *)
(* it, and no operation looks at the context of the request.  Where        *)
(* OrderService has a statement and a read that others may come between,   *)
(* and statements that fail, there is neither here.                        *)
(***************************************************************************)
EXTENDS PaymentService, OrderModel

CONSTANTS
    Existing,   \* the orders in the map, unpaid, at the start
    Others      \* the callers of PaymentService that are no handlers

ASSUME OthersAssumption == Others \subseteq Requests

PayErrors == {"ErrInvalidPaymentMethod", "internal"}

ASSUME ResultsAssumption == Transactions \cap PayErrors = {}

Handlers == Requests \ Others

VARIABLES
    orders,     \* the map of MemoryRepository; ABSENT where it has no key
    pc,         \* pc[r]: the operation or the call that r's handler makes next
    input,      \* input[r]: the operation called and its arguments
    ctxDone,    \* ctxDone[r]: the context of the request is cancelled
    payResult,  \* payResult[r]: what paymentClient.PayOrder returned
    response    \* response[r]: what the handler answered

memoryVars == <<orders, pc, input, ctxDone, payResult, response>>

vars == <<paymentVars, memoryVars>>

NoInput == [op |-> Null, order |-> Null, method |-> Null]

Init ==
    /\ PaymentInit
    /\ orders = [o \in Orders |-> IF o \in Existing THEN PendingOrder ELSE AbsentOrder]
    /\ pc = [r \in Handlers |-> "idle"]
    /\ input = [r \in Handlers |-> NoInput]
    /\ ctxDone = [r \in Handlers |-> FALSE]
    /\ payResult = [r \in Handlers |-> Null]
    /\ response = [r \in Handlers |-> NoResponse]

TheOrder(r) == orders[input[r].order]

Goto(r, label) == pc' = [pc EXCEPT ![r] = label] /\ UNCHANGED response

Reply(r, answer) ==
    /\ pc' = [pc EXCEPT ![r] = "done"]
    /\ response' = [response EXCEPT ![r] = answer]

Store(r, kind) ==
    orders' = [orders EXCEPT ![input[r].order] =
                  Updated(kind, TheOrder(r), payResult[r], input[r].method)]

-----------------------------------------------------------------------------
\* A UUID that nobody has drawn or named (uuid.NewRandom).
Fresh(o) ==
    /\ orders[o].status = "ABSENT"
    /\ o \notin {input[r].order : r \in Handlers} \cup {calls[c].order : c \in Requests}

\* A request arrives at its handler; Pay checks the method before anything.
Arrive(r, op, o, method) ==
    /\ pc[r] = "idle"
    /\ IF op = "Create" THEN Fresh(o)
       ELSE \A q \in Handlers : input[q].op = "Create" /\ input[q].order = o => pc[q] = "done"
    /\ input' = [input EXCEPT ![r] = [op |-> op, order |-> o, method |-> method]]
    /\ IF op = "Pay" /\ ~ isValidPaymentMethod(method)
       THEN Reply(r, payErrorResponse({"ErrInvalidPaymentMethod"}))
       ELSE Goto(r, IF op = "Pay" THEN "StartPayment" ELSE op)
    /\ UNCHANGED <<paymentVars, orders, ctxDone, payResult>>

Create(r) ==
    /\ pc[r] = "Create"
    /\ Store(r, "Create")
    /\ Reply(r, OK(NoBody))
    /\ UNCHANGED <<paymentVars, input, ctxDone, payResult>>

Get(r) ==
    /\ pc[r] = "Get"
    /\ Reply(r, IF TheOrder(r).status = "ABSENT"
                THEN getErrorResponse({"ErrOrderNotFound"})
                ELSE OK(OrderToDTO(TheOrder(r))))
    /\ UNCHANGED <<paymentVars, orders, input, ctxDone, payResult>>

\* Wrong: the status is read under a lock of its own, before the one that
\* writes it, so that two payments may both have read PENDING_PAYMENT.
UnlockedStartPayment(r) ==
    /\ pc[r] = "StartPayment"
    /\ IF TheOrder(r).status \in {"PENDING_PAYMENT", "PAYMENT_PROCESSING"}
       THEN Store(r, "StartPayment") /\ Goto(r, "PayOrder")
       ELSE Reply(r, payErrorResponse({StatusError(TheOrder(r).status)})) /\ UNCHANGED orders
    /\ UNCHANGED <<paymentVars, input, ctxDone, payResult>>

StartPayment(r) ==
    /\ pc[r] = "StartPayment"
    /\ IF Affects("StartPayment", TheOrder(r))
       THEN Store(r, "StartPayment") /\ Goto(r, "PayOrder")
       ELSE Reply(r, payErrorResponse({StatusError(TheOrder(r).status)})) /\ UNCHANGED orders
    /\ UNCHANGED <<paymentVars, input, ctxDone, payResult>>

FinishPayment(r) ==
    /\ pc[r] = "FinishPayment"
    /\ IF Affects("FinishPayment", TheOrder(r))
       THEN /\ Store(r, "FinishPayment")
            /\ Reply(r, OK([NoBody EXCEPT !.transaction_uuid = payResult[r]]))
       ELSE Reply(r, payErrorResponse({StatusError(TheOrder(r).status)})) /\ UNCHANGED orders
    /\ UNCHANGED <<paymentVars, input, ctxDone, payResult>>

\* Wrong: an operation of a request that is gone does nothing.
CancellableResetPayment(r) ==
    /\ pc[r] = "ResetPayment"
    /\ IF Affects("ResetPayment", TheOrder(r)) /\ ~ ctxDone[r]
       THEN Store(r, "ResetPayment") ELSE UNCHANGED orders
    /\ Reply(r, payErrorResponse({payResult[r]}))
    /\ UNCHANGED <<paymentVars, input, ctxDone, payResult>>

ResetPayment(r) ==
    /\ pc[r] = "ResetPayment"
    /\ IF Affects("ResetPayment", TheOrder(r)) THEN Store(r, "ResetPayment") ELSE UNCHANGED orders
    /\ Reply(r, payErrorResponse({payResult[r]} \cup
                   (IF TheOrder(r).status = "ABSENT" THEN {"ErrOrderNotFound"} ELSE {})))
    /\ UNCHANGED <<paymentVars, input, ctxDone, payResult>>

\* Wrong: the order is read again to explain the refusal.
TwoStepCancel(r) ==
    /\ \/ pc[r] = "Cancel" /\ ~ Affects("Cancel", TheOrder(r))
             /\ Goto(r, "CancelGet") /\ UNCHANGED orders
       \/ pc[r] = "Cancel" /\ Affects("Cancel", TheOrder(r))
             /\ Store(r, "Cancel") /\ Reply(r, OK(NoBody))
       \/ pc[r] = "CancelGet" /\ UNCHANGED orders
             /\ Reply(r, cancelErrorResponse({StatusError(TheOrder(r).status)}))
    /\ UNCHANGED <<paymentVars, input, ctxDone, payResult>>

Cancel(r) ==
    /\ pc[r] = "Cancel"
    /\ IF Affects("Cancel", TheOrder(r))
       THEN Store(r, "Cancel") /\ Reply(r, OK(NoBody))
       ELSE Reply(r, cancelErrorResponse({StatusError(TheOrder(r).status)})) /\ UNCHANGED orders
    /\ UNCHANGED <<paymentVars, input, ctxDone, payResult>>

-----------------------------------------------------------------------------
(* The payment call, as in OrderService.                                   *)

SendPayOrder(r) ==
    /\ pc[r] = "PayOrder"
    /\ ~ ctxDone[r]
    /\ SendCall(r, input[r].order, input[r].method)
    /\ UNCHANGED memoryVars

Receive(r, result) ==
    /\ pc[r] = "PayOrder"
    /\ payResult' = [payResult EXCEPT ![r] = result]
    /\ Goto(r, IF result \in Transactions THEN "FinishPayment" ELSE "ResetPayment")
    /\ UNCHANGED <<paymentVars, orders, input, ctxDone>>

ReceiveTransaction(r) == calls[r].state = "OK" /\ Receive(r, calls[r].transaction)

ReceiveError(r) ==
    /\ calls[r].state \in {"InvalidArgument", "Internal"}
    /\ Receive(r, IF calls[r].state = "InvalidArgument"
                  THEN "ErrInvalidPaymentMethod" ELSE "internal")

LoseCall(r) == ("reply" \in Faults \/ ctxDone[r]) /\ Receive(r, "internal")

\* The client goes away: a call in flight is given up, and the map is not
\* concerned.
Disconnect(r) ==
    /\ "disconnect" \in Faults
    /\ pc[r] \notin {"idle", "done"}
    /\ ~ ctxDone[r]
    /\ ctxDone' = [ctxDone EXCEPT ![r] = TRUE]
    /\ UNCHANGED <<paymentVars, orders, pc, input, payResult, response>>

-----------------------------------------------------------------------------
Handle(r) ==
    \/ Create(r) \/ Get(r) \/ Cancel(r)
    \/ StartPayment(r) \/ FinishPayment(r) \/ ResetPayment(r)
    \/ SendPayOrder(r) \/ ReceiveTransaction(r) \/ ReceiveError(r) \/ LoseCall(r)

\* Somebody else calls PaymentService, with whatever arguments.
OtherCall(c) ==
    /\ \E order \in Orders \cup {BadUUID}, method \in PaymentMethods \cup {BadMethod} :
          SendCall(c, order, method)
    /\ UNCHANGED memoryVars

Serve(c) == ServeCall(c) /\ UNCHANGED memoryVars

Next ==
    \/ \E r \in Handlers :
          \/ \E op \in {"Create", "Get", "Cancel"}, o \in Orders : Arrive(r, op, o, Null)
          \/ \E o \in Orders, method \in PaymentMethods \cup {BadMethod} : Arrive(r, "Pay", o, method)
          \/ Handle(r)
          \/ Disconnect(r)
    \/ \E c \in Others : OtherCall(c)
    \/ \E c \in Requests : Serve(c)

Spec == Init /\ [][Next]_vars

\* Goroutines are scheduled and PaymentService answers.
FairSpec ==
    /\ Spec
    /\ \A r \in Handlers : WF_vars(Handle(r))
    /\ \A c \in Requests : WF_vars(Serve(c))

-----------------------------------------------------------------------------
(* Properties                                                              *)

Owns(r) == pc[r] \in {"PayOrder", "FinishPayment", "ResetPayment"}

\* The mark of a payment under way is exact: an order is in PAYMENT_PROCESSING
\* if and only if one handler holds it, and never two (memory.go:52-69).  In
\* Postgres only one half of it holds: see ProcessingIsOwned in OrderService.
MarkIsExact ==
    \A o \in Orders :
        LET owners == {r \in Handlers : Owns(r) /\ input[r].order = o}
        IN  IF orders[o].status = "PAYMENT_PROCESSING"
            THEN Cardinality(owners) = 1 ELSE owners = {}

\* A client is told that an order does not exist only when it does not exist,
\* even when payments fail at the same time (memory.go:60, 119): what the
\* Postgres repository does not keep to.
NotFoundIsAbsent ==
    [][\A r \in Handlers :
          response'[r] # response[r] /\ "ErrOrderNotFound" \in response'[r].message
             => TheOrder(r).status = "ABSENT"]_vars

\* A payment ends, even when the client goes away during the payment call
\* (memory.go:98-113): what the Postgres repository does not keep to.
PaymentSettles ==
    \A o \in Orders :
        orders[o].status = "PAYMENT_PROCESSING" ~> orders[o].status # "PAYMENT_PROCESSING"

\* The public life of an order is that of OrderLifecycle, as with Postgres; of
\* the ledger, only what the handlers paid is the shop's.
Lifecycle == INSTANCE OrderLifecycle WITH
    status  <- [o \in Orders |->
                   IF orders[o].status = "ABSENT" THEN "ABSENT"
                   ELSE OrderStatusToDTO(orders[o].status)],
    receipt <- [o \in Orders |->
                   [transaction_uuid |-> orders[o].transaction_uuid,
                    payment_method   |-> orders[o].payment_method]],
    ledger  <- {p \in payments : \E r \in Handlers : calls[r].transaction = p.transaction_uuid}

RefinesLifecycle == Lifecycle!Spec
=============================================================================
