---------------------------- MODULE OrderService ----------------------------
(***************************************************************************)
(* OrderService over Postgres and PaymentService.                          *)
(*                                                                         *)
(* Every HTTP request is a process: a goroutine that runs one handler from *)
(* the API through the service to the repository.  pc[r] is the statement  *)
(* or the call it is about to make or waits for.  Handlers share nothing   *)
(* but the rows of the table orders; each statement on it is atomic, and   *)
(* between any two of them every other handler, PaymentService and the     *)
(* environment may take any number of steps.  No transaction spans a       *)
(* payment: StartPayment marks the row, and the handler that marked it is  *)
(* to take the mark off.                                                   *)
(***************************************************************************)
EXTENDS PaymentService, OrderModel

CONSTANTS
    Existing,   \* the orders that are in the table, unpaid, at the start
    Workload    \* the operations that clients call

Operations == {"Create", "Get", "Pay", "Cancel"}

ASSUME ExistingAssumption == Existing \subseteq Orders

ASSUME WorkloadAssumption == Workload \subseteq Operations

VARIABLES
    orders,     \* the table orders
    pc,         \* pc[r]: where the handler of request r is
    input,      \* input[r]: the operation called and its arguments
    ctxDone,    \* ctxDone[r]: the context of the request is cancelled
    payResult,  \* payResult[r]: what paymentClient.PayOrder returned
    response,   \* response[r]: what the handler answered
    late        \* late[r]: the statement that r's handler was told had failed,
                \* or did not live to see, and that Postgres may yet execute

vars == <<payments, calls, orders, pc, input, ctxDone, payResult, response, late>>

-----------------------------------------------------------------------------
Reads == {"Get", "StartPaymentGet", "FinishPaymentGet", "ResetPaymentExists", "CancelGet"}

Active == Kinds \cup Reads \cup {"SendPayOrder", "PayOrder"}

PayErrors == {"ErrInvalidPaymentMethod", "internal"}

ASSUME TransactionsAssumption == (Transactions \cup {Null}) \cap PayErrors = {}

NoInput == [op |-> Null, order |-> Null, method |-> Null]

Input ==
    [op     : Operations \cup {Null},
     order  : Orders \cup {Null},
     method : PaymentMethods \cup {BadMethod, Null}]

Init ==
    /\ PaymentInit
    /\ orders = [o \in Orders |-> IF o \in Existing THEN PendingOrder ELSE AbsentOrder]
    /\ pc = [r \in Requests |-> "idle"]
    /\ input = [r \in Requests |-> NoInput]
    /\ ctxDone = [r \in Requests |-> FALSE]
    /\ payResult = [r \in Requests |-> Null]
    /\ response = [r \in Requests |-> NoResponse]
    /\ late = [r \in Requests |-> "none"]

TheOrder(r) == orders[input[r].order]

Goto(r, label) == pc' = [pc EXCEPT ![r] = label]

Reply(r, answer) ==
    /\ Goto(r, "done")
    /\ response' = [response EXCEPT ![r] = answer]

\* Postgres executes the statement for request r.
Execute(r, kind) ==
    orders' = [orders EXCEPT ![input[r].order] =
                  Updated(kind, TheOrder(r), payResult[r], input[r].method)]

\* What a handler answers to errors, by the operation it serves.
ErrorResponse(r, errs) ==
    CASE input[r].op = "Create" -> createErrorResponse(errs)
      [] input[r].op = "Get"    -> getErrorResponse(errs)
      [] input[r].op = "Pay"    -> payErrorResponse(errs)
      [] input[r].op = "Cancel" -> cancelErrorResponse(errs)

-----------------------------------------------------------------------------
(* A request arrives.                                                      *)

Accept(r, op, order, method) ==
    /\ op \in Workload
    /\ pc[r] = "idle"
    /\ input' = [input EXCEPT ![r] = [op |-> op, order |-> order, method |-> method]]
    /\ UNCHANGED <<payments, calls, orders, ctxDone, payResult, late>>

\* Create passes its checks and draws the UUID of the new order: none that a
\* client has ever named (uuid.NewRandom).
BeginCreate(r, o) ==
    /\ orders[o].status = "ABSENT"
    /\ \A q \in Requests : input[q].order # o
    /\ Accept(r, "Create", o, Null)
    /\ Goto(r, "Create")
    /\ UNCHANGED response

\* Create ends before it draws a UUID: a UUID is nil, a part does not exist or
\* is out of stock, or InventoryService is not reached.
RejectCreate(r, err) ==
    /\ Accept(r, "Create", Null, Null)
    /\ Reply(r, createErrorResponse({err}))

\* A client can name an order when Create answered it, or one of before, or a
\* UUID that is not an order's; not the UUID of a Create that is under way or
\* failed, which is told to nobody.
CanName(o) ==
    \A q \in Requests :
        input[q].op = "Create" /\ input[q].order = o => response[q].code = 200

BeginGet(r, o) ==
    /\ CanName(o)
    /\ Accept(r, "Get", o, Null)
    /\ Goto(r, "Get")
    /\ UNCHANGED response

BeginPay(r, o, method) ==
    /\ CanName(o)
    /\ isValidPaymentMethod(method)
    /\ Accept(r, "Pay", o, method)
    /\ Goto(r, "StartPayment")
    /\ UNCHANGED response

RejectPay(r, o, method) ==
    /\ CanName(o)
    /\ ~ isValidPaymentMethod(method)
    /\ Accept(r, "Pay", o, method)
    /\ Reply(r, payErrorResponse({"ErrInvalidPaymentMethod"}))

BeginCancel(r, o) ==
    /\ CanName(o)
    /\ Accept(r, "Cancel", o, Null)
    /\ Goto(r, "Cancel")
    /\ UNCHANGED response

Arrive(r) ==
    \/ \E o \in Orders : BeginCreate(r, o)
    \/ \E err \in {"ErrInvalidUUID", "ErrPartNotFound", "ErrOutOfStock", "internal"} :
          RejectCreate(r, err)
    \/ \E o \in Orders : BeginGet(r, o)
    \/ \E o \in Orders, method \in PaymentMethods \cup {BadMethod} :
          BeginPay(r, o, method) \/ RejectPay(r, o, method)
    \/ \E o \in Orders : BeginCancel(r, o)

-----------------------------------------------------------------------------
(* The statements of a handler.  One that affects no row is followed by a  *)
(* read of its own, which sees the table as it is by then.                 *)

\* The handler issues the statement that pc[r] names.
Issues(r, kind) == pc[r] = kind /\ ~ ctxDone[r]

Create(r) ==
    /\ Issues(r, "Create")
    /\ Affects("Create", TheOrder(r))
    /\ Execute(r, "Create")
    /\ Reply(r, OK(NoBody))
    /\ UNCHANGED <<payments, calls, input, ctxDone, payResult, late>>

StartPayment(r) ==
    /\ Issues(r, "StartPayment")
    /\ IF Affects("StartPayment", TheOrder(r))
       THEN Execute(r, "StartPayment") /\ Goto(r, "SendPayOrder")
       ELSE UNCHANGED orders /\ Goto(r, "StartPaymentGet")
    /\ UNCHANGED <<payments, calls, input, ctxDone, payResult, response, late>>

FinishPayment(r) ==
    /\ Issues(r, "FinishPayment")
    /\ IF Affects("FinishPayment", TheOrder(r))
       THEN /\ Execute(r, "FinishPayment")
            /\ Reply(r, OK([NoBody EXCEPT !.transaction_uuid = payResult[r]]))
       ELSE UNCHANGED <<orders, response>> /\ Goto(r, "FinishPaymentGet")
    /\ UNCHANGED <<payments, calls, input, ctxDone, payResult, late>>

\* Wrong: a payment that failed is tried again until it succeeds.
RetriedResetPayment(r) ==
    /\ Issues(r, "ResetPayment")
    /\ IF Affects("ResetPayment", TheOrder(r))
       THEN Execute(r, "ResetPayment") /\ Goto(r, "StartPayment")
       ELSE UNCHANGED orders /\ Goto(r, "ResetPaymentExists")
    /\ UNCHANGED <<payments, calls, input, ctxDone, payResult, response, late>>

ResetPayment(r) ==
    /\ Issues(r, "ResetPayment")
    /\ IF Affects("ResetPayment", TheOrder(r))
       THEN Execute(r, "ResetPayment") /\ Reply(r, payErrorResponse({payResult[r]}))
       ELSE UNCHANGED <<orders, response>> /\ Goto(r, "ResetPaymentExists")
    /\ UNCHANGED <<payments, calls, input, ctxDone, payResult, late>>

Cancel(r) ==
    /\ Issues(r, "Cancel")
    /\ IF Affects("Cancel", TheOrder(r))
       THEN Execute(r, "Cancel") /\ Reply(r, OK(NoBody))
       ELSE UNCHANGED <<orders, response>> /\ Goto(r, "CancelGet")
    /\ UNCHANGED <<payments, calls, input, ctxDone, payResult, late>>

\* What the handler answers when it reads row.
ReadResponse(r, row) ==
    CASE pc[r] = "Get" ->
            IF row.status = "ABSENT" THEN getErrorResponse({"ErrOrderNotFound"})
                                     ELSE OK(OrderToDTO(row))
      [] pc[r] \in {"StartPaymentGet", "FinishPaymentGet"} ->
            payErrorResponse({StatusError(row.status)})
      [] pc[r] = "CancelGet" ->
            cancelErrorResponse({StatusError(row.status)})
      [] pc[r] = "ResetPaymentExists" ->
            payErrorResponse({payResult[r]} \cup
                (IF row.status = "ABSENT" THEN {"ErrOrderNotFound"} ELSE {}))

\* repository.Get and the EXISTS of ResetPayment.  The items that Get reads
\* with a second query never change, so that the row decides.
Read(r) ==
    /\ pc[r] \in Reads
    /\ ~ ctxDone[r]
    /\ Reply(r, ReadResponse(r, TheOrder(r)))
    /\ UNCHANGED <<payments, calls, orders, input, ctxDone, payResult, late>>

\* A query returns an error that is not ErrNoRows.  With a context that is done
\* it is not sent at all; otherwise Postgres may execute it later.
QueryFails(r) ==
    /\ pc[r] \in Kinds \cup Reads
    /\ \/ ctxDone[r] /\ UNCHANGED late
       \/ /\ ~ ctxDone[r]
          /\ "db" \in Faults
          /\ \E l \in {"none"} \cup (Kinds \cap {pc[r]}) : late' = [late EXCEPT ![r] = l]
    /\ Reply(r, ErrorResponse(r, {"internal"} \cup ({payResult[r]} \cap PayErrors)))
    /\ UNCHANGED <<payments, calls, orders, input, ctxDone, payResult>>

-----------------------------------------------------------------------------
(* The payment call of Pay.                                                *)

SendPayOrder(r) ==
    /\ pc[r] = "SendPayOrder"
    /\ ~ ctxDone[r]
    /\ SendCall(r, input[r].order, input[r].method)
    /\ Goto(r, "PayOrder")
    /\ UNCHANGED <<orders, input, ctxDone, payResult, response, late>>

Receive(r, result, label) ==
    /\ payResult' = [payResult EXCEPT ![r] = result]
    /\ Goto(r, label)
    /\ UNCHANGED <<payments, calls, orders, input, ctxDone, response, late>>

ReceiveTransaction(r) ==
    /\ pc[r] = "PayOrder"
    /\ calls[r].state = "OK"
    /\ Receive(r, calls[r].transaction, "FinishPayment")

ReceiveError(r) ==
    /\ pc[r] = "PayOrder"
    /\ calls[r].state \in {"InvalidArgument", "Internal"}
    /\ Receive(r, IF calls[r].state = "InvalidArgument"
                  THEN "ErrInvalidPaymentMethod" ELSE "internal", "ResetPayment")

\* The call returns Unavailable or Canceled, whatever the server made or will
\* make of it.
LoseCall(r) ==
    /\ pc[r] \in {"SendPayOrder", "PayOrder"}
    /\ "reply" \in Faults \/ ctxDone[r]
    /\ Receive(r, "internal", "ResetPayment")

-----------------------------------------------------------------------------
(* The environment.                                                        *)

\* Postgres executes a statement whose issuer is gone.
ExecuteLate(r) ==
    /\ late[r] # "none"
    /\ late' = [late EXCEPT ![r] = "none"]
    /\ IF Affects(late[r], TheOrder(r)) THEN Execute(r, late[r]) ELSE UNCHANGED orders
    /\ UNCHANGED <<payments, calls, pc, input, ctxDone, payResult, response>>

\* The client goes away.  A statement in flight is abandoned; the handler goes
\* on with a context on which every further query and call fails.
Disconnect(r) ==
    /\ "disconnect" \in Faults
    /\ pc[r] \in Active
    /\ ~ ctxDone[r]
    /\ ctxDone' = [ctxDone EXCEPT ![r] = TRUE]
    /\ \E l \in {"none"} \cup (Kinds \cap {pc[r]}) : late' = [late EXCEPT ![r] = l]
    /\ UNCHANGED <<payments, calls, orders, pc, input, payResult, response>>

\* The process stops, and a new one serves the requests that follow.  Nothing
\* at startup looks for the orders whose handlers are gone.
Crash ==
    /\ "crash" \in Faults
    /\ \E r \in Requests : pc[r] \in Active
    /\ pc' = [r \in Requests |-> IF pc[r] \in Active THEN "lost" ELSE pc[r]]
    /\ \E S \in SUBSET {r \in Requests : pc[r] \in Kinds /\ ~ ctxDone[r]} :
          late' = [r \in Requests |-> IF r \in S THEN pc[r] ELSE late[r]]
    /\ UNCHANGED <<payments, calls, orders, input, ctxDone, payResult, response>>

-----------------------------------------------------------------------------
\* The code of a handler runs.
Handle(r) ==
    \/ Create(r)
    \/ StartPayment(r)
    \/ FinishPayment(r)
    \/ ResetPayment(r)
    \/ Cancel(r)
    \/ Read(r)
    \/ QueryFails(r)
    \/ SendPayOrder(r)
    \/ ReceiveTransaction(r)
    \/ ReceiveError(r)
    \/ LoseCall(r)

Serve(r) ==
    /\ ServeCall(r)
    /\ UNCHANGED <<orders, pc, input, ctxDone, payResult, response, late>>

Next ==
    \/ \E r \in Requests :
          Arrive(r) \/ Handle(r) \/ Serve(r) \/ ExecuteLate(r) \/ Disconnect(r)
    \/ Crash

Spec == Init /\ [][Next]_vars

\* Goroutines are scheduled, queries return and PaymentService answers; clients
\* need not come, and no fault need happen.
Fairness == \A r \in Requests : WF_vars(Handle(r)) /\ WF_vars(Serve(r))

FairSpec == Spec /\ Fairness

-----------------------------------------------------------------------------
(* Properties                                                              *)

TypeOK ==
    /\ PaymentTypeOK
    /\ orders \in [Orders -> OrderRow]
    /\ pc \in [Requests -> Active \cup {"idle", "done", "lost"}]
    /\ input \in [Requests -> Input]
    /\ ctxDone \in [Requests -> BOOLEAN]
    /\ payResult \in [Requests -> Transactions \cup PayErrors \cup {Null}]
    /\ response \in [Requests -> Response]
    /\ late \in [Requests -> Kinds \cup {"none"}]

\* r's handler, or a statement that it left behind, is the one to take the
\* order of r out of PAYMENT_PROCESSING.
Owns(r) ==
    \/ pc[r] \in {"SendPayOrder", "PayOrder"}
    \/ pc[r] \in {"FinishPayment", "ResetPayment"} /\ ~ ctxDone[r]
    \/ late[r] \in {"FinishPayment", "ResetPayment"}

\* StartPayment is a lock: whoever it let through is alone with the order
\* until it finishes or resets the payment, even if its statement is executed
\* late.  So the default and the three conflicts that Pay checks for after
\* FinishPayment (pay.go:47-58) and the EXISTS of ResetPayment are never
\* reached.
ProcessingIsOwned ==
    /\ \A r \in Requests : Owns(r) => TheOrder(r).status = "PAYMENT_PROCESSING"
    /\ \A q, r \in Requests :
          Owns(q) /\ Owns(r) /\ input[q].order = input[r].order => q = r
    /\ \A r \in Requests : pc[r] \notin {"FinishPaymentGet", "ResetPaymentExists"}

\* An order that is being paid has a payer: a handler that still holds it, or
\* one whose client was told of an internal error or of nothing at all.
ProcessingHasPayer ==
    \A o \in Orders : orders[o].status = "PAYMENT_PROCESSING" =>
        \E r \in Requests :
            /\ input[r].op = "Pay" /\ input[r].order = o
            /\ Owns(r) \/ ctxDone[r] \/ response[r].code = 500 \/ pc[r] = "lost"

\* An order is PAID exactly when it names a payment that PaymentService has on
\* record for this order and by this method (pay.go:36-58).
PaidIsRecorded ==
    \A o \in Orders :
        IF orders[o].status = "PAID"
        THEN [transaction_uuid |-> orders[o].transaction_uuid,
              order_uuid       |-> o,
              payment_method   |-> orders[o].payment_method] \in payments
        ELSE orders[o].transaction_uuid = Null /\ orders[o].payment_method = Null

\* What a client was told is never taken back: a transaction answered to Pay
\* stays the receipt of a paid order, a cancelled order stays cancelled, and
\* what Get showed of a paid or cancelled order, or a 409 told of it, stays so.
AnswersAreFinal ==
    \A r \in Requests :
        LET answer == response[r]
        IN  /\ input[r].op = "Pay" /\ answer.code = 200
                  => TheOrder(r) = [status           |-> "PAID",
                                    transaction_uuid |-> answer.body.transaction_uuid,
                                    payment_method   |-> input[r].method]
            /\ input[r].op = "Cancel" /\ answer.code = 200
                  => TheOrder(r).status = "CANCELLED"
            /\ input[r].op = "Get" /\ answer.body.status \in {"PAID", "CANCELLED"}
                  => TheOrder(r) = answer.body
            /\ "ErrOrderAlreadyPaid" \in answer.message => TheOrder(r).status = "PAID"
            /\ "ErrOrderCancelled" \in answer.message => TheOrder(r).status = "CANCELLED"

\* Nobody is charged behind a definite answer: a payment that is not the
\* receipt of its order belongs to a call whose handler still works on it, or
\* whose client was told of an internal error or of nothing at all; never of a
\* conflict, a missing order or a success (pay.go:36-58, errors.go:36-61).
ChargeIsAccounted ==
    \A p \in payments :
        \/ orders[p.order_uuid].transaction_uuid = p.transaction_uuid
        \/ \E r \in Requests :
              /\ calls[r].order = p.order_uuid
              /\ calls[r].transaction = p.transaction_uuid
              /\ \/ pc[r] \in {"PayOrder", "FinishPayment", "ResetPayment", "lost"}
                 \/ response[r].code = 500

\* The calls by which o was charged or will be, but for those that the handler
\* took for failed and reset: nobody can tell these from calls that charged
\* nothing (the fault "reply").
Charges(o) ==
    {r \in Requests :
        /\ calls[r].order = o
        /\ calls[r].state = "sent" \/ calls[r].transaction # Null
        /\ payResult[r] # "internal"}

\* An order is charged once, and not at all while it is to be paid or after it
\* was cancelled, however many clients pay it at a time, retry or go away, and
\* wherever the order service stops (service_test.go:137, handler_test.go:128,
\* order_cancel.yaml:3).  The only charges beside the one are those behind a
\* payment call that ended in an error.
OnlyChargedOnce ==
    \A o \in Orders :
        /\ \A q, r \in Charges(o) : q = r
        /\ orders[o].status \in {"PENDING_PAYMENT", "CANCELLED"} => Charges(o) = {}

\* An order that was cancelled was not charged, and will not be by a call that
\* is on its way (order_cancel.yaml:3).
CancelledIsNotCharged ==
    \A o \in Orders : orders[o].status = "CANCELLED" =>
        /\ \A p \in payments : p.order_uuid # o
        /\ \A r \in Requests : calls[r].state = "sent" => calls[r].order # o

\* A client is told that an order does not exist only when it does not exist
\* (errors.go:6; cancel.go:22-31, pay.go:24-33).
NotFoundIsAbsent ==
    [][\A r \in Requests :
          response'[r] # response[r] /\ "ErrOrderNotFound" \in response'[r].message
             => TheOrder(r).status = "ABSENT"]_vars

\* A payment ends: an order does not stay in PAYMENT_PROCESSING, where it can
\* be neither paid nor cancelled (repository.go:205).
PaymentSettles ==
    \A o \in Orders :
        orders[o].status = "PAYMENT_PROCESSING" ~> orders[o].status # "PAYMENT_PROCESSING"

\* Every request is answered.
EveryoneIsAnswered == \A r \in Requests : pc[r] \in Active ~> pc[r] = "done"

\* The public life of an order, and the ledger, are those of OrderLifecycle.
Lifecycle == INSTANCE OrderLifecycle WITH
    status  <- [o \in Orders |->
                   IF orders[o].status = "ABSENT" THEN "ABSENT"
                   ELSE OrderStatusToDTO(orders[o].status)],
    receipt <- [o \in Orders |->
                   [transaction_uuid |-> orders[o].transaction_uuid,
                    payment_method   |-> orders[o].payment_method]],
    ledger  <- payments

RefinesLifecycle == Lifecycle!Spec
=============================================================================
