------------------------- MODULE OrderMemoryProofs -------------------------
(***************************************************************************)
(* Proofs about OrderMemory: with the map under one mutex the mark of a    *)
(* payment is exact and a refusal gives the true reason, for any handlers, *)
(* other callers, orders and faults.  Neither holds over Postgres: of the  *)
(* first only one half does (ProcessingIsOwned, see OrderServiceProofs),   *)
(* and the run order_not_found violates the second.  The service over the  *)
(* map implements OrderLifecycle, its ledger being what its own handlers   *)
(* paid.                                                                   *)
(***************************************************************************)
EXTENDS OrderMemory, PaymentServiceProofs

Labels ==
    {"idle", "done", "Create", "Get", "Cancel",
     "StartPayment", "PayOrder", "FinishPayment", "ResetPayment"}

Results == Transactions \cup PayErrors \cup {Null}

\* The map and the handlers keep their types, and a handler at work has an
\* order and, when it pays, a known method.
MemoryTypes ==
    /\ orders \in [Orders -> OrderRow]
    /\ pc \in [Handlers -> Labels]
    /\ DOMAIN input = Handlers
    /\ payResult \in [Handlers -> Results]
    /\ response \in [Handlers -> Response]
    /\ \A r \in Handlers :
        /\ pc[r] \notin {"idle", "done"} => input[r].order \in Orders
        /\ pc[r] \in {"StartPayment", "PayOrder", "FinishPayment", "ResetPayment"}
              => input[r].method \in PaymentMethods
        /\ pc[r] = "FinishPayment" => payResult[r] \in Transactions
        /\ pc[r] = "ResetPayment"
              => payResult[r] \in PayErrors

\* Whoever pays an order holds it, alone.
Held ==
    /\ \A r \in Handlers : Owns(r) => TheOrder(r).status = "PAYMENT_PROCESSING"
    /\ \A q, r \in Handlers :
          Owns(q) /\ Owns(r) /\ input[q].order = input[r].order => q = r

\* A marked order has a holder.
Holders ==
    \A o \in Orders : orders[o].status = "PAYMENT_PROCESSING" =>
        \E r \in Handlers : Owns(r) /\ input[r].order = o

\* Nobody else names an order that is not in the map yet.
Drafts ==
    \A r \in Handlers : pc[r] = "Create" =>
        /\ input[r].op = "Create"
        /\ TheOrder(r).status = "ABSENT"
        /\ \A q \in Handlers : input[q].order = input[r].order => q = r

MemoryInv == MemoryTypes /\ PaymentInvariant /\ Held /\ Holders /\ Drafts

-----------------------------------------------------------------------------
(* Operations on the map.                                                  *)

\* When an operation changes an order, and to what status.
LEMMA OperationFacts ==
    ASSUME NEW row \in OrderRow, NEW t, NEW m
    PROVE  /\ Affects("StartPayment", row) <=> row.status = "PENDING_PAYMENT"
           /\ Affects("FinishPayment", row) <=> row.status = "PAYMENT_PROCESSING"
           /\ Affects("ResetPayment", row) <=> row.status = "PAYMENT_PROCESSING"
           /\ Affects("Cancel", row) <=> row.status = "PENDING_PAYMENT"
           /\ Updated("Create", row, t, m) = [row EXCEPT !.status = "PENDING_PAYMENT"]
           /\ Updated("StartPayment", row, t, m) =
                 [row EXCEPT !.status = "PAYMENT_PROCESSING"]
           /\ Updated("FinishPayment", row, t, m) =
                 [status |-> "PAID", transaction_uuid |-> t, payment_method |-> m]
           /\ Updated("ResetPayment", row, t, m) =
                 [row EXCEPT !.status = "PENDING_PAYMENT"]
           /\ Updated("Cancel", row, t, m) = [row EXCEPT !.status = "CANCELLED"]
  BY DEF Affects, Updated, StatementOf, Kinds, Statement, CreateStatement,
         StartPaymentStatement, FinishPaymentStatement, ResetPaymentStatement,
         CancelStatement

\* An operation changes one order, to the status it sets.
LEMMA StoreFacts ==
    ASSUME MemoryTypes, NEW r \in Handlers, NEW kind \in Kinds, pc[r] = kind,
           Store(r, kind)
    PROVE  LET o == input[r].order
           IN  /\ o \in Orders
               /\ orders' \in [Orders -> OrderRow]
               /\ \A p \in Orders : p # o => orders'[p] = orders[p]
               /\ kind = "Create" => orders'[o].status = "PENDING_PAYMENT"
               /\ kind = "StartPayment" => orders'[o].status = "PAYMENT_PROCESSING"
               /\ kind = "FinishPayment" => orders'[o].status = "PAID"
               /\ kind = "ResetPayment" => orders'[o].status = "PENDING_PAYMENT"
               /\ kind = "Cancel" => orders'[o].status = "CANCELLED"
<1>. DEFINE o   == input[r].order
            new == Updated(kind, orders[o], payResult[r], input[r].method)
<1>1. o \in Orders /\ orders[o] \in OrderRow
  BY DEF MemoryTypes, Kinds
<1>2. orders' = [orders EXCEPT ![o] = new]
  BY DEF Store, TheOrder
<1>3. /\ new \in OrderRow
      /\ kind = "Create" => new.status = "PENDING_PAYMENT"
      /\ kind = "StartPayment" => new.status = "PAYMENT_PROCESSING"
      /\ kind = "FinishPayment" => new.status = "PAID"
      /\ kind = "ResetPayment" => new.status = "PENDING_PAYMENT"
      /\ kind = "Cancel" => new.status = "CANCELLED"
  <2>1. ASSUME NEW status \in Statuses, new = [orders[o] EXCEPT !.status = status]
        PROVE  new \in OrderRow /\ new.status = status
    BY <1>1, <2>1 DEF OrderRow
  <2>2. CASE kind = "FinishPayment"
    <3>1. payResult[r] \in Transactions /\ input[r].method \in PaymentMethods
      BY <2>2 DEF MemoryTypes
    <3>. QED
      BY <1>1, <2>2, <3>1, OperationFacts DEF OrderRow, Statuses
  <2>3. CASE kind = "Create"
    BY <1>1, <2>1, <2>3, OperationFacts DEF Statuses
  <2>4. CASE kind = "StartPayment"
    BY <1>1, <2>1, <2>4, OperationFacts DEF Statuses
  <2>5. CASE kind = "ResetPayment"
    BY <1>1, <2>1, <2>5, OperationFacts DEF Statuses
  <2>6. CASE kind = "Cancel"
    BY <1>1, <2>1, <2>6, OperationFacts DEF Statuses
  <2>. QED
    BY <2>2, <2>3, <2>4, <2>5, <2>6 DEF Kinds
<1>. HIDE DEF new
<1>. QED
  BY <1>1, <1>2, <1>3 DEF MemoryTypes

-----------------------------------------------------------------------------
(* Answers.                                                                *)

\* Every answer to errors is a response, and speaks of nothing else.
LEMMA ErrorResponses ==
    ASSUME NEW errs \in SUBSET Errors
    PROVE  /\ getErrorResponse(errs) \in Response
           /\ payErrorResponse(errs) \in Response
           /\ cancelErrorResponse(errs) \in Response
           /\ getErrorResponse(errs).message \subseteq errs
           /\ payErrorResponse(errs).message \subseteq errs
           /\ cancelErrorResponse(errs).message \subseteq errs
<1>1. NoBody \in OrderRow
  BY DEF NoBody, OrderRow, Statuses
<1>2. InternalError \in Response /\ InternalError.message = {}
  BY <1>1 DEF InternalError, Refusal, Response
<1>3. \A code \in {400, 404, 409} :
         Refusal(code, errs) \in Response /\ Refusal(code, errs).message = errs
  BY <1>1 DEF Refusal, Response
<1>. QED
  BY <1>2, <1>3 DEF getErrorResponse, payErrorResponse, cancelErrorResponse

\* An answer with an order in it speaks of no error.
LEMMA Bodies ==
    ASSUME NEW body \in OrderRow
    PROVE  /\ OK(body) \in Response /\ OK(body).message = {}
           /\ OK(OrderToDTO(body)) \in Response /\ OK(OrderToDTO(body)).message = {}
<1>1. OrderToDTO(body) \in OrderRow
  BY DEF OrderToDTO, OrderStatusToDTO, OrderRow, Statuses
<1>. QED
  BY <1>1 DEF OK, Response

\* An operation that refuses an order tells its status.
LEMMA StatusAnswers ==
    ASSUME NEW row \in OrderRow
    PROVE  /\ payErrorResponse({StatusError(row.status)}) \in Response
           /\ cancelErrorResponse({StatusError(row.status)}) \in Response
           /\ row.status \notin {"ABSENT", "PENDING_PAYMENT"} =>
                 \A answer \in {payErrorResponse({StatusError(row.status)}),
                                cancelErrorResponse({StatusError(row.status)})} :
                    "ErrOrderNotFound" \notin answer.message
<1>1. {StatusError(row.status)} \in SUBSET Errors
  BY DEF StatusError, Errors
<1>2. row.status \notin {"ABSENT", "PENDING_PAYMENT"} =>
         StatusError(row.status) # "ErrOrderNotFound"
  BY DEF StatusError, OrderRow, Statuses
<1>. QED
  BY <1>1, <1>2, ErrorResponses

-----------------------------------------------------------------------------
(* The steps of a handler.                                                 *)

\* r answers, and says that its order does not exist only when it does not.
Answers(r) ==
    /\ pc' = [pc EXCEPT ![r] = "done"]
    /\ UNCHANGED <<input, payResult>>
    /\ \E answer \in Response :
          /\ response' = [response EXCEPT ![r] = answer]
          /\ "ErrOrderNotFound" \in answer.message => TheOrder(r).status = "ABSENT"

\* r takes the payment of its order in hand.
Takes(r) ==
    /\ pc[r] = "StartPayment"
    /\ pc' = [pc EXCEPT ![r] = "PayOrder"]
    /\ TheOrder(r).status = "PENDING_PAYMENT"
    /\ Store(r, "StartPayment")
    /\ UNCHANGED <<input, payResult, response>>

\* r gives its order up, paid or reset.
Gives(r) ==
    /\ \/ pc[r] = "FinishPayment" /\ Store(r, "FinishPayment")
       \/ pc[r] = "ResetPayment" /\ Store(r, "ResetPayment")
    /\ Answers(r)

\* r changes an order that nobody pays.
Changes(r) ==
    /\ \/ pc[r] = "Create" /\ Store(r, "Create")
       \/ /\ pc[r] = "Cancel" /\ Store(r, "Cancel")
          /\ TheOrder(r).status = "PENDING_PAYMENT"
    /\ Answers(r)

\* r only reads an order.
Reads(r) ==
    /\ pc[r] \in {"Get", "StartPayment", "Cancel"}
    /\ UNCHANGED orders
    /\ Answers(r)

\* r gets the result of its payment call.
Gets(r) ==
    /\ pc[r] = "PayOrder"
    /\ UNCHANGED <<orders, input, response>>
    /\ \E result \in Transactions \cup PayErrors :
          /\ result \in Transactions
                => calls[r].state = "OK" /\ result = calls[r].transaction
          /\ payResult' = [payResult EXCEPT ![r] = result]
          /\ pc' = [pc EXCEPT ![r] = IF result \in Transactions
                                     THEN "FinishPayment" ELSE "ResetPayment"]

\* What a handler does is one of these.
LEMMA HandleSteps ==
    ASSUME MemoryInv, NEW r \in Handlers, Handle(r)
    PROVE  Takes(r) \/ Gives(r) \/ Changes(r) \/ Reads(r) \/ Gets(r) \/ UNCHANGED memoryVars
<1>1. pc[r] \notin {"idle", "done"} => TheOrder(r) \in OrderRow
  BY DEF MemoryInv, MemoryTypes, TheOrder
<1>2. ASSUME NEW answer \in Response,
             "ErrOrderNotFound" \in answer.message => TheOrder(r).status = "ABSENT",
             Reply(r, answer), UNCHANGED <<input, payResult>>
      PROVE  Answers(r)
  BY <1>2 DEF Reply, Answers
<1>3. /\ NoBody \in OrderRow
      /\ \A t \in Transactions : [NoBody EXCEPT !.transaction_uuid = t] \in OrderRow
  BY DEF NoBody, OrderRow, Statuses
<1>4. CASE Create(r)
  <2>1. OK(NoBody) \in Response /\ OK(NoBody).message = {}
    BY <1>3, Bodies
  <2>. QED
    BY <1>2, <1>4, <2>1 DEF Create, Changes
<1>5. CASE Get(r)
  <2>. DEFINE answer == IF TheOrder(r).status = "ABSENT"
                        THEN getErrorResponse({"ErrOrderNotFound"})
                        ELSE OK(OrderToDTO(TheOrder(r)))
  <2>1. /\ pc[r] = "Get" /\ Reply(r, answer)
        /\ UNCHANGED <<orders, input, payResult>>
    BY <1>5 DEF Get
  <2>2. /\ answer \in Response
        /\ "ErrOrderNotFound" \in answer.message => TheOrder(r).status = "ABSENT"
    <3>1. getErrorResponse({"ErrOrderNotFound"}) \in Response
      BY ErrorResponses DEF Errors
    <3>. QED
      BY <1>1, <2>1, <3>1, Bodies
  <2>. HIDE DEF answer
  <2>. QED
    BY <1>2, <2>1, <2>2 DEF Reads
<1>6. CASE StartPayment(r)
  <2>1. pc[r] = "StartPayment" /\ TheOrder(r) \in OrderRow
    BY <1>1, <1>6 DEF StartPayment
  <2>2. CASE TheOrder(r).status = "PENDING_PAYMENT"
    BY <1>6, <2>1, <2>2, OperationFacts DEF StartPayment, Goto, Takes
  <2>3. CASE TheOrder(r).status # "PENDING_PAYMENT"
    <3>1. /\ Reply(r, payErrorResponse({StatusError(TheOrder(r).status)}))
          /\ UNCHANGED <<orders, input, payResult>>
      BY <1>6, <2>1, <2>3, OperationFacts DEF StartPayment
    <3>. QED
      BY <1>2, <2>1, <2>3, <3>1, StatusAnswers DEF Reads
  <2>. QED
    BY <2>2, <2>3
<1>7. CASE FinishPayment(r)
  <2>1. pc[r] = "FinishPayment" /\ TheOrder(r).status = "PAYMENT_PROCESSING"
    BY <1>7 DEF FinishPayment, MemoryInv, Held, Owns
  <2>2. /\ Store(r, "FinishPayment")
        /\ Reply(r, OK([NoBody EXCEPT !.transaction_uuid = payResult[r]]))
        /\ UNCHANGED <<input, payResult>>
    BY <1>1, <1>7, <2>1, OperationFacts DEF FinishPayment
  <2>3. payResult[r] \in Transactions
    BY <2>1 DEF MemoryInv, MemoryTypes
  <2>4. /\ OK([NoBody EXCEPT !.transaction_uuid = payResult[r]]) \in Response
        /\ OK([NoBody EXCEPT !.transaction_uuid = payResult[r]]).message = {}
    BY <1>3, <2>3, Bodies
  <2>. QED
    BY <1>2, <2>1, <2>2, <2>4 DEF Gives
<1>8. CASE ResetPayment(r)
  <2>1. pc[r] = "ResetPayment" /\ TheOrder(r).status = "PAYMENT_PROCESSING"
    BY <1>8 DEF ResetPayment, MemoryInv, Held, Owns
  <2>2. /\ Store(r, "ResetPayment")
        /\ Reply(r, payErrorResponse({payResult[r]} \cup {}))
        /\ UNCHANGED <<input, payResult>>
    BY <1>1, <1>8, <2>1, OperationFacts DEF ResetPayment
  <2>3. payResult[r] \in {"ErrInvalidPaymentMethod", "internal"}
    BY <2>1 DEF MemoryInv, MemoryTypes, PayErrors
  <2>4. /\ payErrorResponse({payResult[r]} \cup {}) \in Response
        /\ "ErrOrderNotFound" \notin payErrorResponse({payResult[r]} \cup {}).message
    <3>1. {payResult[r]} \cup {} \in SUBSET Errors
      BY <2>3 DEF Errors
    <3>. QED
      BY <2>3, <3>1, ErrorResponses
  <2>. QED
    BY <1>2, <2>1, <2>2, <2>4 DEF Gives
<1>9. CASE Cancel(r)
  <2>1. pc[r] = "Cancel" /\ TheOrder(r) \in OrderRow
    BY <1>1, <1>9 DEF Cancel
  <2>2. CASE TheOrder(r).status = "PENDING_PAYMENT"
    <3>1. Store(r, "Cancel") /\ Reply(r, OK(NoBody)) /\ UNCHANGED <<input, payResult>>
      BY <1>9, <2>1, <2>2, OperationFacts DEF Cancel
    <3>2. OK(NoBody) \in Response /\ OK(NoBody).message = {}
      BY <1>3, Bodies
    <3>. QED
      BY <1>2, <2>1, <2>2, <3>1, <3>2 DEF Changes
  <2>3. CASE TheOrder(r).status # "PENDING_PAYMENT"
    <3>1. /\ Reply(r, cancelErrorResponse({StatusError(TheOrder(r).status)}))
          /\ UNCHANGED <<orders, input, payResult>>
      BY <1>9, <2>1, <2>3, OperationFacts DEF Cancel
    <3>. QED
      BY <1>2, <2>1, <2>3, <3>1, StatusAnswers DEF Reads
  <2>. QED
    BY <2>2, <2>3
<1>10. CASE SendPayOrder(r)
  BY <1>10 DEF SendPayOrder
<1>11. ASSUME NEW result \in Transactions \cup PayErrors, Receive(r, result),
              result \in Transactions
                 => calls[r].state = "OK" /\ result = calls[r].transaction
       PROVE  Gets(r)
  BY <1>11 DEF Receive, Goto, Gets
<1>12. CASE ReceiveTransaction(r)
  <2>1. calls[r].transaction \in Transactions
    BY <1>12 DEF ReceiveTransaction, Handlers, MemoryInv, PaymentInvariant,
                 AnsweredIsRecorded, PaymentTypeOK, Payment
  <2>. QED
    BY <1>11, <1>12, <2>1 DEF ReceiveTransaction
<1>13. CASE ReceiveError(r) \/ LoseCall(r)
  BY <1>11, <1>13, ResultsAssumption DEF ReceiveError, LoseCall, PayErrors
<1>. QED
  BY <1>4, <1>5, <1>6, <1>7, <1>8, <1>9, <1>10, <1>12, <1>13 DEF Handle

\* A request that arrives names an order nobody else is creating, or is
\* answered at once.
Arrives(r) ==
    /\ pc[r] = "idle"
    /\ UNCHANGED <<orders, payResult>>
    /\ \E in :
          /\ input' = [input EXCEPT ![r] = in]
          /\ in.order \in Orders
          /\ \A q \in Handlers : pc[q] = "Create" => input[q].order # in.order
          /\ \/ /\ pc' = [pc EXCEPT ![r] = "done"]
                /\ \E answer \in Response :
                      /\ response' = [response EXCEPT ![r] = answer]
                      /\ "ErrOrderNotFound" \notin answer.message
             \/ /\ UNCHANGED response
                /\ \E label \in {"Create", "Get", "Cancel", "StartPayment"} :
                      /\ pc' = [pc EXCEPT ![r] = label]
                      /\ label = "StartPayment" => in.method \in PaymentMethods
                      /\ label = "Create" =>
                            /\ in.op = "Create"
                            /\ orders[in.order].status = "ABSENT"
                            /\ \A q \in Handlers : input[q].order # in.order

\* What arrives is one of these.
LEMMA ArriveSteps ==
    ASSUME MemoryInv, NEW r \in Handlers, NEW op \in {"Create", "Get", "Cancel", "Pay"},
           NEW o \in Orders, NEW method, Arrive(r, op, o, method)
    PROVE  Arrives(r)
<1>. DEFINE in == [op |-> op, order |-> o, method |-> method]
<1>1. /\ pc[r] = "idle" /\ UNCHANGED <<orders, payResult>>
      /\ input' = [input EXCEPT ![r] = in] /\ in.order = o
      /\ in.op = op /\ in.method = method
  BY DEF Arrive
<1>2. \A q \in Handlers : pc[q] = "Create" => input[q].order # o
  BY DEF Arrive, Fresh, MemoryInv, Drafts
<1>3. CASE op = "Pay" /\ ~ isValidPaymentMethod(method)
  <2>1. Reply(r, payErrorResponse({"ErrInvalidPaymentMethod"}))
    BY <1>3 DEF Arrive
  <2>2. /\ payErrorResponse({"ErrInvalidPaymentMethod"}) \in Response
        /\ "ErrOrderNotFound" \notin payErrorResponse({"ErrInvalidPaymentMethod"}).message
    BY ErrorResponses DEF Errors
  <2>. QED
    BY <1>1, <1>2, <2>1, <2>2 DEF Reply, Arrives
<1>4. CASE ~ (op = "Pay" /\ ~ isValidPaymentMethod(method))
  <2>. DEFINE label == IF op = "Pay" THEN "StartPayment" ELSE op
  <2>1. pc' = [pc EXCEPT ![r] = label] /\ UNCHANGED response
    BY <1>4 DEF Arrive, Goto
  <2>2. label \in {"Create", "Get", "Cancel", "StartPayment"}
    OBVIOUS
  <2>3. label = "StartPayment" => method \in PaymentMethods
    BY <1>4 DEF isValidPaymentMethod
  <2>4. label = "Create" => /\ op = "Create" /\ orders[o].status = "ABSENT"
                            /\ \A q \in Handlers : input[q].order # o
    BY DEF Arrive, Fresh
  <2>. HIDE DEF label, in
  <2>. QED
    BY <1>1, <1>2, <2>1, <2>2, <2>3, <2>4 DEF Arrives
<1>. QED
  BY <1>3, <1>4

-----------------------------------------------------------------------------
(* The invariant.                                                          *)

\* Every step pays as PaymentService promises: a handler calls it once, for
\* its order and a known method.
LEMMA NextPays == MemoryInv /\ [Next]_vars => [PaymentNext]_paymentVars
<1>. SUFFICES ASSUME MemoryInv, [Next]_vars PROVE [PaymentNext]_paymentVars
  OBVIOUS
<1>1. CASE UNCHANGED vars
  BY <1>1 DEF vars
<1>2. ASSUME NEW r \in Handlers,
             NEW op, NEW o, NEW method, Arrive(r, op, o, method)
      PROVE  UNCHANGED paymentVars
  BY <1>2 DEF Arrive
<1>3. ASSUME NEW r \in Handlers, SendPayOrder(r)
      PROVE  PaymentNext
  <2>1. r \in Requests /\ input[r].order \in Orders /\ input[r].method \in PaymentMethods
    BY <1>3 DEF Handlers, SendPayOrder, MemoryInv, MemoryTypes
  <2>2. SendCall(r, input[r].order, input[r].method)
    BY <1>3 DEF SendPayOrder
  <2>. QED
    BY <2>1, <2>2 DEF PaymentNext
<1>4. ASSUME NEW r \in Handlers, Handle(r), ~ SendPayOrder(r)
      PROVE  UNCHANGED paymentVars
  BY <1>4 DEF Handle, Create, Get, Cancel, StartPayment, FinishPayment, ResetPayment,
              ReceiveTransaction, ReceiveError, LoseCall, Receive
<1>5. ASSUME NEW r \in Handlers, Disconnect(r) PROVE UNCHANGED paymentVars
  BY <1>5 DEF Disconnect
<1>6. ASSUME NEW c \in Others, OtherCall(c) PROVE PaymentNext
  BY <1>6, OthersAssumption DEF OtherCall, PaymentNext
<1>7. ASSUME NEW c \in Requests, Serve(c) PROVE PaymentNext
  BY <1>7 DEF Serve, PaymentNext
<1>. QED
  BY <1>1, <1>2, <1>3, <1>4, <1>5, <1>6, <1>7 DEF Next

\* What a step does to the map and the handlers.
LEMMA NextSteps ==
    ASSUME MemoryInv, [Next]_vars
    PROVE  \/ UNCHANGED <<orders, pc, input, payResult, response>>
           \/ \E r \in Handlers :
                 Arrives(r) \/ Takes(r) \/ Gives(r) \/ Changes(r) \/ Reads(r) \/ Gets(r)
<1>1. ASSUME NEW r \in Handlers, NEW op \in {"Create", "Get", "Cancel"}, NEW o \in Orders,
             Arrive(r, op, o, Null)
      PROVE  Arrives(r)
  BY <1>1, ArriveSteps
<1>2. ASSUME NEW r \in Handlers, NEW o \in Orders, NEW method, Arrive(r, "Pay", o, method)
      PROVE  Arrives(r)
  BY <1>2, ArriveSteps
<1>3. ASSUME NEW r \in Handlers, Handle(r)
      PROVE  \/ UNCHANGED memoryVars
             \/ Takes(r) \/ Gives(r) \/ Changes(r) \/ Reads(r) \/ Gets(r)
  BY <1>3, HandleSteps
<1>4. ASSUME NEW r \in Handlers, Disconnect(r)
      PROVE  UNCHANGED <<orders, pc, input, payResult, response>>
  BY <1>4 DEF Disconnect
<1>5. ASSUME NEW c, OtherCall(c) \/ Serve(c) PROVE UNCHANGED memoryVars
  BY <1>5 DEF OtherCall, Serve
<1>6. UNCHANGED memoryVars => UNCHANGED <<orders, pc, input, payResult, response>>
  BY DEF memoryVars
<1>7. CASE UNCHANGED vars
  BY <1>6, <1>7 DEF vars
<1>8. CASE Next
  BY <1>1, <1>2, <1>3, <1>4, <1>5, <1>6, <1>8 DEF Next
<1>. QED
  BY <1>7, <1>8

\* An operation of r on the map changes the order of r, to the status it sets.
LEMMA HandFacts ==
    ASSUME MemoryInv, NEW r \in Handlers, Takes(r) \/ Gives(r) \/ Changes(r)
    PROVE  /\ pc[r] \notin {"idle", "done"} /\ UNCHANGED <<input, payResult>>
           /\ input[r].order \in Orders
           /\ orders' \in [Orders -> OrderRow]
           /\ \A o \in Orders : o # input[r].order => orders'[o] = orders[o]
           /\ orders'[input[r].order].status # "ABSENT"
           /\ Takes(r) => /\ orders'[input[r].order].status = "PAYMENT_PROCESSING"
                          /\ TheOrder(r).status = "PENDING_PAYMENT"
           /\ Gives(r) => /\ Owns(r) /\ TheOrder(r).status = "PAYMENT_PROCESSING"
                          /\ orders'[input[r].order].status # "PAYMENT_PROCESSING"
           /\ Changes(r) => /\ ~ Owns(r)
                            /\ TheOrder(r).status \in {"ABSENT", "PENDING_PAYMENT"}
                            /\ orders'[input[r].order].status # "PAYMENT_PROCESSING"
<1>. USE DEF MemoryInv, Kinds
<1>1. CASE Takes(r)
  <2>1. ~ Gives(r) /\ ~ Changes(r)
    BY <1>1 DEF Takes, Gives, Changes
  <2>. QED
    BY <1>1, <2>1, StoreFacts DEF Takes
<1>2. CASE Gives(r)
  <2>1. ~ Takes(r) /\ ~ Changes(r) /\ Owns(r)
    BY <1>2 DEF Takes, Gives, Changes, Owns
  <2>. QED
    BY <1>2, <2>1, StoreFacts DEF Gives, Answers, Held
<1>3. CASE Changes(r)
  <2>1. ~ Takes(r) /\ ~ Gives(r) /\ ~ Owns(r)
    BY <1>3 DEF Takes, Gives, Changes, Owns
  <2>2. TheOrder(r).status \in {"ABSENT", "PENDING_PAYMENT"}
    BY <1>3 DEF Changes, Drafts
  <2>. QED
    BY <1>3, <2>1, <2>2, StoreFacts DEF Changes, Answers
<1>. QED
  BY <1>1, <1>2, <1>3

\* Types.
LEMMA KeepsTypes == MemoryInv /\ [Next]_vars => MemoryTypes'
<1>. SUFFICES ASSUME MemoryInv, [Next]_vars PROVE MemoryTypes'
  OBVIOUS
<1>. USE DEF MemoryTypes, Labels
<1>1. CASE UNCHANGED <<orders, pc, input, payResult, response>>
  BY <1>1 DEF MemoryInv
<1>2. ASSUME NEW r \in Handlers, Arrives(r) PROVE MemoryTypes'
  BY <1>2 DEF MemoryInv, Arrives
<1>3. ASSUME NEW r \in Handlers, Takes(r) PROVE MemoryTypes'
  BY <1>3, HandFacts DEF MemoryInv, Takes
<1>4. ASSUME NEW r \in Handlers, Gives(r) \/ Changes(r) PROVE MemoryTypes'
  BY <1>4, HandFacts DEF MemoryInv, Gives, Changes, Answers
<1>5. ASSUME NEW r \in Handlers, Reads(r) PROVE MemoryTypes'
  BY <1>5 DEF MemoryInv, Reads, Answers
<1>6. ASSUME NEW r \in Handlers, Gets(r) PROVE MemoryTypes'
  <2>1. PICK result \in Transactions \cup PayErrors :
           /\ payResult' = [payResult EXCEPT ![r] = result]
           /\ pc' = [pc EXCEPT ![r] = IF result \in Transactions
                                      THEN "FinishPayment" ELSE "ResetPayment"]
    BY <1>6 DEF Gets
  <2>2. pc[r] = "PayOrder" /\ UNCHANGED <<orders, input, response>>
    BY <1>6 DEF Gets
  <2>. QED
    BY <2>1, <2>2 DEF MemoryInv, Results, PayErrors
<1>. QED
  BY <1>1, <1>2, <1>3, <1>4, <1>5, <1>6, NextSteps

\* The payer keeps its mark: to take, give or change an order an operation
\* looks at its status under the mutex that it writes it under.
LEMMA KeepsHeld == MemoryInv /\ [Next]_vars => Held'
<1>. SUFFICES ASSUME MemoryInv, [Next]_vars PROVE Held'
  OBVIOUS
<1>. USE DEF MemoryInv, MemoryTypes, TheOrder, Held, Owns, Labels
<1>1. CASE UNCHANGED <<orders, pc, input, payResult, response>>
  BY <1>1
<1>2. ASSUME NEW r \in Handlers, Arrives(r) PROVE Held'
  BY <1>2 DEF Arrives
<1>3. ASSUME NEW r \in Handlers, Takes(r) PROVE Held'
  <2>1. /\ pc' = [pc EXCEPT ![r] = "PayOrder"] /\ UNCHANGED input
        /\ orders[input[r].order].status = "PENDING_PAYMENT"
    BY <1>3 DEF Takes
  <2>2. /\ input[r].order \in Orders
        /\ orders'[input[r].order].status = "PAYMENT_PROCESSING"
        /\ \A o \in Orders : o # input[r].order => orders'[o] = orders[o]
    BY <1>3, HandFacts
  <2>3. \A q \in Handlers : q # r =>
           pc'[q] = pc[q] /\ (Owns(q) => input[q].order # input[r].order)
    BY <2>1, <2>2 DEF Takes
  <2>. QED
    BY <2>1, <2>2, <2>3
<1>4. ASSUME NEW r \in Handlers, Gives(r) \/ Changes(r) PROVE Held'
  <2>1. \A q \in Handlers : Owns(q) /\ q # r => input[q].order # input[r].order
    BY <1>4, HandFacts
  <2>2. pc' = [pc EXCEPT ![r] = "done"]
    BY <1>4 DEF Gives, Changes, Answers
  <2>. QED
    BY <1>4, <2>1, <2>2, HandFacts
<1>5. ASSUME NEW r \in Handlers, Reads(r) PROVE Held'
  BY <1>5 DEF Reads, Answers
<1>6. ASSUME NEW r \in Handlers, Gets(r) PROVE Held'
  BY <1>6 DEF Gets
<1>. QED
  BY <1>1, <1>2, <1>3, <1>4, <1>5, <1>6, NextSteps

\* The mark goes with its payer.
LEMMA KeepsHolders == MemoryInv /\ [Next]_vars => Holders'
<1>. SUFFICES ASSUME MemoryInv, [Next]_vars PROVE Holders'
  OBVIOUS
<1>. USE DEF MemoryInv, MemoryTypes, TheOrder, Holders, Owns, Labels
<1>1. CASE UNCHANGED <<orders, pc, input, payResult, response>>
  BY <1>1
<1>2. ASSUME NEW r \in Handlers, Arrives(r) PROVE Holders'
  BY <1>2 DEF Arrives
<1>3. ASSUME NEW r \in Handlers, Takes(r) PROVE Holders'
  <2>1. /\ pc' = [pc EXCEPT ![r] = "PayOrder"] /\ UNCHANGED input
        /\ orders[input[r].order].status = "PENDING_PAYMENT"
    BY <1>3 DEF Takes
  <2>2. /\ input[r].order \in Orders
        /\ orders'[input[r].order].status = "PAYMENT_PROCESSING"
        /\ \A o \in Orders : o # input[r].order => orders'[o] = orders[o]
    BY <1>3, HandFacts
  <2>. QED
    BY <2>1, <2>2
<1>4. ASSUME NEW r \in Handlers, Gives(r) \/ Changes(r) PROVE Holders'
  <2>1. pc' = [pc EXCEPT ![r] = "done"]
    BY <1>4 DEF Gives, Changes, Answers
  <2>. QED
    BY <1>4, <2>1, HandFacts
<1>5. ASSUME NEW r \in Handlers, Reads(r) PROVE Holders'
  BY <1>5 DEF Reads, Answers
<1>6. ASSUME NEW r \in Handlers, Gets(r) PROVE Holders'
  BY <1>6 DEF Gets
<1>. QED
  BY <1>1, <1>2, <1>3, <1>4, <1>5, <1>6, NextSteps

\* A UUID just drawn stays with the handler that drew it.
LEMMA KeepsDrafts == MemoryInv /\ [Next]_vars => Drafts'
<1>. SUFFICES ASSUME MemoryInv, [Next]_vars PROVE Drafts'
  OBVIOUS
<1>. USE DEF MemoryInv, MemoryTypes, TheOrder, Drafts, Labels
<1>1. CASE UNCHANGED <<orders, pc, input, payResult, response>>
  BY <1>1
<1>2. ASSUME NEW r \in Handlers, Arrives(r) PROVE Drafts'
  BY <1>2 DEF Arrives
<1>3. ASSUME NEW r \in Handlers, Takes(r) \/ Gives(r) \/ Changes(r) PROVE Drafts'
  <2>1. \A q \in Handlers : pc'[q] = "Create" => pc[q] = "Create" /\ q # r
    BY <1>3 DEF Takes, Gives, Changes, Answers
  <2>. QED
    BY <1>3, <2>1, HandFacts
<1>4. ASSUME NEW r \in Handlers, Reads(r) PROVE Drafts'
  BY <1>4 DEF Reads, Answers
<1>5. ASSUME NEW r \in Handlers, Gets(r) PROVE Drafts'
  BY <1>5 DEF Gets
<1>. QED
  BY <1>1, <1>2, <1>3, <1>4, <1>5, NextSteps

\* Nobody pays at the start.
LEMMA InitMemory == Init => MemoryInv
<1>. SUFFICES ASSUME Init PROVE MemoryInv
  OBVIOUS
<1>1. PaymentInvariant
  BY InitPayment DEF Init
<1>2. NoBody \in OrderRow /\ PendingOrder \in OrderRow /\ AbsentOrder \in OrderRow
  BY DEF NoBody, PendingOrder, AbsentOrder, OrderRow, Statuses
<1>3. NoResponse \in Response
  BY <1>2 DEF NoResponse, Response
<1>4. \A o \in Orders : orders[o].status # "PAYMENT_PROCESSING"
  BY DEF Init, PendingOrder, AbsentOrder
<1>5. MemoryTypes
  BY <1>2, <1>3 DEF Init, MemoryTypes, Labels, Results
<1>6. \A r \in Handlers : pc[r] = "idle"
  BY DEF Init
<1>. QED
  BY <1>1, <1>4, <1>5, <1>6 DEF MemoryInv, Held, Holders, Drafts, Owns

\* Every step keeps the invariant.
LEMMA NextMemory == MemoryInv /\ [Next]_vars => MemoryInv'
<1>1. MemoryInv /\ [Next]_vars => PaymentInvariant'
  BY NextPays, NextPayment DEF MemoryInv
<1>. QED
  BY <1>1, KeepsTypes, KeepsHeld, KeepsHolders, KeepsDrafts DEF MemoryInv

-----------------------------------------------------------------------------
(* The results.                                                            *)

\* The map, the handlers and the payments agree in every state.
THEOREM MemoryInvHolds == Spec => []MemoryInv
<1>. QED
  BY InitMemory, NextMemory, PTL DEF Spec

\* An order is being paid if and only if one handler holds it (memory.go:52-69).
THEOREM MarkHolds == Spec => []MarkIsExact
<1>1. ASSUME MemoryInv PROVE MarkIsExact
  <2>. SUFFICES ASSUME NEW o \in Orders
                PROVE  LET owners == {r \in Handlers : Owns(r) /\ input[r].order = o}
                       IN  IF orders[o].status = "PAYMENT_PROCESSING"
                           THEN Cardinality(owners) = 1 ELSE owners = {}
    BY DEF MarkIsExact
  <2>. DEFINE owners == {r \in Handlers : Owns(r) /\ input[r].order = o}
  <2>1. CASE orders[o].status = "PAYMENT_PROCESSING"
    <3>1. PICK r \in Handlers : Owns(r) /\ input[r].order = o
      BY <1>1, <2>1 DEF MemoryInv, Holders
    <3>2. owners = {r}
      BY <1>1, <3>1 DEF MemoryInv, Held
    <3>. HIDE DEF owners
    <3>3. Cardinality(owners) = 1
      BY <3>2, FS_Singleton
    <3>. QED
      BY <2>1, <3>3 DEF owners
  <2>2. CASE orders[o].status # "PAYMENT_PROCESSING"
    BY <1>1, <2>2 DEF MemoryInv, Held, TheOrder
  <2>. QED
    BY <2>1, <2>2
<1>. QED
  BY <1>1, MemoryInvHolds, PTL

\* "Not found" is the truth (memory.go:60, 119).
THEOREM NotFoundHolds == Spec => NotFoundIsAbsent
<1>1. ASSUME MemoryInv, [Next]_vars
      PROVE  [\A r \in Handlers :
                 response'[r] # response[r] /\ "ErrOrderNotFound" \in response'[r].message
                    => TheOrder(r).status = "ABSENT"]_vars
  <2>1. ASSUME NEW r \in Handlers, Answers(r), NEW q \in Handlers,
               response'[q] # response[q], "ErrOrderNotFound" \in response'[q].message
        PROVE  TheOrder(q).status = "ABSENT"
    <3>1. q = r
      BY <1>1, <2>1 DEF Answers, MemoryInv, MemoryTypes
    <3>. QED
      BY <1>1, <2>1, <3>1 DEF Answers, MemoryInv, MemoryTypes
  <2>2. ASSUME NEW r \in Handlers, Arrives(r), NEW q \in Handlers,
               response'[q] # response[q]
        PROVE  "ErrOrderNotFound" \notin response'[q].message
    BY <1>1, <2>2 DEF Arrives, MemoryInv, MemoryTypes
  <2>3. ASSUME NEW r \in Handlers, Takes(r) \/ Gets(r) PROVE UNCHANGED response
    BY <2>3 DEF Takes, Gets
  <2>4. ASSUME NEW r \in Handlers, Gives(r) \/ Changes(r) \/ Reads(r) PROVE Answers(r)
    BY <2>4 DEF Gives, Changes, Reads
  <2>. QED
    BY <1>1, <2>1, <2>2, <2>3, <2>4, NextSteps
<1>. QED
  BY <1>1, MemoryInvHolds, PTL DEF Spec, NotFoundIsAbsent

\* The service over the map pays as PaymentService promises, so that its rows
\* and answers are tied whoever else calls it.
THEOREM MemoryPays == Spec => PaymentSpec
<1>1. Init => PaymentInit
  BY DEF Init
<1>. QED
  BY <1>1, NextPays, MemoryInvHolds, PTL DEF Spec, PaymentSpec

-----------------------------------------------------------------------------
(* The ledger of the shop: the payments that its handlers drew.            *)

\* A transaction that was drawn names a row, and a call that charged nothing has
\* none.
Drawn ==
    \A c \in Requests :
        /\ calls[c].state \in {"none", "sent", "InvalidArgument"}
              => calls[c].transaction = Null
        /\ calls[c].transaction # Null =>
              \E p \in payments : p.transaction_uuid = calls[c].transaction

\* A handler calls for the order in its hand, which is in the map, and finishes
\* with the transaction it was answered.
OwnCalls ==
    \A r \in Handlers :
        /\ calls[r].state # "none" =>
              /\ pc[r] \in {"PayOrder", "FinishPayment", "ResetPayment", "done"}
              /\ calls[r].order = input[r].order /\ calls[r].method = input[r].method
              /\ input[r].order \in Orders /\ TheOrder(r).status # "ABSENT"
        /\ pc[r] = "FinishPayment" =>
              calls[r].state = "OK" /\ payResult[r] = calls[r].transaction

LedgerInv == MemoryInv /\ Drawn /\ OwnCalls

\* What a handler does beside sending its call is no concern of PaymentService.
LEMMA QuietSteps ==
    ASSUME NEW r \in Handlers, Handle(r), ~ SendPayOrder(r)
    PROVE  UNCHANGED <<payments, calls>>
  BY DEF paymentVars, Handle, Create, Get, Cancel,
         StartPayment, FinishPayment, ResetPayment,
         ReceiveTransaction, ReceiveError, LoseCall, Receive

\* An answer changes one call, and draws a transaction with its row only.
LEMMA ServeDraws ==
    ASSUME MemoryInv, Drawn, NEW c \in Requests, ServeCall(c)
    PROVE  /\ calls[c].state = "sent" /\ calls[c].transaction = Null
           /\ \A d \in Requests : d # c => calls'[d] = calls[d]
           /\ calls'[c].order = calls[c].order /\ calls'[c].method = calls[c].method
           /\ calls'[c].state \in {"OK", "InvalidArgument", "Internal"}
           /\ \/ /\ UNCHANGED payments
                 /\ calls'[c].transaction = Null
                 /\ calls'[c].state # "OK"
              \/ \E t \in Transactions :
                    /\ NewRandom(t) /\ IsValid(c)
                    /\ calls'[c].transaction = t /\ calls'[c].state # "InvalidArgument"
                    /\ payments' = payments \cup {PaymentOf(c, t)}
<1>1. ASSUME NEW state, NEW t, Answer(c, state, t)
      PROVE  calls'[c].transaction = t /\ calls'[c].state = state
  BY <1>1 DEF Answer, MemoryInv, PaymentInvariant, PaymentTypeOK, Call
<1>2. CASE RejectCall(c) \/ InsertFails(c)
  BY <1>1, <1>2, ServeFacts DEF RejectCall, InsertFails, Drawn, MemoryInv, PaymentInvariant
<1>3. ASSUME NEW t \in Transactions, PayOrder(c, t) \/ CommitUnknown(c, t)
      PROVE  /\ NewRandom(t) /\ IsValid(c)
             /\ calls'[c].transaction = t /\ calls'[c].state # "InvalidArgument"
             /\ payments' = payments \cup {PaymentOf(c, t)}
  BY <1>1, <1>3 DEF PayOrder, CommitUnknown
<1>. QED
  BY <1>2, <1>3, ServeFacts DEF ServeCall, Drawn, MemoryInv, PaymentInvariant

\* A call that is sent has no transaction, before and after.
LEMMA SendDraws ==
    ASSUME MemoryInv, Drawn, NEW c \in Requests,
           NEW order, NEW method, SendCall(c, order, method)
    PROVE  /\ calls[c].transaction = Null /\ calls'[c].transaction = Null
           /\ calls'[c].state = "sent"
           /\ calls'[c].order = order /\ calls'[c].method = method
           /\ \A d \in Requests : d # c => calls'[d] = calls[d]
           /\ UNCHANGED payments
  BY DEF SendCall, Drawn, MemoryInv, PaymentInvariant, PaymentTypeOK

\* The steps of the whole system, by what they do to the calls.
LEMMA CallSteps ==
    ASSUME MemoryInv, [Next]_vars
    PROVE  \/ /\ UNCHANGED <<payments, calls>>
              /\ \/ UNCHANGED <<orders, pc, input, payResult, response>>
                 \/ \E r \in Handlers :
                       \/ Arrives(r) \/ Takes(r) \/ Gives(r)
                       \/ Changes(r) \/ Reads(r) \/ Gets(r)
           \/ /\ UNCHANGED memoryVars
              /\ \/ \E r \in Handlers :
                       pc[r] = "PayOrder" /\ SendCall(r, input[r].order, input[r].method)
                 \/ \E c \in Others : \E order, method : SendCall(c, order, method)
                 \/ \E c \in Requests : ServeCall(c)
<1>1. ASSUME NEW r \in Handlers, Handle(r), ~ SendPayOrder(r)
      PROVE  /\ UNCHANGED <<payments, calls>>
             /\ \/ UNCHANGED memoryVars
                \/ Takes(r) \/ Gives(r) \/ Changes(r) \/ Reads(r) \/ Gets(r)
  BY <1>1, QuietSteps, HandleSteps
<1>2. ASSUME NEW r \in Handlers, SendPayOrder(r)
      PROVE  /\ UNCHANGED memoryVars
             /\ pc[r] = "PayOrder" /\ SendCall(r, input[r].order, input[r].method)
  BY <1>2 DEF SendPayOrder
<1>3. ASSUME NEW r \in Handlers, NEW op \in {"Create", "Get", "Cancel", "Pay"},
             NEW o \in Orders, NEW method, Arrive(r, op, o, method)
      PROVE  Arrives(r) /\ UNCHANGED <<payments, calls>>
  BY <1>3, ArriveSteps DEF Arrive, paymentVars
<1>4. ASSUME NEW r \in Handlers, Disconnect(r)
      PROVE  UNCHANGED <<payments, calls, orders, pc, input, payResult, response>>
  BY <1>4 DEF Disconnect, paymentVars
<1>5. ASSUME NEW c \in Others, OtherCall(c)
      PROVE  UNCHANGED memoryVars /\ \E order, method : SendCall(c, order, method)
  BY <1>5 DEF OtherCall
<1>6. ASSUME NEW c \in Requests, Serve(c) PROVE UNCHANGED memoryVars /\ ServeCall(c)
  BY <1>6 DEF Serve
<1>7. UNCHANGED memoryVars => UNCHANGED <<orders, pc, input, payResult, response>>
  BY DEF memoryVars
<1>8. CASE UNCHANGED vars
  BY <1>7, <1>8 DEF vars, paymentVars
<1>9. ASSUME NEW r \in Handlers,
             \/ \E op \in {"Create", "Get", "Cancel"}, o \in Orders : Arrive(r, op, o, Null)
             \/ \E o \in Orders, method \in PaymentMethods \cup {BadMethod} :
                   Arrive(r, "Pay", o, method)
      PROVE  Arrives(r) /\ UNCHANGED <<payments, calls>>
  BY <1>3, <1>9
<1>. QED
  BY <1>1, <1>2, <1>4, <1>5, <1>6, <1>7, <1>8, <1>9 DEF Next

\* A transaction is drawn once and with its row.
LEMMA KeepsDrawn == LedgerInv /\ [Next]_vars => Drawn'
<1>. SUFFICES ASSUME LedgerInv, [Next]_vars PROVE Drawn'
  OBVIOUS
<1>. USE DEF LedgerInv
<1>1. CASE UNCHANGED <<payments, calls>>
  BY <1>1 DEF Drawn
<1>2. ASSUME NEW c \in Requests, NEW order, NEW method, SendCall(c, order, method)
      PROVE  Drawn'
  <2>1. /\ calls'[c].transaction = Null
        /\ \A d \in Requests : d # c => calls'[d] = calls[d]
        /\ UNCHANGED payments
    BY <1>2, SendDraws
  <2>. QED
    BY <2>1 DEF Drawn
<1>3. ASSUME NEW c \in Requests, ServeCall(c) PROVE Drawn'
  <2>1. /\ \A d \in Requests : d # c => calls'[d] = calls[d]
        /\ calls'[c].state \in {"OK", "InvalidArgument", "Internal"}
        /\ payments \subseteq payments'
    BY <1>3, ServeDraws
  <2>2. \/ calls'[c].transaction = Null
        \/ /\ calls'[c].state # "InvalidArgument"
           /\ \E p \in payments' : p.transaction_uuid = calls'[c].transaction
    <3>1. ASSUME NEW t \in Transactions, payments' = payments \cup {PaymentOf(c, t)}
          PROVE  \E p \in payments' : p.transaction_uuid = t
      <4>1. PaymentOf(c, t) \in payments' /\ PaymentOf(c, t).transaction_uuid = t
        BY <3>1 DEF PaymentOf
      <4>. QED
        BY <4>1
    <3>. QED
      BY <1>3, <3>1, ServeDraws
  <2>. QED
    BY <2>1, <2>2 DEF Drawn
<1>. QED
  BY <1>1, <1>2, <1>3, CallSteps, OthersAssumption DEF Handlers

\* A handler's call stays that of its order.
LEMMA KeepsOwnCalls == LedgerInv /\ [Next]_vars => OwnCalls'
<1>. SUFFICES ASSUME LedgerInv, [Next]_vars PROVE OwnCalls'
  OBVIOUS
<1>. USE DEF LedgerInv, OwnCalls, TheOrder
<1>. Handlers \subseteq Requests
  BY DEF Handlers
<1>1. CASE UNCHANGED <<payments, calls, orders, pc, input, payResult, response>>
  BY <1>1
<1>2. ASSUME UNCHANGED calls, NEW r \in Handlers, Arrives(r) PROVE OwnCalls'
  <2>1. calls[r].state = "none"
    BY <1>2 DEF Arrives
  <2>2. UNCHANGED <<orders, payResult>> /\ pc'[r] # "FinishPayment"
    BY <1>2 DEF Arrives, MemoryInv, MemoryTypes
  <2>3. \A q \in Handlers : q # r => pc'[q] = pc[q] /\ input'[q] = input[q]
    BY <1>2 DEF Arrives, MemoryInv, MemoryTypes
  <2>. QED
    BY <1>2, <2>1, <2>2, <2>3
<1>3. ASSUME UNCHANGED calls, NEW r \in Handlers, Takes(r) \/ Gives(r) \/ Changes(r)
      PROVE  OwnCalls'
  <2>1. UNCHANGED <<input, payResult>>
    BY <1>3, HandFacts DEF LedgerInv
  <2>2. \A o \in Orders : orders[o].status # "ABSENT" => orders'[o].status # "ABSENT"
    BY <1>3, HandFacts
  <2>3. \/ pc[r] # "PayOrder" /\ pc' = [pc EXCEPT ![r] = "done"]
        \/ pc[r] = "StartPayment" /\ pc' = [pc EXCEPT ![r] = "PayOrder"]
    BY <1>3 DEF Takes, Gives, Changes, Answers
  <2>4. \A q \in Handlers : /\ q # r => pc'[q] = pc[q]
                            /\ pc'[q] = "FinishPayment" => pc[q] = "FinishPayment"
                            /\ pc[q] \in {"PayOrder", "FinishPayment",
                                          "ResetPayment", "done"}
                                  => pc'[q] \in {"PayOrder", "FinishPayment",
                                                 "ResetPayment", "done"}
    BY <2>3 DEF MemoryInv, MemoryTypes
  <2>. QED
    BY <1>3, <2>1, <2>2, <2>4
<1>4. ASSUME UNCHANGED calls, NEW r \in Handlers, Reads(r) PROVE OwnCalls'
  BY <1>4 DEF Reads, Answers, MemoryInv, MemoryTypes
<1>5. ASSUME UNCHANGED calls, NEW r \in Handlers, Gets(r) PROVE OwnCalls'
  BY <1>5 DEF Gets, MemoryInv, MemoryTypes
<1>6. ASSUME UNCHANGED memoryVars, NEW r \in Handlers, pc[r] = "PayOrder",
             SendCall(r, input[r].order, input[r].method)
      PROVE  OwnCalls'
  <2>1. TheOrder(r).status = "PAYMENT_PROCESSING" /\ input[r].order \in Orders
    BY <1>6 DEF MemoryInv, MemoryTypes, Held, Owns
  <2>. QED
    BY <1>6, <2>1, SendDraws DEF memoryVars
<1>7. ASSUME UNCHANGED memoryVars, NEW c \in Others, NEW order, NEW method,
             SendCall(c, order, method)
      PROVE  OwnCalls'
  BY <1>7, SendDraws, OthersAssumption DEF memoryVars, Handlers
<1>8. ASSUME UNCHANGED memoryVars, NEW c \in Requests, ServeCall(c) PROVE OwnCalls'
  BY <1>8, ServeDraws DEF memoryVars
<1>. QED
  BY <1>1, <1>2, <1>3, <1>4, <1>5, <1>6, <1>7, <1>8, CallSteps

\* The ledger's part of the invariant, from the start.
LEMMA InitLedger == Init => LedgerInv
<1>. SUFFICES ASSUME Init PROVE LedgerInv
  OBVIOUS
<1>1. \A c \in Requests : calls[c].state = "none" /\ calls[c].transaction = Null
  BY DEF Init, PaymentInit, NoCall
<1>2. \A r \in Handlers : r \in Requests /\ pc[r] = "idle"
  BY DEF Init, Handlers
<1>. QED
  BY <1>1, <1>2, InitMemory DEF LedgerInv, Drawn, OwnCalls

\* Every step keeps the invariant.
LEMMA NextLedger == LedgerInv /\ [Next]_vars => LedgerInv'
<1>. QED
  BY NextMemory, KeepsDrawn, KeepsOwnCalls DEF LedgerInv

-----------------------------------------------------------------------------
(* The public life of an order.                                            *)

\* What GET shows as the status of a row, and its receipt.
Shown(row) == IF row.status = "ABSENT" THEN "ABSENT" ELSE OrderStatusToDTO(row.status)

ReceiptOf(row) ==
    [transaction_uuid |-> row.transaction_uuid, payment_method |-> row.payment_method]

Ledger == {p \in payments : \E r \in Handlers : calls[r].transaction = p.transaction_uuid}

\* The orders of the start, and no payment.
LEMMA InitRefines == Init => Lifecycle!Init
<1>. SUFFICES ASSUME Init PROVE Lifecycle!Init
  OBVIOUS
<1>1. \A o \in Orders :
         /\ Shown(orders[o]) = IF o \in Existing THEN "PENDING_PAYMENT" ELSE "ABSENT"
         /\ ReceiptOf(orders[o]) = [transaction_uuid |-> Null, payment_method |-> Null]
  BY DEF Init, Shown, ReceiptOf, OrderStatusToDTO, PendingOrder, AbsentOrder
<1>2. payments = {}
  BY DEF Init, PaymentInit
<1>. QED
  BY <1>1, <1>2 DEF Shown, ReceiptOf, Lifecycle!Init, Lifecycle!Receipt

\* An operation that finds the status it wants is a step of the public life of
\* its order, or of nothing that the public sees.
LEMMA StoreRefines ==
    ASSUME LedgerInv, NEW r \in Handlers, NEW kind \in Kinds, pc[r] = kind, Store(r, kind),
           UNCHANGED <<payments, calls>>,
           kind = "Create" => TheOrder(r).status = "ABSENT",
           kind \in {"StartPayment", "Cancel"} => TheOrder(r).status = "PENDING_PAYMENT",
           kind \in {"FinishPayment", "ResetPayment"} =>
              TheOrder(r).status = "PAYMENT_PROCESSING"
    PROVE  [Lifecycle!Next]_Lifecycle!vars
<1>0. PICK o \in Orders : o = input[r].order
  BY DEF LedgerInv, MemoryInv, MemoryTypes, Kinds
<1>. DEFINE new == Updated(kind, orders[o], payResult[r], input[r].method)
            status == [p \in Orders |-> Shown(orders[p])]
            receipt == [p \in Orders |-> ReceiptOf(orders[p])]
<1>1. /\ orders[o] \in OrderRow /\ TheOrder(r) = orders[o]
      /\ orders' = [orders EXCEPT ![o] = new]
      /\ orders \in [Orders -> OrderRow]
  BY <1>0 DEF LedgerInv, MemoryInv, MemoryTypes, Kinds, Store, TheOrder
<1>2. status' = [status EXCEPT ![o] = Shown(new)]
  <2>. HIDE DEF new
  <2>. QED
    BY <1>1
<1>3. receipt' = [receipt EXCEPT ![o] = ReceiptOf(new)]
  <2>. HIDE DEF new
  <2>. QED
    BY <1>1
<1>4. Ledger' = Ledger
  BY DEF Ledger
<1>5. CASE kind = "Create"
  <2>1. orders[o].status = "ABSENT" /\ new = [orders[o] EXCEPT !.status = "PENDING_PAYMENT"]
    BY <1>1, <1>5, OperationFacts
  <2>2. /\ status[o] = "ABSENT"
        /\ Shown(new) = "PENDING_PAYMENT"
        /\ ReceiptOf(new) = ReceiptOf(orders[o])
    BY <1>1, <2>1 DEF Shown, ReceiptOf, OrderStatusToDTO, OrderRow
  <2>3. status' = [status EXCEPT ![o] = "PENDING_PAYMENT"] /\ receipt' = receipt
    BY <1>1, <1>2, <1>3, <2>2
  <2>4. Lifecycle!Place(o)
    BY <1>4, <2>2, <2>3 DEF Lifecycle!Place, Shown, ReceiptOf, Ledger
  <2>. QED
    BY <2>4 DEF Lifecycle!Next
<1>6. CASE kind \in {"StartPayment", "ResetPayment"}
  <2>1. /\ orders[o].status \in {"PENDING_PAYMENT", "PAYMENT_PROCESSING"}
        /\ \/ new = [orders[o] EXCEPT !.status = "PENDING_PAYMENT"]
           \/ new = [orders[o] EXCEPT !.status = "PAYMENT_PROCESSING"]
    BY <1>1, <1>6, OperationFacts
  <2>2. Shown(new) = Shown(orders[o]) /\ ReceiptOf(new) = ReceiptOf(orders[o])
    BY <1>1, <2>1 DEF Shown, ReceiptOf, OrderStatusToDTO, OrderRow
  <2>3. status' = status /\ receipt' = receipt
    BY <1>1, <1>2, <1>3, <2>2
  <2>. QED
    BY <1>4, <2>3 DEF Lifecycle!vars, Shown, ReceiptOf, Ledger
<1>7. CASE kind = "FinishPayment"
  <2>1. /\ orders[o].status = "PAYMENT_PROCESSING"
        /\ new = [status           |-> "PAID",
                  transaction_uuid |-> payResult[r],
                  payment_method   |-> input[r].method]
    BY <1>1, <1>7, OperationFacts
  <2>2. /\ calls[r].state = "OK" /\ payResult[r] = calls[r].transaction
        /\ calls[r].order = o /\ calls[r].method = input[r].method
    BY <1>0, <1>7 DEF LedgerInv, OwnCalls
  <2>3. [transaction_uuid |-> calls[r].transaction,
         order_uuid       |-> calls[r].order,
         payment_method   |-> calls[r].method] \in payments
    BY <2>2 DEF LedgerInv, MemoryInv, PaymentInvariant, AnsweredIsRecorded, Handlers
  <2>4. PICK p \in Ledger : /\ p.transaction_uuid = payResult[r]
                           /\ p.order_uuid = o
                           /\ p.payment_method = input[r].method
    BY <2>2, <2>3 DEF Ledger
  <2>5. /\ status[o] = "PENDING_PAYMENT"
        /\ Shown(new) = "PAID"
        /\ ReceiptOf(new) = Lifecycle!Receipt(p.transaction_uuid, p.payment_method)
    BY <1>1, <2>1, <2>4 DEF Shown, ReceiptOf, OrderStatusToDTO, Lifecycle!Receipt
  <2>6. /\ status' = [status EXCEPT ![o] = "PAID"]
        /\ receipt' = [receipt EXCEPT ![o] =
                          Lifecycle!Receipt(p.transaction_uuid, p.payment_method)]
    BY <1>2, <1>3, <2>5
  <2>7. Lifecycle!Settle(o, p)
    BY <1>4, <2>4, <2>5, <2>6 DEF Lifecycle!Settle, Shown, ReceiptOf, Ledger
  <2>. QED
    BY <2>4, <2>7 DEF Lifecycle!Next, Ledger
<1>8. CASE kind = "Cancel"
  <2>1. /\ orders[o].status = "PENDING_PAYMENT"
        /\ new = [orders[o] EXCEPT !.status = "CANCELLED"]
    BY <1>1, <1>8, OperationFacts
  <2>2. /\ status[o] = "PENDING_PAYMENT"
        /\ Shown(new) = "CANCELLED"
        /\ ReceiptOf(new) = ReceiptOf(orders[o])
    BY <1>1, <2>1 DEF Shown, ReceiptOf, OrderStatusToDTO, OrderRow
  <2>3. status' = [status EXCEPT ![o] = "CANCELLED"] /\ receipt' = receipt
    BY <1>1, <1>2, <1>3, <2>2
  <2>4. Lifecycle!Withdraw(o)
    BY <1>4, <2>2, <2>3 DEF Lifecycle!Withdraw, Shown, ReceiptOf, Ledger
  <2>. QED
    BY <2>4 DEF Lifecycle!Next
<1>. QED
  BY <1>5, <1>6, <1>7, <1>8 DEF Kinds

\* An answer of PaymentService to a handler charges an order of the shop, one to
\* anybody else is no concern of it.
LEMMA ServeRefines ==
    ASSUME LedgerInv, NEW c \in Requests, ServeCall(c), UNCHANGED orders
    PROVE  [Lifecycle!Next]_Lifecycle!vars
<1>1. /\ calls[c].state = "sent" /\ calls[c].transaction = Null
      /\ \A d \in Requests : d # c => calls'[d] = calls[d]
  BY ServeDraws DEF LedgerInv
<1>2. \A p \in payments : p.transaction_uuid \in Transactions /\ p.transaction_uuid # Null
  BY NullAssumption DEF LedgerInv, MemoryInv, PaymentInvariant, PaymentTypeOK, Payment
<1>3. CASE UNCHANGED payments /\ calls'[c].transaction = Null
  <2>1. Ledger' = Ledger
    BY <1>1, <1>2, <1>3 DEF Ledger, Handlers
  <2>. QED
    BY <2>1 DEF Ledger, Lifecycle!vars
<1>4. ASSUME NEW t \in Transactions, NewRandom(t), IsValid(c), calls'[c].transaction = t,
             payments' = payments \cup {PaymentOf(c, t)}
      PROVE  [Lifecycle!Next]_Lifecycle!vars
  <2>1. \A p \in payments : p.transaction_uuid # t
    BY <1>4 DEF NewRandom
  <2>2. \A d \in Requests : calls[d].transaction # t
    BY <1>4, <2>1, NullAssumption DEF LedgerInv, Drawn
  <2>3. /\ PaymentOf(c, t) \in payments' /\ PaymentOf(c, t).transaction_uuid = t
        /\ \A p \in payments' : p \in payments \/ p = PaymentOf(c, t)
    BY <1>4 DEF PaymentOf
  <2>4. CASE c \in Handlers
    <3>1. Ledger' = Ledger \cup {PaymentOf(c, t)}
      <4>1. ASSUME NEW p \in Ledger' PROVE p \in Ledger \cup {PaymentOf(c, t)}
        BY <1>1, <1>4, <2>1, <2>3, <4>1 DEF Ledger, Handlers
      <4>2. ASSUME NEW p \in Ledger PROVE p \in Ledger'
        BY <1>1, <1>2, <1>4, <4>2 DEF Ledger, Handlers
      <4>3. PaymentOf(c, t) \in Ledger'
        BY <1>4, <2>3, <2>4 DEF Ledger
      <4>. QED
        BY <4>1, <4>2, <4>3
    <3>2. \A p \in Ledger : p.transaction_uuid # t
      BY <2>1 DEF Ledger
    <3>3. /\ calls[c].order \in Orders /\ Shown(orders[calls[c].order]) # "ABSENT"
          /\ calls[c].method \in PaymentMethods
      BY <1>1, <1>4, <2>4
         DEF IsValid, isValidPaymentMethod, LedgerInv, OwnCalls, TheOrder, Shown,
             OrderStatusToDTO
    <3>4. PICK o \in Orders, method \in PaymentMethods :
             o = calls[c].order /\ method = calls[c].method
      BY <3>3
    <3>5. Lifecycle!Charge(o, method, t)
      BY <3>1, <3>2, <3>3, <3>4 DEF Lifecycle!Charge, PaymentOf, Shown, Ledger
    <3>. QED
      BY <1>4, <3>5 DEF Lifecycle!Next
  <2>5. CASE c \notin Handlers
    <3>1. \A r \in Handlers : calls'[r] = calls[r] /\ calls[r].transaction # t
      BY <1>1, <2>2, <2>5 DEF Handlers
    <3>2. Ledger' = Ledger
      BY <1>4, <2>3, <3>1 DEF Ledger
    <3>. QED
      BY <3>2 DEF Ledger, Lifecycle!vars
  <2>. QED
    BY <2>4, <2>5
<1>. QED
  BY <1>3, <1>4, ServeDraws DEF LedgerInv

\* Every step of the service is a step of the public life, or none.
LEMMA NextRefines == LedgerInv /\ [Next]_vars => [Lifecycle!Next]_Lifecycle!vars
<1>. SUFFICES ASSUME LedgerInv, [Next]_vars PROVE [Lifecycle!Next]_Lifecycle!vars
  OBVIOUS
<1>. Handlers \subseteq Requests /\ Others \subseteq Requests
  BY OthersAssumption DEF Handlers
<1>1. CASE UNCHANGED <<orders, payments, calls>>
  BY <1>1 DEF Lifecycle!vars
<1>2. ASSUME UNCHANGED <<payments, calls>>, NEW r \in Handlers,
             Takes(r) \/ Gives(r) \/ Changes(r)
      PROVE  [Lifecycle!Next]_Lifecycle!vars
  <2>1. CASE Takes(r)
    BY <1>2, <2>1, StoreRefines DEF Takes, Kinds
  <2>2. CASE Gives(r)
    <3>1. TheOrder(r).status = "PAYMENT_PROCESSING"
      BY <1>2, <2>2, HandFacts DEF LedgerInv
    <3>. QED
      BY <1>2, <2>2, <3>1, StoreRefines DEF Gives, Kinds
  <2>3. CASE Changes(r)
    <3>1. pc[r] = "Create" => TheOrder(r).status = "ABSENT"
      BY DEF LedgerInv, MemoryInv, Drafts
    <3>. QED
      BY <1>2, <2>3, <3>1, StoreRefines DEF Changes, Kinds
  <2>. QED
    BY <1>2, <2>1, <2>2, <2>3
<1>3. ASSUME NEW r \in Handlers, Arrives(r) \/ Reads(r) \/ Gets(r) PROVE UNCHANGED orders
  BY <1>3 DEF Arrives, Reads, Gets
<1>4. ASSUME NEW c \in Requests, NEW order, NEW method, SendCall(c, order, method),
             UNCHANGED orders
      PROVE  [Lifecycle!Next]_Lifecycle!vars
  <2>1. /\ calls[c].transaction = Null /\ calls'[c].transaction = Null /\ UNCHANGED payments
        /\ \A d \in Requests : d # c => calls'[d] = calls[d]
    BY <1>4, SendDraws DEF LedgerInv
  <2>2. Ledger' = Ledger
    BY <2>1 DEF Ledger
  <2>. QED
    BY <1>4, <2>2 DEF Ledger, Lifecycle!vars
<1>5. UNCHANGED memoryVars => UNCHANGED orders
  BY DEF memoryVars
<1>. QED
  BY <1>1, <1>2, <1>3, <1>4, <1>5, CallSteps, ServeRefines DEF LedgerInv

\* The service over the map implements the public life of an order and the
\* ledger of what its handlers paid, whoever else pays (pay.go, memory.go).
THEOREM MemoryRefinement == Spec => RefinesLifecycle
<1>. QED
  BY InitRefines, InitLedger, NextLedger, NextRefines, PTL
     DEF Spec, RefinesLifecycle, Lifecycle!Spec
=============================================================================
