------------------------- MODULE OrderServiceProofs -------------------------
(***************************************************************************)
(* Proofs about OrderService, for any requests, orders, methods,           *)
(* transactions, faults and workload.                                      *)
(*                                                                         *)
(* ProcessingIsOwned is not inductive as it stands: it needs that a handler*)
(* names an order, that a statement is abandoned at most once, and that    *)
(* the result which FinishPayment stores is that of a recorded payment.    *)
(* These are the conjuncts of Invariant below.                             *)
(***************************************************************************)
EXTENDS OrderService, PaymentServiceProofs

\* The operation that a handler at label serves.
OpOf(label) ==
    CASE label = "Create"                -> "Create"
      [] label = "Get"                   -> "Get"
      [] label \in {"Cancel", "CancelGet"} -> "Cancel"
      [] OTHER                           -> "Pay"

\* A handler at work, and a statement it left behind, are for an operation on
\* an order, and for a payment by a known method.
InputInv ==
    \A r \in Requests :
        /\ pc[r] \in Active \/ late[r] # "none" => input[r].order \in Orders
        /\ pc[r] \in Active => input[r].op = OpOf(pc[r])
        /\ late[r] # "none" => input[r].op = OpOf(late[r])
        /\ (pc[r] \in Active \/ late[r] # "none") /\ input[r].op = "Pay"
              => input[r].method \in PaymentMethods

\* Only a handler that is gone, or that will send nothing more, has left a
\* statement behind.
LateInv ==
    \A r \in Requests :
        late[r] # "none" =>
            \/ pc[r] \in {"done", "lost"}
            \/ ctxDone[r] /\ pc[r] = late[r]

\* A call asks for what its request asks for, and an answer OK has its row.
CallInv ==
    \A r \in Requests :
        calls[r].state # "none" =>
            /\ pc[r] # "idle"
            /\ calls[r].order = input[r].order
            /\ calls[r].method = input[r].method
            /\ calls[r].order \in Orders
            /\ orders[calls[r].order].status # "ABSENT"
            /\ calls[r].state = "OK" =>
                  [transaction_uuid |-> calls[r].transaction,
                   order_uuid       |-> calls[r].order,
                   payment_method   |-> calls[r].method] \in payments

\* FinishPayment stores a transaction that is recorded for its order and its
\* method; ResetPayment follows an error.
ResultInv ==
    \A r \in Requests :
        /\ pc[r] = "FinishPayment" \/ late[r] = "FinishPayment" =>
              [transaction_uuid |-> payResult[r],
               order_uuid       |-> input[r].order,
               payment_method   |-> input[r].method] \in payments
        /\ pc[r] = "ResetPayment" \/ late[r] = "ResetPayment" => payResult[r] \in PayErrors

Invariant ==
    /\ TypeOK
    /\ InputInv
    /\ LateInv
    /\ CallInv
    /\ ResultInv
    /\ ProcessingIsOwned
    /\ PaidIsRecorded

-----------------------------------------------------------------------------
(* The statements and the answers.                                         *)

\* When a statement affects a row, and what it makes of it.
LEMMA StatementFacts ==
    ASSUME NEW row \in OrderRow,
           NEW t \in Transactions \cup {Null},
           NEW m \in PaymentMethods \cup {Null}
    PROVE  /\ Affects("Create", row) <=> row.status = "ABSENT"
           /\ Affects("StartPayment", row) <=> row.status = "PENDING_PAYMENT"
           /\ Affects("FinishPayment", row) <=> row.status = "PAYMENT_PROCESSING"
           /\ Affects("ResetPayment", row) <=> row.status = "PAYMENT_PROCESSING"
           /\ Affects("Cancel", row) <=> row.status = "PENDING_PAYMENT"
  BY DEF Affects, StatementOf, Kinds, Statement, CreateStatement,
         StartPaymentStatement, FinishPaymentStatement, ResetPaymentStatement,
         CancelStatement

\* What each statement makes of a row.
LEMMA UpdateFacts ==
    ASSUME NEW row \in OrderRow, NEW t, NEW m
    PROVE  /\ Updated("Create", row, t, m) = [row EXCEPT !.status = "PENDING_PAYMENT"]
           /\ Updated("StartPayment", row, t, m) =
                 [row EXCEPT !.status = "PAYMENT_PROCESSING"]
           /\ Updated("FinishPayment", row, t, m) =
                 [status |-> "PAID", transaction_uuid |-> t, payment_method |-> m]
           /\ Updated("ResetPayment", row, t, m) =
                 [row EXCEPT !.status = "PENDING_PAYMENT"]
           /\ Updated("Cancel", row, t, m) = [row EXCEPT !.status = "CANCELLED"]
  BY DEF Updated, StatementOf, Kinds, Statement, CreateStatement,
         StartPaymentStatement, FinishPaymentStatement, ResetPaymentStatement,
         CancelStatement

\* Every answer to errors is a response.
LEMMA ErrorResponsesAreTyped ==
    ASSUME NEW errs \in SUBSET Errors
    PROVE  /\ createErrorResponse(errs) \in Response
           /\ getErrorResponse(errs) \in Response
           /\ payErrorResponse(errs) \in Response
           /\ cancelErrorResponse(errs) \in Response
<1>1. NoBody \in OrderRow
  BY DEF NoBody, OrderRow, Statuses
<1>2. InternalError \in Response
  BY <1>1 DEF InternalError, Refusal, Response
<1>3. \A code \in {400, 404, 409} : Refusal(code, errs) \in Response
  BY <1>1 DEF Refusal, Response
<1>. QED
  BY <1>2, <1>3 DEF createErrorResponse, getErrorResponse, payErrorResponse,
                    cancelErrorResponse

\* An answer with a row in it is a response.
LEMMA BodiesAreTyped ==
    ASSUME NEW body \in OrderRow
    PROVE  OK(body) \in Response /\ OK(OrderToDTO(body)) \in Response
<1>1. OrderToDTO(body) \in OrderRow
  BY DEF OrderToDTO, OrderStatusToDTO, OrderRow, Statuses
<1>. QED
  BY <1>1 DEF OK, Response

\* What the statement that request r issued, or left behind, makes of the table.
LEMMA ExecuteFacts ==
    ASSUME TypeOK, InputInv, ResultInv,
           NEW r \in Requests, NEW kind \in Kinds,
           pc[r] = kind \/ late[r] = kind,
           Execute(r, kind)
    PROVE  LET o   == input[r].order
               row == orders[o]
           IN  /\ o \in Orders
               /\ orders' \in [Orders -> OrderRow]
               /\ \A p \in Orders : p # o => orders'[p] = orders[p]
               /\ kind = "Create" =>
                     orders'[o] = [row EXCEPT !.status = "PENDING_PAYMENT"]
               /\ kind = "StartPayment" =>
                     orders'[o] = [row EXCEPT !.status = "PAYMENT_PROCESSING"]
               /\ kind = "FinishPayment" =>
                     orders'[o] = [status           |-> "PAID",
                                   transaction_uuid |-> payResult[r],
                                   payment_method   |-> input[r].method]
               /\ kind = "ResetPayment" =>
                     orders'[o] = [row EXCEPT !.status = "PENDING_PAYMENT"]
               /\ kind = "Cancel" =>
                     orders'[o] = [row EXCEPT !.status = "CANCELLED"]
<1>. DEFINE o   == input[r].order
            row == orders[o]
            new == Updated(kind, row, payResult[r], input[r].method)
<1>1. o \in Orders /\ row \in OrderRow
  BY DEF InputInv, Active, TypeOK, Kinds
<1>2. orders' = [orders EXCEPT ![o] = new]
  BY DEF Execute, TheOrder
<1>3. /\ kind = "Create" => new = [row EXCEPT !.status = "PENDING_PAYMENT"]
      /\ kind = "StartPayment" => new = [row EXCEPT !.status = "PAYMENT_PROCESSING"]
      /\ kind = "FinishPayment" => new = [status           |-> "PAID",
                                          transaction_uuid |-> payResult[r],
                                          payment_method   |-> input[r].method]
      /\ kind = "ResetPayment" => new = [row EXCEPT !.status = "PENDING_PAYMENT"]
      /\ kind = "Cancel" => new = [row EXCEPT !.status = "CANCELLED"]
  BY <1>1, UpdateFacts
<1>4. kind = "FinishPayment" =>
         payResult[r] \in Transactions /\ input[r].method \in PaymentMethods
  BY DEF ResultInv, TypeOK, PaymentTypeOK, Payment
<1>5. new \in OrderRow
  <2>. HIDE DEF new
  <2>. QED
    BY <1>1, <1>3, <1>4 DEF OrderRow, Statuses, Kinds
<1>. HIDE DEF new
<1>6. orders' \in [Orders -> OrderRow]
  BY <1>1, <1>2, <1>5 DEF TypeOK
<1>7. orders'[o] = new /\ \A p \in Orders : p # o => orders'[p] = orders[p]
  BY <1>1, <1>2 DEF TypeOK
<1>. QED
  BY <1>1, <1>3, <1>6, <1>7

-----------------------------------------------------------------------------
(* Types.                                                                  *)

\* The types hold when the service starts.
LEMMA InitTypes == Init => TypeOK
<1>. SUFFICES ASSUME Init PROVE TypeOK
  OBVIOUS
<1>. USE DEF Init, PaymentInit
<1>1. PaymentTypeOK
  BY DEF PaymentTypeOK, Payment, NoCall, Call, CallStates
<1>2. orders \in [Orders -> OrderRow]
  BY DEF PendingOrder, AbsentOrder, OrderRow, Statuses
<1>3. input \in [Requests -> Input]
  BY DEF NoInput, Input
<1>4. response \in [Requests -> Response]
  BY DEF NoResponse, NoBody, Response, OrderRow, Statuses
<1>. QED
  BY <1>1, <1>2, <1>3, <1>4 DEF TypeOK

\* A handler answers with a response.
LEMMA ReplyTypes ==
    ASSUME TypeOK, NEW r \in Requests, NEW answer \in Response, Reply(r, answer)
    PROVE  /\ pc' \in [Requests -> Active \cup {"idle", "done", "lost"}]
           /\ response' \in [Requests -> Response]
  BY DEF TypeOK, Reply, Goto

\* A handler goes on to one of its steps.
LEMMA GotoTypes ==
    ASSUME TypeOK, NEW r \in Requests, NEW label \in Active, Goto(r, label)
    PROVE  pc' \in [Requests -> Active \cup {"idle", "done", "lost"}]
  BY DEF TypeOK, Goto

\* A request that arrives keeps the types.
LEMMA ArriveTypes ==
    ASSUME TypeOK, NEW r \in Requests, Arrive(r)
    PROVE  TypeOK'
<1>1. ASSUME NEW op \in Operations, NEW o \in Orders \cup {Null},
             NEW method \in PaymentMethods \cup {BadMethod, Null},
             Accept(r, op, o, method)
      PROVE  /\ input' \in [Requests -> Input]
             /\ UNCHANGED <<payments, calls, orders, ctxDone, payResult, late>>
  BY <1>1 DEF Accept, TypeOK, Input
<1>2. ASSUME NEW o \in Orders, BeginCreate(r, o) PROVE TypeOK'
  BY <1>1, <1>2, GotoTypes
     DEF BeginCreate, TypeOK, PaymentTypeOK, Active, Kinds, Operations
<1>3. ASSUME NEW err \in {"ErrInvalidUUID", "ErrPartNotFound", "ErrOutOfStock", "internal"},
             RejectCreate(r, err)
      PROVE  TypeOK'
  <2>1. createErrorResponse({err}) \in Response
    BY ErrorResponsesAreTyped DEF Errors
  <2>. QED
    BY <1>1, <1>3, <2>1, ReplyTypes DEF RejectCreate, TypeOK, PaymentTypeOK, Operations
<1>4. ASSUME NEW o \in Orders, BeginGet(r, o) PROVE TypeOK'
  BY <1>1, <1>4, GotoTypes
     DEF BeginGet, TypeOK, PaymentTypeOK, Active, Reads, Operations
<1>5. ASSUME NEW o \in Orders, NEW method \in PaymentMethods \cup {BadMethod},
             BeginPay(r, o, method)
      PROVE  TypeOK'
  BY <1>1, <1>5, GotoTypes
     DEF BeginPay, TypeOK, PaymentTypeOK, Active, Kinds, Operations
<1>6. ASSUME NEW o \in Orders, NEW method \in PaymentMethods \cup {BadMethod},
             RejectPay(r, o, method)
      PROVE  TypeOK'
  <2>1. payErrorResponse({"ErrInvalidPaymentMethod"}) \in Response
    BY ErrorResponsesAreTyped DEF Errors
  <2>. QED
    BY <1>1, <1>6, <2>1, ReplyTypes DEF RejectPay, TypeOK, PaymentTypeOK, Operations
<1>7. ASSUME NEW o \in Orders, BeginCancel(r, o) PROVE TypeOK'
  BY <1>1, <1>7, GotoTypes
     DEF BeginCancel, TypeOK, PaymentTypeOK, Active, Kinds, Operations
<1>. QED
  BY <1>2, <1>3, <1>4, <1>5, <1>6, <1>7 DEF Arrive

\* What a handler answers after a read is a response.
LEMMA ReadTypes ==
    ASSUME TypeOK, ResultInv, InputInv, NEW r \in Requests, pc[r] \in Reads,
           pc[r] # "ResetPaymentExists"
    PROVE  ReadResponse(r, TheOrder(r)) \in Response
<1>1. TheOrder(r) \in OrderRow
  BY DEF InputInv, TypeOK, TheOrder, Active
<1>2. StatusError(TheOrder(r).status) \in Errors
  BY DEF StatusError, Errors
<1>. QED
  BY <1>1, <1>2, BodiesAreTyped, ErrorResponsesAreTyped DEF ReadResponse, Reads, Errors

\* A handler in its run keeps the types.
LEMMA HandleTypes ==
    ASSUME TypeOK, ResultInv, InputInv, CallInv, ProcessingIsOwned,
           NEW r \in Requests, Handle(r)
    PROVE  TypeOK'
<1>. USE DEF Issues
<1>1. CASE Create(r)
  <2>1. NoBody \in OrderRow
    BY DEF NoBody, OrderRow, Statuses
  <2>. QED
    BY <1>1, <2>1, ExecuteFacts, ReplyTypes, BodiesAreTyped
       DEF Create, TypeOK, PaymentTypeOK, Kinds
<1>2. CASE StartPayment(r)
  BY <1>2, ExecuteFacts, GotoTypes
     DEF StartPayment, TypeOK, PaymentTypeOK, Active, Kinds, Reads
<1>3. CASE FinishPayment(r)
  <2>1. payResult[r] \in Transactions
    BY <1>3 DEF FinishPayment, ResultInv, TypeOK, PaymentTypeOK, Payment
  <2>2. [NoBody EXCEPT !.transaction_uuid = payResult[r]] \in OrderRow
    BY <2>1 DEF NoBody, OrderRow, Statuses
  <2>. QED
    BY <1>3, <2>2, ExecuteFacts, GotoTypes, ReplyTypes, BodiesAreTyped
       DEF FinishPayment, TypeOK, PaymentTypeOK, Active, Kinds, Reads
<1>4. CASE ResetPayment(r)
  <2>1. payErrorResponse({payResult[r]}) \in Response
    BY <1>4, ErrorResponsesAreTyped DEF ResetPayment, ResultInv, PayErrors, Errors
  <2>. QED
    BY <1>4, <2>1, ExecuteFacts, GotoTypes, ReplyTypes
       DEF ResetPayment, TypeOK, PaymentTypeOK, Active, Kinds, Reads
<1>5. CASE Cancel(r)
  <2>1. NoBody \in OrderRow
    BY DEF NoBody, OrderRow, Statuses
  <2>. QED
    BY <1>5, <2>1, ExecuteFacts, GotoTypes, ReplyTypes, BodiesAreTyped
       DEF Cancel, TypeOK, PaymentTypeOK, Active, Kinds, Reads
<1>6. CASE Read(r)
  BY <1>6, ReadTypes, ReplyTypes DEF Read, TypeOK, PaymentTypeOK, ProcessingIsOwned
<1>7. CASE QueryFails(r)
  <2>. DEFINE errs == {"internal"} \cup ({payResult[r]} \cap PayErrors)
  <2>1. ErrorResponse(r, errs) \in Response
    <3>1. errs \in SUBSET Errors
      BY DEF PayErrors, Errors
    <3>2. input[r].op \in Operations
      BY <1>7 DEF QueryFails, InputInv, OpOf, Active, Operations
    <3>. HIDE DEF errs
    <3>. QED
      BY <3>1, <3>2, ErrorResponsesAreTyped DEF ErrorResponse, Operations
  <2>2. late' \in [Requests -> Kinds \cup {"none"}]
    BY <1>7 DEF QueryFails, TypeOK
  <2>. QED
    BY <1>7, <2>1, <2>2, ReplyTypes DEF QueryFails, TypeOK, PaymentTypeOK
<1>8. CASE SendPayOrder(r)
  <2>1. calls' \in [Requests -> Call]
    BY <1>8 DEF SendPayOrder, SendCall, TypeOK, PaymentTypeOK, Call, CallStates, Input
  <2>. QED
    BY <1>8, <2>1, GotoTypes
       DEF SendPayOrder, SendCall, TypeOK, PaymentTypeOK, Active
<1>9. ASSUME NEW result \in Transactions \cup PayErrors,
             NEW label \in {"FinishPayment", "ResetPayment"},
             Receive(r, result, label)
      PROVE  TypeOK'
  BY <1>9, GotoTypes DEF Receive, TypeOK, PaymentTypeOK, Active, Kinds
<1>10. CASE ReceiveTransaction(r)
  <2>1. calls[r].transaction \in Transactions
    BY <1>10 DEF ReceiveTransaction, CallInv, TypeOK, PaymentTypeOK, Payment
  <2>. QED
    BY <1>9, <1>10, <2>1 DEF ReceiveTransaction
<1>11. CASE ReceiveError(r)
  BY <1>9, <1>11 DEF ReceiveError, PayErrors
<1>12. CASE LoseCall(r)
  BY <1>9, <1>12 DEF LoseCall, PayErrors
<1>. QED
  BY <1>1, <1>2, <1>3, <1>4, <1>5, <1>6, <1>7, <1>8, <1>10, <1>11, <1>12 DEF Handle

\* A late statement, a client that goes and a crash keep the types.
LEMMA EnvironmentTypes ==
    ASSUME TypeOK, ResultInv, InputInv
    PROVE  /\ \A r \in Requests : ExecuteLate(r) => TypeOK'
           /\ \A r \in Requests : Disconnect(r) => TypeOK'
           /\ Crash => TypeOK'
<1>1. ASSUME NEW r \in Requests, ExecuteLate(r) PROVE TypeOK'
  <2>1. late[r] \in Kinds
    BY <1>1 DEF ExecuteLate, TypeOK
  <2>2. orders' \in [Orders -> OrderRow]
    BY <1>1, <2>1, ExecuteFacts DEF ExecuteLate, TypeOK
  <2>. QED
    BY <1>1, <2>2 DEF ExecuteLate, TypeOK, PaymentTypeOK
<1>2. ASSUME NEW r \in Requests, Disconnect(r) PROVE TypeOK'
  BY <1>2 DEF Disconnect, TypeOK, PaymentTypeOK
<1>3. ASSUME Crash PROVE TypeOK'
  BY <1>3 DEF Crash, TypeOK, PaymentTypeOK
<1>. QED
  BY <1>1, <1>2, <1>3

\* Every step keeps the types.
LEMMA NextTypes == Invariant /\ [Next]_vars => TypeOK'
<1>. SUFFICES ASSUME Invariant, [Next]_vars PROVE TypeOK'
  OBVIOUS
<1>. USE DEF Invariant
<1>1. CASE UNCHANGED vars
  BY <1>1 DEF vars, TypeOK, PaymentTypeOK
<1>2. ASSUME NEW r \in Requests, Serve(r) PROVE TypeOK'
  BY <1>2, ServeTypes DEF Serve, TypeOK
<1>. QED
  BY <1>1, <1>2, ArriveTypes, HandleTypes, EnvironmentTypes DEF Next

-----------------------------------------------------------------------------
(* The local state of a request.                                           *)

\* A handler moves alone: it answers, or goes on to another step of the same
\* operation; only the failure of a query, which it answers, leaves a statement.
LEMMA HandleFacts ==
    ASSUME TypeOK, ProcessingIsOwned, NEW r \in Requests, Handle(r)
    PROVE  /\ UNCHANGED <<input, ctxDone>>
           /\ pc[r] \in Active
           /\ \A q \in Requests : q # r =>
                 /\ pc'[q] = pc[q]
                 /\ payResult'[q] = payResult[q]
                 /\ late'[q] = late[q]
           /\ \/ pc'[r] = "done"
              \/ pc'[r] \in Active /\ OpOf(pc'[r]) = OpOf(pc[r]) /\ UNCHANGED late
           /\ ctxDone[r] /\ pc[r] \in Kinds => pc'[r] = "done"
           /\ late'[r] = late[r] \/ late'[r] \in {"none"} \cup (Kinds \cap {pc[r]})
<1>. USE DEF TypeOK, Issues, Goto, Reply, Active, Kinds, Reads, OpOf
<1>1. CASE Create(r)
  BY <1>1 DEF Create
<1>2. CASE StartPayment(r)
  BY <1>2 DEF StartPayment
<1>3. CASE FinishPayment(r)
  BY <1>3 DEF FinishPayment
<1>4. CASE ResetPayment(r)
  BY <1>4 DEF ResetPayment
<1>5. CASE Cancel(r)
  BY <1>5 DEF Cancel
<1>6. CASE Read(r)
  BY <1>6 DEF Read
<1>7. CASE QueryFails(r)
  BY <1>7 DEF QueryFails
<1>8. CASE SendPayOrder(r)
  BY <1>8 DEF SendPayOrder
<1>9. CASE ReceiveTransaction(r)
  BY <1>9 DEF ReceiveTransaction, Receive
<1>10. CASE ReceiveError(r)
  BY <1>10 DEF ReceiveError, Receive
<1>11. CASE LoseCall(r)
  BY <1>11 DEF LoseCall, Receive
<1>. QED
  BY <1>1, <1>2, <1>3, <1>4, <1>5, <1>6, <1>7, <1>8, <1>9, <1>10, <1>11 DEF Handle

\* A request that arrives starts a handler for an operation on an order, or is
\* answered at once.
LEMMA ArriveFacts ==
    ASSUME TypeOK, NEW r \in Requests, Arrive(r)
    PROVE  /\ pc[r] = "idle"
           /\ UNCHANGED <<payments, calls, orders, ctxDone, payResult, late>>
           /\ \A q \in Requests : q # r => pc'[q] = pc[q] /\ input'[q] = input[q]
           /\ \/ pc'[r] = "done"
              \/ /\ pc'[r] \in {"Create", "Get", "StartPayment", "Cancel"}
                 /\ input'[r].order \in Orders
                 /\ input'[r].op = OpOf(pc'[r])
                 /\ input'[r].op = "Pay" => input'[r].method \in PaymentMethods
<1>. USE DEF Accept, TypeOK, Goto, Reply, OpOf
<1>1. ASSUME NEW o \in Orders, BeginCreate(r, o)
      PROVE  /\ pc[r] = "idle" /\ pc' = [pc EXCEPT ![r] = "Create"]
             /\ input' = [input EXCEPT ![r] =
                            [op |-> "Create", order |-> o, method |-> Null]]
             /\ UNCHANGED <<payments, calls, orders, ctxDone, payResult, late>>
  BY <1>1 DEF BeginCreate
<1>2. ASSUME NEW err, RejectCreate(r, err)
      PROVE  /\ pc[r] = "idle" /\ pc' = [pc EXCEPT ![r] = "done"]
             /\ \A q \in Requests : q # r => input'[q] = input[q]
             /\ UNCHANGED <<payments, calls, orders, ctxDone, payResult, late>>
  BY <1>2 DEF RejectCreate
<1>3. ASSUME NEW o \in Orders, BeginGet(r, o)
      PROVE  /\ pc[r] = "idle" /\ pc' = [pc EXCEPT ![r] = "Get"]
             /\ input' = [input EXCEPT ![r] =
                            [op |-> "Get", order |-> o, method |-> Null]]
             /\ UNCHANGED <<payments, calls, orders, ctxDone, payResult, late>>
  BY <1>3 DEF BeginGet
<1>4. ASSUME NEW o \in Orders, NEW method, BeginPay(r, o, method)
      PROVE  /\ pc[r] = "idle" /\ pc' = [pc EXCEPT ![r] = "StartPayment"]
             /\ method \in PaymentMethods
             /\ input' = [input EXCEPT ![r] =
                            [op |-> "Pay", order |-> o, method |-> method]]
             /\ UNCHANGED <<payments, calls, orders, ctxDone, payResult, late>>
  BY <1>4 DEF BeginPay, isValidPaymentMethod
<1>5. ASSUME NEW o \in Orders, NEW method, RejectPay(r, o, method)
      PROVE  /\ pc[r] = "idle" /\ pc' = [pc EXCEPT ![r] = "done"]
             /\ \A q \in Requests : q # r => input'[q] = input[q]
             /\ UNCHANGED <<payments, calls, orders, ctxDone, payResult, late>>
  BY <1>5 DEF RejectPay
<1>6. ASSUME NEW o \in Orders, BeginCancel(r, o)
      PROVE  /\ pc[r] = "idle" /\ pc' = [pc EXCEPT ![r] = "Cancel"]
             /\ input' = [input EXCEPT ![r] =
                            [op |-> "Cancel", order |-> o, method |-> Null]]
             /\ UNCHANGED <<payments, calls, orders, ctxDone, payResult, late>>
  BY <1>6 DEF BeginCancel
<1>. QED
  BY <1>1, <1>2, <1>3, <1>4, <1>5, <1>6 DEF Arrive

\* Every step keeps InputInv: a handler never changes its operation or order.
LEMMA NextInput == Invariant /\ [Next]_vars => InputInv'
<1>. SUFFICES ASSUME Invariant, [Next]_vars PROVE InputInv'
  OBVIOUS
<1>. USE DEF Invariant, InputInv
<1>1. CASE UNCHANGED vars
  BY <1>1 DEF vars
<1>2. ASSUME NEW r \in Requests, Arrive(r) PROVE InputInv'
  <2>1. /\ pc[r] = "idle"
        /\ UNCHANGED late
        /\ \A q \in Requests : q # r => pc'[q] = pc[q] /\ input'[q] = input[q]
        /\ \/ pc'[r] = "done"
           \/ /\ input'[r].order \in Orders
              /\ input'[r].op = OpOf(pc'[r])
              /\ input'[r].op = "Pay" => input'[r].method \in PaymentMethods
    BY <1>2, ArriveFacts
  <2>2. late[r] = "none"
    BY <2>1 DEF LateInv, TypeOK, Kinds
  <2>3. "done" \notin Active
    BY DEF Active, Kinds, Reads
  <2>. QED
    BY <2>1, <2>2, <2>3
<1>3. ASSUME NEW r \in Requests, Handle(r) PROVE InputInv'
  <2>1. UNCHANGED input
    BY <1>3, HandleFacts
  <2>2. ASSUME NEW q \in Requests
        PROVE  pc'[q] \in Active =>
                  pc[q] \in Active /\ OpOf(pc'[q]) = OpOf(pc[q])
    BY <1>3, HandleFacts DEF Active, Kinds, Reads
  <2>3. ASSUME NEW q \in Requests
        PROVE  late'[q] # "none" =>
                  late'[q] = late[q] \/ (pc[q] \in Active /\ late'[q] = pc[q])
    BY <1>3, HandleFacts
  <2>4. ASSUME NEW q \in Requests
        PROVE  pc'[q] \in Active \/ late'[q] # "none" => pc[q] \in Active \/ late[q] # "none"
    BY <2>2, <2>3
  <2>5. ASSUME NEW q \in Requests
        PROVE  late'[q] # "none" => input[q].op = OpOf(late'[q])
    BY <2>3
  <2>. QED
    BY <2>1, <2>2, <2>4, <2>5
<1>4. ASSUME NEW r \in Requests, Serve(r) PROVE InputInv'
  BY <1>4 DEF Serve
<1>5. ASSUME NEW r \in Requests, ExecuteLate(r) PROVE InputInv'
  BY <1>5 DEF ExecuteLate, TypeOK
<1>6. ASSUME NEW r \in Requests, Disconnect(r) PROVE InputInv'
  BY <1>6 DEF Disconnect, TypeOK
<1>7. CASE Crash
  BY <1>7 DEF Crash, TypeOK, Active, Kinds, Reads
<1>. QED
  BY <1>1, <1>2, <1>3, <1>4, <1>5, <1>6, <1>7 DEF Next

\* Every step keeps LateInv: who has left a statement behind sends no other.
LEMMA NextLate == Invariant /\ [Next]_vars => LateInv'
<1>. SUFFICES ASSUME Invariant, [Next]_vars PROVE LateInv'
  OBVIOUS
<1>. USE DEF Invariant, LateInv
<1>1. CASE UNCHANGED vars
  BY <1>1 DEF vars
<1>2. ASSUME NEW r \in Requests, Arrive(r) PROVE LateInv'
  BY <1>2, ArriveFacts DEF TypeOK, Kinds
<1>3. ASSUME NEW r \in Requests, Handle(r) PROVE LateInv'
  <2>1. /\ UNCHANGED ctxDone
        /\ \A q \in Requests : q # r => pc'[q] = pc[q] /\ late'[q] = late[q]
        /\ \/ pc'[r] = "done"
           \/ UNCHANGED late /\ ~ (ctxDone[r] /\ pc[r] \in Kinds)
        /\ pc[r] \in Active
    BY <1>3, HandleFacts DEF Active, Kinds, Reads
  <2>2. UNCHANGED late /\ late[r] # "none" => ctxDone[r] /\ pc[r] \in Kinds
    BY <2>1 DEF TypeOK, Active, Kinds, Reads
  <2>. QED
    BY <2>1, <2>2
<1>4. ASSUME NEW r \in Requests, Serve(r) PROVE LateInv'
  BY <1>4 DEF Serve
<1>5. ASSUME NEW r \in Requests, ExecuteLate(r) PROVE LateInv'
  BY <1>5 DEF ExecuteLate, TypeOK
<1>6. ASSUME NEW r \in Requests, Disconnect(r) PROVE LateInv'
  BY <1>6 DEF Disconnect, TypeOK
<1>7. CASE Crash
  BY <1>7 DEF Crash, TypeOK, Active
<1>. QED
  BY <1>1, <1>2, <1>3, <1>4, <1>5, <1>6, <1>7 DEF Next

-----------------------------------------------------------------------------
(* The tables.                                                             *)

\* r settles the order o with the payment that it was answered.
Settles(r, o) ==
    /\ input[r].order = o
    /\ pc[r] = "FinishPayment" \/ late[r] = "FinishPayment"
    /\ orders'[o] = [status           |-> "PAID",
                     transaction_uuid |-> payResult[r],
                     payment_method   |-> input[r].method]

\* The life of a row of the table orders, one step of the service at a time.
RowStep(o) ==
    \/ orders'[o] = orders[o]
    \/ /\ orders[o].status = "ABSENT"
       /\ orders'[o] = [orders[o] EXCEPT !.status = "PENDING_PAYMENT"]
    \/ /\ orders[o].status = "PENDING_PAYMENT"
       /\ orders'[o] = [orders[o] EXCEPT !.status = "PAYMENT_PROCESSING"]
    \/ /\ orders[o].status = "PAYMENT_PROCESSING"
       /\ orders'[o] = [orders[o] EXCEPT !.status = "PENDING_PAYMENT"]
    \/ /\ orders[o].status = "PENDING_PAYMENT"
       /\ orders'[o] = [orders[o] EXCEPT !.status = "CANCELLED"]
    \/ /\ orders[o].status = "PAYMENT_PROCESSING"
       /\ \E r \in Requests : Settles(r, o)

\* One request changes one row, by its statement.
LEMMA StatementStep ==
    ASSUME TypeOK, InputInv, ResultInv,
           NEW r \in Requests, NEW kind \in Kinds,
           pc[r] = kind \/ late[r] = kind,
           Affects(kind, TheOrder(r)), Execute(r, kind)
    PROVE  /\ \A o \in Orders : RowStep(o)
           /\ \A o \in Orders : o # input[r].order => orders'[o] = orders[o]
<1>1. input[r].order \in Orders /\ TheOrder(r) \in OrderRow
  BY DEF InputInv, TypeOK, TheOrder, Active, Kinds
<1>2. \A o \in Orders : o # input[r].order => orders'[o] = orders[o]
  BY ExecuteFacts
<1>3. RowStep(input[r].order)
  <2>1. CASE kind = "Create"
    BY <1>1, <2>1, ExecuteFacts, StatementFacts DEF RowStep, TheOrder
  <2>2. CASE kind = "StartPayment"
    BY <1>1, <2>2, ExecuteFacts, StatementFacts DEF RowStep, TheOrder
  <2>3. CASE kind = "FinishPayment"
    BY <1>1, <2>3, ExecuteFacts, StatementFacts DEF RowStep, TheOrder, Settles
  <2>4. CASE kind = "ResetPayment"
    BY <1>1, <2>4, ExecuteFacts, StatementFacts DEF RowStep, TheOrder
  <2>5. CASE kind = "Cancel"
    BY <1>1, <2>5, ExecuteFacts, StatementFacts DEF RowStep, TheOrder
  <2>. QED
    BY <2>1, <2>2, <2>3, <2>4, <2>5 DEF Kinds
<1>. QED
  BY <1>2, <1>3 DEF RowStep

\* A step that changes the table orders is one statement of one request, and
\* leaves the payments alone.
LEMMA HandleTables ==
    ASSUME TypeOK, InputInv, ResultInv, NEW r \in Requests, Handle(r)
    PROVE  /\ UNCHANGED payments
           /\ \/ UNCHANGED orders
              \/ /\ UNCHANGED late
                 /\ \E kind \in Kinds :
                       /\ Issues(r, kind)
                       /\ Affects(kind, TheOrder(r))
                       /\ Execute(r, kind)
                       /\ kind # "StartPayment" => pc'[r] = "done"
<1>. USE DEF Kinds, Reply, Goto, TypeOK
<1>1. CASE Create(r)
  BY <1>1 DEF Create
<1>2. CASE StartPayment(r)
  BY <1>2 DEF StartPayment
<1>3. CASE FinishPayment(r)
  BY <1>3 DEF FinishPayment
<1>4. CASE ResetPayment(r)
  BY <1>4 DEF ResetPayment
<1>5. CASE Cancel(r)
  BY <1>5 DEF Cancel
<1>6. CASE Read(r) \/ QueryFails(r)
  BY <1>6 DEF Read, QueryFails
<1>7. CASE SendPayOrder(r)
  BY <1>7 DEF SendPayOrder, SendCall
<1>8. CASE ReceiveTransaction(r) \/ ReceiveError(r) \/ LoseCall(r)
  BY <1>8 DEF ReceiveTransaction, ReceiveError, LoseCall, Receive
<1>. QED
  BY <1>1, <1>2, <1>3, <1>4, <1>5, <1>6, <1>7, <1>8 DEF Handle

\* Every row goes through its life step by step, and payments are never deleted.
LEMMA NextTables ==
    ASSUME Invariant, [Next]_vars
    PROVE  /\ \A o \in Orders : RowStep(o)
           /\ payments \subseteq payments'
<1>. USE DEF Invariant
<1>1. CASE UNCHANGED <<orders, payments>>
  BY <1>1 DEF RowStep
<1>2. CASE UNCHANGED vars
  BY <1>1, <1>2 DEF vars
<1>3. ASSUME NEW r \in Requests, Handle(r)
      PROVE  (\A o \in Orders : RowStep(o)) /\ payments \subseteq payments'
  BY <1>1, <1>3, HandleTables, StatementStep DEF Issues
<1>4. ASSUME NEW r \in Requests, Serve(r)
      PROVE  (\A o \in Orders : RowStep(o)) /\ payments \subseteq payments'
  BY <1>4 DEF Serve, ServeCall, RejectCall, PayOrder, CommitUnknown, InsertFails, RowStep
<1>5. ASSUME NEW r \in Requests, ExecuteLate(r)
      PROVE  (\A o \in Orders : RowStep(o)) /\ payments \subseteq payments'
  BY <1>1, <1>5, StatementStep DEF ExecuteLate, TypeOK
<1>6. CASE Crash
  BY <1>1, <1>6 DEF Crash
<1>7. ASSUME NEW r \in Requests, Arrive(r) \/ Disconnect(r)
      PROVE  (\A o \in Orders : RowStep(o)) /\ payments \subseteq payments'
  BY <1>1, <1>7, ArriveFacts DEF Disconnect
<1>. QED
  BY <1>2, <1>3, <1>4, <1>5, <1>6, <1>7 DEF Next

\* A row is changed by a statement of a request for this order.
LEMMA RowChange ==
    ASSUME Invariant, [Next]_vars, NEW o \in Orders, orders'[o] # orders[o]
    PROVE  \E r \in Requests, kind \in Kinds :
              /\ Issues(r, kind) \/ late[r] = kind
              /\ input[r].order = o
              /\ Affects(kind, orders[o])
              /\ Execute(r, kind)
<1>1. ASSUME NEW r \in Requests, NEW kind \in Kinds,
             Issues(r, kind) \/ late[r] = kind,
             Affects(kind, TheOrder(r)), Execute(r, kind)
      PROVE  input[r].order = o /\ Affects(kind, orders[o])
  BY <1>1, ExecuteFacts DEF Issues, Invariant, TheOrder
<1>2. ASSUME NEW r \in Requests, Handle(r)
      PROVE  \E kind \in Kinds :
                Issues(r, kind) /\ Affects(kind, TheOrder(r)) /\ Execute(r, kind)
  BY <1>2, HandleTables DEF Invariant
<1>3. ASSUME NEW r \in Requests, ExecuteLate(r)
      PROVE  /\ late[r] \in Kinds
             /\ Affects(late[r], TheOrder(r)) /\ Execute(r, late[r])
  BY <1>3 DEF ExecuteLate, Invariant, TypeOK
<1>4. ASSUME NEW r \in Requests, Arrive(r) \/ Serve(r) \/ Disconnect(r)
      PROVE  FALSE
  BY <1>4, ArriveFacts DEF Serve, Disconnect, Invariant
<1>5. ~ Crash /\ ~ UNCHANGED vars
  BY DEF Crash, vars
<1>. QED
  BY <1>1, <1>2, <1>3, <1>4, <1>5 DEF Next

\* Every step keeps PaidIsRecorded: only FinishPayment makes an order PAID, and
\* it stores the transaction that was answered.
LEMMA NextPaid == Invariant /\ [Next]_vars => PaidIsRecorded'
<1>. SUFFICES ASSUME Invariant, [Next]_vars, NEW o \in Orders
              PROVE  IF orders'[o].status = "PAID"
                     THEN [transaction_uuid |-> orders'[o].transaction_uuid,
                           order_uuid       |-> o,
                           payment_method   |-> orders'[o].payment_method] \in payments'
                     ELSE /\ orders'[o].transaction_uuid = Null
                          /\ orders'[o].payment_method = Null
  BY DEF PaidIsRecorded
<1>1. orders[o] \in OrderRow
  BY DEF Invariant, TypeOK
<1>2. RowStep(o) /\ payments \subseteq payments'
  BY NextTables
<1>3. ASSUME NEW r \in Requests, Settles(r, o)
      PROVE  [transaction_uuid |-> orders'[o].transaction_uuid,
              order_uuid       |-> o,
              payment_method   |-> orders'[o].payment_method] \in payments
  BY <1>3 DEF Invariant, ResultInv, Settles
<1>4. CASE \E r \in Requests : Settles(r, o)
  BY <1>2, <1>3, <1>4 DEF Settles
<1>5. CASE orders'[o] = orders[o]
  BY <1>2, <1>5 DEF Invariant, PaidIsRecorded
<1>6. ASSUME NEW status \in Statuses \ {"PAID"}, orders[o].status # "PAID",
             orders'[o] = [orders[o] EXCEPT !.status = status]
      PROVE  /\ orders'[o].status # "PAID"
             /\ orders'[o].transaction_uuid = Null
             /\ orders'[o].payment_method = Null
  BY <1>1, <1>6 DEF Invariant, PaidIsRecorded, OrderRow
<1>. QED
  BY <1>2, <1>4, <1>5, <1>6 DEF RowStep, Statuses

-----------------------------------------------------------------------------
(* The calls.                                                              *)

\* Once it has a row, an order keeps it.
LEMMA RowsRemain ==
    ASSUME Invariant, [Next]_vars, NEW o \in Orders, orders[o].status # "ABSENT"
    PROVE  orders'[o].status # "ABSENT"
<1>1. RowStep(o) /\ orders[o] \in OrderRow
  BY NextTables DEF Invariant, TypeOK
<1>2. ASSUME NEW status \in Statuses \ {"ABSENT"},
             orders'[o] = [orders[o] EXCEPT !.status = status]
      PROVE  orders'[o].status # "ABSENT"
  BY <1>1, <1>2 DEF OrderRow
<1>3. ASSUME NEW r \in Requests, Settles(r, o) PROVE orders'[o].status # "ABSENT"
  BY <1>3 DEF Settles
<1>. QED
  BY <1>1, <1>2, <1>3 DEF RowStep, Statuses

\* What the server does answers one call that was sent, OK only with its row.
LEMMA AnswerFacts ==
    ASSUME TypeOK, NEW c \in Requests, ServeCall(c)
    PROVE  /\ calls[c].state = "sent"
           /\ \A d \in Requests : d # c => calls'[d] = calls[d]
           /\ calls'[c].state \in {"OK", "InvalidArgument", "Internal"}
           /\ calls'[c].order = calls[c].order
           /\ calls'[c].method = calls[c].method
           /\ calls'[c].state = "OK" =>
                 [transaction_uuid |-> calls'[c].transaction,
                  order_uuid       |-> calls'[c].order,
                  payment_method   |-> calls'[c].method] \in payments'
  BY ServeFacts DEF TypeOK, PaymentOf

\* A handler sends one call, for its own order and method, when the order is in
\* PAYMENT_PROCESSING.
LEMMA HandleCalls ==
    ASSUME Invariant, NEW r \in Requests, Handle(r)
    PROVE  \/ UNCHANGED calls
           \/ /\ \A d \in Requests : d # r => calls'[d] = calls[d]
              /\ calls'[r].state = "sent"
              /\ calls'[r].order = input[r].order
              /\ calls'[r].method = input[r].method
              /\ input[r].order \in Orders
              /\ orders[input[r].order].status = "PAYMENT_PROCESSING"
<1>1. CASE SendPayOrder(r)
  <2>1. input[r].order \in Orders
    BY <1>1 DEF SendPayOrder, Invariant, InputInv, Active
  <2>2. orders[input[r].order].status = "PAYMENT_PROCESSING"
    BY <1>1 DEF SendPayOrder, Invariant, ProcessingIsOwned, Owns, TheOrder
  <2>. QED
    BY <1>1, <2>1, <2>2
       DEF SendPayOrder, SendCall, Invariant, TypeOK, PaymentTypeOK
<1>2. CASE ~ SendPayOrder(r)
  BY <1>2 DEF Handle, Create, StartPayment, FinishPayment, ResetPayment, Cancel,
              Read, QueryFails, ReceiveTransaction, ReceiveError, LoseCall, Receive
<1>. QED
  BY <1>1, <1>2

\* Every step keeps CallInv: a call is answered OK with its own row.
LEMMA NextCall == Invariant /\ [Next]_vars => CallInv'
<1>. SUFFICES ASSUME Invariant, [Next]_vars,
                     NEW q \in Requests, calls'[q].state # "none"
              PROVE  /\ pc'[q] # "idle"
                     /\ calls'[q].order = input'[q].order
                     /\ calls'[q].method = input'[q].method
                     /\ calls'[q].order \in Orders
                     /\ orders'[calls'[q].order].status # "ABSENT"
                     /\ calls'[q].state = "OK" =>
                           [transaction_uuid |-> calls'[q].transaction,
                            order_uuid       |-> calls'[q].order,
                            payment_method   |-> calls'[q].method] \in payments'
  BY DEF CallInv
<1>. DEFINE Asked == /\ calls'[q].order = input'[q].order
                     /\ calls'[q].method = input'[q].method
                     /\ calls'[q].order \in Orders
                     /\ orders[calls'[q].order].status # "ABSENT"
            Recorded == calls'[q].state = "OK" =>
                           [transaction_uuid |-> calls'[q].transaction,
                            order_uuid       |-> calls'[q].order,
                            payment_method   |-> calls'[q].method] \in payments'
<1>1. ASSUME calls'[q] = calls[q], pc'[q] # "idle" \/ pc'[q] = pc[q],
             pc[q] = "idle" \/ input'[q] = input[q]
      PROVE  pc'[q] # "idle" /\ Asked /\ Recorded
  BY <1>1, NextTables DEF Invariant, CallInv
<1>2. ASSUME UNCHANGED vars PROVE pc'[q] # "idle" /\ Asked /\ Recorded
  BY <1>1, <1>2 DEF vars
<1>3. ASSUME NEW r \in Requests, Arrive(r) PROVE pc'[q] # "idle" /\ Asked /\ Recorded
  BY <1>1, <1>3, ArriveFacts DEF Invariant
<1>4. ASSUME NEW r \in Requests, Handle(r) PROVE pc'[q] # "idle" /\ Asked /\ Recorded
  <2>1. UNCHANGED input /\ (pc'[q] # "idle" \/ pc'[q] = pc[q])
    BY <1>4, HandleFacts DEF Invariant, Active, Kinds, Reads
  <2>. QED
    BY <1>1, <1>4, <2>1, HandleFacts, HandleCalls DEF Invariant, Active, Kinds, Reads
<1>5. ASSUME NEW r \in Requests, Serve(r) PROVE pc'[q] # "idle" /\ Asked /\ Recorded
  <2>1. UNCHANGED <<orders, pc, input>> /\ ServeCall(r)
    BY <1>5 DEF Serve
  <2>2. CASE q # r
    BY <1>1, <2>1, <2>2, AnswerFacts DEF Invariant
  <2>3. CASE q = r
    <3>1. /\ pc[q] # "idle"
          /\ calls[q].order = input[q].order
          /\ calls[q].method = input[q].method
          /\ calls[q].order \in Orders
          /\ orders[calls[q].order].status # "ABSENT"
      BY <2>1, <2>3, AnswerFacts DEF Invariant, CallInv
    <3>. QED
      BY <2>1, <2>3, <3>1, AnswerFacts DEF Invariant
  <2>. QED
    BY <2>2, <2>3
<1>6. ASSUME NEW r \in Requests, ExecuteLate(r) \/ Disconnect(r)
      PROVE  pc'[q] # "idle" /\ Asked /\ Recorded
  BY <1>1, <1>6 DEF ExecuteLate, Disconnect
<1>7. ASSUME Crash PROVE pc'[q] # "idle" /\ Asked /\ Recorded
  BY <1>1, <1>7 DEF Crash
<1>8. pc'[q] # "idle" /\ Asked /\ Recorded
  BY <1>2, <1>3, <1>4, <1>5, <1>6, <1>7 DEF Next
<1>. QED
  BY <1>8, RowsRemain

\* Every step keeps ResultInv: the result of a payment call does not change
\* between the answer and the statement that stores it.
LEMMA NextResult == Invariant /\ [Next]_vars => ResultInv'
<1>. SUFFICES ASSUME Invariant, [Next]_vars, NEW q \in Requests
              PROVE  /\ pc'[q] = "FinishPayment" \/ late'[q] = "FinishPayment" =>
                           [transaction_uuid |-> payResult'[q],
                            order_uuid       |-> input'[q].order,
                            payment_method   |-> input'[q].method] \in payments'
                     /\ pc'[q] = "ResetPayment" \/ late'[q] = "ResetPayment" =>
                           payResult'[q] \in PayErrors
  BY DEF ResultInv
<1>. DEFINE Stays == /\ pc'[q] \in {"FinishPayment", "ResetPayment"} => pc'[q] = pc[q]
                     /\ late'[q] # "none" => late'[q] \in {late[q], pc[q]}
                     /\ payResult'[q] = payResult[q]
                     /\ input'[q] = input[q]
<1>1. payments \subseteq payments'
  BY NextTables
<1>2. CASE Stays
  BY <1>1, <1>2 DEF Invariant, ResultInv
<1>3. CASE UNCHANGED vars
  BY <1>2, <1>3 DEF vars
<1>4. ASSUME NEW r \in Requests, Arrive(r) PROVE Stays \/ (late'[q] = "none" /\ pc'[q] \notin {"FinishPayment", "ResetPayment"})
  BY <1>4, ArriveFacts DEF Invariant, LateInv, TypeOK, Kinds
<1>5. ASSUME NEW r \in Requests, Handle(r), q # r PROVE Stays
  BY <1>5, HandleFacts DEF Invariant
<1>6. ASSUME Handle(q), ~ (ReceiveTransaction(q) \/ ReceiveError(q) \/ LoseCall(q))
      PROVE  Stays
  BY <1>6 DEF Handle, Create, StartPayment, FinishPayment, ResetPayment, Cancel, Read,
              QueryFails, SendPayOrder, Reply, Goto, Invariant, TypeOK, Kinds
<1>7. ASSUME pc[q] \in {"SendPayOrder", "PayOrder"} PROVE late[q] = "none"
  BY <1>7 DEF Invariant, LateInv, TypeOK, Kinds
<1>8. CASE ReceiveTransaction(q)
  <2>1. /\ pc'[q] = "FinishPayment"
        /\ late'[q] = "none"
        /\ payResult'[q] = calls[q].transaction
        /\ input'[q] = input[q]
    BY <1>7, <1>8 DEF ReceiveTransaction, Receive, Goto, Invariant, TypeOK
  <2>. QED
    BY <1>1, <1>8, <2>1 DEF ReceiveTransaction, Invariant, CallInv
<1>9. CASE ReceiveError(q) \/ LoseCall(q)
  BY <1>7, <1>9
     DEF ReceiveError, LoseCall, Receive, Goto, PayErrors, Invariant, TypeOK
<1>10. ASSUME NEW r \in Requests, Serve(r) PROVE Stays
  BY <1>10 DEF Serve
<1>11. ASSUME NEW r \in Requests, ExecuteLate(r) \/ Disconnect(r) PROVE Stays
  BY <1>11 DEF ExecuteLate, Disconnect, Invariant, TypeOK
<1>12. ASSUME Crash PROVE Stays
  BY <1>12 DEF Crash, Invariant, TypeOK
<1>. QED
  BY <1>2, <1>3, <1>4, <1>5, <1>6, <1>8, <1>9, <1>10, <1>11, <1>12 DEF Next

-----------------------------------------------------------------------------
(* Ownership.                                                              *)

\* No statement but its owner's changes an order that is owned.
LEMMA OwnedIsUntouched ==
    ASSUME Invariant, NEW r \in Requests, NEW kind \in Kinds,
           Issues(r, kind) \/ late[r] = kind,
           Affects(kind, TheOrder(r)), Execute(r, kind),
           NEW q \in Requests, Owns(q), input[q].order \in Orders,
           q # r \/ kind \notin {"FinishPayment", "ResetPayment"}
    PROVE  orders'[input[q].order].status = "PAYMENT_PROCESSING"
<1>1. orders[input[q].order].status = "PAYMENT_PROCESSING"
  BY DEF Invariant, ProcessingIsOwned, TheOrder
<1>2. CASE input[q].order # input[r].order
  BY <1>1, <1>2, ExecuteFacts DEF Invariant, Issues
<1>3. CASE input[q].order = input[r].order
  <2>1. kind \in {"FinishPayment", "ResetPayment"}
    BY <1>1, <1>3, StatementFacts DEF TheOrder, Kinds, Invariant, TypeOK
  <2>2. Owns(r)
    BY <2>1 DEF Owns, Issues
  <2>. QED
    BY <1>3, <2>1, <2>2 DEF Invariant, ProcessingIsOwned
<1>. QED
  BY <1>2, <1>3

\* StartPayment lets q through.
Starts(q) ==
    StartPayment(q) /\ Affects("StartPayment", TheOrder(q))

\* Nobody becomes the owner of an order but by StartPayment.
LEMMA OwnsStep ==
    ASSUME Invariant, [Next]_vars, NEW q \in Requests, Owns(q)'
    PROVE  input'[q] = input[q] /\ (Owns(q) \/ Starts(q))
<1>. USE DEF Owns
<1>. DEFINE Stays == /\ input'[q] = input[q]
                     /\ ctxDone'[q] = ctxDone[q]
                     /\ pc'[q] \in {pc[q], "done", "lost"}
                     /\ \/ late'[q] \in {late[q], "none"}
                        \/ ~ ctxDone[q] /\ late'[q] = pc[q]
<1>1. CASE Stays
  BY <1>1
<1>2. CASE UNCHANGED vars
  BY <1>1, <1>2 DEF vars
<1>3. ASSUME NEW r \in Requests, Arrive(r) PROVE Stays
  BY <1>3, ArriveFacts DEF Invariant, LateInv, TypeOK, Kinds
<1>4. ASSUME NEW r \in Requests, Handle(r), r # q PROVE Stays
  BY <1>4, HandleFacts DEF Invariant
<1>5. CASE Handle(q)
  <2>1. CASE StartPayment(q)
    BY <2>1 DEF StartPayment, Starts, Goto, Invariant, TypeOK
  <2>2. CASE SendPayOrder(q) \/ ReceiveTransaction(q) \/ ReceiveError(q) \/ LoseCall(q)
    BY <2>2 DEF SendPayOrder, ReceiveTransaction, ReceiveError, LoseCall, Receive
  <2>3. CASE ~ SendPayOrder(q) /\ ~ ReceiveTransaction(q) /\ ~ ReceiveError(q)
             /\ ~ LoseCall(q) /\ ~ StartPayment(q)
    BY <1>5, <2>3
       DEF Handle, Create, FinishPayment, ResetPayment, Cancel, Read, QueryFails,
           Issues, Reply, Goto, Invariant, TypeOK
  <2>. QED
    BY <2>1, <2>2, <2>3
<1>6. ASSUME NEW r \in Requests, Serve(r) PROVE Stays
  BY <1>6 DEF Serve
<1>7. ASSUME NEW r \in Requests, ExecuteLate(r) PROVE Stays
  BY <1>7 DEF ExecuteLate, Invariant, TypeOK
<1>8. ASSUME NEW r \in Requests, Disconnect(r) PROVE input'[q] = input[q] /\ Owns(q)
  BY <1>8 DEF Disconnect, Invariant, TypeOK
<1>9. ASSUME Crash PROVE Stays
  BY <1>9 DEF Crash, Invariant, TypeOK
<1>. QED
  BY <1>1, <1>2, <1>3, <1>4, <1>5, <1>6, <1>7, <1>8, <1>9 DEF Next

\* Every step keeps the lock.
LEMMA NextOwned == Invariant /\ [Next]_vars => ProcessingIsOwned'
<1>. SUFFICES ASSUME Invariant, [Next]_vars PROVE ProcessingIsOwned'
  OBVIOUS
<1>1. ASSUME NEW q \in Requests, Owns(q)'
      PROVE  /\ input'[q] = input[q] /\ input[q].order \in Orders
             /\ Owns(q) \/ Starts(q)
  BY <1>1, OwnsStep
     DEF Owns, Starts, StartPayment, Issues, Invariant, InputInv, Active, Kinds
<1>2. ASSUME NEW q \in Requests, Starts(q)
      PROVE  /\ orders[input[q].order].status = "PENDING_PAYMENT"
             /\ orders'[input[q].order].status = "PAYMENT_PROCESSING"
             /\ pc[q] = "StartPayment" /\ pc' = [pc EXCEPT ![q] = "SendPayOrder"]
  <2>1. orders[input[q].order] \in OrderRow
    BY <1>2 DEF Starts, StartPayment, Issues, Invariant, InputInv, Active, Kinds, TypeOK
  <2>2. /\ pc[q] = "StartPayment" /\ Affects("StartPayment", orders[input[q].order])
        /\ Execute(q, "StartPayment") /\ Goto(q, "SendPayOrder")
    BY <1>2 DEF Starts, StartPayment, Issues, TheOrder
  <2>3. orders'[input[q].order] =
           [orders[input[q].order] EXCEPT !.status = "PAYMENT_PROCESSING"]
    BY <2>2, ExecuteFacts DEF Kinds, Invariant
  <2>. QED
    BY <2>1, <2>2, <2>3, StatementFacts DEF Goto, OrderRow
<1>3. ASSUME NEW q \in Requests, Owns(q)'
      PROVE  orders'[input[q].order].status = "PAYMENT_PROCESSING"
  <2>1. CASE Starts(q)
    BY <1>2, <2>1
  <2>2. CASE Owns(q)
    <3>1. CASE UNCHANGED orders
      BY <2>2, <3>1 DEF Invariant, ProcessingIsOwned, TheOrder
    <3>2. ASSUME NEW r \in Requests, NEW kind \in Kinds, UNCHANGED late,
                 Issues(r, kind), Affects(kind, TheOrder(r)), Execute(r, kind),
                 kind # "StartPayment" => pc'[r] = "done"
          PROVE  orders'[input[q].order].status = "PAYMENT_PROCESSING"
      <4>1. q = r => kind \notin {"FinishPayment", "ResetPayment"}
        BY <1>3, <3>2 DEF Issues, Owns, Invariant, LateInv
      <4>. QED
        BY <1>1, <1>3, <2>2, <3>2, <4>1, OwnedIsUntouched
    <3>3. ASSUME NEW r \in Requests, ExecuteLate(r), Affects(late[r], TheOrder(r)),
                 Execute(r, late[r])
          PROVE  orders'[input[q].order].status = "PAYMENT_PROCESSING"
      <4>1. late[r] \in Kinds
        BY <3>3 DEF ExecuteLate, Invariant, TypeOK
      <4>2. q = r => late[r] \notin {"FinishPayment", "ResetPayment"}
        BY <1>3, <3>3 DEF ExecuteLate, Owns, Invariant, LateInv, TypeOK
      <4>. QED
        BY <1>1, <1>3, <2>2, <3>3, <4>1, <4>2, OwnedIsUntouched
    <3>4. ASSUME NEW r \in Requests, Handle(r)
          PROVE  orders'[input[q].order].status = "PAYMENT_PROCESSING"
      BY <3>1, <3>2, <3>4, HandleTables DEF Invariant
    <3>5. ASSUME NEW r \in Requests, ExecuteLate(r)
          PROVE  orders'[input[q].order].status = "PAYMENT_PROCESSING"
      BY <3>1, <3>3, <3>5 DEF ExecuteLate
    <3>6. ASSUME NEW r \in Requests, Arrive(r) \/ Serve(r) \/ Disconnect(r)
          PROVE  UNCHANGED orders
      BY <3>6, ArriveFacts DEF Serve, Disconnect, Invariant
    <3>7. Crash \/ UNCHANGED vars => UNCHANGED orders
      BY DEF Crash, vars
    <3>. QED
      BY <3>1, <3>4, <3>5, <3>6, <3>7 DEF Next
  <2>. QED
    BY <1>1, <1>3, <2>1, <2>2
<1>4. ASSUME NEW q \in Requests, NEW r \in Requests, Owns(q)', Owns(r)',
             input'[q].order = input'[r].order
      PROVE  q = r
  <2>1. CASE Owns(q) /\ Owns(r)
    BY <1>1, <1>4, <2>1 DEF Invariant, ProcessingIsOwned
  <2>2. CASE Starts(q) /\ Starts(r)
    BY <1>2, <2>2 DEF Invariant, TypeOK
  <2>3. ~ (Starts(q) /\ Owns(r)) /\ ~ (Owns(q) /\ Starts(r))
    BY <1>1, <1>2, <1>4 DEF Invariant, ProcessingIsOwned, TheOrder
  <2>. QED
    BY <1>1, <1>4, <2>1, <2>2, <2>3
<1>5. ASSUME NEW r \in Requests
      PROVE  pc'[r] \notin {"FinishPaymentGet", "ResetPaymentExists"}
  <2>1. pc[r] \notin {"FinishPaymentGet", "ResetPaymentExists"}
    BY DEF Invariant, ProcessingIsOwned
  <2>2. ASSUME FinishPayment(r) \/ ResetPayment(r) PROVE pc'[r] = "done"
    <3>1. TheOrder(r).status = "PAYMENT_PROCESSING"
      BY <2>2 DEF FinishPayment, ResetPayment, Issues, Owns, Invariant, ProcessingIsOwned
    <3>2. TheOrder(r) \in OrderRow
      BY <2>2 DEF FinishPayment, ResetPayment, Issues, TheOrder, Invariant, InputInv,
                  TypeOK, Active, Kinds
    <3>. QED
      BY <2>2, <3>1, <3>2, StatementFacts
         DEF FinishPayment, ResetPayment, Reply, Goto, Invariant, TypeOK
  <2>3. ASSUME Handle(r) PROVE pc'[r] \notin {"FinishPaymentGet", "ResetPaymentExists"}
    BY <2>1, <2>2, <2>3
       DEF Handle, Create, StartPayment, Cancel, Read, QueryFails, SendPayOrder,
           ReceiveTransaction, ReceiveError, LoseCall, Receive, Reply, Goto,
           Invariant, TypeOK
  <2>4. ASSUME NEW q \in Requests, Handle(q), q # r PROVE pc'[r] = pc[r]
    BY <2>4, HandleFacts DEF Invariant
  <2>5. ASSUME NEW q \in Requests, Arrive(q)
        PROVE  pc'[r] \notin {"FinishPaymentGet", "ResetPaymentExists"}
    BY <2>1, <2>5, ArriveFacts DEF Invariant
  <2>6. ASSUME NEW q \in Requests, Serve(q) \/ ExecuteLate(q) \/ Disconnect(q)
        PROVE  pc'[r] = pc[r]
    BY <2>6 DEF Serve, ExecuteLate, Disconnect
  <2>7. CASE Crash \/ UNCHANGED vars
    BY <2>1, <2>7 DEF Crash, vars
  <2>. QED
    BY <2>1, <2>3, <2>4, <2>5, <2>6, <2>7 DEF Next
<1>. QED
  BY <1>1, <1>3, <1>4, <1>5 DEF ProcessingIsOwned, TheOrder


-----------------------------------------------------------------------------
(* The theorems.                                                           *)

\* The invariant holds when the service starts.
LEMMA InitInvariant == Init => Invariant
<1>. SUFFICES ASSUME Init PROVE Invariant
  OBVIOUS
<1>1. TypeOK
  BY InitTypes
<1>2. /\ \A r \in Requests : pc[r] = "idle" /\ late[r] = "none" /\ calls[r].state = "none"
      /\ \A o \in Orders : orders[o] \in {PendingOrder, AbsentOrder}
  BY DEF Init, PaymentInit, NoCall
<1>3. InputInv /\ LateInv /\ CallInv /\ ResultInv /\ ProcessingIsOwned
  BY <1>2 DEF InputInv, LateInv, CallInv, ResultInv, ProcessingIsOwned, Owns,
              Active, Kinds, Reads
<1>4. \A row \in {PendingOrder, AbsentOrder} :
         row.status # "PAID" /\ row.transaction_uuid = Null /\ row.payment_method = Null
  BY DEF PendingOrder, AbsentOrder
<1>5. PaidIsRecorded
  BY <1>2, <1>4 DEF PaidIsRecorded
<1>. QED
  BY <1>1, <1>3, <1>5 DEF Invariant

\* Every step of the service keeps the invariant.
LEMMA NextInvariant == Invariant /\ [Next]_vars => Invariant'
  BY NextTypes, NextInput, NextLate, NextCall, NextResult, NextOwned, NextPaid
     DEF Invariant

\* The invariant holds in every state the service can reach.
THEOREM InvariantHolds == Spec => []Invariant
<1>1. Init => Invariant
  BY InitInvariant
<1>2. Invariant /\ [Next]_vars => Invariant'
  BY NextInvariant
<1>. QED
  BY <1>1, <1>2, PTL DEF Spec

\* Tables, handlers, calls and answers keep their types, whatever fails.
THEOREM TypesHold == Spec => []TypeOK
<1>1. Invariant => TypeOK
  BY DEF Invariant
<1>. QED
  BY <1>1, InvariantHolds, PTL

\* StartPayment is a lock: at any time at most one handler, or one statement of
\* a handler that is gone, may finish or reset the payment of an order, and the
\* order is in PAYMENT_PROCESSING as long as there is one.  The branches of Pay
\* for an order that is not (pay.go:47-58), and the EXISTS of ResetPayment, are
\* never reached, whatever fails and however many requests there are.
THEOREM LockHolds == Spec => []ProcessingIsOwned
<1>1. Invariant => ProcessingIsOwned
  BY DEF Invariant
<1>. QED
  BY <1>1, InvariantHolds, PTL

\* A paid order names a payment that PaymentService recorded for this order and
\* by this method, and no other order names one.
THEOREM PaidHolds == Spec => []PaidIsRecorded
<1>1. Invariant => PaidIsRecorded
  BY DEF Invariant
<1>. QED
  BY <1>1, InvariantHolds, PTL

-----------------------------------------------------------------------------
(***************************************************************************)
(* OrderService implements OrderLifecycle: every step of a handler, of     *)
(* PaymentService, of a late statement or of the environment is one step of*)
(* the public life of an order and of the ledger, or none.                 *)
(***************************************************************************)

\* What GET shows as the status of a row.
Shown(row) == IF row.status = "ABSENT" THEN "ABSENT" ELSE OrderStatusToDTO(row.status)

\* The receipt in a row.
ReceiptOf(row) ==
    [transaction_uuid |-> row.transaction_uuid, payment_method |-> row.payment_method]

\* The orders of the start, and no payment.
LEMMA InitRefines == Init => Lifecycle!Init
<1>. SUFFICES ASSUME Init PROVE Lifecycle!Init
  OBVIOUS
<1>1. \A o \in Orders :
         /\ Shown(orders[o]) = IF o \in Existing THEN "PENDING_PAYMENT" ELSE "ABSENT"
         /\ ReceiptOf(orders[o]) = [transaction_uuid |-> Null, payment_method |-> Null]
  BY DEF Init, Shown, ReceiptOf, OrderStatusToDTO, PendingOrder, AbsentOrder
<1>2. payments = {}
  BY DEF Init, PaymentInit
<1>. QED
  BY <1>1, <1>2 DEF Shown, ReceiptOf, Lifecycle!Init, Lifecycle!Receipt

\* A statement of a request, executed now or late, is one step of the public
\* life of its order, or of nothing that the public sees.
LEMMA StatementRefines ==
    ASSUME Invariant, NEW r \in Requests, NEW kind \in Kinds,
           Issues(r, kind) \/ late[r] = kind,
           Affects(kind, TheOrder(r)), Execute(r, kind),
           UNCHANGED payments
    PROVE  [Lifecycle!Next]_Lifecycle!vars
<1>. DEFINE o == input[r].order
            status == [p \in Orders |-> Shown(orders[p])]
            receipt == [p \in Orders |-> ReceiptOf(orders[p])]
<1>1. o \in Orders /\ orders[o] \in OrderRow
  BY DEF Invariant, InputInv, TypeOK, Active, Kinds, Issues
<1>2. status' = [status EXCEPT ![o] = Shown(orders'[o])]
  BY <1>1, ExecuteFacts DEF Issues, Invariant
<1>3. receipt' = [receipt EXCEPT ![o] = ReceiptOf(orders'[o])]
  BY <1>1, ExecuteFacts DEF Issues, Invariant
<1>4. CASE kind = "Create"
  <2>1. orders[o].status = "ABSENT" /\ orders'[o] = [orders[o] EXCEPT !.status = "PENDING_PAYMENT"]
    BY <1>1, <1>4, ExecuteFacts, StatementFacts DEF TheOrder, Issues, Invariant
  <2>2. /\ status[o] = "ABSENT"
        /\ Shown(orders'[o]) = "PENDING_PAYMENT"
        /\ ReceiptOf(orders'[o]) = ReceiptOf(orders[o])
    BY <1>1, <2>1 DEF Shown, ReceiptOf, OrderStatusToDTO, OrderRow
  <2>3. status' = [status EXCEPT ![o] = "PENDING_PAYMENT"] /\ receipt' = receipt
    BY <1>1, <1>2, <1>3, <2>2
  <2>. QED
    BY <1>1, <2>2, <2>3 DEF Lifecycle!Next, Lifecycle!Place, Shown, ReceiptOf
<1>5. CASE kind \in {"StartPayment", "ResetPayment"}
  <2>1. /\ orders[o].status \in {"PENDING_PAYMENT", "PAYMENT_PROCESSING"}
        /\ \/ orders'[o] = [orders[o] EXCEPT !.status = "PENDING_PAYMENT"]
           \/ orders'[o] = [orders[o] EXCEPT !.status = "PAYMENT_PROCESSING"]
    BY <1>1, <1>5, ExecuteFacts, StatementFacts DEF TheOrder, Issues, Invariant
  <2>2. /\ Shown(orders'[o]) = Shown(orders[o])
        /\ ReceiptOf(orders'[o]) = ReceiptOf(orders[o])
    BY <1>1, <2>1 DEF Shown, ReceiptOf, OrderStatusToDTO, OrderRow
  <2>3. status' = status /\ receipt' = receipt
    BY <1>1, <1>2, <1>3, <2>2
  <2>. QED
    BY <2>3 DEF Lifecycle!vars, Shown, ReceiptOf
<1>6. CASE kind = "FinishPayment"
  <2>1. /\ orders[o].status = "PAYMENT_PROCESSING"
        /\ orders'[o] = [status           |-> "PAID",
                         transaction_uuid |-> payResult[r],
                         payment_method   |-> input[r].method]
    BY <1>1, <1>6, ExecuteFacts, StatementFacts DEF TheOrder, Issues, Invariant
  <2>2. [transaction_uuid |-> payResult[r],
         order_uuid       |-> o,
         payment_method   |-> input[r].method] \in payments
    BY <1>6 DEF Issues, Invariant, ResultInv
  <2>3. PICK p \in payments : /\ p.transaction_uuid = payResult[r]
                             /\ p.order_uuid = o
                             /\ p.payment_method = input[r].method
    BY <2>2
  <2>4. /\ status[o] = "PENDING_PAYMENT"
        /\ Shown(orders'[o]) = "PAID"
        /\ ReceiptOf(orders'[o]) = Lifecycle!Receipt(p.transaction_uuid, p.payment_method)
    BY <1>1, <2>1, <2>3 DEF Shown, ReceiptOf, OrderStatusToDTO, Lifecycle!Receipt
  <2>5. /\ status' = [status EXCEPT ![o] = "PAID"]
        /\ receipt' = [receipt EXCEPT ![o] =
                          Lifecycle!Receipt(p.transaction_uuid, p.payment_method)]
    BY <1>2, <1>3, <2>4
  <2>6. Lifecycle!Settle(o, p)
    BY <2>3, <2>4, <2>5 DEF Lifecycle!Settle, Shown, ReceiptOf
  <2>. QED
    BY <1>1, <2>6 DEF Lifecycle!Next
<1>7. CASE kind = "Cancel"
  <2>1. orders[o].status = "PENDING_PAYMENT" /\ orders'[o] = [orders[o] EXCEPT !.status = "CANCELLED"]
    BY <1>1, <1>7, ExecuteFacts, StatementFacts DEF TheOrder, Issues, Invariant
  <2>2. /\ status[o] = "PENDING_PAYMENT"
        /\ Shown(orders'[o]) = "CANCELLED"
        /\ ReceiptOf(orders'[o]) = ReceiptOf(orders[o])
    BY <1>1, <2>1 DEF Shown, ReceiptOf, OrderStatusToDTO, OrderRow
  <2>3. status' = [status EXCEPT ![o] = "CANCELLED"] /\ receipt' = receipt
    BY <1>1, <1>2, <1>3, <2>2
  <2>. QED
    BY <1>1, <2>2, <2>3 DEF Lifecycle!Next, Lifecycle!Withdraw, Shown, ReceiptOf
<1>. QED
  BY <1>4, <1>5, <1>6, <1>7 DEF Kinds

\* An answer of PaymentService charges the order of a call once, or changes
\* nothing that the public sees.
LEMMA ServeRefines ==
    ASSUME Invariant, NEW r \in Requests, Serve(r)
    PROVE  [Lifecycle!Next]_Lifecycle!vars
<1>1. CASE UNCHANGED payments
  BY <1>1 DEF Serve, Lifecycle!vars
<1>2. ASSUME NEW t \in Transactions, PayOrder(r, t) \/ CommitUnknown(r, t)
      PROVE  Lifecycle!Next
  <2>1. /\ calls[r].state = "sent" /\ NewRandom(t) /\ IsValid(r)
        /\ payments' = payments \cup {PaymentOf(r, t)}
        /\ UNCHANGED orders
    BY <1>2 DEF PayOrder, CommitUnknown, Serve
  <2>2. calls[r].order \in Orders /\ orders[calls[r].order].status # "ABSENT"
    BY <2>1 DEF Invariant, CallInv
  <2>3. calls[r].method \in PaymentMethods
    BY <2>1 DEF IsValid, isValidPaymentMethod
  <2>4. \A p \in payments : p.transaction_uuid # t
    BY <2>1 DEF NewRandom
  <2>5. Shown(orders[calls[r].order]) # "ABSENT"
    BY <2>2 DEF Shown, OrderStatusToDTO
  <2>6. Lifecycle!Charge(calls[r].order, calls[r].method, t)
    BY <2>1, <2>2, <2>4, <2>5 DEF Lifecycle!Charge, PaymentOf, Shown
  <2>. QED
    BY <2>2, <2>3, <2>6 DEF Lifecycle!Next
<1>3. ASSUME RejectCall(r) \/ InsertFails(r) PROVE UNCHANGED payments
  BY <1>3 DEF RejectCall, InsertFails
<1>. QED
  BY <1>1, <1>2, <1>3 DEF Serve, ServeCall

\* Every step of the service is a step of the public life, or none.
LEMMA NextRefines == Invariant /\ [Next]_vars => [Lifecycle!Next]_Lifecycle!vars
<1>. SUFFICES ASSUME Invariant, [Next]_vars PROVE [Lifecycle!Next]_Lifecycle!vars
  OBVIOUS
<1>1. CASE UNCHANGED <<orders, payments>>
  BY <1>1 DEF Lifecycle!vars
<1>2. ASSUME NEW r \in Requests, Handle(r)
      PROVE  [Lifecycle!Next]_Lifecycle!vars
  BY <1>1, <1>2, HandleTables, StatementRefines DEF Invariant
<1>3. ASSUME NEW r \in Requests, Serve(r)
      PROVE  [Lifecycle!Next]_Lifecycle!vars
  BY <1>3, ServeRefines
<1>4. ASSUME NEW r \in Requests, ExecuteLate(r)
      PROVE  [Lifecycle!Next]_Lifecycle!vars
  <2>1. late[r] \in Kinds /\ UNCHANGED payments
    BY <1>4 DEF ExecuteLate, Invariant, TypeOK
  <2>. QED
    BY <1>1, <1>4, <2>1, StatementRefines DEF ExecuteLate
<1>5. ASSUME NEW r \in Requests, Arrive(r) \/ Disconnect(r)
      PROVE  UNCHANGED <<orders, payments>>
  BY <1>5, ArriveFacts DEF Disconnect, Invariant
<1>6. Crash \/ UNCHANGED vars => UNCHANGED <<orders, payments>>
  BY DEF Crash, vars
<1>. QED
  BY <1>1, <1>2, <1>3, <1>4, <1>5, <1>6 DEF Next

\* What happens to the payments and the calls is what PaymentService and its
\* callers do.
LEMMA NextPays == Invariant /\ [Next]_vars => [PaymentNext]_paymentVars
<1>. SUFFICES ASSUME Invariant, [Next]_vars PROVE [PaymentNext]_paymentVars
  OBVIOUS
<1>1. CASE UNCHANGED <<payments, calls>>
  BY <1>1 DEF paymentVars
<1>2. ASSUME NEW r \in Requests, SendPayOrder(r)
      PROVE  PaymentNext
  <2>1. input[r].order \in Orders /\ input[r].method \in PaymentMethods
    BY <1>2 DEF SendPayOrder, Invariant, InputInv, Active, OpOf
  <2>2. SendCall(r, input[r].order, input[r].method)
    BY <1>2 DEF SendPayOrder
  <2>. QED
    BY <2>1, <2>2 DEF PaymentNext
<1>3. ASSUME NEW r \in Requests, Handle(r), ~ SendPayOrder(r)
      PROVE  UNCHANGED <<payments, calls>>
  BY <1>3 DEF Handle, Create, StartPayment, FinishPayment, ResetPayment, Cancel, Read,
              QueryFails, ReceiveTransaction, ReceiveError, LoseCall, Receive
<1>4. ASSUME NEW r \in Requests, Serve(r)
      PROVE  PaymentNext
  BY <1>4 DEF Serve, PaymentNext
<1>5. ASSUME NEW r \in Requests, Arrive(r) \/ ExecuteLate(r) \/ Disconnect(r)
      PROVE  UNCHANGED <<payments, calls>>
  BY <1>5, ArriveFacts DEF ExecuteLate, Disconnect, Invariant
<1>6. Crash \/ UNCHANGED vars => UNCHANGED <<payments, calls>>
  BY DEF Crash, vars
<1>. QED
  BY <1>1, <1>2, <1>3, <1>4, <1>5, <1>6 DEF Next

\* The service uses PaymentService as PaymentSpec describes it, so that what is
\* proved of that holds here (client/grpc/payment/v1/client.go).
THEOREM PaysByTheProtocol == Spec => PaymentSpec
<1>1. Init => PaymentInit
  BY DEF Init
<1>2. Invariant /\ [Next]_vars => [PaymentNext]_paymentVars
  BY NextPays
<1>. QED
  BY <1>1, <1>2, InvariantHolds, PTL DEF Spec, PaymentSpec

\* The service over Postgres implements the public life of an order and the
\* ledger of payments, whatever fails (pay.go, cancel.go, create.go).
THEOREM Refinement == Spec => RefinesLifecycle
<1>1. Init => Lifecycle!Init
  BY InitRefines
<1>2. Invariant /\ [Next]_vars => [Lifecycle!Next]_Lifecycle!vars
  BY NextRefines
<1>. QED
  BY <1>1, <1>2, InvariantHolds, PTL DEF Spec, RefinesLifecycle, Lifecycle!Spec
=============================================================================
