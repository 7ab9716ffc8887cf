------------------------- MODULE OrderAnswerProofs -------------------------
(***************************************************************************)
(* Proofs of what clients may rely on, for any requests, orders, methods,  *)
(* transactions, faults and workload: an order is charged once, an answer  *)
(* is never taken back, and neither an order in PAYMENT_PROCESSING nor a   *)
(* charge is without someone to answer for it.                             *)
(***************************************************************************)
EXTENDS OrderServiceProofs

-----------------------------------------------------------------------------
(***************************************************************************)
(* Charges: an order is charged once, and not at all while it is to be paid*)
(* or after it was cancelled, but for the calls that ended in an error.    *)
(*                                                                         *)
(* OnlyChargedOnce speaks of calls and of rows.  What ties them together   *)
(* is the lock: a call that charges is sent by the owner of its order, and *)
(* as long as it is not taken for failed nobody else becomes the owner.    *)
(***************************************************************************)

\* The call of r charged its order or will, and r did not take it for failed.
Charging(r) ==
    /\ calls[r].state = "sent" \/ calls[r].transaction # Null
    /\ payResult[r] # "internal"

\* A handler has no result before its call ends.
NoResultYet ==
    \A r \in Requests :
        pc[r] \in {"idle", "StartPayment", "SendPayOrder", "PayOrder"} => payResult[r] = Null

\* A call that was not made or was refused has no transaction.
RefusedIsNotCharged ==
    \A r \in Requests :
        /\ calls[r].state \in {"none", "InvalidArgument"} => calls[r].transaction = Null
        /\ payResult[r] = "ErrInvalidPaymentMethod" => calls[r].state = "InvalidArgument"

\* An order with a charge is marked or paid.
ChargedIsMarked ==
    \A r \in Requests :
        Charging(r) => orders[calls[r].order].status \in {"PAYMENT_PROCESSING", "PAID"}

\* Nobody but the request that charged an order is its owner.
ChargerOwns ==
    \A q, r \in Requests :
        Charging(q) /\ Owns(r) /\ calls[q].order = input[r].order => q = r

\* Two requests do not charge one order.
OneCharger ==
    \A q, r \in Requests :
        Charging(q) /\ Charging(r) /\ calls[q].order = calls[r].order => q = r

ChargeInv ==
    NoResultYet /\ RefusedIsNotCharged /\ ChargedIsMarked /\ ChargerOwns /\ OneCharger

-----------------------------------------------------------------------------
(* Steps.                                                                  *)

\* r sends its call.
Sends(r) ==
    /\ pc[r] = "SendPayOrder"
    /\ calls[r].state = "none"
    /\ calls'[r] = [state |-> "sent", order |-> input[r].order,
                    method |-> input[r].method, transaction |-> Null]
    /\ UNCHANGED <<orders, payments, payResult>>

\* PaymentService answers the call of r.
Answers(r) ==
    /\ calls[r].state = "sent"
    /\ calls'[r].order = calls[r].order
    /\ calls'[r].state \in {"OK", "InvalidArgument", "Internal"}
    /\ calls'[r].state = "InvalidArgument" => calls'[r].transaction = Null
    /\ UNCHANGED payResult

\* A call is sent once and answered once.
LEMMA CallStep ==
    ASSUME Invariant, [Next]_vars, NEW q \in Requests
    PROVE  calls'[q] = calls[q] \/ Sends(q) \/ Answers(q)
<1>1. CASE UNCHANGED calls
  BY <1>1
<1>2. ASSUME NEW r \in Requests, Handle(r)
      PROVE  calls'[q] = calls[q] \/ Sends(q)
  <2>1. CASE SendPayOrder(r)
    BY <2>1 DEF SendPayOrder, SendCall, Sends, Invariant, TypeOK, PaymentTypeOK
  <2>2. CASE ~ SendPayOrder(r)
    BY <1>2, <2>2
       DEF Handle, Create, StartPayment, FinishPayment, ResetPayment, Cancel,
           Read, QueryFails, ReceiveTransaction, ReceiveError, LoseCall, Receive
  <2>. QED
    BY <2>1, <2>2
<1>3. ASSUME NEW r \in Requests, Serve(r)
      PROVE  calls'[q] = calls[q] \/ Answers(q)
  <2>1. ServeCall(r) /\ UNCHANGED payResult
    BY <1>3 DEF Serve
  <2>2. ASSUME NEW state, NEW t, Answer(r, state, t)
        PROVE  calls'[r].transaction = t /\ calls'[r].state = state
    BY <2>2 DEF Answer, Invariant, TypeOK, PaymentTypeOK, Call
  <2>3. calls'[r].state = "InvalidArgument" => calls'[r].transaction = Null
    BY <2>1, <2>2
       DEF ServeCall, RejectCall, PayOrder, CommitUnknown, InsertFails
  <2>. QED
    BY <2>1, <2>3, AnswerFacts DEF Answers, Invariant
<1>4. ASSUME NEW r \in Requests, Arrive(r) \/ ExecuteLate(r) \/ Disconnect(r)
      PROVE  UNCHANGED calls
  BY <1>4, ArriveFacts DEF ExecuteLate, Disconnect, Invariant
<1>5. Crash \/ UNCHANGED vars => UNCHANGED calls
  BY DEF Crash, vars
<1>. QED
  BY <1>1, <1>2, <1>3, <1>4, <1>5 DEF Next

\* A payment call ends for its handler: with its transaction, a refusal, or an
\* error.
LEMMA ResultStep ==
    ASSUME Invariant, [Next]_vars, NEW q \in Requests
    PROVE  \/ payResult'[q] = payResult[q]
           \/ /\ pc[q] \in {"SendPayOrder", "PayOrder"}
              /\ pc'[q] \in {"FinishPayment", "ResetPayment"}
              /\ UNCHANGED calls
              /\ \/ payResult'[q] = "internal"
                 \/ /\ payResult'[q] = "ErrInvalidPaymentMethod"
                    /\ calls[q].state = "InvalidArgument"
                 \/ /\ calls[q].state = "OK"
                    /\ payResult'[q] = calls[q].transaction
                    /\ payResult'[q] \in Transactions
<1>1. CASE UNCHANGED payResult
  BY <1>1
<1>2. CASE ReceiveTransaction(q)
  <2>1. calls[q].transaction \in Transactions
    BY <1>2 DEF ReceiveTransaction, Invariant, CallInv, TypeOK, PaymentTypeOK, Payment
  <2>. QED
    BY <1>2, <2>1 DEF ReceiveTransaction, Receive, Goto, Invariant, TypeOK
<1>3. CASE ReceiveError(q)
  BY <1>3 DEF ReceiveError, Receive, Goto, Invariant, TypeOK
<1>4. CASE LoseCall(q)
  BY <1>4 DEF LoseCall, Receive, Goto, Invariant, TypeOK
<1>5. ASSUME NEW r \in Requests, Handle(r), q # r
      PROVE  payResult'[q] = payResult[q]
  BY <1>5, HandleFacts DEF Invariant
<1>6. ASSUME Handle(q), ~ (ReceiveTransaction(q) \/ ReceiveError(q) \/ LoseCall(q))
      PROVE  UNCHANGED payResult
  BY <1>6 DEF Handle, Create, StartPayment, FinishPayment, ResetPayment, Cancel, Read,
              QueryFails, SendPayOrder
<1>7. ASSUME NEW r \in Requests, Arrive(r) \/ Serve(r) \/ ExecuteLate(r) \/ Disconnect(r)
      PROVE  UNCHANGED payResult
  BY <1>7, ArriveFacts DEF Serve, ExecuteLate, Disconnect, Invariant
<1>8. Crash \/ UNCHANGED vars => UNCHANGED payResult
  BY DEF Crash, vars
<1>. QED
  BY <1>1, <1>2, <1>3, <1>4, <1>5, <1>6, <1>7, <1>8 DEF Next

\* A call becomes a charge when it is sent, by the owner of its order.
LEMMA ChargingStep ==
    ASSUME Invariant, ChargeInv, [Next]_vars, NEW q \in Requests, Charging(q)'
    PROVE  \/ Charging(q) /\ calls'[q].order = calls[q].order
           \/ /\ Sends(q) /\ Owns(q) /\ input[q].order \in Orders
              /\ calls'[q].order = input[q].order
              /\ orders[input[q].order].status = "PAYMENT_PROCESSING"
<1>1. CASE Sends(q)
  <2>1. Owns(q) /\ input[q].order \in Orders
    BY <1>1 DEF Sends, Owns, Invariant, InputInv, Active
  <2>2. orders[input[q].order].status = "PAYMENT_PROCESSING"
    BY <2>1 DEF Invariant, ProcessingIsOwned, TheOrder
  <2>. QED
    BY <1>1, <2>1, <2>2 DEF Sends
<1>2. ASSUME ~ Sends(q)
      PROVE  Charging(q) /\ calls'[q].order = calls[q].order
  <2>1. calls'[q] = calls[q] \/ Answers(q)
    BY <1>2, CallStep
  <2>2. payResult[q] # "internal"
    <3>1. payResult'[q] # "internal"
      BY DEF Charging
    <3>2. pc[q] \in {"SendPayOrder", "PayOrder"} => payResult[q] # "internal"
      BY TransactionsAssumption DEF ChargeInv, NoResultYet, PayErrors
    <3>. QED
      BY <3>1, <3>2, ResultStep
  <2>. QED
    BY <2>1, <2>2 DEF Charging, Answers
<1>. QED
  BY <1>1, <1>2

-----------------------------------------------------------------------------
(* The invariant.                                                          *)

\* Only the end of its call gives a handler a result, and it goes on from there.
LEMMA NextNoResult == Invariant /\ ChargeInv /\ [Next]_vars => NoResultYet'
<1>. SUFFICES ASSUME Invariant, ChargeInv, [Next]_vars, NEW q \in Requests,
                     pc'[q] \in {"idle", "StartPayment", "SendPayOrder", "PayOrder"}
              PROVE  payResult'[q] = Null
  BY DEF NoResultYet
<1>1. payResult'[q] = payResult[q]
  BY ResultStep
<1>2. pc[q] \in {"idle", "StartPayment", "SendPayOrder", "PayOrder"}
  <2>1. CASE UNCHANGED vars
    BY <2>1 DEF vars
  <2>2. ASSUME NEW r \in Requests, Arrive(r) PROVE pc[q] = pc'[q] \/ pc[q] = "idle"
    BY <2>2, ArriveFacts DEF Invariant
  <2>3. ASSUME NEW r \in Requests, Handle(r), r # q PROVE pc[q] = pc'[q]
    BY <2>3, HandleFacts DEF Invariant
  <2>4. CASE Handle(q)
    BY <2>4 DEF Handle, Create, StartPayment, FinishPayment, ResetPayment, Cancel, Read,
                QueryFails, SendPayOrder, ReceiveTransaction, ReceiveError, LoseCall,
                Receive, Reply, Goto, Issues, Invariant, TypeOK
  <2>5. ASSUME NEW r \in Requests, Serve(r) \/ ExecuteLate(r) \/ Disconnect(r)
        PROVE  pc[q] = pc'[q]
    BY <2>5 DEF Serve, ExecuteLate, Disconnect
  <2>6. CASE Crash
    BY <2>6 DEF Crash
  <2>. QED
    BY <2>1, <2>2, <2>3, <2>4, <2>5, <2>6 DEF Next
<1>. QED
  BY <1>1, <1>2 DEF ChargeInv, NoResultYet

\* A call that was refused stays refused and uncharged, and only its handler is
\* told of a refusal.
LEMMA NextRefused == Invariant /\ ChargeInv /\ [Next]_vars => RefusedIsNotCharged'
<1>. SUFFICES ASSUME Invariant, ChargeInv, [Next]_vars, NEW q \in Requests
              PROVE  /\ calls'[q].state \in {"none", "InvalidArgument"}
                           => calls'[q].transaction = Null
                     /\ payResult'[q] = "ErrInvalidPaymentMethod"
                           => calls'[q].state = "InvalidArgument"
  BY DEF RefusedIsNotCharged
<1>1. calls[q].state = "InvalidArgument" => calls'[q] = calls[q]
  BY CallStep DEF Sends, Answers
<1>2. calls'[q].state \in {"none", "InvalidArgument"} => calls'[q].transaction = Null
  <2>1. CASE calls'[q] = calls[q]
    BY <2>1 DEF ChargeInv, RefusedIsNotCharged
  <2>2. CASE Sends(q) \/ Answers(q)
    BY <2>2 DEF Sends, Answers
  <2>. QED
    BY <2>1, <2>2, CallStep
<1>3. payResult'[q] = "ErrInvalidPaymentMethod" => calls[q].state = "InvalidArgument"
  BY ResultStep, TransactionsAssumption DEF ChargeInv, RefusedIsNotCharged, PayErrors
<1>. QED
  BY <1>1, <1>2, <1>3

\* A charge stays behind a marked or paid order: only the owner of the order
\* takes the mark off without payment, and it does so after an error.
LEMMA NextMarked == Invariant /\ ChargeInv /\ [Next]_vars => ChargedIsMarked'
<1>. SUFFICES ASSUME Invariant, ChargeInv, [Next]_vars, NEW q \in Requests, Charging(q)'
              PROVE  orders'[calls'[q].order].status \in {"PAYMENT_PROCESSING", "PAID"}
  BY DEF ChargedIsMarked
<1>1. CASE Charging(q) /\ calls'[q].order = calls[q].order
  <2>. DEFINE o == calls[q].order
  <2>1. /\ orders[o].status \in {"PAYMENT_PROCESSING", "PAID"}
        /\ calls[q].state # "none" /\ calls[q].state # "InvalidArgument"
    BY <1>1 DEF Charging, ChargeInv, ChargedIsMarked, RefusedIsNotCharged
  <2>2. o \in Orders /\ orders[o] \in OrderRow
    BY <2>1 DEF Invariant, CallInv, TypeOK
  <2>3. ASSUME NEW r \in Requests, NEW kind \in Kinds,
               Issues(r, kind) \/ late[r] = kind, input[r].order = o,
               Affects(kind, orders[o]), Execute(r, kind)
        PROVE  orders'[o].status = "PAID"
    <3>1. kind \in {"FinishPayment", "ResetPayment"}
      BY <2>1, <2>2, <2>3, StatementFacts DEF Kinds
    <3>2. Owns(r)
      BY <2>3, <3>1 DEF Owns, Issues
    <3>3. r = q
      BY <1>1, <2>3, <3>2 DEF ChargeInv, ChargerOwns
    <3>4. kind # "ResetPayment"
      BY <1>1, <2>1, <2>3, <3>3
         DEF Issues, Invariant, ResultInv, PayErrors, Charging, ChargeInv,
             RefusedIsNotCharged
    <3>5. orders'[o] = [status           |-> "PAID",
                        transaction_uuid |-> payResult[r],
                        payment_method   |-> input[r].method]
      BY <2>3, <3>1, <3>4, ExecuteFacts DEF Issues, Invariant
    <3>. QED
      BY <3>5
  <2>. QED
    BY <1>1, <2>1, <2>2, <2>3, RowChange
<1>2. CASE /\ Sends(q)
           /\ calls'[q].order = input[q].order
           /\ orders[input[q].order].status = "PAYMENT_PROCESSING"
  BY <1>2 DEF Sends
<1>. QED
  BY <1>1, <1>2, ChargingStep

\* Nobody else becomes the owner of an order that is charged, because it is not
\* to be paid any more; and who charges an order is its owner.
LEMMA NextChargerOwns == Invariant /\ ChargeInv /\ [Next]_vars => ChargerOwns'
<1>. SUFFICES ASSUME Invariant, ChargeInv, [Next]_vars,
                     NEW q \in Requests, NEW r \in Requests,
                     Charging(q)', Owns(r)', calls'[q].order = input'[r].order
              PROVE  q = r
  BY DEF ChargerOwns
<1>1. input'[r] = input[r] /\ (Owns(r) \/ Starts(r))
  BY OwnsStep
<1>2. ASSUME Starts(r) PROVE orders[input[r].order].status = "PENDING_PAYMENT"
  <2>1. orders[input[r].order] \in OrderRow
    BY <1>2 DEF Starts, StartPayment, Issues, Invariant, InputInv, Active, Kinds, TypeOK
  <2>. QED
    BY <1>2, <2>1, StatementFacts DEF Starts, TheOrder
<1>3. CASE Charging(q) /\ calls'[q].order = calls[q].order
  BY <1>1, <1>2, <1>3 DEF ChargeInv, ChargerOwns, ChargedIsMarked
<1>4. CASE /\ Owns(q)
           /\ calls'[q].order = input[q].order
           /\ orders[input[q].order].status = "PAYMENT_PROCESSING"
  BY <1>1, <1>2, <1>4 DEF Invariant, ProcessingIsOwned
<1>. QED
  BY <1>3, <1>4, ChargingStep

\* A second request cannot charge: it would have to be the owner.
LEMMA NextOneCharger == Invariant /\ ChargeInv /\ [Next]_vars => OneCharger'
<1>. SUFFICES ASSUME Invariant, ChargeInv, [Next]_vars,
                     NEW q \in Requests, NEW r \in Requests,
                     Charging(q)', Charging(r)', calls'[q].order = calls'[r].order
              PROVE  q = r
  BY DEF OneCharger
<1>. DEFINE Kept(c) == Charging(c) /\ calls'[c].order = calls[c].order
            Sent(c) == Owns(c) /\ calls'[c].order = input[c].order
<1>1. (Kept(q) \/ Sent(q)) /\ (Kept(r) \/ Sent(r))
  BY ChargingStep
<1>2. CASE Kept(q) /\ Kept(r)
  BY <1>2 DEF ChargeInv, OneCharger
<1>3. CASE Kept(q) /\ Sent(r)
  BY <1>3 DEF ChargeInv, ChargerOwns
<1>4. CASE Sent(q) /\ Kept(r)
  BY <1>4 DEF ChargeInv, ChargerOwns
<1>5. CASE Sent(q) /\ Sent(r)
  BY <1>5 DEF Invariant, ProcessingIsOwned
<1>. QED
  BY <1>1, <1>2, <1>3, <1>4, <1>5

\* Nothing is charged when the service starts.
LEMMA InitCharge == Init => ChargeInv
<1>. SUFFICES ASSUME Init PROVE ChargeInv
  OBVIOUS
<1>1. \A r \in Requests : calls[r] = NoCall /\ payResult[r] = Null
  BY DEF Init, PaymentInit
<1>2. \A r \in Requests :
         /\ calls[r].state = "none" /\ calls[r].transaction = Null
         /\ payResult[r] = Null /\ ~ Charging(r)
  BY <1>1 DEF NoCall, Charging
<1>3. Null # "ErrInvalidPaymentMethod"
  BY TransactionsAssumption DEF PayErrors
<1>. QED
  BY <1>2, <1>3 DEF ChargeInv, NoResultYet, RefusedIsNotCharged, ChargedIsMarked,
                    ChargerOwns, OneCharger

\* What ties charges to marks and owners holds in every state.
THEOREM ChargesHold == Spec => []ChargeInv
<1>1. Invariant /\ ChargeInv /\ [Next]_vars => ChargeInv'
  BY NextNoResult, NextRefused, NextMarked, NextChargerOwns, NextOneCharger DEF ChargeInv
<1>. QED
  BY <1>1, InitCharge, InvariantHolds, PTL DEF Spec

\* An order is charged once, and not at all while it is to be paid or after it
\* was cancelled, beside the calls that ended in an error (pay.go:19-45).
THEOREM ChargedOnceHolds == Spec => []OnlyChargedOnce
<1>1. ChargeInv => OnlyChargedOnce
  BY DEF ChargeInv, OneCharger, ChargedIsMarked, Charging, Charges, OnlyChargedOnce
<1>. QED
  BY <1>1, ChargesHold, PTL

-----------------------------------------------------------------------------
(***************************************************************************)
(* Answers.  All rests on two facts that no line of the code states: a     *)
(* request is answered once and its order is settled for good, and a       *)
(* payment call never gets InvalidArgument, because its arguments were     *)
(* checked before.                                                         *)
(***************************************************************************)

\* A request is not answered before its handler is done, and one that has not
\* arrived has no context.
Unanswered ==
    \A r \in Requests :
        /\ pc[r] # "done" => response[r] = NoResponse
        /\ pc[r] = "idle" => ~ ctxDone[r]

\* Whoever asked for an order, to be shown, paid or cancelled, or is told of its
\* status, named one.
OrdersAreNamed ==
    \A r \in Requests :
        \/ pc[r] # "idle" /\ input[r].op \in {"Get", "Pay", "Cancel"}
        \/ response[r].message \cap Conflicts # {}
        => input[r].order \in Orders

\* PaymentService is asked with valid arguments only, so that it refuses none.
CallsAreValid ==
    \A r \in Requests :
        /\ calls[r].state # "none" => IsValid(r) /\ calls[r].state # "InvalidArgument"
        /\ payResult[r] # "ErrInvalidPaymentMethod"

\* A handler finishes with the transaction that its call was answered.
ResultIsAnswer ==
    \A r \in Requests :
        pc[r] = "FinishPayment" =>
            calls[r].state = "OK" /\ payResult[r] = calls[r].transaction

\* Who left a statement behind and could answer, answered an internal error.
LateIsInternal ==
    \A r \in Requests : late[r] # "none" /\ pc[r] = "done" => response[r].code = 500

\* A call has its handler, or an answer that leaves its outcome open, or is the
\* receipt of its order.
CallIsAccounted ==
    \A r \in Requests :
        calls[r].state # "none" =>
            \/ pc[r] \in {"PayOrder", "FinishPayment", "ResetPayment", "lost"}
            \/ response[r].code = 500
            \/ /\ calls[r].state = "OK"
               /\ orders[calls[r].order].transaction_uuid = calls[r].transaction

AnswerInv ==
    /\ Unanswered
    /\ OrdersAreNamed
    /\ CallsAreValid
    /\ ResultIsAnswer
    /\ LateIsInternal
    /\ CallIsAccounted
    /\ AnswersAreFinal
    /\ ProcessingHasPayer

-----------------------------------------------------------------------------
(* Answers.                                                                *)

\* The codes of answers are different from one another.
LEMMA CodeFacts ==
    /\ 500 # 200 /\ 500 # 404 /\ 500 # 409 /\ 500 # 400 /\ 500 # 0
    /\ 200 # 404 /\ 200 # 409 /\ 200 # 400 /\ 200 # 0
  OBVIOUS

\* What does not speak of an error of the client is an internal error.
LEMMA InternalAnswers ==
    /\ createErrorResponse({"internal"}) = InternalError
    /\ getErrorResponse({"internal"}) = InternalError
    /\ payErrorResponse({"internal"}) = InternalError
    /\ cancelErrorResponse({"internal"}) = InternalError
  BY Zenon DEF createErrorResponse, getErrorResponse, payErrorResponse,
               cancelErrorResponse, Conflicts

\* A handler that finds its order in another status says so.
LEMMA StatusAnswers ==
    ASSUME NEW status \in Statuses
    PROVE  \E code \in {404, 409} :
              /\ payErrorResponse({StatusError(status)}) = Refusal(code, {StatusError(status)})
              /\ cancelErrorResponse({StatusError(status)}) = Refusal(code, {StatusError(status)})
<1>1. /\ payErrorResponse({"ErrOrderNotFound"}) = Refusal(404, {"ErrOrderNotFound"})
      /\ cancelErrorResponse({"ErrOrderNotFound"}) = Refusal(404, {"ErrOrderNotFound"})
  BY DEF payErrorResponse, cancelErrorResponse
<1>2. ASSUME NEW err \in Conflicts
      PROVE  /\ payErrorResponse({err}) = Refusal(409, {err})
             /\ cancelErrorResponse({err}) = Refusal(409, {err})
  <2>1. /\ "ErrOrderNotFound" \notin {err}
        /\ "ErrInvalidPaymentMethod" \notin {err}
        /\ Conflicts \cap {err} # {}
    BY <1>2 DEF Conflicts
  <2>. QED
    BY <2>1, Zenon DEF payErrorResponse, cancelErrorResponse
<1>3. StatusError(status) \in Conflicts \cup {"ErrOrderNotFound"}
  BY DEF StatusError, Conflicts
<1>. QED
  BY <1>1, <1>2, <1>3

\* The answers of the handler of r: row is its order after the step.
Answered(r, row) ==
    \/ response'[r] = InternalError
    \/ /\ input[r].op = "Create"
       /\ response'[r] = OK(NoBody)
    \/ /\ input[r].op = "Pay" /\ pc[r] = "FinishPayment"
       /\ row = [status           |-> "PAID",
                 transaction_uuid |-> payResult[r],
                 payment_method   |-> input[r].method]
       /\ response'[r] = OK([NoBody EXCEPT !.transaction_uuid = payResult[r]])
    \/ /\ input[r].op = "Cancel" /\ pc[r] = "Cancel"
       /\ row.status = "CANCELLED"
       /\ response'[r] = OK(NoBody)
    \/ /\ input[r].op = "Get" /\ pc[r] = "Get"
       /\ \/ response'[r] = Refusal(404, {"ErrOrderNotFound"})
          \/ response'[r] = OK(OrderToDTO(row))
    \/ /\ input[r].op \in {"Pay", "Cancel"} /\ pc[r] \in {"StartPaymentGet", "CancelGet"}
       /\ \E code \in {404, 409} :
             response'[r] = Refusal(code, {StatusError(row.status)})

\* A query that fails is answered as an internal error, whatever the operation.
LEMMA QueryAnswers ==
    ASSUME Invariant, AnswerInv, NEW r \in Requests, QueryFails(r)
    PROVE  response'[r] = InternalError
<1>1. Reply(r, ErrorResponse(r, {"internal"} \cup ({payResult[r]} \cap PayErrors)))
  BY DEF QueryFails
<1>2. {"internal"} \cup ({payResult[r]} \cap PayErrors) = {"internal"}
  BY DEF AnswerInv, CallsAreValid, PayErrors
<1>3. input[r].op \in Operations
  BY DEF QueryFails, Active, OpOf, Operations, Invariant, InputInv
<1>4. ErrorResponse(r, {"internal"}) = InternalError
  BY <1>3, InternalAnswers DEF ErrorResponse, Operations
<1>. QED
  BY <1>1, <1>2, <1>4 DEF Reply, Invariant, TypeOK

\* A handler that is done has answered.
LEMMA HandleAnswers ==
    ASSUME Invariant, AnswerInv, NEW r \in Requests, Handle(r), pc'[r] = "done"
    PROVE  Answered(r, orders'[input[r].order]) /\ UNCHANGED calls
<1>1. /\ pc[r] \in Active => input[r].order \in Orders /\ input[r].op = OpOf(pc[r])
      /\ response \in [Requests -> Response]
      /\ pc \in [Requests -> Active \cup {"idle", "done", "lost"}]
      /\ orders \in [Orders -> OrderRow]
  BY DEF Invariant, InputInv, TypeOK
<1>2. ASSUME NEW answer, Reply(r, answer) PROVE response'[r] = answer
  BY <1>1, <1>2 DEF Reply
<1>3. ASSUME NEW label, Goto(r, label) PROVE label = "done"
  BY <1>1, <1>3 DEF Goto
<1>4. CASE Create(r)
  <2>1. input[r].op = "Create"
    BY <1>1, <1>4 DEF Create, Issues, Active, Kinds, OpOf
  <2>2. Reply(r, OK(NoBody)) /\ UNCHANGED calls
    BY <1>4 DEF Create
  <2>. QED
    BY <1>2, <2>1, <2>2 DEF Answered
<1>5. CASE StartPayment(r)
  BY <1>3, <1>5 DEF StartPayment
<1>6. CASE FinishPayment(r)
  <2>1. input[r].op = "Pay" /\ pc[r] = "FinishPayment"
    BY <1>1, <1>6 DEF FinishPayment, Issues, Active, Kinds, OpOf
  <2>2. /\ Execute(r, "FinishPayment")
        /\ Reply(r, OK([NoBody EXCEPT !.transaction_uuid = payResult[r]]))
        /\ UNCHANGED calls
    BY <1>3, <1>6 DEF FinishPayment
  <2>3. orders'[input[r].order] = [status           |-> "PAID",
                                   transaction_uuid |-> payResult[r],
                                   payment_method   |-> input[r].method]
    BY <2>1, <2>2, ExecuteFacts DEF Invariant, Kinds
  <2>. QED
    BY <1>2, <2>1, <2>2, <2>3 DEF Answered
<1>7. CASE ResetPayment(r)
  <2>1. Reply(r, payErrorResponse({payResult[r]})) /\ UNCHANGED calls
    BY <1>3, <1>7 DEF ResetPayment
  <2>2. payResult[r] = "internal"
    BY <1>7 DEF ResetPayment, Issues, Invariant, ResultInv, PayErrors, AnswerInv, CallsAreValid
  <2>. QED
    BY <1>2, <2>1, <2>2, InternalAnswers DEF Answered
<1>8. CASE Cancel(r)
  <2>1. input[r].op = "Cancel" /\ pc[r] = "Cancel" /\ input[r].order \in Orders
    BY <1>1, <1>8 DEF Cancel, Issues, Active, Kinds, OpOf
  <2>2. Execute(r, "Cancel") /\ Reply(r, OK(NoBody)) /\ UNCHANGED calls
    BY <1>3, <1>8 DEF Cancel
  <2>3. orders'[input[r].order].status = "CANCELLED"
    BY <1>1, <2>1, <2>2, ExecuteFacts DEF Invariant, Kinds, OrderRow
  <2>. QED
    BY <1>2, <2>1, <2>2, <2>3 DEF Answered
<1>9. CASE Read(r)
  <2>. DEFINE row == orders[input[r].order]
  <2>1. /\ pc[r] \in {"Get", "StartPaymentGet", "CancelGet"}
        /\ Reply(r, ReadResponse(r, row))
        /\ UNCHANGED <<calls, orders>>
    BY <1>9 DEF Read, Reads, Invariant, ProcessingIsOwned, TheOrder
  <2>2. input[r].op = OpOf(pc[r]) /\ row.status \in Statuses
    BY <1>1, <2>1 DEF Active, Reads, OrderRow
  <2>3. CASE pc[r] = "Get"
    <3>1. \/ ReadResponse(r, row) = Refusal(404, {"ErrOrderNotFound"})
          \/ ReadResponse(r, row) = OK(OrderToDTO(row))
      BY <2>3, Zenon DEF ReadResponse, getErrorResponse
    <3>. QED
      BY <1>2, <2>1, <2>2, <2>3, <3>1 DEF Answered, OpOf
  <2>4. CASE pc[r] \in {"StartPaymentGet", "CancelGet"}
    <3>1. ReadResponse(r, row) \in {payErrorResponse({StatusError(row.status)}),
                                    cancelErrorResponse({StatusError(row.status)})}
      BY <2>4 DEF ReadResponse
    <3>2. \E code \in {404, 409} :
             ReadResponse(r, row) = Refusal(code, {StatusError(row.status)})
      BY <2>2, <3>1, StatusAnswers
    <3>3. input[r].op \in {"Pay", "Cancel"}
      BY <2>2, <2>4 DEF OpOf
    <3>. QED
      BY <1>2, <2>1, <2>4, <3>2, <3>3 DEF Answered
  <2>. QED
    BY <2>1, <2>3, <2>4
<1>10. CASE QueryFails(r)
  BY <1>10, QueryAnswers DEF Answered, QueryFails
<1>11. CASE SendPayOrder(r)
  BY <1>3, <1>11 DEF SendPayOrder
<1>12. CASE ReceiveTransaction(r) \/ ReceiveError(r) \/ LoseCall(r)
  BY <1>3, <1>12 DEF ReceiveTransaction, ReceiveError, LoseCall, Receive
<1>. QED
  BY <1>4, <1>5, <1>6, <1>7, <1>8, <1>9, <1>10, <1>11, <1>12 DEF Handle

\* The first answers of Arrive: refusals that speak of no order.
LEMMA ArriveAnswers ==
    ASSUME Invariant, NEW r \in Requests, Arrive(r), pc'[r] = "done"
    PROVE  /\ response'[r].code # 200
           /\ response'[r].body = NoBody
           /\ response'[r].message \cap Conflicts = {}
           /\ \A q \in Requests : q # r => response'[q] = response[q]
<1>1. /\ response \in [Requests -> Response]
      /\ pc \in [Requests -> Active \cup {"idle", "done", "lost"}]
  BY DEF Invariant, TypeOK
<1>2. ASSUME NEW code \in {400, 404, 409, 500}, NEW errs, errs \cap Conflicts = {},
             Reply(r, Refusal(code, errs))
      PROVE  /\ response'[r].code # 200
             /\ response'[r].body = NoBody
             /\ response'[r].message \cap Conflicts = {}
             /\ \A q \in Requests : q # r => response'[q] = response[q]
  <2>1. response' = [response EXCEPT ![r] = Refusal(code, errs)]
    BY <1>2 DEF Reply
  <2>2. response'[r] = Refusal(code, errs)
    BY <1>1, <2>1
  <2>. QED
    BY <1>1, <1>2, <2>1, <2>2, CodeFacts DEF Refusal
<1>3. ASSUME NEW label, Goto(r, label) PROVE label = "done"
  BY <1>1, <1>3 DEF Goto
<1>4. ASSUME NEW err \in {"ErrInvalidUUID", "ErrPartNotFound", "ErrOutOfStock", "internal"}
      PROVE  \E code \in {400, 404, 409, 500}, errs \in {{}, {err}} :
                createErrorResponse({err}) = Refusal(code, errs) /\ errs \cap Conflicts = {}
  BY DEF createErrorResponse, InternalError, Conflicts
<1>5. /\ payErrorResponse({"ErrInvalidPaymentMethod"}) = Refusal(400, {"ErrInvalidPaymentMethod"})
      /\ {"ErrInvalidPaymentMethod"} \cap Conflicts = {}
  BY DEF payErrorResponse, Conflicts
<1>6. ASSUME NEW o \in Orders PROVE ~ BeginCreate(r, o) /\ ~ BeginGet(r, o) /\ ~ BeginCancel(r, o)
  BY <1>3 DEF BeginCreate, BeginGet, BeginCancel
<1>7. ASSUME NEW o \in Orders, NEW method PROVE ~ BeginPay(r, o, method)
  BY <1>3 DEF BeginPay
<1>. QED
  BY <1>2, <1>4, <1>5, <1>6, <1>7 DEF Arrive, RejectCreate, RejectPay

\* A request that is not answered in a step keeps its answer, or has none yet.
LEMMA SilentStep ==
    ASSUME Invariant, [Next]_vars, NEW q \in Requests,
           ~ (pc'[q] = "done" /\ (Arrive(q) \/ Handle(q)))
    PROVE  /\ response'[q] = response[q]
           /\ pc'[q] = "done" <=> pc[q] = "done"
<1>1. /\ response \in [Requests -> Response]
      /\ pc \in [Requests -> Active \cup {"idle", "done", "lost"}]
      /\ "done" \notin Active
  BY DEF Invariant, TypeOK, Active, Kinds, Reads
<1>. USE <1>1
<1>2. CASE UNCHANGED vars
  BY <1>2 DEF vars
<1>3. ASSUME NEW r \in Requests, Arrive(r), r # q
      PROVE  response'[q] = response[q] /\ pc'[q] = pc[q]
  BY <1>3, ArriveFacts
     DEF Invariant, Arrive, BeginCreate, RejectCreate, BeginGet, BeginPay, RejectPay,
         BeginCancel, Reply
<1>4. ASSUME Arrive(q) PROVE response'[q] = response[q] /\ pc[q] = "idle"
  BY <1>4, ArriveFacts
     DEF Invariant, Arrive, BeginCreate, RejectCreate, BeginGet, BeginPay, RejectPay,
         BeginCancel, Reply, Goto
<1>5. ASSUME NEW r \in Requests, Handle(r), r # q
      PROVE  response'[q] = response[q] /\ pc'[q] = pc[q]
  <2>1. pc'[q] = pc[q]
    BY <1>5, HandleFacts DEF Invariant
  <2>2. UNCHANGED response \/ \E answer : Reply(r, answer)
    BY <1>5, Zenon DEF Handle, Create, StartPayment, FinishPayment, ResetPayment, Cancel,
                Read, QueryFails, SendPayOrder, ReceiveTransaction, ReceiveError,
                LoseCall, Receive
  <2>. QED
    BY <1>5, <2>1, <2>2 DEF Reply
<1>6. ASSUME Handle(q) PROVE response'[q] = response[q] /\ pc[q] # "done"
  <2>1. UNCHANGED response \/ \E answer : Reply(q, answer)
    BY <1>6, Zenon DEF Handle, Create, StartPayment, FinishPayment, ResetPayment, Cancel,
                Read, QueryFails, SendPayOrder, ReceiveTransaction, ReceiveError,
                LoseCall, Receive
  <2>2. pc[q] # "done"
    BY <1>6, HandleFacts DEF Invariant
  <2>. QED
    BY <1>6, <2>1, <2>2 DEF Reply, Goto
<1>7. ASSUME NEW r \in Requests, Serve(r) \/ ExecuteLate(r) \/ Disconnect(r)
      PROVE  response'[q] = response[q] /\ pc'[q] = pc[q]
  BY <1>7 DEF Serve, ExecuteLate, Disconnect
<1>8. ASSUME Crash
      PROVE  response'[q] = response[q] /\ (pc'[q] = "done" <=> pc[q] = "done")
  BY <1>8 DEF Crash
<1>. QED
  BY <1>2, <1>3, <1>4, <1>5, <1>6, <1>7, <1>8 DEF Next

\* What a request asks for is fixed when it arrives, and a context stays done.
LEMMA InputStep ==
    ASSUME Invariant, [Next]_vars, NEW q \in Requests
    PROVE  /\ pc[q] # "idle" => input'[q] = input[q] /\ pc'[q] # "idle"
           /\ pc[q] = "idle" => ctxDone'[q] = ctxDone[q]
           /\ ctxDone[q] => ctxDone'[q]
           /\ pc[q] = "lost" => pc'[q] = "lost"
<1>1. /\ pc \in [Requests -> Active \cup {"idle", "done", "lost"}]
      /\ ctxDone \in [Requests -> BOOLEAN]
      /\ {"idle", "done", "lost"} \cap Active = {}
  BY DEF Invariant, TypeOK, Active, Kinds, Reads
<1>. USE <1>1
<1>2. CASE UNCHANGED vars
  BY <1>2 DEF vars
<1>3. ASSUME NEW r \in Requests, Arrive(r)
      PROVE  /\ pc[q] # "idle" => input'[q] = input[q] /\ pc'[q] = pc[q]
             /\ UNCHANGED ctxDone
  BY <1>3, ArriveFacts DEF Invariant
<1>4. ASSUME NEW r \in Requests, Handle(r)
      PROVE  /\ UNCHANGED <<input, ctxDone>>
             /\ pc[r] \in Active /\ pc'[r] # "idle"
             /\ q # r => pc'[q] = pc[q]
  BY <1>4, HandleFacts DEF Invariant
<1>5. ASSUME NEW r \in Requests, Serve(r) \/ ExecuteLate(r)
      PROVE  UNCHANGED <<input, pc, ctxDone>>
  BY <1>5 DEF Serve, ExecuteLate
<1>6. ASSUME NEW r \in Requests, Disconnect(r)
      PROVE  /\ UNCHANGED <<input, pc>>
             /\ ctxDone' = [ctxDone EXCEPT ![r] = TRUE]
             /\ pc[r] # "idle"
  BY <1>6 DEF Disconnect
<1>7. ASSUME Crash
      PROVE  /\ UNCHANGED <<input, ctxDone>>
             /\ pc' = [r \in Requests |-> IF pc[r] \in Active THEN "lost" ELSE pc[r]]
  BY <1>7 DEF Crash
<1>. QED
  BY <1>2, <1>3, <1>4, <1>5, <1>6, <1>7 DEF Next

-----------------------------------------------------------------------------
(* What is settled stays.                                                  *)

\* An order that was paid or cancelled never changes.
LEMMA SettledRows ==
    ASSUME Invariant, [Next]_vars, NEW o \in Orders,
           orders[o].status \in {"PAID", "CANCELLED"}
    PROVE  orders'[o] = orders[o]
  BY NextTables DEF RowStep

\* What the request r was told agrees with its order.
Final(r) ==
    LET answer == response[r]
    IN  /\ input[r].op = "Pay" /\ answer.code = 200
              => TheOrder(r) = [status           |-> "PAID",
                                transaction_uuid |-> answer.body.transaction_uuid,
                                payment_method   |-> input[r].method]
        /\ input[r].op = "Cancel" /\ answer.code = 200
              => TheOrder(r).status = "CANCELLED"
        /\ input[r].op = "Get" /\ answer.body.status \in {"PAID", "CANCELLED"}
              => TheOrder(r) = answer.body
        /\ "ErrOrderAlreadyPaid" \in answer.message => TheOrder(r).status = "PAID"
        /\ "ErrOrderCancelled" \in answer.message => TheOrder(r).status = "CANCELLED"

\* Nothing was told to who has no answer.
LEMMA NothingIsFinal ==
    ASSUME NEW r \in Requests, response[r] = NoResponse
    PROVE  /\ response[r].code = 0
           /\ response[r].message = {}
           /\ response[r].body.status = "ABSENT"
  BY DEF NoResponse, NoBody

\* Every step keeps Unanswered.
LEMMA NextUnanswered == Invariant /\ AnswerInv /\ [Next]_vars => Unanswered'
<1>. SUFFICES ASSUME Invariant, AnswerInv, [Next]_vars, NEW q \in Requests
              PROVE  /\ pc'[q] # "done" => response'[q] = NoResponse
                     /\ pc'[q] = "idle" => ~ ctxDone'[q]
  BY DEF Unanswered
<1>. QED
  BY SilentStep, InputStep DEF AnswerInv, Unanswered

\* Every step keeps OrdersAreNamed.
LEMMA NextNamed == Invariant /\ AnswerInv /\ [Next]_vars => OrdersAreNamed'
<1>. SUFFICES ASSUME Invariant, AnswerInv, [Next]_vars, NEW q \in Requests,
                     \/ pc'[q] # "idle" /\ input'[q].op \in {"Get", "Pay", "Cancel"}
                     \/ response'[q].message \cap Conflicts # {}
              PROVE  input'[q].order \in Orders
  BY DEF OrdersAreNamed
<1>1. CASE Arrive(q)
  <2>1. pc'[q] # "done" => input'[q].order \in Orders
    BY <1>1, ArriveFacts DEF Invariant
  <2>2. pc'[q] = "done" => input'[q].op \in {"Get", "Pay", "Cancel"}
    BY <1>1, ArriveAnswers
  <2>. QED
    BY <1>1, <2>1, <2>2
       DEF Arrive, BeginCreate, RejectCreate, BeginGet, BeginPay, RejectPay, BeginCancel,
           Accept, Invariant, TypeOK
<1>2. CASE Handle(q)
  BY <1>2, HandleFacts DEF Invariant, InputInv
<1>3. CASE ~ Arrive(q) /\ ~ Handle(q)
  <2>1. response'[q] = response[q]
    BY <1>3, SilentStep
  <2>2. CASE pc[q] # "idle"
    BY <2>1, <2>2, InputStep DEF AnswerInv, OrdersAreNamed
  <2>3. CASE pc[q] = "idle"
    <3>1. response'[q].message = {}
      BY <2>1, <2>3, NothingIsFinal DEF AnswerInv, Unanswered
    <3>2. pc'[q] = "idle"
      BY <1>3, <2>3, ArriveFacts, HandleFacts
         DEF Next, vars, Serve, ExecuteLate, Disconnect, Crash, Active, Kinds, Reads,
             Invariant
    <3>. QED
      BY <3>1, <3>2
  <2>. QED
    BY <2>2, <2>3
<1>. QED
  BY <1>1, <1>2, <1>3

\* Every step keeps AnswersAreFinal: what is told is so by then, and what is told
\* of a paid or a cancelled order stays so.
LEMMA NextFinal == Invariant /\ AnswerInv /\ [Next]_vars => AnswersAreFinal'
<1>. SUFFICES ASSUME Invariant, AnswerInv, [Next]_vars, NEW q \in Requests
              PROVE  Final(q)'
  BY DEF AnswersAreFinal, Final
<1>1. CASE ~ (pc'[q] = "done" /\ (Arrive(q) \/ Handle(q)))
  <2>1. response'[q] = response[q]
    BY <1>1, SilentStep
  <2>2. CASE pc[q] # "done"
    <3>1. /\ response'[q].code = 0
          /\ response'[q].message = {}
          /\ response'[q].body.status = "ABSENT"
      BY <2>1, <2>2, NothingIsFinal DEF AnswerInv, Unanswered
    <3>. QED
      BY <3>1, CodeFacts DEF Final
  <2>3. CASE pc[q] = "done"
    <3>1. input'[q] = input[q] /\ Final(q)
      BY <2>3, InputStep DEF AnswerInv, AnswersAreFinal, Final
    <3>2. /\ input[q].op \in {"Get", "Pay", "Cancel"} => input[q].order \in Orders
          /\ response[q].message \cap Conflicts # {} => input[q].order \in Orders
      BY <2>3 DEF AnswerInv, OrdersAreNamed
    <3>3. TheOrder(q).status \in {"PAID", "CANCELLED"} /\ input[q].order \in Orders
             => orders'[input[q].order] = orders[input[q].order]
      BY SettledRows DEF TheOrder
    <3>4. "ErrOrderAlreadyPaid" \in Conflicts /\ "ErrOrderCancelled" \in Conflicts
      BY DEF Conflicts
    <3>. QED
      BY <2>1, <3>1, <3>2, <3>3, <3>4 DEF Final, TheOrder
  <2>. QED
    BY <2>2, <2>3
<1>2. CASE pc'[q] = "done" /\ Arrive(q)
  <2>1. /\ response'[q].code # 200
        /\ response'[q].body.status = "ABSENT"
        /\ "ErrOrderAlreadyPaid" \notin response'[q].message
        /\ "ErrOrderCancelled" \notin response'[q].message
    BY <1>2, ArriveAnswers DEF NoBody, Conflicts
  <2>. QED
    BY <2>1 DEF Final
<1>3. CASE pc'[q] = "done" /\ Handle(q)
  <2>. DEFINE row == orders'[input[q].order]
  <2>1. /\ input'[q] = input[q]
        /\ Answered(q, row)
        /\ row \in OrderRow
    <3>1. orders' \in [Orders -> OrderRow]
      BY NextTypes DEF TypeOK
    <3>2. input[q].order \in Orders /\ input'[q] = input[q]
      BY <1>3, HandleFacts DEF Invariant, InputInv
    <3>. QED
      BY <1>3, <3>1, <3>2, HandleAnswers
  <2>2. TheOrder(q)' = row
    BY <2>1 DEF TheOrder
  <2>. HIDE DEF row
  <2>3. ASSUME NEW code \in {400, 404, 409, 500}, NEW errs, response'[q] = Refusal(code, errs)
        PROVE  /\ response'[q].code # 200
               /\ response'[q].body.status = "ABSENT"
               /\ response'[q].message = errs
    BY <2>3, CodeFacts DEF Refusal, NoBody
  <2>4. CASE response'[q] = InternalError
    BY <2>3, <2>4 DEF InternalError, Final
  <2>5. CASE /\ response'[q] = OK(NoBody)
             /\ input[q].op = "Create" \/ (input[q].op = "Cancel" /\ row.status = "CANCELLED")
    <3>1. response'[q].message = {} /\ response'[q].body.status = "ABSENT"
      BY <2>5 DEF OK, NoBody
    <3>. QED
      BY <2>1, <2>2, <2>5, <3>1 DEF Final
  <2>6. CASE /\ input[q].op = "Pay"
             /\ row = [status           |-> "PAID",
                       transaction_uuid |-> payResult[q],
                       payment_method   |-> input[q].method]
             /\ response'[q] = OK([NoBody EXCEPT !.transaction_uuid = payResult[q]])
    <3>1. response'[q].message = {} /\ response'[q].body.transaction_uuid = payResult[q]
      BY <2>6 DEF OK, NoBody
    <3>. QED
      BY <2>1, <2>2, <2>6, <3>1 DEF Final
  <2>7. CASE response'[q] = Refusal(404, {"ErrOrderNotFound"})
    <3>1. /\ response'[q].code # 200
          /\ response'[q].body.status = "ABSENT"
          /\ response'[q].message = {"ErrOrderNotFound"}
      BY <2>3, <2>7
    <3>. QED
      BY <3>1 DEF Final
  <2>8. CASE input[q].op = "Get" /\ response'[q] = OK(OrderToDTO(row))
    <3>1. response'[q].message = {} /\ response'[q].body = OrderToDTO(row)
      BY <2>8 DEF OK
    <3>2. OrderToDTO(row).status \in {"PAID", "CANCELLED"} => OrderToDTO(row) = row
      BY <2>1 DEF OrderToDTO, OrderStatusToDTO, OrderRow
    <3>. QED
      BY <2>1, <2>2, <2>8, <3>1, <3>2 DEF Final
  <2>9. ASSUME NEW code \in {404, 409}, response'[q] = Refusal(code, {StatusError(row.status)})
        PROVE  Final(q)'
    <3>1. /\ response'[q].code # 200
          /\ response'[q].body.status = "ABSENT"
          /\ response'[q].message = {StatusError(row.status)}
      BY <2>3, <2>9
    <3>2. /\ StatusError(row.status) = "ErrOrderAlreadyPaid" => row.status = "PAID"
          /\ StatusError(row.status) = "ErrOrderCancelled" => row.status = "CANCELLED"
      BY DEF StatusError
    <3>. QED
      BY <2>2, <3>1, <3>2 DEF Final
  <2>10. CASE \E code \in {404, 409} :
                 response'[q] = Refusal(code, {StatusError(row.status)})
    BY <2>9, <2>10
  <2>. DEFINE Paid == /\ input[q].op = "Pay"
                      /\ row = [status           |-> "PAID",
                                transaction_uuid |-> payResult[q],
                                payment_method   |-> input[q].method]
                      /\ response'[q] = OK([NoBody EXCEPT !.transaction_uuid = payResult[q]])
  <2>11. Paid => Final(q)'
    BY <2>6
  <2>12. Answered(q, row) =>
            \/ Paid
            \/ response'[q] = InternalError
            \/ /\ response'[q] = OK(NoBody)
               /\ input[q].op = "Create" \/ (input[q].op = "Cancel" /\ row.status = "CANCELLED")
            \/ response'[q] = Refusal(404, {"ErrOrderNotFound"})
            \/ input[q].op = "Get" /\ response'[q] = OK(OrderToDTO(row))
            \/ \E code \in {404, 409} :
                  response'[q] = Refusal(code, {StatusError(row.status)})
    BY Zenon DEF Answered
  <2>. HIDE DEF Paid
  <2>. QED
    BY <2>1, <2>4, <2>5, <2>7, <2>8, <2>10, <2>11, <2>12
<1>. QED
  BY <1>1, <1>2, <1>3

-----------------------------------------------------------------------------
(* Calls and statements.                                                   *)

\* Where a payment goes: from the call to its result, and from there to the
\* answer.
LEMMA PaymentMoves ==
    ASSUME Invariant, [Next]_vars, NEW q \in Requests
    PROVE  /\ pc'[q] = "FinishPayment" =>
                 pc[q] = "FinishPayment" \/ ReceiveTransaction(q)
           /\ pc[q] = "PayOrder" =>
                 pc'[q] \in {"PayOrder", "FinishPayment", "ResetPayment", "lost"}
           /\ pc[q] \in {"FinishPayment", "ResetPayment"} =>
                 \/ pc'[q] \in {pc[q], "lost"}
                 \/ Handle(q) /\ pc'[q] = "done"
<1>1. /\ pc \in [Requests -> Active \cup {"idle", "done", "lost"}]
      /\ pc'[q] \notin {"FinishPaymentGet", "ResetPaymentExists"}
  BY NextInvariant DEF Invariant, TypeOK, ProcessingIsOwned
<1>. USE <1>1
<1>2. CASE UNCHANGED vars
  BY <1>2 DEF vars
<1>3. ASSUME NEW r \in Requests, Arrive(r)
      PROVE  pc'[q] = pc[q] \/ (pc[q] = "idle" /\ pc'[q] # "FinishPayment")
  BY <1>3, ArriveFacts DEF Invariant
<1>4. ASSUME NEW r \in Requests, Handle(r), r # q PROVE pc'[q] = pc[q]
  BY <1>4, HandleFacts DEF Invariant
<1>5. CASE Handle(q)
  BY <1>5 DEF Handle, Create, StartPayment, FinishPayment, ResetPayment, Cancel, Read,
              QueryFails, SendPayOrder, ReceiveTransaction, ReceiveError, LoseCall,
              Receive, Reply, Goto, Issues, Kinds, Reads
<1>6. ASSUME NEW r \in Requests, Serve(r) \/ ExecuteLate(r) \/ Disconnect(r)
      PROVE  pc'[q] = pc[q]
  BY <1>6 DEF Serve, ExecuteLate, Disconnect
<1>7. ASSUME Crash PROVE pc'[q] \in {pc[q], "lost"}
  BY <1>7 DEF Crash
<1>. QED
  BY <1>2, <1>3, <1>4, <1>5, <1>6, <1>7 DEF Next

\* Every step keeps ResultIsAnswer: an answer OK is the last of its call.
LEMMA NextResultIsAnswer == Invariant /\ AnswerInv /\ [Next]_vars => ResultIsAnswer'
<1>. SUFFICES ASSUME Invariant, AnswerInv, [Next]_vars, NEW q \in Requests,
                     pc'[q] = "FinishPayment"
              PROVE  calls'[q].state = "OK" /\ payResult'[q] = calls'[q].transaction
  BY DEF ResultIsAnswer
<1>1. CASE pc[q] = "FinishPayment"
  <2>1. calls[q].state = "OK" /\ payResult[q] = calls[q].transaction
    BY <1>1 DEF AnswerInv, ResultIsAnswer
  <2>2. calls'[q] = calls[q] /\ payResult'[q] = payResult[q]
    BY <1>1, <2>1, CallStep, ResultStep DEF Sends, Answers
  <2>. QED
    BY <2>1, <2>2
<1>2. CASE ReceiveTransaction(q)
  BY <1>2 DEF ReceiveTransaction, Receive, Invariant, TypeOK
<1>. QED
  BY <1>1, <1>2, PaymentMoves

\* Every step keeps CallsAreValid: the handler checked the method before it
\* started the payment, and its order is one.
LEMMA NextValid == Invariant /\ AnswerInv /\ [Next]_vars => CallsAreValid'
<1>. SUFFICES ASSUME Invariant, AnswerInv, [Next]_vars, NEW q \in Requests
              PROVE  /\ calls'[q].state # "none" =>
                           IsValid(q)' /\ calls'[q].state # "InvalidArgument"
                     /\ payResult'[q] # "ErrInvalidPaymentMethod"
  BY DEF CallsAreValid
<1>1. payResult'[q] # "ErrInvalidPaymentMethod"
  BY ResultStep, TransactionsAssumption DEF AnswerInv, CallsAreValid, PayErrors
<1>2. CASE calls'[q] = calls[q]
  BY <1>1, <1>2 DEF AnswerInv, CallsAreValid, IsValid
<1>3. CASE Sends(q)
  <2>1. input[q].order \in Orders /\ input[q].method \in PaymentMethods
    BY <1>3 DEF Sends, Invariant, InputInv, Active, OpOf
  <2>. QED
    BY <1>1, <1>3, <2>1 DEF Sends, IsValid, isValidPaymentMethod
<1>4. CASE Answers(q)
  <2>1. ASSUME NEW r \in Requests, Serve(r)
        PROVE  calls'[q] = calls[q] \/ ServeCall(q)
    BY <2>1, AnswerFacts DEF Serve, Invariant
  <2>2. ASSUME NEW r \in Requests, Handle(r) PROVE calls'[q] = calls[q] \/ calls'[q].state = "sent"
    BY <2>2, HandleCalls
  <2>3. ServeCall(q) \/ calls'[q] = calls[q]
    BY <1>4, <2>1, <2>2, ArriveFacts
       DEF Next, vars, ExecuteLate, Disconnect, Crash, Answers, Invariant
  <2>4. IsValid(q)
    BY <1>4 DEF Answers, AnswerInv, CallsAreValid
  <2>5. ASSUME ServeCall(q)
        PROVE  calls'[q].state # "InvalidArgument" /\ IsValid(q)'
    <3>1. ASSUME NEW state \in {"OK", "Internal"}, NEW t, Answer(q, state, t)
          PROVE  calls'[q].state = state
      BY <3>1 DEF Answer, Invariant, TypeOK, PaymentTypeOK, Call
    <3>2. calls'[q].state # "InvalidArgument"
      BY <2>4, <2>5, <3>1 DEF ServeCall, RejectCall, PayOrder, CommitUnknown, InsertFails
    <3>3. calls'[q].order = calls[q].order /\ calls'[q].method = calls[q].method
      BY <2>5, AnswerFacts DEF Invariant
    <3>. QED
      BY <2>4, <3>2, <3>3 DEF IsValid
  <2>. QED
    BY <1>1, <1>2, <2>3, <2>5
<1>. QED
  BY <1>2, <1>3, <1>4, CallStep

\* Every step keeps LateIsInternal: only a query that failed is answered with a
\* statement left behind.
LEMMA NextLateIsInternal == Invariant /\ AnswerInv /\ [Next]_vars => LateIsInternal'
<1>. SUFFICES ASSUME Invariant, AnswerInv, [Next]_vars, NEW q \in Requests,
                     late'[q] # "none", pc'[q] = "done"
              PROVE  response'[q].code = 500
  BY DEF LateIsInternal
<1>1. CASE Arrive(q)
  BY <1>1, ArriveFacts DEF Invariant, LateInv, TypeOK, Kinds
<1>2. CASE Handle(q)
  <2>1. QueryFails(q)
    <3>1. late[q] # "none" => ctxDone[q] /\ pc[q] \in Kinds
      BY <1>2, HandleFacts DEF Invariant, LateInv, TypeOK, Active, Kinds, Reads
    <3>. QED
      BY <1>2, <3>1
         DEF Handle, Create, StartPayment, FinishPayment, ResetPayment, Cancel, Read,
             SendPayOrder, ReceiveTransaction, ReceiveError, LoseCall, Receive, Issues,
             Goto, Kinds, Invariant, TypeOK
  <2>. QED
    BY <2>1, QueryAnswers DEF InternalError, Refusal
<1>3. CASE ~ Arrive(q) /\ ~ Handle(q)
  <2>1. pc[q] = "done" /\ response'[q] = response[q]
    BY <1>3, SilentStep
  <2>2. pc[q] \notin Active
    BY <2>1 DEF Active, Kinds, Reads
  <2>3. late'[q] \in {late[q], "none"}
    <3>1. ASSUME NEW r \in Requests, Handle(r) PROVE late'[q] = late[q]
      BY <1>3, <3>1, HandleFacts DEF Invariant
    <3>2. ASSUME NEW r \in Requests, Arrive(r) \/ Serve(r) \/ ExecuteLate(r) \/ Disconnect(r)
          PROVE  late'[q] \in {late[q], "none"}
      BY <2>2, <3>2, ArriveFacts DEF Serve, ExecuteLate, Disconnect, Invariant, TypeOK
    <3>3. ASSUME Crash PROVE late'[q] = late[q]
      BY <2>2, <3>3 DEF Crash, Active, Invariant, TypeOK
    <3>. QED
      BY <3>1, <3>2, <3>3 DEF Next, vars
  <2>. QED
    BY <2>1, <2>3 DEF AnswerInv, LateIsInternal
<1>. QED
  BY <1>1, <1>2, <1>3

\* Who finishes or resets a payment answers an internal error, or with the
\* receipt of the order.
LEMMA PaymentEnds ==
    ASSUME Invariant, AnswerInv, [Next]_vars, NEW q \in Requests,
           pc[q] \in {"FinishPayment", "ResetPayment"}, Handle(q), pc'[q] = "done"
    PROVE  \/ response'[q].code = 500
           \/ /\ pc[q] = "FinishPayment"
              /\ orders'[input[q].order].status = "PAID"
              /\ orders'[input[q].order].transaction_uuid = payResult[q]
<1>1. input[q].op = "Pay"
  BY DEF Invariant, InputInv, Active, Kinds, OpOf
<1>2. Answered(q, orders'[input[q].order])
  BY HandleAnswers
<1>3. InternalError.code = 500
  BY DEF InternalError, Refusal
<1>4. \/ response'[q] = InternalError
      \/ /\ pc[q] = "FinishPayment"
         /\ orders'[input[q].order] = [status           |-> "PAID",
                                       transaction_uuid |-> payResult[q],
                                       payment_method   |-> input[q].method]
  <2>1. /\ input[q].op # "Create" /\ input[q].op # "Cancel" /\ input[q].op # "Get"
        /\ pc[q] \notin {"StartPaymentGet", "CancelGet"}
    BY <1>1
  <2>. QED
    BY <1>2, <2>1, Zenon DEF Answered
<1>. QED
  BY <1>3, <1>4

\* Every step keeps CallIsAccounted.
LEMMA NextAccounted == Invariant /\ AnswerInv /\ [Next]_vars => CallIsAccounted'
<1>. SUFFICES ASSUME Invariant, AnswerInv, [Next]_vars, NEW q \in Requests,
                     calls'[q].state # "none"
              PROVE  \/ pc'[q] \in {"PayOrder", "FinishPayment", "ResetPayment", "lost"}
                     \/ response'[q].code = 500
                     \/ /\ calls'[q].state = "OK"
                        /\ orders'[calls'[q].order].transaction_uuid = calls'[q].transaction
  BY DEF CallIsAccounted
<1>1. CASE calls[q].state = "none"
  <2>1. ASSUME NEW r \in Requests, Serve(r) PROVE calls'[q] = calls[q]
    BY <1>1, <2>1, AnswerFacts DEF Serve, Invariant
  <2>2. ASSUME NEW r \in Requests, Handle(r)
        PROVE  calls'[q] = calls[q] \/ SendPayOrder(q)
    BY <2>2 DEF Handle, Create, StartPayment, FinishPayment, ResetPayment, Cancel, Read,
                QueryFails, SendPayOrder, SendCall, ReceiveTransaction, ReceiveError,
                LoseCall, Receive, Invariant, TypeOK, PaymentTypeOK
  <2>3. SendPayOrder(q)
    BY <1>1, <2>1, <2>2, ArriveFacts
       DEF Next, vars, ExecuteLate, Disconnect, Crash, Invariant
  <2>4. pc'[q] = "PayOrder"
    BY <2>3 DEF SendPayOrder, Goto, Invariant, TypeOK
  <2>. QED
    BY <2>4
<1>2. CASE /\ calls[q].state = "OK"
           /\ orders[calls[q].order].transaction_uuid = calls[q].transaction
  <2>. DEFINE o == calls[q].order
  <2>1. calls'[q] = calls[q]
    BY <1>2, CallStep DEF Sends, Answers
  <2>2. o \in Orders /\ calls[q].transaction \in Transactions
    BY <1>2 DEF Invariant, CallInv, TypeOK, PaymentTypeOK, Payment
  <2>3. orders[o].status = "PAID"
    BY <1>2, <2>2, NullAssumption DEF Invariant, PaidIsRecorded
  <2>4. orders'[o] = orders[o]
    BY <2>2, <2>3, SettledRows
  <2>. QED
    BY <1>2, <2>1, <2>4
<1>3. CASE response[q].code = 500
  <2>1. pc[q] = "done"
    BY <1>3, NothingIsFinal, CodeFacts DEF AnswerInv, Unanswered
  <2>2. ~ Handle(q) /\ ~ Arrive(q)
    BY <2>1, HandleFacts, ArriveFacts DEF Invariant, Active, Kinds, Reads
  <2>. QED
    BY <1>3, <2>2, SilentStep
<1>4. CASE pc[q] \in {"FinishPayment", "ResetPayment"} /\ calls[q].state # "none"
  <2>1. pc'[q] \in {pc[q], "lost"} \/ (Handle(q) /\ pc'[q] = "done")
    BY <1>4, PaymentMoves
  <2>2. CASE Handle(q) /\ pc'[q] = "done" /\ response'[q].code # 500
    <3>1. /\ pc[q] = "FinishPayment"
          /\ orders'[input[q].order].transaction_uuid = payResult[q]
      BY <1>4, <2>2, PaymentEnds
    <3>2. calls[q].state = "OK" /\ payResult[q] = calls[q].transaction
      BY <3>1 DEF AnswerInv, ResultIsAnswer
    <3>3. calls'[q] = calls[q] /\ calls[q].order = input[q].order
      BY <3>2, CallStep DEF Sends, Answers, Invariant, CallInv
    <3>. QED
      BY <3>1, <3>2, <3>3
  <2>. QED
    BY <1>4, <2>1, <2>2
<1>5. CASE pc[q] \in {"PayOrder", "lost"}
  BY <1>5, PaymentMoves, InputStep
<1>. QED
  BY <1>1, <1>2, <1>3, <1>4, <1>5 DEF AnswerInv, CallIsAccounted

\* The status that the statement of r sets.
LEMMA ExecutedStatus ==
    ASSUME Invariant, NEW r \in Requests, NEW kind \in Kinds,
           pc[r] = kind \/ late[r] = kind, Execute(r, kind)
    PROVE  LET status == orders'[input[r].order].status
           IN  /\ kind = "Create" => status = "PENDING_PAYMENT"
               /\ kind = "FinishPayment" => status = "PAID"
               /\ kind = "ResetPayment" => status = "PENDING_PAYMENT"
               /\ kind = "Cancel" => status = "CANCELLED"
<1>1. input[r].order \in Orders /\ orders[input[r].order] \in OrderRow
  BY ExecuteFacts DEF Invariant, TypeOK
<1>2. CASE kind = "Create"
  BY <1>1, <1>2, ExecuteFacts DEF Invariant, OrderRow
<1>3. CASE kind = "StartPayment"
  BY <1>3
<1>4. CASE kind = "FinishPayment"
  <2>1. orders'[input[r].order] = [status           |-> "PAID",
                                   transaction_uuid |-> payResult[r],
                                   payment_method   |-> input[r].method]
    BY <1>4, ExecuteFacts DEF Invariant
  <2>. QED
    BY <1>4, <2>1
<1>5. CASE kind = "ResetPayment"
  BY <1>1, <1>5, ExecuteFacts DEF Invariant, OrderRow
<1>6. CASE kind = "Cancel"
  BY <1>1, <1>6, ExecuteFacts DEF Invariant, OrderRow
<1>. QED
  BY <1>2, <1>3, <1>4, <1>5, <1>6 DEF Kinds

\* Who answers for an order in PAYMENT_PROCESSING.
Answerable(r) == Owns(r) \/ ctxDone[r] \/ response[r].code = 500 \/ pc[r] = "lost"

\* Somebody who answers for an order goes on to, or changes its row.
LEMMA AnswerableStep ==
    ASSUME Invariant, AnswerInv, [Next]_vars, NEW q \in Requests, Answerable(q),
           Owns(q) => /\ input[q].order \in Orders
                      /\ orders'[input[q].order].status = "PAYMENT_PROCESSING"
    PROVE  Answerable(q)'
<1>1. CASE ctxDone[q] \/ pc[q] = "lost"
  BY <1>1, InputStep DEF Answerable
<1>2. CASE response[q].code = 500
  <2>1. pc[q] = "done"
    BY <1>2, NothingIsFinal, CodeFacts DEF AnswerInv, Unanswered
  <2>2. ~ Handle(q) /\ ~ Arrive(q)
    BY <2>1, HandleFacts, ArriveFacts DEF Invariant, Active, Kinds, Reads
  <2>. QED
    BY <1>2, <2>2, SilentStep DEF Answerable
<1>3. CASE Owns(q) /\ ~ ctxDone[q] /\ pc[q] # "lost" /\ response[q].code # 500
  <2>. DEFINE o == input[q].order
  <2>1. o \in Orders /\ orders'[o].status = "PAYMENT_PROCESSING"
    BY <1>3
  <2>2. orders[o] \in OrderRow /\ orders[o].status = "PAYMENT_PROCESSING"
    BY <1>3, <2>1 DEF Invariant, TypeOK, ProcessingIsOwned, TheOrder
  <2>3. ASSUME NEW kind \in {"FinishPayment", "ResetPayment"}, Execute(q, kind),
               pc[q] = kind \/ late[q] = kind
        PROVE  FALSE
    BY <2>1, <2>3, ExecutedStatus DEF Kinds
  <2>4. Affects("FinishPayment", orders[o]) /\ Affects("ResetPayment", orders[o])
    BY <2>2, StatementFacts
  <2>5. late[q] = "none"
    <3>1. late[q] # "none" => pc[q] = "done"
      BY <1>3 DEF Invariant, LateInv
    <3>. QED
      BY <1>3, <3>1 DEF AnswerInv, LateIsInternal
  <2>6. pc[q] \in {"SendPayOrder", "PayOrder", "FinishPayment", "ResetPayment"}
    BY <1>3, <2>5 DEF Owns
  <2>7. CASE Handle(q)
    <3>1. ~ FinishPayment(q) /\ ~ ResetPayment(q)
      BY <2>3, <2>4 DEF FinishPayment, ResetPayment, Issues, TheOrder
    <3>2. CASE QueryFails(q)
      BY <3>2, QueryAnswers DEF Answerable, InternalError, Refusal
    <3>3. CASE SendPayOrder(q) \/ ReceiveTransaction(q) \/ ReceiveError(q) \/ LoseCall(q)
      <4>1. /\ pc'[q] \in {"PayOrder", "FinishPayment", "ResetPayment"}
            /\ ctxDone'[q] = ctxDone[q]
        BY <3>3 DEF SendPayOrder, ReceiveTransaction, ReceiveError, LoseCall, Receive,
                    Goto, Invariant, TypeOK
      <4>. QED
        BY <1>3, <4>1 DEF Answerable, Owns
    <3>. QED
      BY <2>6, <2>7, <3>1, <3>2, <3>3
         DEF Handle, Create, StartPayment, Cancel, Read, Issues, Reads
  <2>8. ASSUME NEW r \in Requests, Handle(r), r # q
        PROVE  pc'[q] = pc[q] /\ ctxDone'[q] = ctxDone[q]
    BY <2>8, HandleFacts DEF Invariant
  <2>9. ASSUME NEW r \in Requests, Arrive(r)
        PROVE  pc'[q] = pc[q] /\ ctxDone'[q] = ctxDone[q]
    BY <2>6, <2>9, ArriveFacts DEF Invariant
  <2>10. ASSUME NEW r \in Requests, Serve(r) \/ ExecuteLate(r)
         PROVE  pc'[q] = pc[q] /\ ctxDone'[q] = ctxDone[q]
    BY <2>10 DEF Serve, ExecuteLate
  <2>11. ASSUME NEW r \in Requests, Disconnect(r)
         PROVE  pc'[q] = pc[q] /\ (ctxDone'[q] \/ ctxDone'[q] = ctxDone[q])
    BY <2>11 DEF Disconnect, Invariant, TypeOK
  <2>12. CASE Crash
    <3>1. pc'[q] = "lost"
      BY <2>6, <2>12 DEF Crash, Active, Kinds
    <3>. QED
      BY <3>1 DEF Answerable
  <2>13. pc'[q] = pc[q] /\ (ctxDone'[q] \/ ctxDone'[q] = ctxDone[q]) => Answerable(q)'
    BY <1>3, <2>6 DEF Answerable, Owns
  <2>14. UNCHANGED vars => pc'[q] = pc[q] /\ ctxDone'[q] = ctxDone[q]
    BY DEF vars
  <2>. QED
    BY <2>7, <2>8, <2>9, <2>10, <2>11, <2>12, <2>13, <2>14 DEF Next
<1>. QED
  BY <1>1, <1>2, <1>3 DEF Answerable

\* Every step keeps ProcessingHasPayer: StartPayment gives an order its payer,
\* even when it is executed late, because its issuer answered an error by then.
LEMMA NextPayer == Invariant /\ AnswerInv /\ [Next]_vars => ProcessingHasPayer'
<1>. SUFFICES ASSUME Invariant, AnswerInv, [Next]_vars, NEW o \in Orders,
                     orders'[o].status = "PAYMENT_PROCESSING"
              PROVE  \E r \in Requests :
                        /\ input'[r].op = "Pay" /\ input'[r].order = o
                        /\ Answerable(r)'
  BY DEF ProcessingHasPayer, Answerable
<1>1. orders[o] \in OrderRow
  BY DEF Invariant, TypeOK
<1>2. CASE orders'[o] = orders[o]
  <2>1. PICK r \in Requests :
           input[r].op = "Pay" /\ input[r].order = o /\ Answerable(r)
    BY <1>2 DEF AnswerInv, ProcessingHasPayer, Answerable
  <2>2. Answerable(r)'
    BY <2>1, AnswerableStep
  <2>3. pc[r] # "idle"
    <3>1. ASSUME pc[r] = "idle" PROVE FALSE
      <4>1. response[r].code = 0 /\ ~ ctxDone[r]
        BY <3>1, NothingIsFinal DEF AnswerInv, Unanswered
      <4>2. late[r] = "none"
        BY <3>1 DEF Invariant, LateInv, TypeOK, Kinds
      <4>. QED
        BY <2>1, <3>1, <4>1, <4>2, CodeFacts DEF Answerable, Owns
    <3>. QED
      BY <3>1
  <2>. QED
    BY <2>1, <2>2, <2>3, InputStep
<1>3. ASSUME NEW r \in Requests, NEW kind \in Kinds,
             Issues(r, kind) \/ late[r] = kind,
             Affects(kind, TheOrder(r)), Execute(r, kind), orders'[o] # orders[o]
      PROVE  kind = "StartPayment" /\ input[r].order = o
  <2>1. pc[r] = kind \/ late[r] = kind
    BY <1>3 DEF Issues
  <2>2. input[r].order = o
    BY <1>3, <2>1, ExecuteFacts DEF Invariant
  <2>. QED
    BY <1>3, <2>1, <2>2, ExecutedStatus DEF Kinds
<1>4. ASSUME NEW r \in Requests, Handle(r), orders'[o] # orders[o]
      PROVE  /\ input'[r].op = "Pay" /\ input'[r].order = o
             /\ Answerable(r)'
  <2>1. /\ Issues(r, "StartPayment")
        /\ Affects("StartPayment", TheOrder(r))
        /\ input[r].order = o
    BY <1>3, <1>4, HandleTables DEF Invariant
  <2>2. StartPayment(r)
    BY <1>4, <2>1
       DEF Handle, Issues, Create, FinishPayment, ResetPayment, Cancel, Read, QueryFails,
           SendPayOrder, ReceiveTransaction, ReceiveError, LoseCall, Reads
  <2>3. pc'[r] = "SendPayOrder"
    BY <2>1, <2>2 DEF StartPayment, Goto, Invariant, TypeOK
  <2>4. input[r].op = "Pay" /\ input'[r] = input[r]
    BY <2>1, <2>2 DEF StartPayment, Issues, Invariant, InputInv, Active, Kinds, OpOf
  <2>. QED
    BY <2>1, <2>3, <2>4 DEF Answerable, Owns
<1>5. ASSUME NEW r \in Requests, ExecuteLate(r), orders'[o] # orders[o]
      PROVE  /\ input'[r].op = "Pay" /\ input'[r].order = o
             /\ Answerable(r)'
  <2>1. late[r] = "StartPayment" /\ input[r].order = o
    BY <1>3, <1>5 DEF ExecuteLate, Invariant, TypeOK
  <2>2. input[r].op = "Pay" /\ input'[r] = input[r]
    BY <1>5, <2>1 DEF ExecuteLate, Invariant, InputInv, OpOf
  <2>3. ctxDone[r] \/ pc[r] = "lost" \/ response[r].code = 500
    BY <2>1 DEF Invariant, LateInv, AnswerInv, LateIsInternal
  <2>. QED
    BY <1>5, <2>1, <2>2, <2>3 DEF ExecuteLate, Answerable
<1>6. ASSUME NEW r \in Requests, Arrive(r) \/ Serve(r) \/ Disconnect(r)
      PROVE  UNCHANGED orders
  BY <1>6, ArriveFacts DEF Serve, Disconnect, Invariant
<1>7. Crash \/ UNCHANGED vars => UNCHANGED orders
  BY DEF Crash, vars
<1>. QED
  BY <1>2, <1>4, <1>5, <1>6, <1>7 DEF Next

-----------------------------------------------------------------------------
(* The invariant, and what follows.                                        *)

\* Nothing is told, sent or marked when the service starts.
LEMMA InitAnswer == Init => AnswerInv
<1>. SUFFICES ASSUME Init PROVE AnswerInv
  OBVIOUS
<1>1. /\ \A r \in Requests :
            /\ pc[r] = "idle" /\ ctxDone[r] = FALSE /\ late[r] = "none"
            /\ response[r] = NoResponse /\ payResult[r] = Null
            /\ calls[r] = NoCall
      /\ \A o \in Orders : orders[o] \in {PendingOrder, AbsentOrder}
  BY DEF Init, PaymentInit
<1>2. \A r \in Requests :
         /\ response[r].code = 0
         /\ response[r].message = {}
         /\ response[r].body.status = "ABSENT"
  BY <1>1, NothingIsFinal
<1>3. Unanswered
  BY <1>1 DEF Unanswered
<1>4. OrdersAreNamed
  BY <1>1, <1>2 DEF OrdersAreNamed
<1>5. CallsAreValid
  BY <1>1, TransactionsAssumption DEF CallsAreValid, NoCall, PayErrors
<1>6. ResultIsAnswer /\ LateIsInternal
  BY <1>1 DEF ResultIsAnswer, LateIsInternal
<1>7. CallIsAccounted
  BY <1>1 DEF CallIsAccounted, NoCall
<1>8. AnswersAreFinal
  BY <1>2, CodeFacts DEF AnswersAreFinal
<1>9. ProcessingHasPayer
  BY <1>1 DEF ProcessingHasPayer, PendingOrder, AbsentOrder
<1>. QED
  BY <1>3, <1>4, <1>5, <1>6, <1>7, <1>8, <1>9 DEF AnswerInv

\* What ties answers to orders, calls and statements holds in every state.
THEOREM AnswersHold == Spec => []AnswerInv
<1>1. Invariant /\ AnswerInv /\ [Next]_vars => AnswerInv'
  BY NextUnanswered, NextNamed, NextValid, NextResultIsAnswer, NextLateIsInternal,
     NextAccounted, NextFinal, NextPayer DEF AnswerInv
<1>. QED
  BY <1>1, InitAnswer, InvariantHolds, PTL DEF Spec

\* What a client was told is never taken back: a receipt, a cancellation, what
\* Get showed of a settled order, a conflict (pay.go:53-64, cancel.go:14-33).
THEOREM FinalHolds == Spec => []AnswersAreFinal
<1>1. AnswerInv => AnswersAreFinal
  BY DEF AnswerInv
<1>. QED
  BY <1>1, AnswersHold, PTL

\* An order in PAYMENT_PROCESSING has a handler that will take the mark off, or
\* a client who knows that something went wrong (pay.go:19-45).
THEOREM PayerHolds == Spec => []ProcessingHasPayer
<1>1. AnswerInv => ProcessingHasPayer
  BY DEF AnswerInv
<1>. QED
  BY <1>1, AnswersHold, PTL

\* Nobody is charged behind a definite answer: PaymentService says that each
\* row has its call (RowsHaveCalls), and the order service that each call has
\* its handler, its receipt or an answer that leaves the outcome open.
THEOREM AccountHolds == Spec => []ChargeIsAccounted
<1>1. ASSUME Invariant, ChargeInv, AnswerInv, PaymentInvariant PROVE ChargeIsAccounted
  <2>. SUFFICES ASSUME NEW p \in payments
                PROVE  \/ orders[p.order_uuid].transaction_uuid = p.transaction_uuid
                       \/ \E r \in Requests :
                             /\ calls[r].order = p.order_uuid
                             /\ calls[r].transaction = p.transaction_uuid
                             /\ \/ pc[r] \in {"PayOrder", "FinishPayment",
                                               "ResetPayment", "lost"}
                                \/ response[r].code = 500
    BY DEF ChargeIsAccounted
  <2>1. PICK r \in Requests : Drew(r, p)
    BY <1>1 DEF PaymentInvariant, RowsHaveCalls
  <2>2. calls[r].state # "none"
    BY <2>1 DEF Drew
  <2>. QED
    BY <1>1, <2>1, <2>2 DEF Drew, AnswerInv, CallIsAccounted
<1>. QED
  BY <1>1, InvariantHolds, ChargesHold, AnswersHold, PaysByTheProtocol,
     PaymentInvariantHolds, PTL
=============================================================================
