----------------------------- MODULE OrderModel -----------------------------
(***************************************************************************)
(* The data of the order service: the statuses of an order, the statements *)
(* that change one, and what each handler answers.                         *)
(***************************************************************************)
EXTENDS SharedTypes, Naturals

\* "ABSENT" stands for an order that has no row.
Statuses ==
    {"ABSENT", "PENDING_PAYMENT", "PAYMENT_PROCESSING", "PAID", "CANCELLED"}

OrderRow ==
    [status           : Statuses,
     transaction_uuid : Transactions \cup {Null},
     payment_method   : PaymentMethods \cup {Null}]

AbsentOrder ==
    [status |-> "ABSENT", transaction_uuid |-> Null, payment_method |-> Null]

PendingOrder == [AbsentOrder EXCEPT !.status = "PENDING_PAYMENT"]

-----------------------------------------------------------------------------
(***************************************************************************)
(* The statements.  Each is one UPDATE ... SET status = set WHERE uuid = $1*)
(* AND status = where, which Postgres executes atomically; Create is the   *)
(* transaction that inserts the order with its items.                      *)
(***************************************************************************)
Statement(where, set) == [where |-> where, set |-> set]

CreateStatement == Statement({"ABSENT"}, "PENDING_PAYMENT")

\* Wrong: a paid order can be paid again.
RestartStatement == Statement({"PENDING_PAYMENT", "PAID"}, "PAYMENT_PROCESSING")

\* Wrong: the WHERE clause lets a second payment in.
UncheckedStartStatement ==
    Statement({"PENDING_PAYMENT", "PAYMENT_PROCESSING"}, "PAYMENT_PROCESSING")

StartPaymentStatement == Statement({"PENDING_PAYMENT"}, "PAYMENT_PROCESSING")

FinishPaymentStatement == Statement({"PAYMENT_PROCESSING"}, "PAID")

\* Wrong: $2 and $3 swapped.
SwappedResetStatement == Statement({"PENDING_PAYMENT"}, "PAYMENT_PROCESSING")

ResetPaymentStatement == Statement({"PAYMENT_PROCESSING"}, "PENDING_PAYMENT")

\* Wrong: an order can be cancelled while it is being paid.
UncheckedCancelStatement ==
    Statement({"PENDING_PAYMENT", "PAYMENT_PROCESSING"}, "CANCELLED")

\* Wrong: a paid order can be cancelled.
CancelPaidStatement == Statement({"PENDING_PAYMENT", "PAID"}, "CANCELLED")

CancelStatement == Statement({"PENDING_PAYMENT"}, "CANCELLED")

Kinds == {"Create", "StartPayment", "FinishPayment", "ResetPayment", "Cancel"}

StatementOf ==
    [k \in Kinds |->
        CASE k = "Create"        -> CreateStatement
          [] k = "StartPayment"  -> StartPaymentStatement
          [] k = "FinishPayment" -> FinishPaymentStatement
          [] k = "ResetPayment"  -> ResetPaymentStatement
          [] k = "Cancel"        -> CancelStatement]

\* RowsAffected() > 0
Affects(kind, row) == row.status \in StatementOf[kind].where

\* Wrong: the receipt is not stored.
StatusOnly(kind, row, transaction, method) ==
    [row EXCEPT !.status = StatementOf[kind].set]

\* The row after the statement; only FinishPayment sets the other columns.
Updated(kind, row, transaction, method) ==
    IF kind = "FinishPayment"
    THEN [status           |-> StatementOf[kind].set,
          transaction_uuid |-> transaction,
          payment_method   |-> method]
    ELSE [row EXCEPT !.status = StatementOf[kind].set]

-----------------------------------------------------------------------------
(***************************************************************************)
(* Errors and answers.  A handler maps a set of joined errors (errors.Join)*)
(* to one answer; "internal" is every error that no case of a handler      *)
(* names.  A message is the set of errors it speaks of.                    *)
(***************************************************************************)
Errors ==
    {"ErrOrderNotFound", "ErrOrderAlreadyPaid", "ErrOrderCancelled",
     "ErrPaymentInProgress", "ErrPartNotFound", "ErrOutOfStock",
     "ErrInvalidUUID", "ErrInvalidPaymentMethod", "internal"}

\* The public statuses: PAYMENT_PROCESSING is shown as PENDING_PAYMENT.
OrderStatusToDTO(status) ==
    IF status \in {"PAID", "CANCELLED"} THEN status ELSE "PENDING_PAYMENT"

OrderToDTO(row) == [row EXCEPT !.status = OrderStatusToDTO(row.status)]

NoBody ==
    [status |-> "ABSENT", transaction_uuid |-> Null, payment_method |-> Null]

Response ==
    [code : {0, 200, 400, 404, 409, 500}, message : SUBSET Errors, body : OrderRow]

NoResponse == [code |-> 0, message |-> {}, body |-> NoBody]

OK(body) == [code |-> 200, message |-> {}, body |-> body]

Refusal(code, errs) == [code |-> code, message |-> errs, body |-> NoBody]

InternalError == Refusal(500, {})

Conflicts == {"ErrOrderAlreadyPaid", "ErrOrderCancelled", "ErrPaymentInProgress"}

createErrorResponse(errs) ==
    IF "ErrInvalidUUID" \in errs THEN Refusal(400, errs)
    ELSE IF "ErrPartNotFound" \in errs THEN Refusal(404, errs)
    ELSE IF "ErrOutOfStock" \in errs THEN Refusal(409, errs)
    ELSE InternalError

getErrorResponse(errs) ==
    IF "ErrOrderNotFound" \in errs THEN Refusal(404, errs) ELSE InternalError

\* Wrong: every other error is answered as a conflict.
ConflictByDefault(errs) ==
    IF "ErrOrderNotFound" \in errs THEN Refusal(404, errs)
    ELSE IF "ErrInvalidPaymentMethod" \in errs THEN Refusal(400, errs)
    ELSE Refusal(409, errs)

payErrorResponse(errs) ==
    IF "ErrOrderNotFound" \in errs THEN Refusal(404, errs)
    ELSE IF "ErrInvalidPaymentMethod" \in errs THEN Refusal(400, errs)
    ELSE IF Conflicts \cap errs # {} THEN Refusal(409, errs)
    ELSE InternalError

cancelErrorResponse(errs) ==
    IF "ErrOrderNotFound" \in errs THEN Refusal(404, errs)
    ELSE IF Conflicts \cap errs # {} THEN Refusal(409, errs)
    ELSE InternalError

\* What Pay and Cancel return when their statement affected no row and the
\* order was then read with this status.  A status of PENDING_PAYMENT, which
\* only a reset in between can leave, falls into the default of the switch.
StatusError(status) ==
    CASE status = "PAYMENT_PROCESSING" -> "ErrPaymentInProgress"
      [] status = "PAID"               -> "ErrOrderAlreadyPaid"
      [] status = "CANCELLED"          -> "ErrOrderCancelled"
      [] OTHER                         -> "ErrOrderNotFound"

=============================================================================
