--------------------------- MODULE PaymentService ---------------------------
(***************************************************************************)
(* PaymentService: a gRPC server with one method, PayOrder, over one table,*)
(* payments.  A call is delivered at most once (grpc-go retries no call    *)
(* that the server may have seen); it validates its arguments, draws a     *)
(* fresh transaction UUID and inserts one row in a transaction.            *)
(*                                                                         *)
(* What a caller learns is weaker than what the table holds: when the      *)
(* acknowledgement of the COMMIT or the answer itself is lost, the row is  *)
(* there and the caller is told of an error.                               *)
(***************************************************************************)
EXTENDS SharedTypes, Naturals, FiniteSets

CONSTANTS
    Requests,        \* identities of calls (at most one call per request)
    BadUUID,         \* a malformed order UUID, or uuid.Nil
    Faults           \* the faults of the environment that may occur

(***************************************************************************)
(* "insert"     the INSERT of a payment fails and leaves no row            *)
(* "reply"      PaymentService records the payment, and what it answers or *)
(*              what reaches the order service is an error                 *)
(* "db"         a statement of the order service is reported as failed; it *)
(*              took no effect, or Postgres executes it later              *)
(* "disconnect" an HTTP client goes away: the request's context is done    *)
(* "crash"      the order service stops between any two steps              *)
(***************************************************************************)
FaultKinds == {"insert", "reply", "db", "disconnect", "crash"}

ASSUME FaultsAssumption == Faults \subseteq FaultKinds

ASSUME BadUUIDAssumption == BadUUID \notin Orders

VARIABLES
    payments,   \* the table payments: a set of rows
    calls       \* calls[c]: the PayOrder call c, the transaction UUID of its
                \* row, and the code answered (the UUID is told with OK only)

paymentVars == <<payments, calls>>

Payment ==
    [transaction_uuid : Transactions,
     order_uuid       : Orders,
     payment_method   : PaymentMethods]

CallStates == {"none", "sent", "OK", "InvalidArgument", "Internal"}

Call ==
    [state       : CallStates,
     order       : Orders \cup {BadUUID, Null},
     method      : PaymentMethods \cup {BadMethod, Null},
     transaction : Transactions \cup {Null}]

NoCall ==
    [state |-> "none", order |-> Null, method |-> Null, transaction |-> Null]

PaymentInit ==
    /\ payments = {}
    /\ calls = [c \in Requests |-> NoCall]

-----------------------------------------------------------------------------
\* uuid.NewRandom, and the PRIMARY KEY of the table.
NewRandom(t) == t \in Transactions \ {p.transaction_uuid : p \in payments}

\* Wrong: the row names some order, not the caller's.
SwappedPayment(c, t) ==
    [transaction_uuid |-> t,
     order_uuid       |-> CHOOSE o \in Orders : TRUE,
     payment_method   |-> calls[c].method]

PaymentOf(c, t) ==
    [transaction_uuid |-> t,
     order_uuid       |-> calls[c].order,
     payment_method   |-> calls[c].method]

Answer(c, state, t) ==
    calls' = [calls EXCEPT ![c].state = state, ![c].transaction = t]

\* A caller sends PayOrder(order, method).
SendCall(c, order, method) ==
    /\ calls[c].state = "none"
    /\ calls' = [calls EXCEPT ![c] = [state |-> "sent", order |-> order,
                                      method |-> method, transaction |-> Null]]
    /\ UNCHANGED payments

\* The order UUID parses and is not uuid.Nil, and the method is known.
IsValid(c) == calls[c].order \in Orders /\ isValidPaymentMethod(calls[c].method)

\* ErrInvalidUUID and ErrInvalidPaymentMethod become InvalidArgument.
RejectCall(c) ==
    /\ calls[c].state = "sent"
    /\ ~ IsValid(c)
    /\ Answer(c, "InvalidArgument", Null)
    /\ UNCHANGED payments

\* Wrong: the transaction is tried again with a new UUID after it committed.
RetriedPayOrder(c, t) ==
    /\ calls[c].state = "sent"
    /\ IsValid(c)
    /\ NewRandom(t)
    /\ \E u \in Transactions :
          NewRandom(u) /\ payments' = payments \cup {PaymentOf(c, u), PaymentOf(c, t)}
    /\ Answer(c, "OK", t)

\* The payment is committed and the call answered with its UUID.
PayOrder(c, t) ==
    /\ calls[c].state = "sent"
    /\ IsValid(c)
    /\ NewRandom(t)
    /\ payments' = payments \cup {PaymentOf(c, t)}
    /\ Answer(c, "OK", t)

\* The payment is committed and the server does not learn of it: txManager.Do
\* returns the error of the COMMIT, which the caller gets as Internal, without
\* the UUID that was drawn.
CommitUnknown(c, t) ==
    /\ "reply" \in Faults
    /\ calls[c].state = "sent"
    /\ IsValid(c)
    /\ NewRandom(t)
    /\ payments' = payments \cup {PaymentOf(c, t)}
    /\ Answer(c, "Internal", t)

\* uuid.NewRandom or the INSERT fails, or the context of the caller is done:
\* the transaction is rolled back.
InsertFails(c) ==
    /\ Faults \cap {"insert", "disconnect", "crash"} # {}
    /\ calls[c].state = "sent"
    /\ IsValid(c)
    /\ Answer(c, "Internal", Null)
    /\ UNCHANGED payments

\* What the server does with the call c.
ServeCall(c) ==
    \/ RejectCall(c)
    \/ \E t \in Transactions : PayOrder(c, t)
    \/ \E t \in Transactions : CommitUnknown(c, t)
    \/ InsertFails(c)

PaymentNext ==
    \E c \in Requests :
        \/ \E order \in Orders \cup {BadUUID},
              method \in PaymentMethods \cup {BadMethod} :
                 SendCall(c, order, method)
        \/ ServeCall(c)

PaymentSpec == PaymentInit /\ [][PaymentNext]_paymentVars

-----------------------------------------------------------------------------
(* Properties                                                              *)

\* The columns of every row are those of a valid payment: no call with an
\* unknown method or a bad order UUID reaches the table (service.go:26-34).
PaymentTypeOK ==
    /\ payments \subseteq Payment
    /\ calls \in [Requests -> Call]

\* A transaction UUID that a caller was given names a row, and that row is for
\* the order and the method the caller sent (service.go:41-58).
AnsweredIsRecorded ==
    \A c \in Requests :
        calls[c].state = "OK" =>
            [transaction_uuid |-> calls[c].transaction,
             order_uuid       |-> calls[c].order,
             payment_method   |-> calls[c].method] \in payments

\* A call charges at most once and only when it was answered OK or Internal:
\* the rows of an order are no more than the calls for it that were answered.
ChargedAtMostOncePerCall ==
    \A o \in Orders :
        Cardinality({p \in payments : p.order_uuid = o})
           <= Cardinality({c \in Requests : /\ calls[c].order = o
                                            /\ calls[c].state \in {"OK", "Internal"}})
=============================================================================
