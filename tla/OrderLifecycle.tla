--------------------------- MODULE OrderLifecycle ---------------------------
(***************************************************************************)
(* What the shop promises about an order, whatever fails: the public life  *)
(* of an order (the statuses that GET /orders shows) and the ledger of     *)
(* payments.  An order is placed once; it is settled only by a payment that*)
(* is already in the ledger and was made for it; PAID and CANCELLED are    *)
(* final, and the receipt of a paid order never changes; the ledger only   *)
(* grows, by payments for orders that were placed.                         *)
(*                                                                         *)
(* It does not promise that an order is charged once, nor that a cancelled *)
(* order is not charged: see OnlyChargedOnce and CancelledIsNotCharged in  *)
(* OrderService for when the program keeps to that.                        *)
(***************************************************************************)
CONSTANTS Orders, Existing, PaymentMethods, Transactions, Null

VARIABLES
    status,    \* status[o]: ABSENT, PENDING_PAYMENT, PAID or CANCELLED
    receipt,   \* receipt[o]: the transaction UUID and the payment method
               \* that are shown with the order once it is paid
    ledger     \* the payments made

vars == <<status, receipt, ledger>>

Receipt(t, method) == [transaction_uuid |-> t, payment_method |-> method]

Init ==
    /\ status = [o \in Orders |->
                    IF o \in Existing THEN "PENDING_PAYMENT" ELSE "ABSENT"]
    /\ receipt = [o \in Orders |-> Receipt(Null, Null)]
    /\ ledger = {}

\* POST /orders
Place(o) ==
    /\ status[o] = "ABSENT"
    /\ status' = [status EXCEPT ![o] = "PENDING_PAYMENT"]
    /\ UNCHANGED <<receipt, ledger>>

\* PaymentService records a payment under a UUID that no other has.
Charge(o, method, t) ==
    /\ status[o] # "ABSENT"
    /\ \A p \in ledger : p.transaction_uuid # t
    /\ ledger' = ledger \cup {[transaction_uuid |-> t,
                               order_uuid       |-> o,
                               payment_method   |-> method]}
    /\ UNCHANGED <<status, receipt>>

\* POST /orders/{order_uuid}/pay
Settle(o, p) ==
    /\ status[o] = "PENDING_PAYMENT"
    /\ p.order_uuid = o
    /\ status' = [status EXCEPT ![o] = "PAID"]
    /\ receipt' = [receipt EXCEPT ![o] =
                      Receipt(p.transaction_uuid, p.payment_method)]
    /\ UNCHANGED ledger

\* POST /orders/{order_uuid}/cancel
Withdraw(o) ==
    /\ status[o] = "PENDING_PAYMENT"
    /\ status' = [status EXCEPT ![o] = "CANCELLED"]
    /\ UNCHANGED <<receipt, ledger>>

Next ==
    \E o \in Orders :
        \/ Place(o)
        \/ \E method \in PaymentMethods, t \in Transactions : Charge(o, method, t)
        \/ \E p \in ledger : Settle(o, p)
        \/ Withdraw(o)

Spec == Init /\ [][Next]_vars
=============================================================================
