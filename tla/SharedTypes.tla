----------------------------- MODULE SharedTypes -----------------------------
(***************************************************************************)
(* The values that the services exchange (shared/: the OpenAPI document of *)
(* the order service and the protocol of PaymentService).                  *)
(***************************************************************************)

CONSTANTS
    Orders,          \* well-formed order UUIDs other than uuid.Nil
    PaymentMethods,  \* CARD, SBP, CREDIT_CARD, INVESTOR_MONEY
    BadMethod,       \* any other method (UNSPECIFIED, or an unknown enum)
    Transactions,    \* transaction UUIDs, which uuid.NewRandom draws from
    Null             \* SQL NULL, and a field that is not set

ASSUME NullAssumption == Null \notin Transactions \cup PaymentMethods \cup Orders

ASSUME BadMethodAssumption == BadMethod \notin PaymentMethods

\* Wrong: nothing is checked.
AnyMethod(method) == TRUE

\* isValidPaymentMethod of both services.
isValidPaymentMethod(method) == method \in PaymentMethods
=============================================================================
