--------------------------- MODULE MCOrderService ---------------------------
(***************************************************************************)
(* OrderService on small instances.                                        *)
(***************************************************************************)
EXTENDS OrderService, TLC

Symmetry ==
    Permutations(Requests) \cup Permutations(Transactions) \cup Permutations(PaymentMethods)
=============================================================================
