---------------------------- MODULE MCOrderMemory ----------------------------
(***************************************************************************)
(* OrderMemory on a small instance: some requests are handlers, another    *)
(* calls PaymentService directly.                                          *)
(***************************************************************************)
EXTENDS OrderMemory
=============================================================================
