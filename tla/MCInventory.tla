----------------------------- MODULE MCInventory -----------------------------
(***************************************************************************)
(* Inventory over a catalog in which two engines share a name, two hulls   *)
(* do not, a part has no known type and the names are not in the order of  *)
(* the UUIDs.                                                              *)
(***************************************************************************)
EXTENDS Inventory

CONSTANTS p1, p2, p3, p4, p5, unknown

MCCatalog ==
    p1 :> [part_type |-> "HULL", name |-> 3, price |-> 3, stock_quantity |-> 1] @@
    p2 :> [part_type |-> "ENGINE", name |-> 2, price |-> 4, stock_quantity |-> 1] @@
    p3 :> [part_type |-> "ENGINE", name |-> 2, price |-> 7, stock_quantity |-> 0] @@
    p4 :> [part_type |-> "UNSPECIFIED", name |-> 1, price |-> 1, stock_quantity |-> 1] @@
    p5 :> [part_type |-> "HULL", name |-> 1, price |-> 2, stock_quantity |-> 1]

MCQueries ==
    [uuids     : {<<>>, <<p2>>, <<p3, p1>>, <<p1, p2, p1>>, <<p4, unknown>>, <<p1, BadUUID>>},
     part_type : PartTypes \cup {"UNSPECIFIED"}]

Symmetry == Permutations(Callers)
=============================================================================
