----------------------------- MODULE MCCheckout ------------------------------
(***************************************************************************)
(* Checkout with five parts, one of them out of stock and one with a price *)
(* that makes the sum of an order greater than Limit - 1.                  *)
(***************************************************************************)
EXTENDS Checkout

CONSTANTS hull, engine, shield, gun, soldOut, unknown

MCCatalog ==
    hull   :> [part_type |-> "HULL", name |-> 1, price |-> 3, stock_quantity |-> 1] @@
    engine :> [part_type |-> "ENGINE", name |-> 2, price |-> 4, stock_quantity |-> 2] @@
    shield :> [part_type |-> "SHIELD", name |-> 3, price |-> 2, stock_quantity |-> 1] @@
    gun    :> [part_type |-> "WEAPON", name |-> 5, price |-> 2, stock_quantity |-> 3] @@
    soldOut :> [part_type |-> "WEAPON", name |-> 4, price |-> 1, stock_quantity |-> 0]

Body(h, e, s, w) == [hull |-> h, engine |-> e, shield |-> s, weapon |-> w]

\* Two, three and four parts; an engine where the hull belongs; a part asked
\* for twice; none in stock, in the first place and in the last; not known, with
\* and without stock; a nil UUID in each kind of place.
MCInputs ==
    {Body(hull, engine, None, None), Body(hull, engine, shield, None),
     Body(hull, engine, shield, gun), Body(engine, hull, None, shield),
     Body(hull, engine, hull, None), Body(engine, engine, None, None),
     Body(hull, engine, None, soldOut), Body(soldOut, engine, shield, None),
     Body(hull, unknown, None, None), Body(hull, unknown, None, soldOut),
     Body(BadUUID, engine, None, None), Body(hull, engine, BadUUID, unknown)}

Symmetry == Permutations(Callers) \cup Permutations(OrderUUIDs)
=============================================================================
