------------------------------ MODULE MCOrders ------------------------------
(* Small instances of Orders: two checkouts that repeat one key, and an       *)
(* operator who cancels.  The arithmetic of their totals is checked along.   *)
EXTENDS OrderAmounts

CONSTANTS r1, r2, k1, op1

\* A free product and one with a price.
MCPrices == {0, 3}
MCQuantities == {2}

\* Debits and credits, with every remainder and both kinds of tie.
MCUnits == -25 .. 25
MCParts == (-8 .. 8) \ {0}
=============================================================================
