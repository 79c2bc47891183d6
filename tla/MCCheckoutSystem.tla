-------------------------- MODULE MCCheckoutSystem --------------------------
(* One checkout, an operator, and a direct call under the order's id.        *)
EXTENDS CheckoutSystem, TLC

CONSTANTS r1, k1, op1, d1

MCQuantities == {2}
MCPrices == {0, 3}
MCDirectKey == d1 :> r1
=============================================================================
