----------------------------- MODULE MCPayment ------------------------------
(* Small instances of Payment: two calls that repeat one Idempotency-Key, and *)
(* operators that refund.                                                    *)
EXTENDS Payment

CONSTANTS c1, c2, k1, op1, op2

\* Two calls with one key, one of them a retry of the other.
MCSameKey == [c \in {c1, c2} |-> k1]

\* An amount that is refused and one that is not.
MCAmounts == {0, 5}
=============================================================================
