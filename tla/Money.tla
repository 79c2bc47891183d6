------------------------------- MODULE Money --------------------------------
(***************************************************************************)
(* The arithmetic of libs/go/money on the units of an amount, integers of  *)
(* any size.  Go divides toward zero, TLA+ toward minus infinity, and the  *)
(* two differ for negative amounts such as refunds and credits.            *)
(***************************************************************************)
EXTENDS Integers, Functions

CONSTANTS
  MoneyUnits,    \* the amounts that the reference definitions are checked over
  MoneyParts     \* the divisors

ASSUME MoneyConstants ==
  /\ \A u \in MoneyUnits : u \in Int
  /\ \A n \in MoneyParts : n \in Int \ {0}

Modes == {"HalfEven", "HalfUp", "Down"}

AbsOf(u) == IF u < 0 THEN -u ELSE u

\* big.Int.QuoRem: the quotient is truncated toward zero.
Quo(u, d) ==
  LET q == AbsOf(u) \div AbsOf(d) IN IF (u < 0) # (d < 0) THEN -q ELSE q
RemOf(u, d) == u - d * Quo(u, d)

\* Mutant of RoundsAway: a tie always goes up, as in a rounding by (u + d/2)/d.
TiesAway(u, d, mode) ==
  mode # "Down" /\ 2 * AbsOf(RemOf(u, d)) >= AbsOf(d)

\* divRound: whether the quotient moves away from zero by one.
RoundsAway(u, d, mode) ==
  /\ mode # "Down"
  /\ \/ 2 * AbsOf(RemOf(u, d)) > AbsOf(d)
     \/ /\ 2 * AbsOf(RemOf(u, d)) = AbsOf(d)
        /\ mode = "HalfUp" \/ Quo(u, d) % 2 = 1

DivRound(u, d, mode) ==
  IF RoundsAway(u, d, mode)
  THEN Quo(u, d) + (IF (u < 0) # (d < 0) THEN -1 ELSE 1)
  ELSE Quo(u, d)

\* Mutant of Remainder: its direction is taken to be that of a debit.
RemainderUpward(u, n) == [size |-> u % n, step |-> 1]

\* What the first parts of a split take, and in which direction.
Remainder(u, n) ==
  [size |-> AbsOf(RemOf(u, n)), step |-> IF RemOf(u, n) < 0 THEN -1 ELSE 1]

Split(u, n) ==
  LET rest == Remainder(u, n)
  IN  [i \in 1 .. n |-> Quo(u, n) + (IF i <= rest.size THEN rest.step ELSE 0)]

-----------------------------------------------------------------------------
(* Reference definitions *)

\* The parts sum to the amount, differ by one unit at most, and none has the
\* other sign.
SplitsExactly(u) ==
  \A n \in {m \in MoneyParts : m > 0} :
    LET parts == Split(u, n)
    IN  /\ FoldFunction(LAMBDA part, sum : part + sum, 0, parts) = u
        /\ \A i, j \in 1 .. n : AbsOf(parts[i] - parts[j]) <= 1
        /\ \A i \in 1 .. n : parts[i] * u >= 0

\* The error of a rounded quotient, in parts of the divisor.
Error(u, d, q) == AbsOf(u - d * q)

\* A rounded quotient is a nearest one; of two nearest, HalfEven takes the even
\* one and HalfUp the one away from zero.  Down never exceeds the exact value.
DividesToNearest(u) ==
  \A d \in MoneyParts, mode \in Modes :
    LET q == DivRound(u, d, mode)
        tie == 2 * Error(u, d, q) = AbsOf(d)
    IN  /\ mode # "Down" => 2 * Error(u, d, q) <= AbsOf(d)
        /\ mode = "HalfEven" /\ tie => q % 2 = 0
        /\ mode = "HalfUp" /\ tie => AbsOf(d * q) > AbsOf(u)
        /\ mode = "Down" => Error(u, d, q) < AbsOf(d) /\ AbsOf(d * q) <= AbsOf(u)

UnitsSplitExactly    == \A u \in MoneyUnits : SplitsExactly(u)
UnitsDivideToNearest == \A u \in MoneyUnits : DividesToNearest(u)
=============================================================================
