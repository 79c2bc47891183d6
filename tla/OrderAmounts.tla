---------------------------- MODULE OrderAmounts ----------------------------
(***************************************************************************)
(* The amounts of money that orders record, and what the money library     *)
(* does to them when they are split, or scaled and rounded.                *)
(***************************************************************************)
EXTENDS Orders, Money

\* The totals of the orders, and the credits that give them back.
RecordedAmounts == {total[o] : o \in OrderIds} \union {-total[o] : o \in OrderIds}

\* The parts of a split sum to the amount and share its sign, for each amount
\* that an order records, its credit, and every amount of the reference range.
SplitLosesNothing ==
  UnitsSplitExactly /\ \A u \in RecordedAmounts : SplitsExactly(u)

\* A division rounds to a nearest quotient and breaks ties by its mode, for the
\* same amounts and for divisors of either sign.
RoundsToNearest ==
  UnitsDivideToNearest /\ \A u \in RecordedAmounts : DividesToNearest(u)
=============================================================================
