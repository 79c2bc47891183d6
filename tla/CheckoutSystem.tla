--------------------------- MODULE CheckoutSystem ---------------------------
(***************************************************************************)
(* The orders and payment services together.  They share no state: the     *)
(* saga's ChargeActivity calls POST /charges with the order id as key, one *)
(* call for each attempt, and a call whose attempt has timed out goes on   *)
(* inside payment beside the next one.                                     *)
(*                                                                         *)
(* POST /charges is open to every caller.  A direct call, one that no saga *)
(* has sent, brings any key, the id of an order included, any amount, and  *)
(* any order_id, which payment stores and never compares: the saga's call  *)
(* is answered 202 when its key has a row, whoever that row is for.        *)
(***************************************************************************)
EXTENDS Integers

CONSTANTS
  Requests, Keys, Prices, Quantities, MaxAttempts, NoKey, NoOrder, NoCharge,
  DirectCalls,      \* calls of POST /charges that no saga has sent
  DirectKey,        \* the key of each, which may be the id of an order
  DirectAmounts,    \* the amounts they may carry
  CancelOperators,  \* callers of the cancel endpoint of orders
  RefundOperators   \* callers of the refund endpoint of payment

VARIABLES
  request, key, quantity, handle, status, total, tuples, saga, tries, quote,
  cancelCall, cancel, cancelTries,
  call, amount, charge, readable, settling, chargeTries, settledAt,
  refundCall, refund, refundTries, reversedAt

OrderIds == Requests

\* The calls of ChargeActivity: the order, which is also the key, and the
\* attempt.
ChargeCalls == OrderIds \X (1 .. MaxAttempts)
OrderOf(c) == c[1]
PaymentCalls == ChargeCalls \union DirectCalls
ChargeKey ==
  [c \in PaymentCalls |-> IF c \in ChargeCalls THEN OrderOf(c) ELSE DirectKey[c]]
Totals == {price * q : price \in Prices, q \in Quantities}

\* What the two services assume of the constants they share.
ASSUME CheckoutConstants ==
  /\ MaxAttempts \in Nat \ {0}
  /\ Prices \subseteq Nat
  /\ Quantities \subseteq Nat \ {0}
  /\ NoKey \notin Keys
  /\ NoOrder \notin Requests
  /\ ChargeCalls \intersect DirectCalls = {}
  /\ DirectAmounts \subseteq Int
  /\ NoCharge \notin PaymentCalls

O == INSTANCE Orders WITH Operators <- CancelOperators
P == INSTANCE Payment WITH
       Calls <- PaymentCalls,
       KeyOf <- ChargeKey,
       Amounts <- Totals \union DirectAmounts,
       Operators <- RefundOperators

ordersVars ==
  <<request, key, quantity, handle, status, total, tuples, saga, tries, quote,
    cancelCall, cancel, cancelTries>>
paymentVars ==
  <<call, amount, charge, readable, settling, chargeTries, settledAt,
    refundCall, refund, refundTries, reversedAt>>
vars == <<ordersVars, paymentVars>>

-----------------------------------------------------------------------------
\* The call of the current attempt.
CurrentCall(o) == <<o, tries[o] + 1>>

\* The request leaves orders and reaches payment; it may sit there unread
\* for as long as it takes.
SendCharge(o) ==
  /\ O!SendCharge(o)
  /\ P!ReceiveCharge(CurrentCall(o), quote[o])

\* The attempt ends with payment's 202.
ChargeAccepted(o) ==
  /\ call[CurrentCall(o)] = "accepted"
  /\ O!ChargeAccepted(o)
  /\ UNCHANGED paymentVars

SagaStep(o) ==
  \/ SendCharge(o)
  \/ ChargeAccepted(o)
  \/ (O!LocalSagaStep(o) \/ O!ChargeAttemptFailed(o)) /\ UNCHANGED paymentVars

OrdersStep ==
  /\ \/ \E r \in Requests :
          O!RejectCheckout(r) \/ O!ReceiveCheckout(r) \/ O!HandlerStep(r)
     \/ \E o \in OrderIds : O!MarkCancelled(o)
     \/ \E op \in CancelOperators : O!CancelHandlerStep(op)
  /\ UNCHANGED paymentVars

PaymentStep == P!LocalStep /\ UNCHANGED ordersVars

\* Nothing about a direct call is checked against orders.
ReceiveDirectCharge(c) ==
  /\ \E a \in DirectAmounts : P!ReceiveCharge(c, a)
  /\ UNCHANGED ordersVars

Init == O!Init /\ P!Init
Next ==
  \/ OrdersStep \/ PaymentStep
  \/ \E o \in OrderIds : SagaStep(o)
  \/ \E c \in DirectCalls : ReceiveDirectCharge(c)

Spec == Init /\ [][Next]_vars

-----------------------------------------------------------------------------
(* Properties *)

\* The rows of an order's own charge, and whether a direct call has taken the
\* key that its charge is made under.
ChargesOf(o) == {c \in ChargeCalls : OrderOf(c) = o /\ P!Exists(c)}
KeyTaken(o) == \E c \in DirectCalls : DirectKey[c] = o /\ P!Exists(c)

\* The buyer's key pays once: over every checkout that repeats it and every
\* attempt of their charges, the processor settles at most one charge that the
\* sagas have asked for.
PaidOncePerKey ==
  \A c, d \in settledAt \intersect ChargeCalls :
    key[OrderOf(c)] = key[OrderOf(d)] => c = d

\* ORD-008 across the two services: a charge row that a saga's call inserts is
\* for an order that its buyer can read, and for the amount the order shows.
ChargeMatchesOrder ==
  \A c \in ChargeCalls :
    P!Exists(c) =>
      /\ O!Exists(OrderOf(c)) /\ tuples[OrderOf(c)] = O!Relations
      /\ amount[c] = total[OrderOf(c)] /\ amount[c] > 0

\* ORD-006: an order is confirmed only with its own charge recorded, also when
\* another attempt of the same call inserted it, unless a direct call has taken
\* the key: payment answers the saga for that call's row then.
ConfirmedIsCharged ==
  \A o \in OrderIds :
    status[o] = "confirmed" \/ saga[o] = "completed" => ChargesOf(o) # {} \/ KeyTaken(o)

\* The amount of an order never moves once its own charge exists.
ChargedTotalStands ==
  [][\A o \in OrderIds : ChargesOf(o) # {} => total'[o] = total[o]]_vars

\* The system keeps the promise of Placement: the order of a key is the row
\* that carries it, the charge the row its saga's calls have in payment.
PlacedOrder(k) ==
  IF \E o \in OrderIds : O!Exists(o) /\ key[o] = k
    THEN CHOOSE o \in OrderIds : O!Exists(o) /\ key[o] = k
    ELSE NoOrder

ChargedAmount(o) ==
  IF o # NoOrder /\ ChargesOf(o) # {}
    THEN amount[CHOOSE c \in ChargesOf(o) : TRUE]
    ELSE 0

DecisionOn(o) ==
  IF o # NoOrder /\ status[o] # "pending" THEN status[o] ELSE "open"

Promise == INSTANCE Placement WITH
             Amounts <- Totals \ {0},
             taken <- {o \in OrderIds : KeyTaken(o)},
             placed <- [k \in Keys |-> PlacedOrder(k)],
             charged <- [k \in Keys |-> ChargedAmount(PlacedOrder(k))],
             decision <- [k \in Keys |-> DecisionOn(PlacedOrder(k))]

PlacementKept == Promise!Spec
=============================================================================
