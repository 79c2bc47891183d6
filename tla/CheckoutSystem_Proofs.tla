----------------------- MODULE CheckoutSystem_Proofs ------------------------
(***************************************************************************)
(* Theorems about the two services together, for any number of checkouts   *)
(* that race for a key, any number of attempts of their charges, and any   *)
(* direct calls of POST /charges, under whatever keys and amounts.  What   *)
(* Orders_Proofs and Payment_Proofs show of each service is used here: a   *)
(* step of the system is a step of either service, or of both, or neither. *)
(***************************************************************************)
EXTENDS CheckoutSystem, TLAPS

OP == INSTANCE Orders_Proofs WITH
        Operators <- CancelOperators, MoneyUnits <- {}, MoneyParts <- {}
PP == INSTANCE Payment_Proofs WITH
        Calls <- PaymentCalls,
        KeyOf <- ChargeKey,
        Amounts <- Int,
        Operators <- RefundOperators

-----------------------------------------------------------------------------
(* The steps of the system are steps of the services *)

LEMMA OrdersInit == O!Init => OP!Init
BY DEF O!Init, OP!Init, O!OrderIds, OP!OrderIds

LEMMA PaymentInit == P!Init => PP!Init
BY DEF P!Init, PP!Init, P!ChargeIds, PP!ChargeIds

LEMMA OrdersHandlers ==
  ASSUME NEW r \in Requests,
         O!RejectCheckout(r) \/ O!ReceiveCheckout(r) \/ O!HandlerStep(r)
  PROVE  OP!RejectCheckout(r) \/ OP!ReceiveCheckout(r) \/ OP!HandlerStep(r)
BY DEF O!RejectCheckout, OP!RejectCheckout, O!ReceiveCheckout, OP!ReceiveCheckout,
       O!HandlerStep, OP!HandlerStep, O!ReplayedCheckout, OP!ReplayedCheckout,
       O!StartCheckout, OP!StartCheckout, O!Placed, OP!Placed, O!Exists, OP!Exists,
       O!OrderIds, OP!OrderIds, O!storeVars, OP!storeVars, O!sagaVars, OP!sagaVars,
       O!cancelVars, OP!cancelVars

LEMMA OrdersSaga ==
  ASSUME NEW o \in OrderIds
  PROVE  /\ O!LocalSagaStep(o) => OP!LocalSagaStep(o)
         /\ O!SendCharge(o) => OP!SendCharge(o)
         /\ O!ChargeAccepted(o) => OP!ChargeAccepted(o)
         /\ O!ChargeAttemptFailed(o) => OP!ChargeAttemptFailed(o)
<1> USE DEF O!Proceed, OP!Proceed, O!AttemptFailed, OP!AttemptFailed, O!Worked, OP!Worked,
            O!After, OP!After, O!OnError, OP!OnError, O!Exists, OP!Exists,
            O!MarkOrderStatus, OP!MarkOrderStatus, O!Relations, OP!Relations,
            O!storeVars, OP!storeVars, O!requestVars, OP!requestVars,
            O!cancelVars, OP!cancelVars
<1>1. O!CreateOrder(o) => OP!CreateOrder(o)
  BY DEF O!CreateOrder, OP!CreateOrder, O!KeyUnused, OP!KeyUnused, O!Placed, OP!Placed,
         O!OrderIds, OP!OrderIds
<1>2. O!GrantOrderAccess(o) => OP!GrantOrderAccess(o)
  BY DEF O!GrantOrderAccess, OP!GrantOrderAccess
<1>3. O!LookupProduct(o) => OP!LookupProduct(o)
  BY DEF O!LookupProduct, OP!LookupProduct
<1>4. O!SetOrderTotal(o) => OP!SetOrderTotal(o)
  BY DEF O!SetOrderTotal, OP!SetOrderTotal
<1>5. O!MarkConfirmed(o) => OP!MarkConfirmed(o)
  BY DEF O!MarkConfirmed, OP!MarkConfirmed
<1>6. O!MarkFailed(o) => OP!MarkFailed(o)
  BY DEF O!MarkFailed, OP!MarkFailed
<1>7. O!ChargeAttemptFailed(o) => OP!ChargeAttemptFailed(o)
  BY DEF O!ChargeAttemptFailed, OP!ChargeAttemptFailed
<1>8. O!SendCharge(o) => OP!SendCharge(o)
  BY DEF O!SendCharge, OP!SendCharge
<1>9. O!ChargeAccepted(o) => OP!ChargeAccepted(o)
  BY DEF O!ChargeAccepted, OP!ChargeAccepted
<1> QED
  BY <1>1, <1>2, <1>3, <1>4, <1>5, <1>6, <1>7, <1>8, <1>9
     DEF O!LocalSagaStep, OP!LocalSagaStep

LEMMA OrdersCancels ==
  /\ \A o \in OrderIds : O!MarkCancelled(o) => OP!MarkCancelled(o)
  /\ \A op \in CancelOperators : O!CancelHandlerStep(op) => OP!CancelHandlerStep(op)
BY DEF O!MarkCancelled, OP!MarkCancelled, O!CancelProceed, OP!CancelProceed,
       O!CancelAttemptFailed, OP!CancelAttemptFailed, O!MarkOrderStatus, OP!MarkOrderStatus,
       O!CancelHandlerStep, OP!CancelHandlerStep, O!StartCancel, OP!StartCancel,
       O!CheckCancel, OP!CheckCancel, O!Cancellable, OP!Cancellable, O!Exists, OP!Exists,
       O!OrderIds, OP!OrderIds, O!storeVars, OP!storeVars, O!requestVars, OP!requestVars,
       O!sagaVars, OP!sagaVars

LEMMA OrdersSteps == [Next]_vars => [OP!Next]_ordersVars
<1> SUFFICES ASSUME [Next]_vars PROVE [OP!Next]_ordersVars
  OBVIOUS
<1>1. CASE OrdersStep
  BY <1>1, OrdersHandlers, OrdersCancels
     DEF OrdersStep, OP!Next, OP!OrderIds, OrderIds
<1>2. ASSUME NEW o \in OrderIds, SagaStep(o) PROVE OP!Next
  BY <1>2, OrdersSaga
     DEF SagaStep, SendCharge, ChargeAccepted, OP!Next, OP!SagaStep, OP!OrderIds, OrderIds
<1>3. CASE PaymentStep \/ (\E c \in DirectCalls : ReceiveDirectCharge(c)) \/ UNCHANGED vars
  BY <1>3 DEF PaymentStep, ReceiveDirectCharge, vars
<1> QED
  BY <1>1, <1>2, <1>3 DEF Next

LEMMA PaymentSteps == P!LocalStep => PP!LocalStep
<1> USE DEF P!Exists, PP!Exists, P!Refuse, PP!Refuse, P!MarkChargeStatus, PP!MarkChargeStatus,
            P!callVars, PP!callVars, P!chargeVars, PP!chargeVars, P!refundVars, PP!refundVars
<1>1. \A c \in PaymentCalls : P!HandlerStep(c) => PP!HandlerStep(c)
  BY DEF P!HandlerStep, PP!HandlerStep, P!LookupKey, PP!LookupKey, P!InsertCharge,
         PP!InsertCharge, P!StartCharge, PP!StartCharge, P!KeyUnused, PP!KeyUnused,
         P!Recorded, PP!Recorded, P!ChargeIds, PP!ChargeIds
<1>2. \A c \in PaymentCalls : P!ChargeStep(c) => PP!ChargeStep(c)
  BY DEF P!ChargeStep, PP!ChargeStep, P!GrantChargeAccess, PP!GrantChargeAccess, P!Settle,
         PP!Settle, P!MarkSettled, PP!MarkSettled, P!MarkFailed, PP!MarkFailed,
         P!Worked, PP!Worked, P!Proceed, PP!Proceed, P!AttemptFailed, PP!AttemptFailed,
         P!After, PP!After, P!OnError, PP!OnError
<1>3. \A c \in PaymentCalls : P!RefundStep(c) => PP!RefundStep(c)
  BY DEF P!RefundStep, PP!RefundStep, P!Reverse, PP!Reverse, P!MarkRefunded, PP!MarkRefunded,
         P!RefundWorked, PP!RefundWorked, P!RefundProceed, PP!RefundProceed,
         P!RefundAttemptFailed, PP!RefundAttemptFailed, P!AfterRefund, PP!AfterRefund,
         P!OnRefundError, PP!OnRefundError
<1>4. \A op \in RefundOperators : P!RefundHandlerStep(op) => PP!RefundHandlerStep(op)
  BY DEF P!RefundHandlerStep, PP!RefundHandlerStep, P!StartRefund, PP!StartRefund,
         P!CheckRefund, PP!CheckRefund, P!Refundable, PP!Refundable,
         P!RefundSteps, PP!RefundSteps, P!ChargeIds, PP!ChargeIds
<1> QED
  BY <1>1, <1>2, <1>3, <1>4 DEF P!LocalStep, PP!LocalStep

LEMMA PaymentReceives ==
  ASSUME NEW c \in PaymentCalls, NEW a, P!ReceiveCharge(c, a)
  PROVE  PP!ReceiveCharge(c, a)
BY DEF P!ReceiveCharge, PP!ReceiveCharge, P!chargeVars, PP!chargeVars,
       P!refundVars, PP!refundVars

-----------------------------------------------------------------------------
(* The invariant of the system: each service's own, and what joins them *)

\* Where a saga may be once it has sent a call of its charge.
PastSend == {"charge", "charging", "markConfirmed", "markFailed", "completed", "failed"}

\* No charge has been made under key k.
Free(k) == \A d \in PaymentCalls : ChargeKey[d] = k => ~P!Exists(d)

\* What an order's saga has computed, and what it has been told of the charge.
OrderLink(o) ==
  /\ request[o] \in {"received", "missed"} \/ saga[o] # "none" => quantity[o] \in Quantities
  /\ saga[o] \in {"setTotal", "charge", "charging"} => quote[o] \in Totals
  /\ saga[o] \in {"markConfirmed", "completed"} => ~Free(o)
  /\ status[o] = "confirmed" => ~Free(o)

\* A call that was sent is for the order as its row shows it, then and later.
CallLink(c) ==
  /\ call[c] # "unsent" =>
       /\ saga[OrderOf(c)] \in PastSend
       /\ O!Exists(OrderOf(c)) /\ tuples[OrderOf(c)] = O!Relations
       /\ amount[c] = total[OrderOf(c)] /\ amount[c] \in Totals
  /\ call[c] \in {"received", "missed", "inserted", "accepted"} \/ P!Exists(c) => amount[c] > 0
  /\ call[c] = "accepted" => ~Free(OrderOf(c))

Links == (\A o \in OrderIds : OrderLink(o)) /\ (\A c \in ChargeCalls : CallLink(c))

IInv == OP!IInv /\ PP!IInv /\ Links

LEMMA CallOfOrder ==
  /\ \A c \in ChargeCalls : OrderOf(c) \in OrderIds
  /\ \A o \in OrderIds, n \in 1 .. MaxAttempts : <<o, n>> \in ChargeCalls /\ OrderOf(<<o, n>>) = o
BY DEF ChargeCalls, OrderOf

LEMMA KeyOfCall ==
  /\ ChargeCalls \subseteq PaymentCalls /\ DirectCalls \subseteq PaymentCalls
  /\ \A c \in ChargeCalls : ChargeKey[c] = OrderOf(c)
  /\ \A c \in DirectCalls : ChargeKey[c] = DirectKey[c]
  /\ \A c \in PaymentCalls : c \in ChargeCalls \/ c \in DirectCalls
BY CheckoutConstants DEF PaymentCalls, ChargeKey

\* Under the id of an order there is its own charge, a direct call's, or none.
LEMMA FreeOrTaken == \A o \in OrderIds : Free(o) <=> ChargesOf(o) = {} /\ ~KeyTaken(o)
BY KeyOfCall DEF Free, ChargesOf, KeyTaken

LEMMA TotalsAreNats == Totals \subseteq Nat
<1>1. \A a, b \in Nat : a * b \in Nat
  OBVIOUS
<1> QED
  BY <1>1, CheckoutConstants DEF Totals

LEMMA OrdersConstantsHold ==
  /\ MaxAttempts \in Nat \ {0}
  /\ Prices \subseteq Nat
  /\ Quantities \subseteq Nat \ {0}
  /\ NoKey \notin Keys
  /\ NoOrder \notin Requests
BY CheckoutConstants

LEMMA PaymentConstantsHold ==
  /\ MaxAttempts \in Nat \ {0}
  /\ Int \subseteq Int
  /\ NoCharge \notin PaymentCalls
BY CheckoutConstants

LEMMA InitInvariant == Init => IInv
<1> SUFFICES ASSUME Init PROVE IInv
  OBVIOUS
<1>1. OP!IInv
  BY OrdersConstantsHold, OrdersInit, OP!InitProgress DEF Init
<1>2. PP!IInv
  BY PaymentConstantsHold, PaymentInit, PP!InitProgress DEF Init
<1>3. Links
  BY CallOfOrder, KeyOfCall
     DEF Init, O!Init, P!Init, Links, OrderLink, CallLink, P!Exists, O!OrderIds, OrderIds,
         P!ChargeIds
<1> QED
  BY <1>1, <1>2, <1>3 DEF IInv

LEMMA OrdersInvariant == ASSUME IInv, [Next]_vars PROVE OP!IInv'
<1>1. [OP!Next]_OP!vars
  BY OrdersSteps
     DEF ordersVars, OP!vars, OP!requestVars, OP!storeVars, OP!sagaVars, OP!cancelVars
<1> QED
  BY <1>1, OrdersConstantsHold, OP!InductiveStep DEF IInv

LEMMA PaymentInvariant == ASSUME IInv, [Next]_vars PROVE PP!IInv'
<1>1. CASE PaymentStep
  <2>1. [PP!Next]_PP!vars
    BY <1>1, PaymentSteps DEF PaymentStep, PP!Next
  <2> QED
    BY <2>1, PaymentConstantsHold, PP!InductiveStep DEF IInv
<1>2. ASSUME NEW o \in OrderIds, SendCharge(o) PROVE PP!IInv'
  <2>1. quote[o] \in Int /\ CurrentCall(o) \in PaymentCalls
    BY <1>2, CheckoutConstants, CallOfOrder, KeyOfCall
       DEF IInv, OP!IInv, OP!TypeOK, OP!OrderIds, OrderIds, CurrentCall
  <2>2. [PP!Next]_PP!vars
    BY <1>2, <2>1, PaymentReceives DEF SendCharge, PP!Next
  <2> QED
    BY <2>2, PaymentConstantsHold, PP!InductiveStep DEF IInv
<1>3. CASE UNCHANGED paymentVars
  <2>1. [PP!Next]_PP!vars
    BY <1>3 DEF paymentVars, PP!vars, PP!callVars, PP!chargeVars, PP!refundVars
  <2> QED
    BY <2>1, PaymentConstantsHold, PP!InductiveStep DEF IInv
<1>4. ASSUME NEW c \in DirectCalls, ReceiveDirectCharge(c) PROVE PP!IInv'
  <2>1. PICK a \in DirectAmounts : P!ReceiveCharge(c, a)
    BY <1>4 DEF ReceiveDirectCharge
  <2>2. c \in PaymentCalls /\ a \in Int
    BY KeyOfCall, CheckoutConstants
  <2>3. [PP!Next]_PP!vars
    BY <2>1, <2>2, PaymentReceives DEF PP!Next
  <2> QED
    BY <2>3, PaymentConstantsHold, PP!InductiveStep DEF IInv
<1> QED
  BY <1>1, <1>2, <1>3, <1>4
     DEF Next, OrdersStep, SagaStep, ChargeAccepted, vars

-----------------------------------------------------------------------------
(* What a step of payment does to the links *)

\* A step of payment writes the status of a row that is there, or inserts the
\* first row of its key; a call is accepted only with a row of its key there.
LEMMA PaymentEffect ==
  ASSUME IInv, PaymentStep
  PROVE  /\ amount' = amount
         /\ \/ charge' = charge
            \/ \E c \in PaymentCalls, s \in {"settled", "failed", "refunded"} :
                 P!Exists(c) /\ charge' = [charge EXCEPT ![c] = s]
            \/ \E c \in PaymentCalls :
                 /\ call[c] = "missed" /\ Free(ChargeKey[c])
                 /\ charge' = [charge EXCEPT ![c] = "pending"]
         /\ \A c \in PaymentCalls :
              \/ call'[c] = call[c]
              \/ /\ call[c] \in {"received", "missed", "inserted"} /\ call'[c] # "unsent"
                 /\ call'[c] = "accepted" => charge' = charge /\ ~Free(ChargeKey[c])
<1> USE DEF IInv, PP!IInv, PP!ChargeIds, PP!Exists, P!Exists, PP!callVars, PP!chargeVars,
            PP!refundVars
<1>1. ASSUME NEW c \in PaymentCalls, PP!HandlerStep(c)
      PROVE  /\ amount' = amount
             /\ \/ charge' = charge
                \/ /\ call[c] = "missed" /\ Free(ChargeKey[c])
                   /\ charge' = [charge EXCEPT ![c] = "pending"]
             /\ \E next \in {"accepted", "missed", "inserted", "refused"} :
                  /\ call' = [call EXCEPT ![c] = next]
                  /\ call[c] \in {"received", "missed", "inserted"}
                  /\ next = "accepted" => charge' = charge /\ ~Free(ChargeKey[c])
  <2>1. CASE PP!LookupKey(c)
    BY <2>1, KeyOfCall DEF PP!LookupKey, PP!Refuse, PP!Recorded, Free
  <2>2. CASE PP!InsertCharge(c)
    BY <2>2, KeyOfCall DEF PP!InsertCharge, PP!Refuse, PP!KeyUnused, PP!Recorded, Free
  <2>3. CASE PP!StartCharge(c)
    BY <2>3, KeyOfCall DEF PP!StartCharge, PP!Refuse, PP!ChargeProgress, Free
  <2> QED
    BY <1>1, <2>1, <2>2, <2>3 DEF PP!HandlerStep
<1>2. ASSUME NEW c \in PaymentCalls, PP!ChargeStep(c)
      PROVE  /\ amount' = amount /\ call' = call
             /\ \/ charge' = charge
                \/ \E s \in {"settled", "failed"} :
                     P!Exists(c) /\ charge' = [charge EXCEPT ![c] = s]
  <2>1. PP!ChargeEffect(c) /\ UNCHANGED <<call, amount>>
    BY <1>2, PaymentConstantsHold, PP!ChargeStepEffect
  <2> QED
    BY <2>1 DEF PP!ChargeEffect, PP!MarkChargeStatus, PP!ChargeProgress
<1>3. ASSUME NEW c \in PaymentCalls, PP!RefundStep(c)
      PROVE  /\ amount' = amount /\ call' = call
             /\ charge' = charge \/ (P!Exists(c) /\ charge' = [charge EXCEPT ![c] = "refunded"])
  <2>1. PP!RefundEffect(c) /\ UNCHANGED <<call, amount>>
    BY <1>3, PaymentConstantsHold, PP!RefundStepEffect
  <2> QED
    BY <2>1 DEF PP!RefundEffect, PP!MarkChargeStatus, PP!RefundProgress, PP!Outcomes
<1>4. ASSUME NEW op \in RefundOperators, PP!RefundHandlerStep(op)
      PROVE  UNCHANGED <<call, amount, charge>>
  BY <1>4 DEF PP!RefundHandlerStep, PP!StartRefund, PP!CheckRefund
<1>5. PP!LocalStep
  BY PaymentSteps DEF PaymentStep
<1>6. call \in [PaymentCalls -> PP!CallSteps]
  BY DEF PP!TypeOK
<1>7. CASE \E c \in PaymentCalls : PP!HandlerStep(c)
  <2>1. PICK c \in PaymentCalls : PP!HandlerStep(c)
    BY <1>7
  <2> QED
    BY <1>1, <1>6, <2>1
<1>8. CASE ~ \E c \in PaymentCalls : PP!HandlerStep(c)
  BY <1>2, <1>3, <1>4, <1>5, <1>8 DEF PP!LocalStep
<1> QED
  BY <1>7, <1>8

LEMMA PaymentLinks == ASSUME IInv, PaymentStep PROVE Links'
<1>1. UNCHANGED ordersVars
  BY DEF PaymentStep
<1>2. charge \in [PaymentCalls -> {"absent", "pending", "settled", "failed", "refunded"}]
  BY DEF IInv, PP!IInv, PP!TypeOK, PP!ChargeIds
<1>3. \A c \in PaymentCalls : P!Exists(c) => P!Exists(c)'
  BY <1>2, PaymentEffect DEF P!Exists
<1>4. \A k : ~Free(k) => ~Free(k)'
  BY <1>3 DEF Free
<1>5. \A o \in OrderIds : OrderLink(o)'
  BY <1>1, <1>4 DEF IInv, Links, OrderLink, ordersVars
<1>6. ASSUME NEW c \in ChargeCalls PROVE CallLink(c)'
  <2>0. c \in PaymentCalls /\ ChargeKey[c] = OrderOf(c)
    BY KeyOfCall
  <2>1. P!Exists(c)' => P!Exists(c) \/ call[c] = "missed"
    BY <1>2, <2>0, PaymentEffect DEF P!Exists
  <2>2. UNCHANGED <<saga, status, tuples, total>> /\ amount' = amount
    BY <1>1, PaymentEffect DEF ordersVars
  <2>3. call'[c] # "unsent" => call[c] # "unsent"
    BY <2>0, PaymentEffect
  <2>4. call'[c] \in {"received", "missed", "inserted", "accepted"} =>
          call[c] \in {"received", "missed", "inserted", "accepted"}
    BY <2>0, PaymentEffect
  <2>5. call'[c] = "accepted" => ~Free(OrderOf(c))'
    BY <1>4, <2>0, PaymentEffect DEF IInv, Links, CallLink
  <2> QED
    BY <2>1, <2>2, <2>3, <2>4, <2>5 DEF IInv, Links, CallLink, O!Exists, O!Relations
<1> QED
  BY <1>5, <1>6 DEF Links

\* A direct call that arrives is a call of no order, and writes no row.
LEMMA DirectEffect ==
  ASSUME IInv, NEW d \in DirectCalls, ReceiveDirectCharge(d)
  PROVE  /\ UNCHANGED ordersVars /\ charge' = charge
         /\ d \in PaymentCalls /\ d \notin ChargeCalls /\ ~P!Exists(d)
         /\ \A c \in ChargeCalls : call'[c] = call[c] /\ amount'[c] = amount[c]
         /\ \A c \in PaymentCalls : P!Exists(c) => amount'[c] = amount[c]
<1>1. PICK a \in DirectAmounts : P!ReceiveCharge(d, a)
  BY DEF ReceiveDirectCharge
<1>2. d \in PaymentCalls /\ d \notin ChargeCalls
  BY KeyOfCall, CheckoutConstants
<1>3. ~P!Exists(d)
  BY <1>1, <1>2 DEF P!ReceiveCharge, IInv, PP!IInv, PP!ChargeProgress, PP!ChargeIds, P!Exists
<1>4. call \in [PaymentCalls -> PP!CallSteps] /\ amount \in [PaymentCalls -> Int]
  BY DEF IInv, PP!IInv, PP!TypeOK
<1> QED
  BY <1>1, <1>2, <1>3, <1>4, KeyOfCall DEF P!ReceiveCharge, ReceiveDirectCharge

LEMMA DirectLinks ==
  ASSUME IInv, NEW d \in DirectCalls, ReceiveDirectCharge(d)
  PROVE  Links'
<1>1. \A k : Free(k)' = Free(k)
  BY DirectEffect DEF Free, P!Exists
<1>2. \A o \in OrderIds : OrderLink(o)'
  BY <1>1, DirectEffect DEF IInv, Links, OrderLink, ordersVars
<1>3. \A c \in ChargeCalls : CallLink(c)'
  BY <1>1, DirectEffect
     DEF IInv, Links, CallLink, ordersVars, P!Exists, O!Exists, O!Relations
<1> QED
  BY <1>2, <1>3 DEF Links

-----------------------------------------------------------------------------
(* What a step of orders does to the links *)

\* What the links of an order rest on, kept by a step that payment does not see.
Kept(o) ==
  /\ saga[o] \in PastSend => saga'[o] \in PastSend /\ total'[o] = total[o]
  /\ O!Exists(o) => O!Exists(o)'
  /\ tuples[o] = O!Relations => tuples'[o] = O!Relations
  /\ request'[o] \in {"received", "missed"} \/ saga'[o] # "none" => quantity'[o] \in Quantities
  /\ saga'[o] \in {"setTotal", "charge", "charging"} => quote'[o] \in Totals
  /\ saga'[o] \in {"markConfirmed", "completed"} => saga[o] \in {"markConfirmed", "completed"}
  /\ status'[o] = "confirmed" => status[o] = "confirmed" \/ saga[o] = "markConfirmed"

LEMMA KeptLinks ==
  ASSUME IInv, UNCHANGED paymentVars, \A o \in OrderIds : Kept(o)
  PROVE  Links'
<1> USE DEF paymentVars
<1>1. \A k : Free(k)' = Free(k)
  BY DEF Free, P!Exists
<1>2. \A o \in OrderIds : OrderLink(o)'
  BY <1>1 DEF IInv, Links, OrderLink, Kept
<1>3. ASSUME NEW c \in ChargeCalls PROVE CallLink(c)'
  <2>1. OrderOf(c) \in OrderIds
    BY CallOfOrder
  <2> QED
    BY <1>1, <2>1 DEF IInv, Links, CallLink, Kept, P!Exists, O!Relations
<1> QED
  BY <1>2, <1>3 DEF Links

LEMMA HandlersKeep ==
  ASSUME IInv, NEW r \in Requests, NEW o \in OrderIds,
         OP!RejectCheckout(r) \/ OP!ReceiveCheckout(r) \/ OP!HandlerStep(r)
  PROVE  Kept(o)
<1> USE DEF IInv, OP!IInv, OP!TypeOK, OP!OrderIds, OrderIds, OP!storeVars, OP!sagaVars
<1>1. UNCHANGED <<status, total, tuples, quote>>
  BY DEF OP!RejectCheckout, OP!ReceiveCheckout, OP!HandlerStep, OP!ReplayedCheckout,
         OP!StartCheckout
<1>2. \/ UNCHANGED saga
      \/ saga' = [saga EXCEPT ![r] = "create"] /\ request[r] = "missed"
  BY DEF OP!RejectCheckout, OP!ReceiveCheckout, OP!HandlerStep, OP!ReplayedCheckout,
         OP!StartCheckout
<1>3. request[r] \in {"idle", "received", "missed"} => saga[r] = "none"
  BY DEF OP!OrderProgress, OP!NotStarted
<1>4. saga[r] = "none"
  BY <1>3 DEF OP!RejectCheckout, OP!ReceiveCheckout, OP!HandlerStep, OP!ReplayedCheckout,
              OP!StartCheckout
<1>5. /\ UNCHANGED quantity \/ (request[r] = "idle" /\ UNCHANGED saga
                                /\ \E q \in Quantities : quantity' = [quantity EXCEPT ![r] = q])
      /\ request'[o] \in {"received", "missed"} =>
           request[o] \in {"received", "missed"} \/ (o = r /\ quantity'[o] \in Quantities)
  BY DEF OP!RejectCheckout, OP!ReceiveCheckout, OP!HandlerStep, OP!ReplayedCheckout,
         OP!StartCheckout
<1>6. request'[o] \in {"received", "missed"} \/ saga'[o] # "none" => quantity'[o] \in Quantities
  BY <1>2, <1>4, <1>5 DEF Links, OrderLink
<1> QED
  BY <1>1, <1>2, <1>4, <1>6 DEF Kept, Links, OrderLink, O!Exists, O!Relations, PastSend

LEMMA CancelsKeep ==
  ASSUME IInv, NEW o \in OrderIds,
         \/ \E p \in OrderIds : OP!MarkCancelled(p)
         \/ \E op \in CancelOperators : OP!CancelHandlerStep(op)
  PROVE  Kept(o)
<1> USE DEF OP!requestVars, OP!sagaVars, OP!storeVars
<1>1. UNCHANGED <<request, quantity, saga, total, tuples, quote>>
  BY DEF OP!MarkCancelled, OP!CancelHandlerStep, OP!CheckCancel, OP!StartCancel
<1>2. status'[o] = status[o] \/ (status[o] # "absent" /\ status'[o] = "cancelled")
  BY DEF IInv, OP!IInv, OP!TypeOK, OP!OrderIds, OrderIds, OP!MarkCancelled,
         OP!MarkOrderStatus, OP!Exists, OP!CancelHandlerStep, OP!CheckCancel, OP!StartCancel
<1> QED
  BY <1>1, <1>2 DEF IInv, Links, OrderLink, Kept, O!Exists, O!Relations

\* A step of a saga changes what belongs to its own order, and nothing else.
LEMMA SagaKeeps ==
  ASSUME IInv, NEW p \in OrderIds, NEW o \in OrderIds,
         OP!LocalSagaStep(p) \/ OP!ChargeAttemptFailed(p)
  PROVE  Kept(o)
<1> USE DEF IInv, OP!IInv, OP!TypeOK, OP!OrderIds, OrderIds, OP!requestVars, OP!storeVars,
            OP!cancelVars, O!Exists, OP!Exists, O!Relations, OP!Relations
<1>1. OP!Tried = {"create", "grant", "lookup", "setTotal", "charge", "markConfirmed",
                  "markFailed"}
  BY DEF OP!Tried, OP!SagaSteps
<1>2. \A step \in OP!Tried :
        OP!Worked(p, step) \/ OP!AttemptFailed(p, step) =>
          \E next \in {step, OP!OnError[step], OP!After[step]} :
            saga' = [saga EXCEPT ![p] = next]
  BY OrdersConstantsHold, OP!Outcomes
<1>3. /\ OP!After.lookup = "setTotal"
      /\ OP!OnError.lookup = "markFailed"
      /\ \A step \in OP!Tried : OP!Proceed(p, OP!After[step]) => OP!Worked(p, step)
  BY DEF OP!After, OP!OnError, OP!Worked
<1>4. CASE OP!CreateOrder(p)
  <2>1. PICK next \in {"create", "failed", "grant"} : saga' = [saga EXCEPT ![p] = next]
    BY <1>1, <1>2, <1>4 DEF OP!CreateOrder, OP!OnError, OP!After
  <2> QED
    BY <1>4, <2>1 DEF OP!CreateOrder, Kept, Links, OrderLink, PastSend
<1>5. CASE OP!GrantOrderAccess(p)
  <2>1. PICK next \in {"grant", "failed", "lookup"} : saga' = [saga EXCEPT ![p] = next]
    BY <1>1, <1>2, <1>5 DEF OP!GrantOrderAccess, OP!OnError, OP!After
  <2>2. tuples[o] = {"owner", "org"} => tuples'[o] = {"owner", "org"}
    BY <1>5 DEF OP!GrantOrderAccess
  <2> QED
    BY <1>5, <2>1, <2>2 DEF OP!GrantOrderAccess, Kept, Links, OrderLink, PastSend
<1>6. CASE OP!LookupProduct(p)
  <2>1. quantity[p] \in Quantities /\ saga[p] = "lookup"
    BY <1>6 DEF OP!LookupProduct, Links, OrderLink
  <2>2. /\ UNCHANGED <<request, quantity, status, tuples, total>>
        /\ \/ \E price \in Prices :
                /\ quote' = [quote EXCEPT ![p] = price * quantity[p]]
                /\ saga' = [saga EXCEPT ![p] = "setTotal"]
           \/ /\ UNCHANGED quote
              /\ \E next \in {"lookup", "markFailed"} : saga' = [saga EXCEPT ![p] = next]
    <3>1. OP!AttemptFailed(p, "lookup") =>
            \E next \in {"lookup", "markFailed"} : saga' = [saga EXCEPT ![p] = next]
      BY <1>1, <1>3, OrdersConstantsHold, OP!Outcomes
    <3> QED
      BY <1>3, <1>6, <3>1 DEF OP!LookupProduct, OP!Proceed
  <2>3. saga'[p] = "setTotal" => quote'[p] \in Totals
    BY <2>1, <2>2 DEF Totals
  <2>4. o # p => saga'[o] = saga[o] /\ quote'[o] = quote[o]
    BY <2>2
  <2>5. saga'[p] \in {"lookup", "markFailed", "setTotal"}
    BY <2>2
  <2> QED
    BY <2>1, <2>2, <2>3, <2>4, <2>5 DEF Kept, Links, OrderLink, PastSend
<1>7. CASE OP!SetOrderTotal(p)
  <2>1. PICK next \in {"setTotal", "markFailed", "charge"} : saga' = [saga EXCEPT ![p] = next]
    BY <1>1, <1>2, <1>7 DEF OP!SetOrderTotal, OP!OnError, OP!After
  <2> QED
    BY <1>7, <2>1 DEF OP!SetOrderTotal, Kept, Links, OrderLink, PastSend
<1>8. CASE OP!MarkConfirmed(p)
  <2>1. PICK next \in {"markConfirmed", "failed", "completed"} :
          saga' = [saga EXCEPT ![p] = next]
    BY <1>1, <1>2, <1>8 DEF OP!MarkConfirmed, OP!OnError, OP!After
  <2> QED
    BY <1>8, <2>1 DEF OP!MarkConfirmed, OP!MarkOrderStatus, Kept, Links, OrderLink, PastSend
<1>9. CASE OP!MarkFailed(p)
  <2>1. PICK next \in {"markFailed", "failed"} : saga' = [saga EXCEPT ![p] = next]
    BY <1>1, <1>2, <1>9 DEF OP!MarkFailed, OP!OnError, OP!After
  <2> QED
    BY <1>9, <2>1 DEF OP!MarkFailed, OP!MarkOrderStatus, Kept, Links, OrderLink, PastSend
<1>10. CASE OP!ChargeAttemptFailed(p)
  <2>1. PICK next \in {"charge", "markFailed"} : saga' = [saga EXCEPT ![p] = next]
    BY <1>1, <1>10, OrdersConstantsHold, OP!Outcomes DEF OP!ChargeAttemptFailed, OP!OnError
  <2> QED
    BY <1>10, <2>1 DEF OP!ChargeAttemptFailed, Kept, Links, OrderLink, PastSend
<1> QED
  BY <1>4, <1>5, <1>6, <1>7, <1>8, <1>9, <1>10 DEF OP!LocalSagaStep

LEMMA OrdersLinks ==
  ASSUME IInv,
         \/ OrdersStep
         \/ \E o \in OrderIds :
              (O!LocalSagaStep(o) \/ O!ChargeAttemptFailed(o)) /\ UNCHANGED paymentVars
  PROVE  Links'
<1>1. UNCHANGED paymentVars
  BY DEF OrdersStep
<1>2. ASSUME NEW o \in OrderIds PROVE Kept(o)
  BY <1>2, OrdersHandlers, OrdersCancels, OrdersSaga, HandlersKeep, CancelsKeep, SagaKeeps
     DEF OrdersStep
<1> QED
  BY <1>1, <1>2, KeptLinks

\* The call that is sent finds the row as the saga left it.
LEMMA SendLinks == ASSUME IInv, NEW o \in OrderIds, SendCharge(o) PROVE Links'
<1> USE DEF IInv, OP!IInv, PP!IInv, OP!OrderIds, OrderIds, PP!ChargeIds
<1>0. CurrentCall(o) \in ChargeCalls /\ OrderOf(CurrentCall(o)) = o
  BY CallOfOrder, CheckoutConstants DEF OP!TypeOK, CurrentCall
<1> USE KeyOfCall
<1>1. PICK s \in ChargeCalls : s = CurrentCall(o) /\ OrderOf(s) = o
  BY <1>0
<1>2. /\ saga[o] = "charge" /\ saga' = [saga EXCEPT ![o] = "charging"]
      /\ UNCHANGED <<request, quantity, quote, status, total, tuples>>
  BY DEF SendCharge, O!SendCharge, O!requestVars, O!storeVars
<1>3. /\ call[s] = "unsent" /\ amount' = [amount EXCEPT ![s] = quote[o]]
      /\ call' = [call EXCEPT ![s] = IF quote[o] > 0 THEN "received" ELSE "refused"]
      /\ charge' = charge
  BY <1>1 DEF SendCharge, P!ReceiveCharge
<1>4. /\ O!Exists(o) /\ tuples[o] = O!Relations /\ total[o] = quote[o] /\ quote[o] \in Totals
  BY <1>2 DEF OP!OrderProgress, OP!Inserted, OP!Granted, OP!ChargeStates, OP!Exists,
              OP!Relations, O!Exists, O!Relations, Links, OrderLink
<1>5. charge[s] = "absent"
  BY <1>1, <1>3 DEF PP!ChargeProgress
<1>6. \A k : Free(k)' = Free(k)
  BY <1>3 DEF Free, P!Exists
<1>7. \A p \in OrderIds : OrderLink(p)'
  BY <1>2, <1>6 DEF Links, OrderLink, OP!TypeOK
<1>8. /\ saga' \in [OrderIds -> OP!SagaSteps \union OP!SagaEnds \union {"none"}]
      /\ saga'[o] = "charging"
  BY <1>2 DEF OP!TypeOK, OP!SagaSteps
<1>9. CallLink(s)'
  BY <1>1, <1>2, <1>3, <1>4, <1>5, <1>8
     DEF CallLink, PastSend, P!Exists, PP!TypeOK, O!Exists, O!Relations
<1>10. ASSUME NEW c \in ChargeCalls, c # s PROVE CallLink(c)'
  <2>1. OrderOf(c) \in OrderIds
    BY CallOfOrder
  <2>2. call'[c] = call[c] /\ amount'[c] = amount[c] /\ charge'[c] = charge[c]
    BY <1>3, <1>10 DEF PP!TypeOK
  <2>3. saga[OrderOf(c)] \in PastSend => saga'[OrderOf(c)] \in PastSend
    BY <1>2, <2>1 DEF PastSend, OP!TypeOK
  <2> QED
    BY <1>2, <1>6, <2>1, <2>2, <2>3 DEF Links, CallLink, P!Exists, O!Exists, O!Relations
<1> QED
  BY <1>7, <1>9, <1>10 DEF Links

LEMMA AcceptedLinks == ASSUME IInv, NEW o \in OrderIds, ChargeAccepted(o) PROVE Links'
<1> USE DEF IInv, OP!IInv, OP!TypeOK, OP!OrderIds, OrderIds
<1>1. CurrentCall(o) \in ChargeCalls /\ OrderOf(CurrentCall(o)) = o
  BY CallOfOrder, CheckoutConstants DEF CurrentCall
<1>2. ~Free(o)
  BY <1>1 DEF ChargeAccepted, Links, CallLink
<1>3. /\ saga' = [saga EXCEPT ![o] = "markConfirmed"]
      /\ UNCHANGED <<request, quantity, quote, status, total, tuples, paymentVars>>
  BY DEF ChargeAccepted, O!ChargeAccepted, O!Proceed, O!After, O!requestVars, O!storeVars
<1>4. \A k : Free(k)' = Free(k)
  BY <1>3 DEF Free, P!Exists, paymentVars
<1>5. saga[o] = "charging"
  BY DEF ChargeAccepted, O!ChargeAccepted
<1>6. \A p \in OrderIds : OrderLink(p)'
  BY <1>2, <1>3, <1>4, <1>5 DEF Links, OrderLink
<1>7. ASSUME NEW c \in ChargeCalls PROVE CallLink(c)'
  <2>1. OrderOf(c) \in OrderIds
    BY CallOfOrder
  <2>2. saga[OrderOf(c)] \in PastSend => saga'[OrderOf(c)] \in PastSend
    BY <1>3, <2>1 DEF PastSend
  <2> QED
    BY <1>3, <1>4, <2>1, <2>2
       DEF Links, CallLink, P!Exists, O!Exists, O!Relations, paymentVars
<1> QED
  BY <1>6, <1>7 DEF Links

LEMMA InductiveStep == IInv /\ [Next]_vars => IInv'
<1> SUFFICES ASSUME IInv, [Next]_vars PROVE IInv'
  OBVIOUS
<1>1. OP!IInv' /\ PP!IInv'
  BY OrdersInvariant, PaymentInvariant
<1>2. CASE OrdersStep
  BY <1>1, <1>2, OrdersLinks DEF IInv
<1>3. CASE PaymentStep
  BY <1>1, <1>3, PaymentLinks DEF IInv
<1>4. ASSUME NEW o \in OrderIds, SagaStep(o) PROVE IInv'
  BY <1>1, <1>4, OrdersLinks, SendLinks, AcceptedLinks DEF IInv, SagaStep
<1>5. ASSUME NEW c \in DirectCalls, ReceiveDirectCharge(c) PROVE IInv'
  BY <1>1, <1>5, DirectLinks DEF IInv
<1>6. CASE UNCHANGED vars
  <2>1. UNCHANGED <<request, quantity, saga, quote, status, total, tuples>> /\ UNCHANGED paymentVars
    BY <1>6 DEF vars, ordersVars, paymentVars
  <2>2. \A o \in OrderIds : Kept(o)
    BY <2>1 DEF Kept, IInv, Links, OrderLink, O!Exists, O!Relations
  <2> QED
    BY <1>1, <2>1, <2>2, KeptLinks DEF IInv
<1> QED
  BY <1>2, <1>3, <1>4, <1>5, <1>6 DEF Next

\* Each service keeps its own invariant, and the links between them hold.
THEOREM Inductive == Spec => []IInv
<1> QED
  BY InitInvariant, InductiveStep, PTL DEF Spec

-----------------------------------------------------------------------------
(* The system is an implementation of either service *)

\* Whatever payment does meanwhile, orders behaves as the service that module
\* Orders describes alone: a saga that is joined to payment's answers takes no
\* step that a saga with any answers could not take.
THEOREM ImplementsOrders == Spec => O!Spec
<1>1. [Next]_vars => [O!Next]_O!vars
  <2> USE DEF O!Next, O!OrderIds, OrderIds
  <2>1. CASE OrdersStep
    BY <2>1 DEF OrdersStep
  <2>2. ASSUME NEW o \in OrderIds, SagaStep(o) PROVE O!Next
    BY <2>2 DEF SagaStep, SendCharge, ChargeAccepted, O!SagaStep
  <2>3. CASE UNCHANGED ordersVars
    BY <2>3
       DEF ordersVars, O!vars, O!requestVars, O!storeVars, O!sagaVars, O!cancelVars
  <2> QED
    BY <2>1, <2>2, <2>3 DEF Next, PaymentStep, ReceiveDirectCharge, vars
<1>2. Init => O!Init
  BY DEF Init
<1> QED
  BY <1>1, <1>2, PTL DEF Spec, O!Spec

\* Whatever orders does meanwhile, payment behaves as module Payment describes
\* it, and a saga's call carries no amount but a catalog price times the quantity
\* of a request: its quote is such a product at each call it sends.
THEOREM ImplementsPayment == Spec => P!Spec
<1>1. IInv /\ [Next]_vars => [P!Next]_P!vars
  <2> SUFFICES ASSUME IInv, [Next]_vars PROVE [P!Next]_P!vars
    OBVIOUS
  <2>1. CASE PaymentStep
    BY <2>1 DEF PaymentStep, P!Next
  <2>2. ASSUME NEW o \in OrderIds, SendCharge(o) PROVE P!Next
    <3>1. saga[o] = "charge"
      BY <2>2 DEF SendCharge, O!SendCharge
    <3>2. quote[o] \in Totals
      BY <3>1 DEF IInv, Links, OrderLink
    <3>3. CurrentCall(o) \in PaymentCalls
      BY CheckoutConstants, CallOfOrder, KeyOfCall
         DEF IInv, OP!IInv, OP!TypeOK, OP!OrderIds, OrderIds, CurrentCall
    <3> QED
      BY <2>2, <3>2, <3>3 DEF SendCharge, P!Next
  <2>3. CASE UNCHANGED paymentVars
    BY <2>3 DEF paymentVars, P!vars, P!callVars, P!chargeVars, P!refundVars
  <2>4. ASSUME NEW c \in DirectCalls, ReceiveDirectCharge(c) PROVE P!Next
    BY <2>4, KeyOfCall DEF ReceiveDirectCharge, P!Next
  <2> QED
    BY <2>1, <2>2, <2>3, <2>4 DEF Next, OrdersStep, SagaStep, ChargeAccepted, vars
<1>2. Init => P!Init
  BY DEF Init
<1> QED
  BY <1>1, <1>2, Inductive, PTL DEF Spec, P!Spec

-----------------------------------------------------------------------------
(* What the invariant gives *)

\* Two rows of payment that sagas have asked for belong to two orders.
LEMMA OneChargePerOrder ==
  ASSUME IInv, NEW c \in ChargeCalls, NEW d \in ChargeCalls,
         P!Exists(c), P!Exists(d), OrderOf(c) = OrderOf(d)
  PROVE  c = d
BY KeyOfCall DEF IInv, PP!IInv, PP!OneRowPerKey, PP!ChargeIds, PP!Exists, P!Exists

\* Such a row is for an order that is there, for the amount it shows.
LEMMA ChargeHasOrder ==
  ASSUME IInv, NEW c \in ChargeCalls, P!Exists(c)
  PROVE  /\ OrderOf(c) \in OrderIds /\ O!Exists(OrderOf(c))
         /\ tuples[OrderOf(c)] = O!Relations
         /\ saga[OrderOf(c)] \in PastSend
         /\ amount[c] = total[OrderOf(c)] /\ amount[c] \in Totals /\ amount[c] > 0
<1>1. call[c] # "unsent"
  BY KeyOfCall DEF IInv, PP!IInv, PP!ChargeProgress, PP!ChargeIds, P!Exists
<1> QED
  BY <1>1, CallOfOrder DEF IInv, Links, CallLink

\* However many checkouts repeat a key, and however often the charge of each is
\* tried, the processor settles once for the key what the sagas ask for.
THEOREM PaidOncePerKeyHolds == Spec => []PaidOncePerKey
<1>1. IInv => PaidOncePerKey
  <2> SUFFICES ASSUME IInv, NEW c \in settledAt \intersect ChargeCalls,
                      NEW d \in settledAt \intersect ChargeCalls,
                      key[OrderOf(c)] = key[OrderOf(d)]
               PROVE  c = d
    BY DEF PaidOncePerKey
  <2>1. /\ c \in ChargeCalls /\ d \in ChargeCalls
        /\ P!Exists(c) /\ P!Exists(d)
    BY KeyOfCall
       DEF IInv, PP!IInv, PP!TypeOK, PP!ChargeProgress, PP!ChargeIds, PP!Exists, P!Exists
  <2>2. OrderOf(c) = OrderOf(d)
    BY <2>1, ChargeHasOrder
       DEF IInv, OP!IInv, OP!OneOrderPerKey, OP!OrderIds, OrderIds, OP!Exists, O!Exists
  <2> QED
    BY <2>1, <2>2, OneChargePerOrder
<1> QED
  BY <1>1, Inductive, PTL

\* Whatever direct calls do, what payment charges for a saga is what its order
\* shows, to a buyer who can read it.
THEOREM ChargeMatchesOrderHolds == Spec => []ChargeMatchesOrder
<1>1. IInv => ChargeMatchesOrder
  BY ChargeHasOrder DEF ChargeMatchesOrder
<1> QED
  BY <1>1, Inductive, PTL

\* No order is confirmed without its charge, or a direct call's in its place.
THEOREM ConfirmedIsChargedHolds == Spec => []ConfirmedIsCharged
<1>1. IInv => ConfirmedIsCharged
  BY FreeOrTaken DEF IInv, Links, OrderLink, ConfirmedIsCharged
<1> QED
  BY <1>1, Inductive, PTL

-----------------------------------------------------------------------------
(* What a step does to the rows of the two services *)

\* Nothing that a holder of a key can see moves.
RowsStand ==
  /\ \A o \in OrderIds : status'[o] = status[o] /\ (O!Exists(o) => key'[o] = key[o])
  /\ \A c \in PaymentCalls :
       /\ P!Exists(c)' = P!Exists(c)
       /\ P!Exists(c) => amount'[c] = amount[c]

\* One order row is written, and no charge.
RowWritten(o, to) ==
  /\ key' = key /\ status' = [status EXCEPT ![o] = to]
  /\ UNCHANGED <<charge, amount>>

\* Which rows a step may write, and when.
StepWrites ==
  \/ RowsStand
  \/ \E o \in OrderIds :
       \/ ~O!Exists(o) /\ RowWritten(o, "pending")
       \/ O!Exists(o) /\ saga[o] = "markConfirmed" /\ RowWritten(o, "confirmed")
       \/ O!Exists(o) /\ saga[o] = "markFailed" /\ RowWritten(o, "failed")
       \/ O!Exists(o) /\ RowWritten(o, "cancelled")
  \/ \E c \in PaymentCalls :
       /\ call[c] = "missed" /\ Free(ChargeKey[c])
       /\ charge' = [charge EXCEPT ![c] = "pending"]
       /\ UNCHANGED <<amount, status, key>>

LEMMA PaymentWrites == ASSUME IInv, PaymentStep PROVE StepWrites
<1>1. charge \in [PaymentCalls -> {"absent", "pending", "settled", "failed", "refunded"}]
  BY DEF IInv, PP!IInv, PP!TypeOK, PP!ChargeIds
<1>2. UNCHANGED <<status, key, amount>>
  BY PaymentEffect DEF PaymentStep, ordersVars
<1> QED
  BY <1>1, <1>2, PaymentEffect DEF StepWrites, RowsStand, P!Exists

LEMMA OrdersWrites ==
  ASSUME IInv, UNCHANGED paymentVars,
         \/ \E r \in Requests :
              OP!RejectCheckout(r) \/ OP!ReceiveCheckout(r) \/ OP!HandlerStep(r)
         \/ \E o \in OrderIds :
              OP!LocalSagaStep(o) \/ OP!ChargeAttemptFailed(o) \/ OP!MarkCancelled(o)
         \/ \E op \in CancelOperators : OP!CancelHandlerStep(op)
  PROVE  StepWrites
<1> USE DEF IInv, OP!IInv, OP!TypeOK, OP!OrderIds, OrderIds, OP!requestVars, OP!storeVars,
            OP!cancelVars, OP!sagaVars, O!Exists, OP!Exists, paymentVars, P!Exists
<1>1. UNCHANGED <<charge, amount>>
  OBVIOUS
<1>2. ASSUME NEW r \in Requests,
             OP!RejectCheckout(r) \/ OP!ReceiveCheckout(r) \/ OP!HandlerStep(r)
      PROVE  RowsStand
  <2>1. UNCHANGED key \/ (request[r] = "idle" /\ \E k \in Keys : key' = [key EXCEPT ![r] = k])
    BY <1>2 DEF OP!RejectCheckout, OP!ReceiveCheckout, OP!HandlerStep, OP!ReplayedCheckout,
                OP!StartCheckout
  <2>2. request[r] = "idle" => status[r] = "absent"
    BY DEF OP!OrderProgress, OP!NotStarted
  <2>3. UNCHANGED status
    BY <1>2 DEF OP!RejectCheckout, OP!ReceiveCheckout, OP!HandlerStep, OP!ReplayedCheckout,
                OP!StartCheckout
  <2> QED
    BY <1>1, <2>1, <2>2, <2>3 DEF RowsStand
<1>3. ASSUME NEW o \in OrderIds, OP!CreateOrder(o) PROVE StepWrites
  <2>1. status' = status \/ (status[o] = "absent" /\ status' = [status EXCEPT ![o] = "pending"])
    BY <1>3 DEF OP!CreateOrder
  <2> QED
    BY <1>1, <1>3, <2>1 DEF OP!CreateOrder, StepWrites, RowsStand, RowWritten
<1>4. ASSUME NEW o \in OrderIds,
             \/ OP!GrantOrderAccess(o) \/ OP!LookupProduct(o) \/ OP!SetOrderTotal(o)
             \/ OP!ChargeAttemptFailed(o)
      PROVE  RowsStand
  BY <1>1, <1>4 DEF OP!GrantOrderAccess, OP!LookupProduct, OP!SetOrderTotal,
                    OP!ChargeAttemptFailed, RowsStand
<1>5. ASSUME NEW o \in OrderIds, OP!MarkConfirmed(o) PROVE StepWrites
  BY <1>1, <1>5 DEF OP!MarkConfirmed, OP!MarkOrderStatus, StepWrites, RowsStand, RowWritten
<1>6. ASSUME NEW o \in OrderIds, OP!MarkFailed(o) PROVE StepWrites
  BY <1>1, <1>6 DEF OP!MarkFailed, OP!MarkOrderStatus, StepWrites, RowsStand, RowWritten
<1>7. ASSUME NEW o \in OrderIds, OP!MarkCancelled(o) PROVE StepWrites
  BY <1>1, <1>7 DEF OP!MarkCancelled, OP!MarkOrderStatus, StepWrites, RowsStand, RowWritten
<1>8. ASSUME NEW op \in CancelOperators, OP!CancelHandlerStep(op) PROVE RowsStand
  BY <1>1, <1>8 DEF OP!CancelHandlerStep, OP!CheckCancel, OP!StartCancel, RowsStand
<1> QED
  BY <1>2, <1>3, <1>4, <1>5, <1>6, <1>7, <1>8 DEF OP!LocalSagaStep, StepWrites

LEMMA StepsWrite == ASSUME IInv, [Next]_vars PROVE StepWrites
<1>1. CASE OrdersStep
  BY <1>1, OrdersHandlers, OrdersCancels, OrdersWrites DEF OrdersStep
<1>2. CASE PaymentStep
  BY <1>2, PaymentWrites
<1>3. ASSUME NEW o \in OrderIds, SagaStep(o), ~SendCharge(o), ~ChargeAccepted(o)
      PROVE  StepWrites
  BY <1>3, OrdersSaga, OrdersWrites DEF SagaStep
<1>4. ASSUME NEW o \in OrderIds, SendCharge(o) PROVE StepWrites
  <2>1. UNCHANGED <<status, key, charge>> /\ call[CurrentCall(o)] = "unsent"
        /\ amount' = [amount EXCEPT ![CurrentCall(o)] = quote[o]]
    BY <1>4 DEF SendCharge, O!SendCharge, P!ReceiveCharge, O!storeVars, O!requestVars
  <2>2. \A c \in PaymentCalls : P!Exists(c) => c # CurrentCall(o)
    BY <2>1 DEF IInv, PP!IInv, PP!ChargeProgress, PP!ChargeIds, P!Exists
  <2> QED
    BY <2>1, <2>2 DEF StepWrites, RowsStand, P!Exists, IInv, PP!IInv, PP!TypeOK
<1>5. ASSUME NEW o \in OrderIds, ChargeAccepted(o) PROVE StepWrites
  BY <1>5 DEF ChargeAccepted, O!ChargeAccepted, O!storeVars, O!requestVars, paymentVars,
              StepWrites, RowsStand, P!Exists
<1>6. ASSUME NEW c \in DirectCalls, ReceiveDirectCharge(c) PROVE StepWrites
  BY <1>6, DirectEffect DEF StepWrites, RowsStand, P!Exists, ordersVars
<1>7. CASE UNCHANGED vars
  BY <1>7 DEF vars, ordersVars, paymentVars, StepWrites, RowsStand, P!Exists
<1> QED
  BY <1>1, <1>2, <1>3, <1>4, <1>5, <1>6, <1>7 DEF Next

\* The amount of an order never moves once its own charge exists.
THEOREM ChargedTotalStandsHolds == Spec => ChargedTotalStands
<1>1. IInv /\ [Next]_vars =>
        [\A o \in OrderIds : ChargesOf(o) # {} => total'[o] = total[o]]_vars
  <2> SUFFICES ASSUME IInv, [Next]_vars, NEW o \in OrderIds, ChargesOf(o) # {}
               PROVE  total'[o] = total[o]
    OBVIOUS
  <2>1. saga[o] \in PastSend
    BY ChargeHasOrder DEF ChargesOf
  <2>2. CASE OrdersStep
    BY <2>1, <2>2, OrdersHandlers, OrdersCancels, HandlersKeep, CancelsKeep DEF OrdersStep, Kept
  <2>3. ASSUME NEW p \in OrderIds, SagaStep(p), ~SendCharge(p), ~ChargeAccepted(p)
        PROVE  total'[o] = total[o]
    BY <2>1, <2>3, OrdersSaga, SagaKeeps DEF SagaStep, Kept
  <2>4. ASSUME NEW p \in OrderIds, SendCharge(p) \/ ChargeAccepted(p)
        PROVE  total'[o] = total[o]
    BY <2>4 DEF SendCharge, ChargeAccepted, O!SendCharge, O!ChargeAccepted, O!storeVars
  <2>5. CASE PaymentStep \/ (\E c \in DirectCalls : ReceiveDirectCharge(c)) \/ UNCHANGED vars
    BY <2>5 DEF PaymentStep, ReceiveDirectCharge, vars, ordersVars
  <2> QED
    BY <2>2, <2>3, <2>4, <2>5 DEF Next
<1> QED
  BY <1>1, Inductive, PTL DEF Spec, ChargedTotalStands

-----------------------------------------------------------------------------
(* The system keeps the promise of Placement *)

\* What the holder of a key sees: the one order that carries it, the one charge
\* of that order, and the orders whose place in payment a direct call has taken.
View ==
  /\ \A k \in Keys :
       /\ PlacedOrder(k) = NoOrder
            \/ (PlacedOrder(k) \in OrderIds /\ O!Exists(PlacedOrder(k)) /\ key[PlacedOrder(k)] = k)
       /\ \A o \in OrderIds : O!Exists(o) /\ key[o] = k => PlacedOrder(k) = o
  /\ \A o \in OrderIds :
       /\ ChargesOf(o) = {} => ChargedAmount(o) = 0
       /\ \A c \in ChargesOf(o) : ChargedAmount(o) = amount[c]
       /\ DecisionOn(o) = IF status[o] # "pending" THEN status[o] ELSE "open"
  /\ ChargedAmount(NoOrder) = 0 /\ DecisionOn(NoOrder) = "open"

LEMMA ViewHolds == IInv => View
<1> SUFFICES ASSUME IInv PROVE View
  OBVIOUS
<1>1. NoOrder \notin OrderIds
  BY CheckoutConstants DEF OrderIds
<1>2. \A o, p \in OrderIds : O!Exists(o) /\ O!Exists(p) /\ key[o] = key[p] => o = p
  BY DEF IInv, OP!IInv, OP!OneOrderPerKey, OP!OrderIds, OrderIds, OP!Exists, O!Exists
<1>3. ASSUME NEW k \in Keys
      PROVE  /\ \/ PlacedOrder(k) = NoOrder
                \/ /\ PlacedOrder(k) \in OrderIds
                   /\ O!Exists(PlacedOrder(k)) /\ key[PlacedOrder(k)] = k
             /\ \A o \in OrderIds : O!Exists(o) /\ key[o] = k => PlacedOrder(k) = o
  <2>1. CASE \E o \in OrderIds : O!Exists(o) /\ key[o] = k
    <3>1. PlacedOrder(k) = CHOOSE o \in OrderIds : O!Exists(o) /\ key[o] = k
      BY <2>1 DEF PlacedOrder
    <3>2. PlacedOrder(k) \in OrderIds /\ O!Exists(PlacedOrder(k)) /\ key[PlacedOrder(k)] = k
      BY <2>1, <3>1
    <3> QED
      BY <1>2, <3>2
  <2>2. CASE ~ \E o \in OrderIds : O!Exists(o) /\ key[o] = k
    BY <2>2 DEF PlacedOrder
  <2> QED
    BY <2>1, <2>2
<1>4. ASSUME NEW o \in OrderIds
      PROVE  /\ ChargesOf(o) = {} => ChargedAmount(o) = 0
             /\ \A c \in ChargesOf(o) : ChargedAmount(o) = amount[c]
  <2>1. ASSUME NEW c \in ChargesOf(o), NEW d \in ChargesOf(o) PROVE c = d
    BY <2>1, OneChargePerOrder DEF ChargesOf
  <2>2. ASSUME NEW c \in ChargesOf(o) PROVE ChargedAmount(o) = amount[c]
    <3>1. (CHOOSE d \in ChargesOf(o) : TRUE) = c
      BY <2>1
    <3> QED
      BY <1>1, <3>1 DEF ChargedAmount
  <2> QED
    BY <2>2 DEF ChargedAmount
<1> QED
  BY <1>1, <1>3, <1>4 DEF View, ChargedAmount, DecisionOn

LEMMA ViewInit == Init => Promise!Init
<1> SUFFICES ASSUME Init PROVE Promise!Init
  OBVIOUS
<1>1. \A k \in Keys : PlacedOrder(k) = NoOrder
  BY DEF Init, O!Init, PlacedOrder, O!Exists, O!OrderIds, OrderIds
<1>2. ChargedAmount(NoOrder) = 0 /\ DecisionOn(NoOrder) = "open"
  BY DEF ChargedAmount, DecisionOn
<1>3. {o \in OrderIds : KeyTaken(o)} = {}
  BY KeyOfCall DEF Init, P!Init, KeyTaken, P!Exists, P!ChargeIds
<1> QED
  BY <1>1, <1>2, <1>3 DEF Promise!Init

\* What is seen changes only with the rows.
LEMMA SameView == ASSUME IInv, View, View', RowsStand PROVE UNCHANGED Promise!vars
<1>1. \A o \in OrderIds : O!Exists(o)' = O!Exists(o)
  BY DEF RowsStand, O!Exists
<1>2. \A o \in OrderIds : ChargesOf(o)' = ChargesOf(o)
  BY KeyOfCall DEF RowsStand, ChargesOf
<1>3. \A o \in OrderIds : KeyTaken(o)' = KeyTaken(o)
  BY KeyOfCall DEF RowsStand, KeyTaken
<1>7. NoOrder \notin OrderIds
  BY CheckoutConstants DEF OrderIds
<1>4. ASSUME NEW k \in Keys PROVE PlacedOrder(k)' = PlacedOrder(k)
  BY <1>1, <1>7 DEF View, RowsStand
<1>5. ASSUME NEW o \in OrderIds
      PROVE  ChargedAmount(o)' = ChargedAmount(o) /\ DecisionOn(o)' = DecisionOn(o)
  <2>1. \A c \in ChargesOf(o) : amount'[c] = amount[c]
    BY KeyOfCall DEF RowsStand, ChargesOf
  <2>2. ChargedAmount(o)' = ChargedAmount(o)
    BY <1>2, <2>1 DEF View
  <2>3. DecisionOn(o)' = DecisionOn(o)
    BY DEF View, RowsStand
  <2> QED
    BY <2>2, <2>3
<1>6. ASSUME NEW k \in Keys
      PROVE  /\ ChargedAmount(PlacedOrder(k))' = ChargedAmount(PlacedOrder(k))
             /\ DecisionOn(PlacedOrder(k))' = DecisionOn(PlacedOrder(k))
  BY <1>4, <1>5 DEF View
<1> QED
  BY <1>3, <1>4, <1>6 DEF Promise!vars

\* What is seen of a key when the row of order o is written: of another key
\* nothing changes, of the order's own key its order and the decision may.
LEMMA WrittenView ==
  ASSUME IInv, View, View', NEW o \in OrderIds,
         NEW to \in {"pending", "confirmed", "failed", "cancelled"}, RowWritten(o, to)
  PROVE  /\ \A k \in Keys :
              /\ ChargedAmount(PlacedOrder(k))' = IF k = key[o] THEN ChargedAmount(o)
                                                  ELSE ChargedAmount(PlacedOrder(k))
              /\ PlacedOrder(k)' = IF k = key[o] THEN o ELSE PlacedOrder(k)
              /\ DecisionOn(PlacedOrder(k))' = IF k # key[o] THEN DecisionOn(PlacedOrder(k))
                                               ELSE IF to = "pending" THEN "open" ELSE to
         /\ \A k \in Keys : PlacedOrder(k) = IF O!Exists(o) /\ k = key[o] THEN o
                                             ELSE IF k = key[o] THEN NoOrder ELSE PlacedOrder(k)
         /\ \A k \in Keys : k # key[o] => PlacedOrder(k) # o
         /\ \A p \in OrderIds : KeyTaken(p)' = KeyTaken(p)
<1> USE DEF RowWritten
<1>0. status \in [OrderIds -> OP!Statuses \union {"absent"}] /\ NoOrder \notin OrderIds
  BY CheckoutConstants DEF IInv, OP!IInv, OP!TypeOK, OP!OrderIds, OrderIds
<1>1. \A p \in OrderIds : p # o => status'[p] = status[p]
  BY <1>0
<1>2. status'[o] = to
  BY <1>0
<1>3. \A p \in OrderIds : ChargesOf(p)' = ChargesOf(p) /\ ChargedAmount(p)' = ChargedAmount(p)
  <2>1. ASSUME NEW p \in OrderIds PROVE ChargesOf(p)' = ChargesOf(p)
    BY DEF ChargesOf, P!Exists
  <2> QED
    BY <2>1 DEF View
<1>4. \A p \in OrderIds : p # o => DecisionOn(p)' = DecisionOn(p)
  BY <1>1 DEF View
<1>5. DecisionOn(o)' = IF to = "pending" THEN "open" ELSE to
  BY <1>2 DEF View
<1>6. ASSUME NEW k \in Keys, k = key[o] PROVE PlacedOrder(k)' = o
  BY <1>2, <1>6 DEF View, O!Exists
<1>7. ASSUME NEW k \in Keys, k # key[o] PROVE PlacedOrder(k)' = PlacedOrder(k) /\ PlacedOrder(k) # o
  BY <1>0, <1>1, <1>7 DEF View, O!Exists
<1>8. ASSUME NEW k \in Keys, k = key[o]
      PROVE  PlacedOrder(k) = IF O!Exists(o) THEN o ELSE NoOrder
  <2>1. CASE O!Exists(o)
    BY <1>8, <2>1 DEF View
  <2>2. CASE ~O!Exists(o)
    <3> SUFFICES ASSUME PlacedOrder(k) # NoOrder PROVE FALSE
      BY <2>2
    <3>1. PICK p \in OrderIds : p = PlacedOrder(k) /\ O!Exists(p) /\ key[p] = k
      BY DEF View
    <3>2. O!Exists(p)'
      BY <1>1, <2>2, <3>1 DEF O!Exists
    <3>3. PlacedOrder(k)' = p
      BY <3>1, <3>2 DEF View
    <3> QED
      BY <1>6, <1>8, <2>2, <3>1, <3>3
  <2> QED
    BY <2>1, <2>2
<1>9. ASSUME NEW k \in Keys, k # key[o]
      PROVE  /\ ChargedAmount(PlacedOrder(k))' = ChargedAmount(PlacedOrder(k))
             /\ DecisionOn(PlacedOrder(k))' = DecisionOn(PlacedOrder(k))
  BY <1>3, <1>4, <1>7, <1>9 DEF View
<1>10. ASSUME NEW k \in Keys, k = key[o]
       PROVE  /\ ChargedAmount(PlacedOrder(k))' = ChargedAmount(o)
              /\ DecisionOn(PlacedOrder(k))' = IF to = "pending" THEN "open" ELSE to
  BY <1>3, <1>5, <1>6, <1>10
<1>11. \A p \in OrderIds : KeyTaken(p)' = KeyTaken(p)
  BY DEF KeyTaken, P!Exists
<1> QED
  BY <1>6, <1>7, <1>8, <1>9, <1>10, <1>11

\* A row that is inserted places the order of its key; one that is written
\* decides it.
LEMMA RowView ==
  ASSUME IInv, View, View', NEW o \in OrderIds,
         NEW to \in {"pending", "confirmed", "failed", "cancelled"}, RowWritten(o, to),
         \/ ~O!Exists(o) /\ to = "pending"
         \/ O!Exists(o) /\ saga[o] = "markConfirmed" /\ to = "confirmed"
         \/ O!Exists(o) /\ saga[o] = "markFailed" /\ to = "failed"
         \/ O!Exists(o) /\ to = "cancelled"
  PROVE  [Promise!Next]_Promise!vars
<1>1. CASE key[o] \notin Keys
  <2>1. \A k \in Keys : k # key[o]
    BY <1>1
  <2>2. UNCHANGED {p \in OrderIds : KeyTaken(p)}
    BY WrittenView
  <2> QED
    BY <2>1, <2>2, WrittenView DEF Promise!vars
<1>2. ASSUME key[o] \in Keys, ~O!Exists(o), to = "pending" PROVE Promise!Place(key[o], o)
  <2>1. ChargedAmount(o) = 0
    BY <1>2, ChargeHasOrder DEF View, ChargesOf
  <2>2. ChargedAmount(NoOrder) = 0 /\ DecisionOn(NoOrder) = "open"
    BY DEF View
  <2>3. \A k \in Keys : o # PlacedOrder(k)
    BY <1>2, WrittenView, CheckoutConstants DEF OrderIds
  <2>4. PlacedOrder(key[o]) = NoOrder
    BY <1>2, WrittenView
  <2>5. \A k \in Keys : ChargedAmount(PlacedOrder(k))' = ChargedAmount(PlacedOrder(k))
    BY <2>1, <2>2, <2>4, WrittenView
  <2>6. \A k \in Keys : DecisionOn(PlacedOrder(k))' = DecisionOn(PlacedOrder(k))
    BY <1>2, <2>2, <2>4, WrittenView
  <2>7. \A k \in Keys : PlacedOrder(k)' = IF k = key[o] THEN o ELSE PlacedOrder(k)
    BY WrittenView
  <2>8. UNCHANGED {p \in OrderIds : KeyTaken(p)}
    BY WrittenView
  <2> QED
    BY <1>2, <2>3, <2>4, <2>5, <2>6, <2>7, <2>8 DEF Promise!Place
<1>3. ASSUME key[o] \in Keys, O!Exists(o), to # "pending",
             to = "confirmed" => saga[o] = "markConfirmed",
             to = "failed" => saga[o] = "markFailed"
      PROVE  Promise!Decide(key[o], to)
  <2>1. PlacedOrder(key[o]) = o /\ o # NoOrder
    BY <1>3, WrittenView, CheckoutConstants DEF OrderIds
  <2>2. \A k \in Keys : PlacedOrder(k)' = PlacedOrder(k)
    BY <2>1, WrittenView
  <2>3. \A k \in Keys : ChargedAmount(PlacedOrder(k))' = ChargedAmount(PlacedOrder(k))
    BY <2>1, WrittenView
  <2>4. \A k \in Keys :
          DecisionOn(PlacedOrder(k))' = IF k = key[o] THEN to ELSE DecisionOn(PlacedOrder(k))
    BY <1>3, WrittenView
  <2>5. /\ to = "confirmed" => status[o] # "failed"
        /\ to = "failed" => status[o] # "confirmed"
    BY <1>3 DEF IInv, OP!IInv, OP!OrderProgress, OP!OrderIds, OrderIds
  <2>6. to = "confirmed" => ChargedAmount(o) > 0 \/ KeyTaken(o)
    <3>1. to = "confirmed" => ChargesOf(o) # {} \/ KeyTaken(o)
      BY <1>3, FreeOrTaken DEF IInv, Links, OrderLink
    <3>2. \A c \in ChargesOf(o) : amount[c] > 0
      BY ChargeHasOrder DEF ChargesOf
    <3> QED
      BY <3>1, <3>2 DEF View
  <2>7. /\ to = "confirmed" => DecisionOn(o) # "failed"
        /\ to = "failed" => DecisionOn(o) # "confirmed"
    BY <2>5 DEF View
  <2>8. UNCHANGED {p \in OrderIds : KeyTaken(p)}
    BY WrittenView
  <2> QED
    BY <1>3, <2>1, <2>2, <2>3, <2>4, <2>6, <2>7, <2>8 DEF Promise!Decide
<1> QED
  BY <1>1, <1>2, <1>3 DEF Promise!Next, Promise!Decisions

\* A row that payment inserts for a saga charges the key of its order.
LEMMA ChargeView ==
  ASSUME IInv, IInv', View, View', NEW c \in ChargeCalls,
         Free(ChargeKey[c]), charge' = [charge EXCEPT ![c] = "pending"],
         UNCHANGED <<amount, status, key>>
  PROVE  [Promise!Next]_Promise!vars
<1> DEFINE o == OrderOf(c)
<1> USE KeyOfCall
<1>0. /\ charge \in [PaymentCalls -> {"absent", "pending", "settled", "failed", "refunded"}]
      /\ c \in PaymentCalls
  BY DEF IInv, PP!IInv, PP!TypeOK, PP!ChargeIds
<1>1. P!Exists(c)'
  BY <1>0 DEF P!Exists
<1>2. o \in OrderIds /\ O!Exists(o) /\ amount[c] \in Totals /\ amount[c] > 0
  <2>1. CallLink(c)' /\ PP!ChargeProgress(c)'
    BY DEF IInv, Links, PP!IInv, PP!ChargeIds
  <2>2. call'[c] # "unsent"
    BY <1>1, <2>1 DEF PP!ChargeProgress, P!Exists
  <2> QED
    BY <1>1, <2>1, <2>2, CallOfOrder DEF CallLink, O!Exists, Totals
<1>3. \A p \in OrderIds : p # o => ChargesOf(p)' = ChargesOf(p)
  BY <1>0 DEF ChargesOf, P!Exists
<1>4. c \in ChargesOf(o)'
  BY <1>1 DEF ChargesOf
<1>5. ChargedAmount(o)' = amount[c] /\ ChargedAmount(o) = 0
  BY <1>2, <1>4, FreeOrTaken DEF View
<1>6. \A p \in OrderIds : p # o => ChargedAmount(p)' = ChargedAmount(p)
  <2>1. ASSUME NEW p \in OrderIds, p # o PROVE ChargedAmount(p)' = ChargedAmount(p)
    BY <1>3, <2>1 DEF View
  <2> QED
    BY <2>1
<1>7. \A k \in Keys : PlacedOrder(k)' = PlacedOrder(k)
  BY CheckoutConstants DEF View, O!Exists, OrderIds
<1>8. \A k \in Keys : DecisionOn(PlacedOrder(k))' = DecisionOn(PlacedOrder(k))
  BY <1>7 DEF View
<1>9. \A k \in Keys : k # key[o] => ChargedAmount(PlacedOrder(k))' = ChargedAmount(PlacedOrder(k))
  BY <1>6, <1>7 DEF View
<1>10. \A p \in OrderIds : KeyTaken(p)' = KeyTaken(p)
  BY <1>0, CheckoutConstants DEF KeyTaken, P!Exists
<1>11. ~KeyTaken(o) /\ ChargesOf(o) = {}
  BY <1>2, FreeOrTaken
<1>12. CASE key[o] \notin Keys
  BY <1>7, <1>8, <1>9, <1>12, <1>10 DEF Promise!vars
<1>13. ASSUME key[o] \in Keys PROVE Promise!Charge(key[o], amount[c])
  <2>1. PlacedOrder(key[o]) = o /\ o # NoOrder
    BY <1>2, <1>13, CheckoutConstants DEF View, OrderIds
  <2>2. ChargedAmount(PlacedOrder(key[o]))' = amount[c]
    BY <1>5, <1>7, <1>13, <2>1
  <2> QED
    BY <1>5, <1>7, <1>8, <1>9, <1>13, <1>10, <1>11, <2>1, <2>2 DEF Promise!Charge
<1> QED
  BY <1>2, <1>12, <1>13 DEF Promise!Next

\* One that it inserts for a direct call takes the place of the order whose id is
\* the call's key, or shows nothing.
LEMMA TakenView ==
  ASSUME IInv, View, View', NEW d \in DirectCalls,
         Free(ChargeKey[d]), charge' = [charge EXCEPT ![d] = "pending"],
         UNCHANGED <<amount, status, key>>
  PROVE  [Promise!Next]_Promise!vars
<1> USE KeyOfCall
<1>1. /\ charge \in [PaymentCalls -> {"absent", "pending", "settled", "failed", "refunded"}]
      /\ d \in PaymentCalls /\ d \notin ChargeCalls
  BY CheckoutConstants DEF IInv, PP!IInv, PP!TypeOK, PP!ChargeIds
<1>2. P!Exists(d)' /\ \A c \in PaymentCalls : c # d => P!Exists(c)' = P!Exists(c)
  BY <1>1 DEF P!Exists
<1>3. \A o \in OrderIds : ChargesOf(o)' = ChargesOf(o)
  BY <1>1, <1>2 DEF ChargesOf
<1>4. ASSUME NEW o \in OrderIds PROVE ChargedAmount(o)' = ChargedAmount(o)
  BY <1>3 DEF View
<1>5. \A k \in Keys : PlacedOrder(k)' = PlacedOrder(k)
  BY CheckoutConstants DEF View, O!Exists, OrderIds
<1>6. \A k \in Keys : /\ ChargedAmount(PlacedOrder(k))' = ChargedAmount(PlacedOrder(k))
                      /\ DecisionOn(PlacedOrder(k))' = DecisionOn(PlacedOrder(k))
  BY <1>4, <1>5 DEF View
<1>7. \A o \in OrderIds : KeyTaken(o)' <=> KeyTaken(o) \/ o = DirectKey[d]
  BY <1>1, <1>2 DEF KeyTaken
<1>8. CASE DirectKey[d] \notin OrderIds
  <2>1. UNCHANGED {o \in OrderIds : KeyTaken(o)}
    BY <1>7, <1>8
  <2> QED
    BY <1>5, <1>6, <2>1 DEF Promise!vars
<1>9. ASSUME DirectKey[d] \in OrderIds PROVE Promise!Take(DirectKey[d])
  <2>1. ChargedAmount(DirectKey[d]) = 0
    BY <1>9, FreeOrTaken DEF View
  <2>2. {o \in OrderIds : KeyTaken(o)}' = {o \in OrderIds : KeyTaken(o)} \union {DirectKey[d]}
    BY <1>7, <1>9
  <2> QED
    BY <1>5, <1>6, <2>1, <2>2 DEF Promise!Take
<1> QED
  BY <1>8, <1>9 DEF Promise!Next

LEMMA ViewStep ==
  ASSUME IInv, IInv', View, View', StepWrites
  PROVE  [Promise!Next]_Promise!vars
<1>1. ASSUME NEW o \in OrderIds, NEW to \in {"pending", "confirmed", "failed", "cancelled"},
             RowWritten(o, to),
             \/ ~O!Exists(o) /\ to = "pending"
             \/ O!Exists(o) /\ saga[o] = "markConfirmed" /\ to = "confirmed"
             \/ O!Exists(o) /\ saga[o] = "markFailed" /\ to = "failed"
             \/ O!Exists(o) /\ to = "cancelled"
      PROVE  [Promise!Next]_Promise!vars
  BY <1>1, RowView
<1>2. ASSUME NEW c \in PaymentCalls, Free(ChargeKey[c]),
             charge' = [charge EXCEPT ![c] = "pending"], UNCHANGED <<amount, status, key>>
      PROVE  [Promise!Next]_Promise!vars
  <2>1. CASE c \in ChargeCalls
    BY <1>2, <2>1, ChargeView
  <2>2. CASE c \in DirectCalls
    BY <1>2, <2>2, TakenView
  <2> QED
    BY <2>1, <2>2, KeyOfCall
<1>3. CASE RowsStand
  BY <1>3, SameView
<1> QED
  BY <1>1, <1>2, <1>3 DEF StepWrites

\* The two services together implement Placement: one order for a key, one
\* charge for that order, and a decision that this charge, or a direct call's in
\* its place, bears out.
THEOREM PlacementKeptHolds == Spec => PlacementKept
<1>1. IInv /\ IInv' /\ View /\ View' /\ [Next]_vars => [Promise!Next]_Promise!vars
  BY StepsWrite, ViewStep
<1>2. Spec => [](IInv /\ View)
  BY Inductive, ViewHolds, PTL
<1>3. Init => Promise!Init
  BY ViewInit
<1> QED
  BY <1>1, <1>2, <1>3, PTL DEF Spec, PlacementKept, Promise!Spec
=============================================================================
