--------------------------- MODULE Payment_Proofs ---------------------------
(***************************************************************************)
(* Theorems about Payment, for any number of calls, keys, operators,       *)
(* amounts and attempts.                                                   *)
(***************************************************************************)
EXTENDS Payment, TLAPS

-----------------------------------------------------------------------------
(* The inductive invariant *)

Outcomes == {"settled", "refunded"}

OneRowPerKey ==
  \A c, d \in ChargeIds : Exists(c) /\ Exists(d) /\ KeyOf[c] = KeyOf[d] => c = d

\* What the Charge workflow's step says of the row, the tuple and the processor.
ChargeProgress(c) ==
  /\ call[c] \in {"unsent", "received", "missed"} => charge[c] = "absent"
  /\ call[c] = "inserted" => Exists(c) /\ settling[c] = "none"
  /\ settling[c] # "none" => Exists(c)
  /\ settling[c] = "none" => charge[c] \in {"absent", "pending"}
  /\ settling[c] \in {"settle", "markSettled", "markFailed", "completed"} =>
       c \in readable
  /\ settling[c] \in {"markSettled", "completed"} => c \in settledAt
  /\ c \in settledAt => Exists(c)
  /\ charge[c] \in Outcomes =>
       /\ settling[c] \in {"markSettled", "completed", "failed"}
       /\ c \in settledAt /\ c \in readable
  /\ charge[c] = "failed" => settling[c] \in {"markFailed", "failed"} /\ c \in readable
  /\ settling[c] = "completed" => charge[c] \in Outcomes

\* What the Refund workflow's step says: an outcome it has seen is still one.
RefundProgress(c) ==
  /\ \A op \in Operators : refundCall[op] = c => charge[c] \in Outcomes
  /\ refund[c] # "none" => charge[c] \in Outcomes
  /\ refund[c] \in {"markRefunded", "completed"} => c \in reversedAt
  /\ c \in reversedAt => refund[c] # "none"
  /\ charge[c] = "refunded" => c \in reversedAt

IInv ==
  /\ TypeOK
  /\ OneRowPerKey
  /\ \A c \in ChargeIds : ChargeProgress(c) /\ RefundProgress(c)
-----------------------------------------------------------------------------
(* How an attempt moves the two workflows *)

AllSteps == ChargeSteps \union Ends \union {"none"}
AllRefundSteps == RefundSteps \union Ends \union {"none"}
Counts == [ChargeIds -> 0 .. MaxAttempts - 1]

\* An attempt of the Charge workflow leaves it at its step or takes it where
\* the error leads, or on when the work was done and reported.
LEMMA ChargeMoves ==
  ASSUME TypeOK, NEW c \in ChargeIds, NEW step \in ChargeSteps, settling[c] = step
  PROVE  /\ AttemptFailed(c, step) =>
              /\ \E next \in {step, OnError[step]} :
                   settling' = [settling EXCEPT ![c] = next]
              /\ chargeTries' \in Counts
         /\ Worked(c, step) =>
              /\ \E next \in {step, OnError[step], After[step]} :
                   settling' = [settling EXCEPT ![c] = next]
              /\ chargeTries' \in Counts
<1> USE PaymentConstants DEF TypeOK, Counts
<1>1. 0 \in 0 .. MaxAttempts - 1
  OBVIOUS
<1>2. AttemptFailed(c, step) =>
        /\ \E next \in {step, OnError[step]} :
             settling' = [settling EXCEPT ![c] = next]
        /\ chargeTries' \in Counts
  <2>1. CASE chargeTries[c] + 1 < MaxAttempts
    <3>1. chargeTries[c] + 1 \in 0 .. MaxAttempts - 1
      BY <2>1
    <3>2. settling = [settling EXCEPT ![c] = step]
      OBVIOUS
    <3> QED
      BY <2>1, <3>1, <3>2 DEF AttemptFailed
  <2>2. CASE ~ (chargeTries[c] + 1 < MaxAttempts)
    BY <1>1, <2>2 DEF AttemptFailed, Proceed
  <2> QED
    BY <2>1, <2>2
<1>3. Proceed(c, After[step]) =>
        /\ settling' = [settling EXCEPT ![c] = After[step]]
        /\ chargeTries' \in Counts
  BY <1>1 DEF Proceed
<1> QED
  BY <1>2, <1>3 DEF Worked

\* The same for the Refund workflow.
LEMMA RefundMoves ==
  ASSUME TypeOK, NEW c \in ChargeIds, NEW step \in RefundSteps, refund[c] = step
  PROVE  /\ RefundAttemptFailed(c, step) =>
              /\ \E next \in {step, OnRefundError[step]} :
                   refund' = [refund EXCEPT ![c] = next]
              /\ refundTries' \in Counts
         /\ RefundWorked(c, step) =>
              /\ \E next \in {step, OnRefundError[step], AfterRefund[step]} :
                   refund' = [refund EXCEPT ![c] = next]
              /\ refundTries' \in Counts
<1> USE PaymentConstants DEF TypeOK, Counts
<1>1. 0 \in 0 .. MaxAttempts - 1
  OBVIOUS
<1>2. RefundAttemptFailed(c, step) =>
        /\ \E next \in {step, OnRefundError[step]} :
             refund' = [refund EXCEPT ![c] = next]
        /\ refundTries' \in Counts
  <2>1. CASE refundTries[c] + 1 < MaxAttempts
    <3>1. refundTries[c] + 1 \in 0 .. MaxAttempts - 1
      BY <2>1
    <3>2. refund = [refund EXCEPT ![c] = step]
      OBVIOUS
    <3> QED
      BY <2>1, <3>1, <3>2 DEF RefundAttemptFailed
  <2>2. CASE ~ (refundTries[c] + 1 < MaxAttempts)
    BY <1>1, <2>2 DEF RefundAttemptFailed, RefundProceed
  <2> QED
    BY <2>1, <2>2
<1>3. RefundProceed(c, AfterRefund[step]) =>
        /\ refund' = [refund EXCEPT ![c] = AfterRefund[step]]
        /\ refundTries' \in Counts
  BY <1>1 DEF RefundProceed
<1> QED
  BY <1>2, <1>3 DEF RefundWorked

LEMMA StepsLeadToSteps ==
  /\ \A step \in ChargeSteps :
       After[step] \in ChargeSteps \union Ends /\ OnError[step] \in ChargeSteps \union Ends
  /\ \A step \in RefundSteps :
       /\ AfterRefund[step] \in RefundSteps \union Ends
       /\ OnRefundError[step] \in RefundSteps \union Ends
BY DEF ChargeSteps, RefundSteps, Ends, After, OnError, AfterRefund, OnRefundError

\* What each step of the Charge workflow writes, and where it leads.
ChargeEffect(c) ==
  \/ /\ settling[c] = "grant"
     /\ \/ /\ readable' = readable \union {c}
           /\ \E next \in {"grant", "failed", "settle"} :
                settling' = [settling EXCEPT ![c] = next]
        \/ /\ UNCHANGED readable
           /\ \E next \in {"grant", "failed"} :
                settling' = [settling EXCEPT ![c] = next]
     /\ UNCHANGED <<charge, settledAt>>
  \/ /\ settling[c] = "settle"
     /\ \/ /\ settledAt' = settledAt \union {c}
           /\ \E next \in {"settle", "markFailed", "markSettled"} :
                settling' = [settling EXCEPT ![c] = next]
        \/ /\ UNCHANGED settledAt
           /\ \E next \in {"settle", "markFailed"} :
                settling' = [settling EXCEPT ![c] = next]
     /\ UNCHANGED <<charge, readable>>
  \/ /\ settling[c] = "markSettled"
     /\ \/ /\ MarkChargeStatus(c, "settled")
           /\ \E next \in {"markSettled", "failed", "completed"} :
                settling' = [settling EXCEPT ![c] = next]
        \/ /\ UNCHANGED charge
           /\ \E next \in {"markSettled", "failed"} :
                settling' = [settling EXCEPT ![c] = next]
     /\ UNCHANGED <<readable, settledAt>>
  \/ /\ settling[c] = "markFailed"
     /\ MarkChargeStatus(c, "failed") \/ UNCHANGED charge
     /\ \E next \in {"markFailed", "failed"} :
          settling' = [settling EXCEPT ![c] = next]
     /\ UNCHANGED <<readable, settledAt>>

LEMMA ChargeStepEffect ==
  ASSUME TypeOK, NEW c \in ChargeIds, ChargeStep(c)
  PROVE  ChargeEffect(c) /\ chargeTries' \in Counts /\ UNCHANGED <<callVars, refundVars>>
<1> USE DEF ChargeSteps, After, OnError, ChargeEffect
<1>1. CASE GrantChargeAccess(c)
  BY <1>1, ChargeMoves DEF GrantChargeAccess
<1>2. CASE Settle(c)
  BY <1>2, ChargeMoves DEF Settle
<1>3. CASE MarkSettled(c)
  BY <1>3, ChargeMoves DEF MarkSettled
<1>4. CASE MarkFailed(c)
  BY <1>4, ChargeMoves DEF MarkFailed
<1> QED
  BY <1>1, <1>2, <1>3, <1>4 DEF ChargeStep

\* What each step of the Refund workflow writes, and where it leads.
RefundEffect(c) ==
  \/ /\ refund[c] = "reverse"
     /\ \/ /\ reversedAt' = reversedAt \union {c}
           /\ \E next \in {"reverse", "failed", "markRefunded"} :
                refund' = [refund EXCEPT ![c] = next]
        \/ /\ UNCHANGED reversedAt
           /\ \E next \in {"reverse", "failed"} : refund' = [refund EXCEPT ![c] = next]
     /\ UNCHANGED charge
  \/ /\ refund[c] = "markRefunded"
     /\ MarkChargeStatus(c, "refunded") \/ UNCHANGED charge
     /\ \E next \in {"markRefunded", "failed", "completed"} :
          refund' = [refund EXCEPT ![c] = next]
     /\ UNCHANGED reversedAt

LEMMA RefundStepEffect ==
  ASSUME TypeOK, NEW c \in ChargeIds, RefundStep(c)
  PROVE  /\ RefundEffect(c) /\ refundTries' \in Counts
         /\ UNCHANGED <<callVars, chargeVars, refundCall>>
<1> USE DEF RefundSteps, AfterRefund, OnRefundError, RefundEffect
<1>1. CASE Reverse(c)
  BY <1>1, RefundMoves DEF Reverse
<1>2. CASE MarkRefunded(c)
  BY <1>2, RefundMoves DEF MarkRefunded
<1> QED
  BY <1>1, <1>2 DEF RefundStep
-----------------------------------------------------------------------------
(* Type correctness *)

LEMMA TypeInit == Init => TypeOK
<1> SUFFICES ASSUME Init PROVE TypeOK
  OBVIOUS
<1>1. 0 \in 0 .. MaxAttempts - 1
  BY PaymentConstants
<1> QED
  BY <1>1 DEF Init, TypeOK, ChargeIds, CallSteps

LEMMA TypeStep == TypeOK /\ [Next]_vars => TypeOK'
<1> SUFFICES ASSUME TypeOK, [Next]_vars PROVE TypeOK'
  OBVIOUS
<1> USE DEF ChargeIds, callVars, chargeVars, refundVars, Counts
<1>0. 0 \in 0 .. MaxAttempts - 1
  BY PaymentConstants
<1>1. ASSUME NEW c \in Calls, HandlerStep(c) PROVE TypeOK'
  BY <1>1 DEF HandlerStep, LookupKey, InsertCharge, StartCharge, Refuse, TypeOK,
              CallSteps, ChargeSteps
<1>2. ASSUME NEW c \in Calls, ChargeStep(c) PROVE TypeOK'
  <2>1. /\ ChargeEffect(c) /\ chargeTries' \in Counts
        /\ UNCHANGED <<callVars, refundVars>>
    BY <1>2, ChargeStepEffect
  <2>2. settling' \in [ChargeIds -> AllSteps]
    BY <2>1 DEF ChargeEffect, TypeOK, AllSteps, ChargeSteps, Ends
  <2>3. /\ readable' \subseteq ChargeIds /\ settledAt' \subseteq ChargeIds
        /\ charge' \in [ChargeIds -> {"absent", "pending", "settled", "failed", "refunded"}]
    BY <2>1 DEF ChargeEffect, MarkChargeStatus, TypeOK
  <2> QED
    BY <2>1, <2>2, <2>3 DEF TypeOK, AllSteps
<1>3. ASSUME NEW c \in Calls, RefundStep(c) PROVE TypeOK'
  <2>1. /\ RefundEffect(c) /\ refundTries' \in Counts
        /\ UNCHANGED <<callVars, chargeVars, refundCall>>
    BY <1>3, RefundStepEffect
  <2>2. refund' \in [ChargeIds -> AllRefundSteps]
    BY <2>1 DEF RefundEffect, TypeOK, AllRefundSteps, RefundSteps, Ends
  <2>3. /\ reversedAt' \subseteq ChargeIds
        /\ charge' \in [ChargeIds -> {"absent", "pending", "settled", "failed", "refunded"}]
    BY <2>1 DEF RefundEffect, MarkChargeStatus, TypeOK
  <2> QED
    BY <2>1, <2>2, <2>3 DEF TypeOK, AllRefundSteps
<1>4. ASSUME NEW op \in Operators, RefundHandlerStep(op) PROVE TypeOK'
  BY <1>0, <1>4 DEF RefundHandlerStep, CheckRefund, StartRefund, TypeOK, RefundSteps
<1>5. ASSUME NEW c \in Calls, NEW a \in Amounts, ReceiveCharge(c, a) PROVE TypeOK'
  BY <1>5, PaymentConstants DEF ReceiveCharge, TypeOK, CallSteps
<1>6. CASE UNCHANGED vars
  BY <1>6 DEF vars, TypeOK
<1> QED
  BY <1>1, <1>2, <1>3, <1>4, <1>5, <1>6 DEF Next, LocalStep

\* Every variable keeps its type, however many calls and attempts there are.
THEOREM TypeCorrect == Spec => []TypeOK
<1> QED
  BY TypeInit, TypeStep, PTL DEF Spec

-----------------------------------------------------------------------------
(* The invariant is inductive *)

Progress == OneRowPerKey /\ \A c \in ChargeIds : ChargeProgress(c) /\ RefundProgress(c)

LEMMA InitProgress == Init => IInv
<1> SUFFICES ASSUME Init PROVE IInv
  OBVIOUS
<1>1. OneRowPerKey
  BY DEF Init, OneRowPerKey, Exists
<1>2. ASSUME NEW c \in ChargeIds PROVE ChargeProgress(c)
  BY <1>2 DEF Init, ChargeProgress, Exists, Outcomes, ChargeIds
<1>3. ASSUME NEW c \in ChargeIds PROVE RefundProgress(c)
  BY <1>3, PaymentConstants DEF Init, RefundProgress, Outcomes, ChargeIds
<1> QED
  BY <1>1, <1>2, <1>3, TypeInit DEF IInv

\* A create handler: a row is inserted only for a key that has none.
LEMMA HandlerProgress ==
  ASSUME IInv, NEW d \in Calls,
         HandlerStep(d) \/ \E a \in Amounts : ReceiveCharge(d, a)
  PROVE  Progress'
<1> USE DEF IInv, ChargeIds, chargeVars, refundVars
<1>1. UNCHANGED <<readable, settledAt, refundVars>>
  BY DEF HandlerStep, LookupKey, InsertCharge, StartCharge, Refuse, ReceiveCharge
<1>2. \/ /\ UNCHANGED <<charge, settling>>
         /\ \/ call[d] \in {"unsent", "received"} /\ call'[d] # "inserted"
            \/ call[d] \in {"missed", "inserted"} /\ call'[d] = "refused"
      \/ /\ call[d] = "missed" /\ KeyUnused(d) /\ UNCHANGED settling
         /\ charge' = [charge EXCEPT ![d] = "pending"]
         /\ call'[d] \in {"inserted", "refused"}
      \/ /\ call[d] = "inserted" /\ UNCHANGED charge
         /\ settling' = [settling EXCEPT ![d] = "grant"]
         /\ call'[d] \in {"accepted", "refused"}
  BY DEF HandlerStep, LookupKey, InsertCharge, StartCharge, Refuse, ReceiveCharge, TypeOK
<1>3. \A c \in ChargeIds : c # d => call'[c] = call[c]
  BY DEF HandlerStep, LookupKey, InsertCharge, StartCharge, Refuse, ReceiveCharge, TypeOK
<1>4. OneRowPerKey'
  BY <1>2 DEF OneRowPerKey, KeyUnused, Recorded, Exists, TypeOK
<1>5. call[d] = "missed" => d \notin settledAt /\ settling[d] = "none" /\ refund[d] = "none"
  BY DEF ChargeProgress, RefundProgress, Exists, Outcomes
<1>6. \A c \in ChargeIds :
        charge[c] = charge'[c] \/ (c = d /\ call[d] = "missed" /\ charge'[c] = "pending")
  BY <1>2 DEF TypeOK
<1>7. call[d] = "missed" => \A op \in Operators : refundCall[op] # d
  BY DEF ChargeProgress, RefundProgress, Outcomes
<1>8. \A c \in ChargeIds : RefundProgress(c)'
  BY <1>1, <1>5, <1>6, <1>7 DEF RefundProgress, Outcomes
<1>9. ChargeProgress(d)'
  BY <1>1, <1>2, <1>5 DEF ChargeProgress, Exists, Outcomes, TypeOK
<1>10. ASSUME NEW c \in ChargeIds, c # d PROVE ChargeProgress(c)'
  BY <1>1, <1>2, <1>3, <1>10 DEF ChargeProgress, Exists, Outcomes, TypeOK
<1> QED
  BY <1>4, <1>8, <1>9, <1>10 DEF Progress

LEMMA ChargeStepProgress ==
  ASSUME IInv, NEW d \in ChargeIds, ChargeStep(d)
  PROVE  Progress'
<1> USE DEF IInv, callVars, refundVars
<1>1. ChargeEffect(d) /\ UNCHANGED <<callVars, refundVars>>
  BY ChargeStepEffect
<1>2. Exists(d)
  BY <1>1 DEF ChargeEffect, ChargeProgress
<1>3. OneRowPerKey'
  BY <1>1, <1>2 DEF ChargeEffect, MarkChargeStatus, OneRowPerKey, Exists, TypeOK
<1>4. ChargeProgress(d)'
  BY <1>1, <1>2
     DEF ChargeEffect, MarkChargeStatus, ChargeProgress, Exists, Outcomes, TypeOK
<1>5. ASSUME NEW c \in ChargeIds, c # d PROVE ChargeProgress(c)'
  BY <1>1, <1>5
     DEF ChargeEffect, MarkChargeStatus, ChargeProgress, Exists, Outcomes, TypeOK
<1>6. \A c \in ChargeIds :
        /\ charge[c] \in Outcomes => charge'[c] \in Outcomes
        /\ charge'[c] = "refunded" => charge[c] = "refunded"
  BY <1>1 DEF ChargeEffect, MarkChargeStatus, ChargeProgress, Outcomes, TypeOK
<1>7. \A c \in ChargeIds : RefundProgress(c)'
  BY <1>1, <1>6 DEF RefundProgress
<1> QED
  BY <1>3, <1>4, <1>5, <1>7 DEF Progress

LEMMA RefundStepProgress ==
  ASSUME IInv, NEW d \in ChargeIds, RefundStep(d)
  PROVE  Progress'
<1> USE DEF IInv, callVars, chargeVars
<1>1. RefundEffect(d) /\ UNCHANGED <<callVars, chargeVars, refundCall>>
  BY RefundStepEffect
<1>2. charge[d] \in Outcomes
  BY <1>1 DEF RefundEffect, RefundProgress
<1>3. \A c \in ChargeIds :
        \/ charge'[c] = charge[c]
        \/ c = d /\ refund[d] = "markRefunded" /\ charge'[c] = "refunded"
  BY <1>1 DEF RefundEffect, MarkChargeStatus, TypeOK
<1>4. OneRowPerKey'
  BY <1>2, <1>3 DEF OneRowPerKey, Exists, Outcomes
<1>5. \A c \in ChargeIds : ChargeProgress(c)'
  BY <1>1, <1>2, <1>3 DEF ChargeProgress, Exists, Outcomes
<1>6. RefundProgress(d)'
  BY <1>1, <1>2, <1>3 DEF RefundEffect, RefundProgress, Outcomes, TypeOK
<1>7. ASSUME NEW c \in ChargeIds, c # d PROVE RefundProgress(c)'
  BY <1>1, <1>3, <1>7 DEF RefundEffect, RefundProgress, TypeOK
<1> QED
  BY <1>4, <1>5, <1>6, <1>7 DEF Progress

LEMMA RefundHandlerProgress ==
  ASSUME IInv, NEW op \in Operators, RefundHandlerStep(op)
  PROVE  Progress'
<1> USE DEF IInv, callVars, chargeVars
<1>1. UNCHANGED <<callVars, charge, chargeVars, reversedAt>>
  BY DEF RefundHandlerStep, StartRefund, CheckRefund
<1>2. OneRowPerKey' /\ \A c \in ChargeIds : ChargeProgress(c)'
  BY <1>1 DEF OneRowPerKey, ChargeProgress, Exists
<1>3. ASSUME NEW d \in ChargeIds, CheckRefund(op, d) PROVE \A c \in ChargeIds : RefundProgress(c)'
  BY <1>3 DEF CheckRefund, Refundable, RefundProgress, Outcomes, TypeOK
<1>4. ASSUME StartRefund(op) PROVE \A c \in ChargeIds : RefundProgress(c)'
  <2>1. \A o \in Operators : refundCall'[o] \in {refundCall[o], NoCharge}
    BY <1>4 DEF StartRefund, TypeOK
  <2>2. \A c \in ChargeIds :
          refund'[c] = refund[c] \/ (c = refundCall[op] /\ refund'[c] = "reverse")
    BY <1>4 DEF StartRefund, TypeOK
  <2> QED
    BY <1>1, <2>1, <2>2, PaymentConstants DEF RefundProgress, ChargeIds
<1> QED
  BY <1>2, <1>3, <1>4 DEF RefundHandlerStep, Progress

LEMMA InductiveStep == IInv /\ [Next]_vars => IInv'
<1> SUFFICES ASSUME IInv, [Next]_vars PROVE IInv'
  OBVIOUS
<1>1. TypeOK'
  BY TypeStep DEF IInv
<1>2. CASE LocalStep
  BY <1>2, HandlerProgress, ChargeStepProgress, RefundStepProgress,
     RefundHandlerProgress, <1>1 DEF LocalStep, ChargeIds, Progress, IInv
<1>3. ASSUME NEW c \in Calls, NEW a \in Amounts, ReceiveCharge(c, a) PROVE IInv'
  BY <1>1, <1>3, HandlerProgress DEF Progress, IInv
<1>4. CASE UNCHANGED vars
  BY <1>1, <1>4 DEF IInv, OneRowPerKey, ChargeProgress, RefundProgress, Exists,
                    vars, callVars, chargeVars, refundVars
<1> QED
  BY <1>2, <1>3, <1>4 DEF Next

THEOREM Inductive == Spec => []IInv
<1> QED
  BY InitProgress, InductiveStep, PTL DEF Spec

-----------------------------------------------------------------------------
(* What the invariant gives *)

\* One key, one settlement, for any number of calls that carry it.
THEOREM SettledOncePerKeyHolds == Spec => []SettledOncePerKey
<1>1. IInv => SettledOncePerKey
  BY DEF IInv, TypeOK, OneRowPerKey, ChargeProgress, SettledOncePerKey
<1> QED
  BY <1>1, Inductive, PTL

\* A charge that has an outcome is one its buyer can read.
THEOREM ReadableOnceDecidedHolds == Spec => []ReadableOnceDecided
<1>1. IInv => ReadableOnceDecided
  BY DEF IInv, ChargeProgress, ReadableOnceDecided, Outcomes
<1> QED
  BY <1>1, Inductive, PTL

\* The row claims no more than the processor did.
THEOREM StatusBackedByProcessorHolds == Spec => []StatusBackedByProcessor
<1>1. IInv => StatusBackedByProcessor
  BY DEF IInv, ChargeProgress, RefundProgress, StatusBackedByProcessor, Outcomes
<1> QED
  BY <1>1, Inductive, PTL

\* Money goes back only for a charge that took it.
THEOREM ReversedWasSettledHolds == Spec => []ReversedWasSettled
<1>1. IInv => ReversedWasSettled
  BY DEF IInv, TypeOK, ChargeProgress, RefundProgress, ReversedWasSettled, Outcomes
<1> QED
  BY <1>1, Inductive, PTL

\* A completed Charge workflow left its charge settled.
THEOREM CompletedIsSettledHolds == Spec => []CompletedIsSettled
<1>1. IInv => CompletedIsSettled
  BY DEF IInv, ChargeProgress, CompletedIsSettled, Outcomes
<1> QED
  BY <1>1, Inductive, PTL

\* A failed charge stays failed; one that took money stays settled or refunded.
THEOREM OutcomeStandsHolds == Spec => OutcomeStands
<1>1. IInv /\ [Next]_vars =>
        [\A c \in ChargeIds :
           /\ charge[c] = "failed" => charge'[c] = "failed"
           /\ charge[c] \in {"settled", "refunded"} =>
                charge'[c] \in {"settled", "refunded"}]_vars
  <2> SUFFICES ASSUME IInv, [Next]_vars, NEW c \in ChargeIds
               PROVE  /\ charge[c] = "failed" => charge'[c] = "failed"
                      /\ charge[c] \in {"settled", "refunded"} =>
                           charge'[c] \in {"settled", "refunded"}
    OBVIOUS
  <2> USE DEF IInv, ChargeIds
  <2>1. ASSUME NEW d \in Calls, HandlerStep(d) \/ \E a \in Amounts : ReceiveCharge(d, a)
        PROVE  charge'[c] = charge[c] \/ charge[c] = "absent"
    BY <2>1 DEF HandlerStep, LookupKey, InsertCharge, StartCharge, Refuse,
                ReceiveCharge, ChargeProgress, TypeOK
  <2>2. ASSUME NEW d \in Calls, ChargeStep(d)
        PROVE  \/ charge'[c] = charge[c]
               \/ charge[c] \in {"pending", "settled", "refunded"} /\ charge'[c] = "settled"
               \/ charge[c] = "pending" /\ charge'[c] = "failed"
    BY <2>2, ChargeStepEffect
       DEF ChargeEffect, MarkChargeStatus, ChargeProgress, Outcomes, Exists, TypeOK
  <2>3. ASSUME NEW d \in Calls, RefundStep(d)
        PROVE  \/ charge'[c] = charge[c]
               \/ charge[c] \in Outcomes /\ charge'[c] = "refunded"
    BY <2>3, RefundStepEffect
       DEF RefundEffect, MarkChargeStatus, RefundProgress, TypeOK
  <2>4. ASSUME NEW op \in Operators, RefundHandlerStep(op) PROVE charge' = charge
    BY <2>4 DEF RefundHandlerStep, StartRefund, CheckRefund
  <2>5. CASE UNCHANGED vars
    BY <2>5 DEF vars
  <2> QED
    BY <2>1, <2>2, <2>3, <2>4, <2>5 DEF Next, LocalStep, Outcomes
<1> QED
  BY <1>1, Inductive, PTL DEF Spec, OutcomeStands

-----------------------------------------------------------------------------
(* The work that the two workflows have left *)

\* The activities that a workflow may still have to run, the one it is at
\* included.
ChargeActivities ==
  [none |-> 4, grant |-> 3, settle |-> 2, markSettled |-> 1, markFailed |-> 1]
RefundActivities == [reverse |-> 2, markRefunded |-> 1]

\* The attempts that are left.
ChargeLeft(c) ==
  IF settling[c] \in Ends
    THEN 0
    ELSE ChargeActivities[settling[c]] * MaxAttempts - chargeTries[c]

RefundLeft(c) ==
  IF refund[c] \in RefundSteps
    THEN RefundActivities[refund[c]] * MaxAttempts - refundTries[c]
    ELSE 0

WorkflowWork ==
  \A c \in ChargeIds :
    /\ ChargeLeft(c) \in 0 .. 4 * MaxAttempts
    /\ ChargeLeft(c) = 0 <=> settling[c] \in Ends
    /\ RefundLeft(c) \in 0 .. 2 * MaxAttempts
    /\ RefundLeft(c) = 0 <=> refund[c] \notin RefundSteps

\* Each step of a workflow, and the start of a charge's, leaves less to do, and
\* nothing else touches it while it runs: calls that repeat the key, operators,
\* the other workflow of the charge and those of other charges.
WorkRunsOut ==
  [][\A c \in ChargeIds :
       /\ ChargeLeft(c)' <= ChargeLeft(c)
       /\ ChargeStep(c) => ChargeLeft(c)' < ChargeLeft(c)
       /\ StartCharge(c) /\ settling'[c] = "grant" => ChargeLeft(c)' < ChargeLeft(c)
       /\ refund[c] \in RefundSteps => RefundLeft(c)' <= RefundLeft(c)
       /\ RefundStep(c) => RefundLeft(c)' < RefundLeft(c)]_vars

LEMMA WorkTypes == TypeOK => WorkflowWork
<1> SUFFICES ASSUME TypeOK, NEW c \in ChargeIds
             PROVE  /\ ChargeLeft(c) \in 0 .. 4 * MaxAttempts
                    /\ ChargeLeft(c) = 0 <=> settling[c] \in Ends
                    /\ RefundLeft(c) \in 0 .. 2 * MaxAttempts
                    /\ RefundLeft(c) = 0 <=> refund[c] \notin RefundSteps
  BY DEF WorkflowWork
<1> DEFINE M == MaxAttempts
           t == chargeTries[c]
           u == refundTries[c]
<1>1. M \in Nat \ {0} /\ t \in 0 .. M - 1 /\ u \in 0 .. M - 1
  BY PaymentConstants DEF TypeOK
<1>2. settling[c] \in AllSteps /\ refund[c] \in AllRefundSteps
  BY DEF TypeOK, AllSteps, AllRefundSteps
<1> HIDE DEF M, t, u
<1>3. /\ ChargeLeft(c) \in 0 .. 4 * MaxAttempts
      /\ ChargeLeft(c) = 0 <=> settling[c] \in Ends
  BY <1>1, <1>2 DEF ChargeLeft, ChargeActivities, AllSteps, ChargeSteps, Ends, M, t
<1>4. /\ RefundLeft(c) \in 0 .. 2 * MaxAttempts
      /\ RefundLeft(c) = 0 <=> refund[c] \notin RefundSteps
  BY <1>1, <1>2 DEF RefundLeft, RefundActivities, RefundSteps, M, u
<1> QED
  BY <1>3, <1>4

\* An attempt that is reported as failed is one attempt less, and one that ends
\* its step has at least a step less to go.
LEMMA ChargeAttemptWork ==
  ASSUME TypeOK, NEW c \in ChargeIds, NEW step \in ChargeSteps, settling[c] = step,
         AttemptFailed(c, step) \/ Worked(c, step)
  PROVE  ChargeLeft(c)' < ChargeLeft(c)
<1> DEFINE M == MaxAttempts
           t == chargeTries[c]
<1>1. M \in Nat \ {0} /\ t \in 0 .. M - 1
  BY PaymentConstants DEF TypeOK
<1>2. \/ settling'[c] = step /\ chargeTries'[c] = t + 1 /\ t + 1 < M
      \/ settling'[c] \in {After[step], OnError[step]} /\ chargeTries'[c] = 0
  BY DEF AttemptFailed, Worked, Proceed, TypeOK
<1> HIDE DEF M, t
<1>3. CASE settling'[c] = step /\ chargeTries'[c] = t + 1 /\ t + 1 < M
  BY <1>1, <1>3 DEF ChargeLeft, ChargeActivities, ChargeSteps, Ends, M, t
<1>4. CASE settling'[c] \in {After[step], OnError[step]} /\ chargeTries'[c] = 0
  BY <1>1, <1>4 DEF ChargeLeft, ChargeActivities, After, OnError, ChargeSteps, Ends, M, t
<1> QED
  BY <1>2, <1>3, <1>4

LEMMA RefundAttemptWork ==
  ASSUME TypeOK, NEW c \in ChargeIds, NEW step \in RefundSteps, refund[c] = step,
         RefundAttemptFailed(c, step) \/ RefundWorked(c, step)
  PROVE  RefundLeft(c)' < RefundLeft(c)
<1> DEFINE M == MaxAttempts
           t == refundTries[c]
<1>1. M \in Nat \ {0} /\ t \in 0 .. M - 1
  BY PaymentConstants DEF TypeOK
<1>2. \/ refund'[c] = step /\ refundTries'[c] = t + 1 /\ t + 1 < M
      \/ refund'[c] \in {AfterRefund[step], OnRefundError[step]} /\ refundTries'[c] = 0
  BY DEF RefundAttemptFailed, RefundWorked, RefundProceed, TypeOK
<1> HIDE DEF M, t
<1>3. CASE refund'[c] = step /\ refundTries'[c] = t + 1 /\ t + 1 < M
  BY <1>1, <1>3 DEF RefundLeft, RefundActivities, RefundSteps, M, t
<1>4. CASE refund'[c] \in {AfterRefund[step], OnRefundError[step]} /\ refundTries'[c] = 0
  BY <1>1, <1>4
     DEF RefundLeft, RefundActivities, AfterRefund, OnRefundError, RefundSteps, M, t
<1> QED
  BY <1>2, <1>3, <1>4

LEMMA ChargeStepWork ==
  ASSUME TypeOK, NEW c \in ChargeIds, ChargeStep(c)
  PROVE  /\ ChargeLeft(c)' < ChargeLeft(c)
         /\ refund' = refund /\ refundTries' = refundTries
         /\ \A d \in ChargeIds \ {c} :
              settling'[d] = settling[d] /\ chargeTries'[d] = chargeTries[d]
<1>1. PICK step \in ChargeSteps :
        settling[c] = step /\ (AttemptFailed(c, step) \/ Worked(c, step))
  BY DEF ChargeStep, GrantChargeAccess, Settle, MarkSettled, MarkFailed, ChargeSteps
<1>2. refund' = refund /\ refundTries' = refundTries
  BY DEF ChargeStep, GrantChargeAccess, Settle, MarkSettled, MarkFailed, refundVars
<1>3. \A d \in ChargeIds \ {c} :
        settling'[d] = settling[d] /\ chargeTries'[d] = chargeTries[d]
  BY <1>1 DEF AttemptFailed, Worked, Proceed, TypeOK
<1> QED
  BY <1>1, <1>2, <1>3, ChargeAttemptWork

LEMMA RefundStepWork ==
  ASSUME TypeOK, NEW c \in ChargeIds, RefundStep(c)
  PROVE  /\ RefundLeft(c)' < RefundLeft(c)
         /\ settling' = settling /\ chargeTries' = chargeTries
         /\ \A d \in ChargeIds \ {c} :
              refund'[d] = refund[d] /\ refundTries'[d] = refundTries[d]
<1>1. PICK step \in RefundSteps :
        refund[c] = step /\ (RefundAttemptFailed(c, step) \/ RefundWorked(c, step))
  BY DEF RefundStep, Reverse, MarkRefunded, RefundSteps
<1>2. settling' = settling /\ chargeTries' = chargeTries
  BY DEF RefundStep, Reverse, MarkRefunded, chargeVars
<1>3. \A d \in ChargeIds \ {c} :
        refund'[d] = refund[d] /\ refundTries'[d] = refundTries[d]
  BY <1>1 DEF RefundAttemptFailed, RefundWorked, RefundProceed, TypeOK
<1> QED
  BY <1>1, <1>2, <1>3, RefundAttemptWork

\* What a step leaves of a charge's two workflows.
ChargeKept(c) == settling'[c] = settling[c] /\ chargeTries'[c] = chargeTries[c]
RefundKept(c) == refund'[c] = refund[c] /\ refundTries'[c] = refundTries[c]
ChargeStarts(c) ==
  settling[c] = "none" /\ settling'[c] = "grant" /\ chargeTries'[c] = chargeTries[c]

LEMMA WorkflowMoves ==
  ASSUME IInv, [Next]_vars, NEW c \in ChargeIds
  PROVE  /\ ChargeKept(c) \/ ChargeStarts(c) \/ ChargeLeft(c)' < ChargeLeft(c)
         /\ \/ RefundKept(c)
            \/ RefundLeft(c)' < RefundLeft(c)
            \/ refund[c] \notin RefundSteps
<1> USE DEF ChargeKept, RefundKept, ChargeStarts, ChargeIds
<1>0. TypeOK
  BY DEF IInv
<1>1. ASSUME NEW d \in Calls, HandlerStep(d)
      PROVE  (ChargeKept(c) \/ ChargeStarts(c)) /\ RefundKept(c)
  BY <1>0, <1>1
     DEF HandlerStep, LookupKey, InsertCharge, StartCharge, chargeVars, refundVars,
         TypeOK, IInv, ChargeProgress
<1>2. ASSUME NEW d \in Calls, ChargeStep(d)
      PROVE  (ChargeKept(c) \/ ChargeLeft(c)' < ChargeLeft(c)) /\ RefundKept(c)
  BY <1>0, <1>2, ChargeStepWork
<1>3. ASSUME NEW d \in Calls, RefundStep(d)
      PROVE  ChargeKept(c) /\ (RefundKept(c) \/ RefundLeft(c)' < RefundLeft(c))
  BY <1>0, <1>3, RefundStepWork
<1>4. ASSUME NEW op \in Operators, RefundHandlerStep(op)
      PROVE  ChargeKept(c) /\ (RefundKept(c) \/ refund[c] \notin RefundSteps)
  BY <1>0, <1>4 DEF RefundHandlerStep, StartRefund, CheckRefund, chargeVars, TypeOK
<1>5. ASSUME \/ \E d \in Calls, a \in Amounts : ReceiveCharge(d, a)
             \/ UNCHANGED vars
      PROVE  ChargeKept(c) /\ RefundKept(c)
  BY <1>5 DEF ReceiveCharge, vars, chargeVars, refundVars
<1> QED
  BY <1>1, <1>2, <1>3, <1>4, <1>5 DEF Next, LocalStep

\* What makes every workflow that Temporal keeps running end: a Charge takes no
\* more than 4 * MaxAttempts steps and a Refund no more than 2 * MaxAttempts,
\* whatever fails and whoever interferes, and it has ended when none is left.
THEOREM WorkRunsOutHolds == Spec => []WorkflowWork /\ WorkRunsOut
<1>1. IInv => WorkflowWork
  BY WorkTypes DEF IInv
<1>2. IInv /\ [Next]_vars =>
        [\A c \in ChargeIds :
           /\ ChargeLeft(c)' <= ChargeLeft(c)
           /\ ChargeStep(c) => ChargeLeft(c)' < ChargeLeft(c)
           /\ StartCharge(c) /\ settling'[c] = "grant" => ChargeLeft(c)' < ChargeLeft(c)
           /\ refund[c] \in RefundSteps => RefundLeft(c)' <= RefundLeft(c)
           /\ RefundStep(c) => RefundLeft(c)' < RefundLeft(c)]_vars
  <2> SUFFICES ASSUME IInv, [Next]_vars, NEW c \in ChargeIds
               PROVE  /\ ChargeLeft(c)' <= ChargeLeft(c)
                      /\ ChargeStep(c) => ChargeLeft(c)' < ChargeLeft(c)
                      /\ StartCharge(c) /\ settling'[c] = "grant" =>
                           ChargeLeft(c)' < ChargeLeft(c)
                      /\ refund[c] \in RefundSteps => RefundLeft(c)' <= RefundLeft(c)
                      /\ RefundStep(c) => RefundLeft(c)' < RefundLeft(c)
    OBVIOUS
  <2>1. TypeOK /\ WorkflowWork /\ WorkflowWork'
    <3>1. IInv'
      BY InductiveStep
    <3> QED
      BY <3>1, <1>1, PTL DEF IInv
  <2>2. /\ ChargeLeft(c) \in Nat /\ ChargeLeft(c)' \in Nat
        /\ RefundLeft(c) \in Nat /\ RefundLeft(c)' \in Nat
    <3>1. 4 * MaxAttempts \in Nat /\ 2 * MaxAttempts \in Nat
      BY PaymentConstants
    <3> QED
      BY <2>1, <3>1 DEF WorkflowWork, ChargeIds
  <2>3. ChargeKept(c) => ChargeLeft(c)' = ChargeLeft(c)
    BY DEF ChargeKept, ChargeLeft
  <2>4. RefundKept(c) => RefundLeft(c)' = RefundLeft(c)
    BY DEF RefundKept, RefundLeft
  <2>5. ChargeStarts(c) => ChargeLeft(c)' < ChargeLeft(c)
    <3>1. MaxAttempts \in Nat \ {0} /\ chargeTries[c] \in 0 .. MaxAttempts - 1
      BY <2>1, PaymentConstants DEF TypeOK
    <3> QED
      BY <3>1 DEF ChargeStarts, ChargeLeft, ChargeActivities, Ends
  <2>6. StartCharge(c) /\ settling'[c] = "grant" => ChargeStarts(c)
    BY DEF StartCharge, ChargeStarts, IInv, ChargeProgress
  <2>7. ChargeStep(c) => ChargeLeft(c)' < ChargeLeft(c)
    BY <2>1, ChargeStepWork
  <2>8. RefundStep(c) => RefundLeft(c)' < RefundLeft(c)
    BY <2>1, RefundStepWork
  <2> HIDE DEF ChargeLeft, RefundLeft
  <2> QED
    BY <2>2, <2>3, <2>4, <2>5, <2>6, <2>7, <2>8, WorkflowMoves
<1> QED
  BY <1>1, <1>2, Inductive, PTL DEF Spec, WorkRunsOut
=============================================================================
