--------------------------- MODULE Orders_Proofs ----------------------------
(***************************************************************************)
(* Theorems about Orders, for any number of requests, keys, operators,     *)
(* prices, quantities and attempts, and about any amount of money.         *)
(***************************************************************************)
EXTENDS OrderAmounts, FiniteSetTheorems, TLAPS

-----------------------------------------------------------------------------
(* The inductive invariant *)

\* An order's name is in use once its call has started a saga, not before.
NotStarted(o) == request[o] \in {"idle", "received", "missed"}

\* What has been written when the saga of an order is at each step.
Inserted  == {"grant", "lookup", "setTotal", "charge", "charging",
              "markConfirmed", "markFailed", "completed"}
Granted   == Inserted \ {"grant"}

\* What the saga's step says of the order's row and tuples, and the outcomes
\* that the row can show by then.
OrderProgress(o) ==
  /\ NotStarted(o) => saga[o] = "none"
  /\ saga[o] = "none" => status[o] = "absent"
  /\ saga[o] \in {"none", "create"} => tuples[o] = {}
  /\ saga[o] \in Inserted => Exists(o)
  /\ saga[o] \in Granted => tuples[o] = Relations
  /\ tuples[o] # {} => Exists(o)
  /\ status[o] \in {"confirmed", "failed"} => tuples[o] = Relations
  /\ status[o] = "confirmed" => saga[o] \in {"markConfirmed", "completed", "failed"}
  /\ status[o] = "failed" => saga[o] \in {"markFailed", "failed"}
  /\ saga[o] \in ChargeStates => total[o] = quote[o]
  /\ saga[o] = "completed" => status[o] \in {"confirmed", "cancelled"}

IInv ==
  /\ TypeOK
  /\ OneOrderPerKey
  /\ \A o \in OrderIds : OrderProgress(o)
-----------------------------------------------------------------------------
(* How an attempt moves the saga *)

\* The steps an activity is tried for; "charging" is tried as "charge".
Tried == SagaSteps \ {"charging"}

\* A failed attempt leaves the saga at its step or takes it where the step's
\* error leads, and the count of attempts stays below MaxAttempts.
LEMMA AttemptFailedMoves ==
  ASSUME TypeOK, NEW o \in OrderIds, NEW step \in Tried, AttemptFailed(o, step)
  PROVE  /\ \E next \in {step, OnError[step]} : saga' = [saga EXCEPT ![o] = next]
         /\ tries' \in [OrderIds -> 0 .. MaxAttempts - 1]
<1> USE OrdersConstants DEF TypeOK
<1>1. CASE tries[o] + 1 < MaxAttempts
  <2>1. tries[o] + 1 \in 0 .. MaxAttempts - 1
    BY <1>1
  <2> QED
    BY <1>1, <2>1 DEF AttemptFailed
<1>2. CASE ~ (tries[o] + 1 < MaxAttempts)
  <2>1. 0 \in 0 .. MaxAttempts - 1
    OBVIOUS
  <2> QED
    BY <1>2, <2>1 DEF AttemptFailed, Proceed
<1> QED
  BY <1>1, <1>2

\* An attempt that did its work may also move the saga on.
LEMMA WorkedMoves ==
  ASSUME TypeOK, NEW o \in OrderIds, NEW step \in Tried, Worked(o, step)
  PROVE  /\ \E next \in {step, OnError[step], After[step]} :
              saga' = [saga EXCEPT ![o] = next]
         /\ tries' \in [OrderIds -> 0 .. MaxAttempts - 1]
<1>1. CASE Proceed(o, After[step])
  <2>1. 0 \in 0 .. MaxAttempts - 1
    BY OrdersConstants
  <2> QED
    BY <1>1, <2>1 DEF Proceed, TypeOK
<1>2. CASE AttemptFailed(o, step)
  BY <1>2, AttemptFailedMoves
<1> QED
  BY <1>1, <1>2 DEF Worked
LEMMA StepsLeadToSteps ==
  \A step \in Tried :
    /\ After[step] \in SagaSteps \union SagaEnds
    /\ OnError[step] \in SagaSteps \union SagaEnds
BY DEF Tried, SagaSteps, SagaEnds, After, OnError

-----------------------------------------------------------------------------
(* Type correctness *)

LEMMA TypeInit == Init => TypeOK
<1> SUFFICES ASSUME Init PROVE TypeOK
  OBVIOUS
<1>1. 0 \in 0 .. MaxAttempts - 1
  BY OrdersConstants
<1> QED
  BY <1>1 DEF Init, TypeOK, OrderIds

\* A step of an activity keeps the types of saga and tries.
LEMMA AttemptTypes ==
  ASSUME TypeOK, NEW o \in OrderIds, NEW step \in Tried,
         AttemptFailed(o, step) \/ Worked(o, step)
  PROVE  /\ saga' \in [OrderIds -> SagaSteps \union SagaEnds \union {"none"}]
         /\ tries' \in [OrderIds -> 0 .. MaxAttempts - 1]
<1>1. step \in SagaSteps
  BY DEF Tried
<1>2. PICK next \in {step, OnError[step], After[step]} :
        saga' = [saga EXCEPT ![o] = next]
  BY AttemptFailedMoves, WorkedMoves
<1>3. next \in SagaSteps \union SagaEnds
  BY <1>1, <1>2, StepsLeadToSteps
<1>4. tries' \in [OrderIds -> 0 .. MaxAttempts - 1]
  BY AttemptFailedMoves, WorkedMoves
<1> QED
  BY <1>2, <1>3, <1>4 DEF TypeOK

LEMMA ProductOfNats == \A a, b \in Nat : a * b \in Nat
OBVIOUS

LEMMA TypeStep == TypeOK /\ [Next]_vars => TypeOK'
<1> SUFFICES ASSUME TypeOK, [Next]_vars PROVE TypeOK'
  OBVIOUS
<1> USE DEF OrderIds, requestVars, storeVars, sagaVars, cancelVars
<1>0. 0 \in 0 .. MaxAttempts - 1
  BY OrdersConstants
<1>1. ASSUME NEW r \in Requests, RejectCheckout(r) PROVE TypeOK'
  BY <1>1 DEF RejectCheckout, TypeOK
<1>2. ASSUME NEW r \in Requests, ReceiveCheckout(r) PROVE TypeOK'
  BY <1>2, OrdersConstants DEF ReceiveCheckout, TypeOK
<1>3. ASSUME NEW r \in Requests, ReplayedCheckout(r) PROVE TypeOK'
  BY <1>3 DEF ReplayedCheckout, Placed, TypeOK
<1>4. ASSUME NEW r \in Requests, StartCheckout(r) PROVE TypeOK'
  BY <1>4 DEF StartCheckout, TypeOK, SagaSteps
<1>5. ASSUME NEW o \in OrderIds, CreateOrder(o) PROVE TypeOK'
  <2>1. "create" \in Tried
    BY DEF Tried, SagaSteps
  <2>2. status' \in [OrderIds -> Statuses \union {"absent"}]
    BY <1>5 DEF CreateOrder, TypeOK, Statuses
  <2> QED
    BY <1>5, <2>1, <2>2, AttemptTypes DEF CreateOrder, TypeOK
<1>6. ASSUME NEW o \in OrderIds, GrantOrderAccess(o) PROVE TypeOK'
  <2>1. "grant" \in Tried
    BY DEF Tried, SagaSteps
  <2>2. tuples' \in [OrderIds -> SUBSET Relations]
    BY <1>6 DEF GrantOrderAccess, TypeOK, Relations
  <2> QED
    BY <1>6, <2>1, <2>2, AttemptTypes DEF GrantOrderAccess, TypeOK
<1>7. ASSUME NEW o \in OrderIds, LookupProduct(o) PROVE TypeOK'
  <2>1. "lookup" \in Tried
    BY DEF Tried, SagaSteps
  <2>2. Proceed(o, After.lookup) => Worked(o, "lookup")
    BY DEF Worked
  <2>3. quote' \in [OrderIds -> Nat]
    BY <1>7, ProductOfNats, OrdersConstants DEF LookupProduct, TypeOK
  <2> QED
    BY <1>7, <2>1, <2>2, <2>3, AttemptTypes DEF LookupProduct, TypeOK
<1>8. ASSUME NEW o \in OrderIds, SetOrderTotal(o) PROVE TypeOK'
  <2>1. "setTotal" \in Tried
    BY DEF Tried, SagaSteps
  <2>2. total' \in [OrderIds -> Nat]
    BY <1>8 DEF SetOrderTotal, TypeOK
  <2> QED
    BY <1>8, <2>1, <2>2, AttemptTypes DEF SetOrderTotal, TypeOK
<1>9. ASSUME NEW o \in OrderIds, SendCharge(o) PROVE TypeOK'
  BY <1>9 DEF SendCharge, TypeOK, SagaSteps
<1>10. ASSUME NEW o \in OrderIds, ChargeAccepted(o) PROVE TypeOK'
  <2>1. After.charge \in SagaSteps
    BY DEF After, SagaSteps
  <2> QED
    BY <1>0, <1>10, <2>1 DEF ChargeAccepted, Proceed, TypeOK
<1>11. ASSUME NEW o \in OrderIds, ChargeAttemptFailed(o) PROVE TypeOK'
  <2>1. "charge" \in Tried
    BY DEF Tried, SagaSteps
  <2> QED
    BY <1>11, <2>1, AttemptTypes DEF ChargeAttemptFailed, TypeOK
<1>12. ASSUME NEW o \in OrderIds, MarkConfirmed(o) PROVE TypeOK'
  <2>1. "markConfirmed" \in Tried
    BY DEF Tried, SagaSteps
  <2>2. status' \in [OrderIds -> Statuses \union {"absent"}]
    BY <1>12 DEF MarkConfirmed, MarkOrderStatus, TypeOK, Statuses
  <2> QED
    BY <1>12, <2>1, <2>2, AttemptTypes DEF MarkConfirmed, TypeOK
<1>13. ASSUME NEW o \in OrderIds, MarkFailed(o) PROVE TypeOK'
  <2>1. "markFailed" \in Tried
    BY DEF Tried, SagaSteps
  <2>2. status' \in [OrderIds -> Statuses \union {"absent"}]
    BY <1>13 DEF MarkFailed, MarkOrderStatus, TypeOK, Statuses
  <2> QED
    BY <1>13, <2>1, <2>2, AttemptTypes DEF MarkFailed, TypeOK
<1>14. ASSUME NEW op \in Operators, CancelHandlerStep(op) PROVE TypeOK'
  BY <1>0, <1>14 DEF CancelHandlerStep, CheckCancel, StartCancel, TypeOK
<1>15. ASSUME NEW o \in OrderIds, MarkCancelled(o) PROVE TypeOK'
  <2>1. status' \in [OrderIds -> Statuses \union {"absent"}]
    BY <1>15 DEF MarkCancelled, MarkOrderStatus, TypeOK, Statuses
  <2>2. /\ cancel' \in [OrderIds -> {"none", "mark", "completed", "failed"}]
        /\ cancelTries' \in [OrderIds -> 0 .. MaxAttempts - 1]
    BY <1>0, <1>15, OrdersConstants
       DEF MarkCancelled, CancelProceed, CancelAttemptFailed, TypeOK
  <2> QED
    BY <1>15, <2>1, <2>2 DEF MarkCancelled, TypeOK
<1>16. CASE UNCHANGED vars
  BY <1>16 DEF vars, TypeOK
<1> QED
  BY <1>1, <1>2, <1>3, <1>4, <1>5, <1>6, <1>7, <1>8, <1>9, <1>10, <1>11, <1>12,
     <1>13, <1>14, <1>15, <1>16
     DEF Next, HandlerStep, SagaStep, LocalSagaStep

\* Every variable keeps its type, however many requests, keys and attempts.
THEOREM TypeCorrect == Spec => []TypeOK
<1> QED
  BY TypeInit, TypeStep, PTL DEF Spec
-----------------------------------------------------------------------------
(* The invariant is inductive *)

LEMMA InitProgress == Init => IInv
<1> SUFFICES ASSUME Init PROVE IInv
  OBVIOUS
<1>1. OneOrderPerKey
  BY DEF Init, OneOrderPerKey, Exists
<1>2. \A o \in OrderIds : OrderProgress(o)
  BY DEF Init, OrderProgress, NotStarted, Inserted, Granted, ChargeStates,
         Exists, OrderIds
<1> QED
  BY <1>1, <1>2, TypeInit DEF IInv

\* A handler of POST /orders: a new key and a new saga are those of an order
\* that has no row yet.
LEMMA RequestProgress ==
  ASSUME IInv, TypeOK', NEW r \in Requests,
         RejectCheckout(r) \/ ReceiveCheckout(r) \/ HandlerStep(r)
  PROVE  IInv'
<1> USE DEF OrderIds, requestVars, storeVars, sagaVars, cancelVars
<1>1. UNCHANGED <<status, total, tuples, quote>>
  BY DEF RejectCheckout, ReceiveCheckout, HandlerStep, ReplayedCheckout,
         StartCheckout
<1>2. NotStarted(r) /\ saga[r] = "none" /\ status[r] = "absent"
  BY DEF IInv, OrderProgress, NotStarted, RejectCheckout, ReceiveCheckout,
         HandlerStep, ReplayedCheckout, StartCheckout
<1>3. \A o \in OrderIds : o # r => key'[o] = key[o] /\ request'[o] = request[o]
                                  /\ saga'[o] = saga[o]
  BY DEF RejectCheckout, ReceiveCheckout, HandlerStep, ReplayedCheckout,
         StartCheckout, IInv, TypeOK
<1>4. OneOrderPerKey'
  BY <1>1, <1>2, <1>3 DEF IInv, OneOrderPerKey, Exists
<1>5. saga'[r] \in {"none", "create"} /\ (NotStarted(r)' => saga'[r] = "none")
  BY <1>2 DEF RejectCheckout, ReceiveCheckout, HandlerStep, ReplayedCheckout,
              StartCheckout, IInv, TypeOK, NotStarted
<1>6. OrderProgress(r)'
  BY <1>1, <1>2, <1>5
     DEF IInv, OrderProgress, Inserted, Granted, ChargeStates, Exists
<1>7. ASSUME NEW o \in OrderIds, o # r PROVE OrderProgress(o)'
  BY <1>1, <1>3, <1>7 DEF IInv, OrderProgress, NotStarted, Exists
<1> QED
  BY <1>4, <1>6, <1>7 DEF IInv

\* A saga step that writes neither the row's status nor a key keeps the rows
\* apart.
LEMMA SameRows ==
  ASSUME IInv, UNCHANGED <<status, key>>
  PROVE  OneOrderPerKey'
BY DEF IInv, OneOrderPerKey, Exists

\* The two outcomes of an attempt, for each activity of the saga.
LEMMA Outcomes ==
  ASSUME TypeOK, NEW o \in OrderIds
  PROVE  /\ \A step \in Tried :
              AttemptFailed(o, step) =>
                \E next \in {step, OnError[step]} : saga' = [saga EXCEPT ![o] = next]
         /\ \A step \in Tried :
              Worked(o, step) =>
                \E next \in {step, OnError[step], After[step]} :
                  saga' = [saga EXCEPT ![o] = next]
         /\ Tried = {"create", "grant", "lookup", "setTotal", "charge",
                     "markConfirmed", "markFailed"}
<1>1. \A step \in Tried :
        AttemptFailed(o, step) =>
          \E next \in {step, OnError[step]} : saga' = [saga EXCEPT ![o] = next]
  BY AttemptFailedMoves
<1>2. \A step \in Tried :
        Worked(o, step) =>
          \E next \in {step, OnError[step], After[step]} :
            saga' = [saga EXCEPT ![o] = next]
  BY WorkedMoves
<1>3. Tried = {"create", "grant", "lookup", "setTotal", "charge",
               "markConfirmed", "markFailed"}
  BY DEF Tried, SagaSteps
<1> QED
  BY <1>1, <1>2, <1>3

LEMMA CreateProgress ==
  ASSUME IInv, NEW o \in OrderIds, CreateOrder(o)
  PROVE  OneOrderPerKey' /\ \A p \in OrderIds : OrderProgress(p)'
<1> USE DEF IInv, requestVars, cancelVars
<1>1. \/ /\ Exists(o) \/ KeyUnused(o)
         /\ status' = [status EXCEPT ![o] = IF @ = "absent" THEN "pending" ELSE @]
         /\ \E next \in {"create", "failed", "grant"} :
              saga' = [saga EXCEPT ![o] = next]
      \/ /\ UNCHANGED status
         /\ \E next \in {"create", "failed"} : saga' = [saga EXCEPT ![o] = next]
  BY Outcomes DEF CreateOrder, OnError, After
<1>2. UNCHANGED <<request, key, total, tuples, quote>>
  BY DEF CreateOrder
<1>3. OneOrderPerKey'
  BY <1>1, <1>2 DEF OneOrderPerKey, KeyUnused, Placed, Exists, TypeOK
<1>4. saga[o] = "create" /\ tuples[o] = {}
  BY DEF CreateOrder, OrderProgress
<1>5. OrderProgress(o)'
  BY <1>1, <1>2, <1>4
     DEF TypeOK, OrderProgress, NotStarted, Inserted, Granted, ChargeStates,
         Exists, Relations
<1>6. ASSUME NEW p \in OrderIds, p # o PROVE OrderProgress(p)'
  BY <1>1, <1>2, <1>6 DEF TypeOK, OrderProgress, NotStarted, Exists
<1> QED
  BY <1>3, <1>5, <1>6

LEMMA GrantProgress ==
  ASSUME IInv, NEW o \in OrderIds, GrantOrderAccess(o)
  PROVE  OneOrderPerKey' /\ \A p \in OrderIds : OrderProgress(p)'
<1> USE DEF IInv, requestVars, cancelVars
<1>1. \/ /\ tuples' = [tuples EXCEPT ![o] = Relations]
         /\ \E next \in {"grant", "failed", "lookup"} :
              saga' = [saga EXCEPT ![o] = next]
      \/ /\ \E written \in {{}, {"owner"}} :
              tuples' = [tuples EXCEPT ![o] = @ \union written]
         /\ \E next \in {"grant", "failed"} : saga' = [saga EXCEPT ![o] = next]
  BY Outcomes DEF GrantOrderAccess, OnError, After
<1>2. UNCHANGED <<request, key, status, total, quote>>
  BY DEF GrantOrderAccess
<1>3. OneOrderPerKey'
  BY <1>2, SameRows
<1>4. saga[o] = "grant" /\ status[o] \notin {"absent", "confirmed", "failed"}
  BY DEF GrantOrderAccess, OrderProgress, Inserted, Exists
<1>5. OrderProgress(o)'
  BY <1>1, <1>2, <1>4
     DEF TypeOK, OrderProgress, NotStarted, Inserted, Granted, ChargeStates,
         Exists
<1>6. ASSUME NEW p \in OrderIds, p # o PROVE OrderProgress(p)'
  BY <1>1, <1>2, <1>6 DEF TypeOK, OrderProgress, NotStarted, Exists
<1> QED
  BY <1>3, <1>5, <1>6
LEMMA LookupProgress ==
  ASSUME IInv, NEW o \in OrderIds, LookupProduct(o)
  PROVE  OneOrderPerKey' /\ \A p \in OrderIds : OrderProgress(p)'
<1> USE DEF IInv, storeVars, requestVars, cancelVars
<1>1. PICK next \in {"lookup", "markFailed", "setTotal"} :
        saga' = [saga EXCEPT ![o] = next]
  <2>1. Proceed(o, After.lookup) => Worked(o, "lookup")
    BY DEF Worked
  <2> QED
    BY <2>1, Outcomes DEF LookupProduct, OnError, After
<1>2. UNCHANGED <<request, key, status, total, tuples>>
  BY DEF LookupProduct
<1>3. OneOrderPerKey'
  BY <1>2, SameRows
<1>4. saga[o] = "lookup"
  BY DEF LookupProduct
<1>5. OrderProgress(o)'
  BY <1>1, <1>2, <1>4
     DEF TypeOK, OrderProgress, NotStarted, Inserted, Granted, ChargeStates,
         Exists
<1>6. ASSUME NEW p \in OrderIds, p # o PROVE OrderProgress(p)'
  <2>1. saga'[p] = saga[p] /\ quote'[p] = quote[p]
    BY <1>1, <1>6 DEF LookupProduct, TypeOK
  <2> QED
    BY <1>2, <2>1 DEF OrderProgress, NotStarted, Exists
<1> QED
  BY <1>3, <1>5, <1>6

LEMMA TotalProgress ==
  ASSUME IInv, NEW o \in OrderIds, SetOrderTotal(o)
  PROVE  OneOrderPerKey' /\ \A p \in OrderIds : OrderProgress(p)'
<1> USE DEF IInv, requestVars, cancelVars
<1>1. \/ /\ total' = [total EXCEPT ![o] = quote[o]]
         /\ \E next \in {"setTotal", "markFailed", "charge"} :
              saga' = [saga EXCEPT ![o] = next]
      \/ /\ UNCHANGED total
         /\ \E next \in {"setTotal", "markFailed"} :
              saga' = [saga EXCEPT ![o] = next]
  BY Outcomes DEF SetOrderTotal, OnError, After
<1>2. UNCHANGED <<request, key, status, tuples, quote>>
  BY DEF SetOrderTotal
<1>3. OneOrderPerKey'
  BY <1>2, SameRows
<1>4. saga[o] = "setTotal"
  BY DEF SetOrderTotal
<1>5. OrderProgress(o)'
  BY <1>1, <1>2, <1>4
     DEF TypeOK, OrderProgress, NotStarted, Inserted, Granted, ChargeStates,
         Exists
<1>6. ASSUME NEW p \in OrderIds, p # o PROVE OrderProgress(p)'
  <2>1. saga'[p] = saga[p] /\ total'[p] = total[p]
    BY <1>1, <1>6 DEF TypeOK
  <2> QED
    BY <1>2, <2>1 DEF OrderProgress, NotStarted, Exists
<1> QED
  BY <1>3, <1>5, <1>6

LEMMA ChargeProgress ==
  ASSUME IInv, NEW o \in OrderIds,
         SendCharge(o) \/ ChargeAccepted(o) \/ ChargeAttemptFailed(o)
  PROVE  OneOrderPerKey' /\ \A p \in OrderIds : OrderProgress(p)'
<1> USE DEF IInv, storeVars, requestVars, cancelVars
<1>1. PICK next \in {"charge", "charging", "markConfirmed", "markFailed"} :
        saga' = [saga EXCEPT ![o] = next]
  BY Outcomes
     DEF SendCharge, ChargeAccepted, ChargeAttemptFailed, Proceed, OnError, After
<1>2. UNCHANGED <<request, key, status, total, tuples, quote>>
  BY DEF SendCharge, ChargeAccepted, ChargeAttemptFailed
<1>3. OneOrderPerKey'
  BY <1>2, SameRows
<1>4. saga[o] \in {"charge", "charging"}
  BY DEF SendCharge, ChargeAccepted, ChargeAttemptFailed
<1>5. OrderProgress(o)'
  BY <1>1, <1>2, <1>4
     DEF TypeOK, OrderProgress, NotStarted, Inserted, Granted, ChargeStates,
         Exists
<1>6. ASSUME NEW p \in OrderIds, p # o PROVE OrderProgress(p)'
  BY <1>1, <1>2, <1>6 DEF TypeOK, OrderProgress, NotStarted, Exists
<1> QED
  BY <1>3, <1>5, <1>6

\* The last write of the saga, to confirmed and to failed.
LEMMA ConfirmProgress ==
  ASSUME IInv, NEW o \in OrderIds, MarkConfirmed(o)
  PROVE  OneOrderPerKey' /\ \A p \in OrderIds : OrderProgress(p)'
<1> USE DEF IInv, requestVars, cancelVars
<1>1. saga[o] = "markConfirmed" /\ Exists(o) /\ tuples[o] = Relations
  BY DEF MarkConfirmed, OrderProgress, Inserted, Granted
<1>2. \/ /\ status' = [status EXCEPT ![o] = "confirmed"]
         /\ \E next \in {"markConfirmed", "failed", "completed"} :
              saga' = [saga EXCEPT ![o] = next]
      \/ /\ UNCHANGED status
         /\ \E next \in {"markConfirmed", "failed"} :
              saga' = [saga EXCEPT ![o] = next]
  BY <1>1, Outcomes DEF MarkConfirmed, MarkOrderStatus, OnError, After
<1>3. UNCHANGED <<request, key, total, tuples, quote>>
  BY DEF MarkConfirmed
<1>4. OneOrderPerKey'
  BY <1>1, <1>2, <1>3 DEF OneOrderPerKey, Exists, TypeOK
<1>5. OrderProgress(o)'
  BY <1>1, <1>2, <1>3
     DEF TypeOK, OrderProgress, NotStarted, Inserted, Granted, ChargeStates,
         Exists
<1>6. ASSUME NEW p \in OrderIds, p # o PROVE OrderProgress(p)'
  BY <1>2, <1>3, <1>6 DEF TypeOK, OrderProgress, NotStarted, Exists
<1> QED
  BY <1>4, <1>5, <1>6

LEMMA FailProgress ==
  ASSUME IInv, NEW o \in OrderIds, MarkFailed(o)
  PROVE  OneOrderPerKey' /\ \A p \in OrderIds : OrderProgress(p)'
<1> USE DEF IInv, requestVars, cancelVars
<1>1. saga[o] = "markFailed" /\ Exists(o) /\ tuples[o] = Relations
  BY DEF MarkFailed, OrderProgress, Inserted, Granted
<1>2. /\ \/ status' = [status EXCEPT ![o] = "failed"]
         \/ UNCHANGED status
      /\ \E next \in {"markFailed", "failed"} : saga' = [saga EXCEPT ![o] = next]
  BY <1>1, Outcomes DEF MarkFailed, MarkOrderStatus, OnError, After
<1>3. UNCHANGED <<request, key, total, tuples, quote>>
  BY DEF MarkFailed
<1>4. OneOrderPerKey'
  BY <1>1, <1>2, <1>3 DEF OneOrderPerKey, Exists, TypeOK
<1>5. OrderProgress(o)'
  BY <1>1, <1>2, <1>3
     DEF TypeOK, OrderProgress, NotStarted, Inserted, Granted, ChargeStates,
         Exists
<1>6. ASSUME NEW p \in OrderIds, p # o PROVE OrderProgress(p)'
  BY <1>2, <1>3, <1>6 DEF TypeOK, OrderProgress, NotStarted, Exists
<1> QED
  BY <1>4, <1>5, <1>6

\* The cancel of an order, and of one that has no row.
LEMMA CancelProgress ==
  ASSUME IInv, NEW o \in OrderIds, MarkCancelled(o)
  PROVE  OneOrderPerKey' /\ \A p \in OrderIds : OrderProgress(p)'
<1> USE DEF IInv, requestVars, sagaVars
<1>1. \/ status' = [status EXCEPT ![o] = IF Exists(o) THEN "cancelled" ELSE @]
      \/ UNCHANGED status
  BY DEF MarkCancelled, MarkOrderStatus
<1>2. UNCHANGED <<request, key, saga, total, tuples, quote>>
  BY DEF MarkCancelled
<1>3. OneOrderPerKey'
  BY <1>1, <1>2 DEF OneOrderPerKey, Exists, TypeOK
<1>4. ASSUME NEW p \in OrderIds PROVE OrderProgress(p)'
  BY <1>1, <1>2
     DEF TypeOK, OrderProgress, NotStarted, Exists, Inserted, Granted
<1> QED
  BY <1>3, <1>4

LEMMA InductiveStep == IInv /\ [Next]_vars => IInv'
<1> SUFFICES ASSUME IInv, [Next]_vars PROVE IInv'
  OBVIOUS
<1>1. TypeOK'
  BY TypeStep DEF IInv
<1>2. ASSUME NEW r \in Requests,
             RejectCheckout(r) \/ ReceiveCheckout(r) \/ HandlerStep(r)
      PROVE  IInv'
  BY <1>1, <1>2, RequestProgress
<1>3. ASSUME NEW o \in OrderIds, SagaStep(o) PROVE IInv'
  BY <1>1, <1>3, CreateProgress, GrantProgress, LookupProgress, TotalProgress,
     ChargeProgress, ConfirmProgress, FailProgress
     DEF SagaStep, LocalSagaStep, IInv
<1>4. ASSUME NEW o \in OrderIds, MarkCancelled(o) PROVE IInv'
  BY <1>1, <1>4, CancelProgress DEF IInv
<1>5. ASSUME NEW op \in Operators, CancelHandlerStep(op) PROVE IInv'
  <2>1. UNCHANGED <<requestVars, storeVars, sagaVars>>
    BY <1>5 DEF CancelHandlerStep, StartCancel, CheckCancel, storeVars,
                requestVars, sagaVars
  <2> QED
    BY <1>1, <2>1 DEF IInv, OneOrderPerKey, OrderProgress, NotStarted, Exists,
                      storeVars, requestVars, sagaVars
<1>6. CASE UNCHANGED vars
  BY <1>1, <1>6 DEF IInv, OneOrderPerKey, OrderProgress, NotStarted, Exists,
                    vars, storeVars, requestVars, sagaVars
<1> QED
  BY <1>2, <1>3, <1>4, <1>5, <1>6 DEF Next

THEOREM Inductive == Spec => []IInv
<1> QED
  BY InitProgress, InductiveStep, PTL DEF Spec

-----------------------------------------------------------------------------
(* What the invariant gives *)

\* ORD-004 for any number of calls that repeat a key: one order carries it.
THEOREM OneOrderPerKeyHolds == Spec => []OneOrderPerKey
<1>1. IInv => OneOrderPerKey
  BY DEF IInv
<1> QED
  BY <1>1, Inductive, PTL

\* ORD-007: tuples are written on orders that have a row, and on no others.
THEOREM TuplesNameAnOrderHolds == Spec => []TuplesNameAnOrder
<1>1. IInv => TuplesNameAnOrder
  BY DEF IInv, OrderProgress, TuplesNameAnOrder
<1> QED
  BY <1>1, Inductive, PTL

\* An order the saga decided is one its buyer can read.
THEOREM ReadableOnceDecidedHolds == Spec => []ReadableOnceDecided
<1>1. IInv => ReadableOnceDecided
  BY DEF IInv, OrderProgress, ReadableOnceDecided
<1> QED
  BY <1>1, Inductive, PTL

\* ORD-008: what the saga asks payment for is what the order's row shows.
THEOREM ChargedAsRecordedHolds == Spec => []ChargedAsRecorded
<1>1. IInv => ChargedAsRecorded
  BY DEF IInv, OrderProgress, ChargedAsRecorded, ChargeStates, Inserted, Granted
<1> QED
  BY <1>1, Inductive, PTL

\* ORD-006: a completed saga left its order confirmed.
THEOREM CompletedIsConfirmedHolds == Spec => []CompletedIsConfirmed
<1>1. IInv => CompletedIsConfirmed
  BY DEF IInv, OrderProgress, CompletedIsConfirmed
<1> QED
  BY <1>1, Inductive, PTL
\* What a step may do to the status of an order.
LEMMA StatusMoves ==
  ASSUME IInv, [Next]_vars, NEW o \in OrderIds, status'[o] # status[o]
  PROVE  \/ status[o] = "absent" /\ saga[o] = "create"
         \/ status'[o] = "confirmed" /\ saga[o] = "markConfirmed"
         \/ status'[o] = "failed" /\ saga[o] = "markFailed"
         \/ status'[o] = "cancelled"
<1> USE DEF IInv, TypeOK, storeVars, requestVars, sagaVars, cancelVars
<1>1. ASSUME NEW r \in Requests,
             RejectCheckout(r) \/ ReceiveCheckout(r) \/ HandlerStep(r)
      PROVE  FALSE
  BY <1>1 DEF RejectCheckout, ReceiveCheckout, HandlerStep, ReplayedCheckout,
              StartCheckout
<1>2. ASSUME NEW p \in OrderIds, SagaStep(p), ~ CreateOrder(p),
             ~ MarkConfirmed(p), ~ MarkFailed(p)
      PROVE  FALSE
  BY <1>2 DEF SagaStep, LocalSagaStep, GrantOrderAccess, LookupProduct,
              SetOrderTotal, SendCharge, ChargeAccepted, ChargeAttemptFailed
<1>3. ASSUME NEW p \in OrderIds, CreateOrder(p)
      PROVE  status[o] = "absent" /\ saga[o] = "create"
  BY <1>3 DEF CreateOrder
<1>4. ASSUME NEW p \in OrderIds, MarkConfirmed(p)
      PROVE  status'[o] = "confirmed" /\ saga[o] = "markConfirmed"
  BY <1>4 DEF MarkConfirmed, MarkOrderStatus
<1>5. ASSUME NEW p \in OrderIds, MarkFailed(p)
      PROVE  status'[o] = "failed" /\ saga[o] = "markFailed"
  BY <1>5 DEF MarkFailed, MarkOrderStatus
<1>6. ASSUME NEW p \in OrderIds, MarkCancelled(p)
      PROVE  status'[o] = "cancelled"
  BY <1>6 DEF MarkCancelled, MarkOrderStatus
<1>7. ASSUME NEW op \in Operators, CancelHandlerStep(op) PROVE FALSE
  BY <1>7 DEF CancelHandlerStep, StartCancel, CheckCancel
<1>8. CASE UNCHANGED vars
  BY <1>8 DEF vars
<1> QED
  BY <1>1, <1>2, <1>3, <1>4, <1>5, <1>6, <1>7, <1>8 DEF Next

\* The saga never turns its own decision round, whatever report is lost.
THEOREM SagaDecidesOnceHolds == Spec => SagaDecidesOnce
<1>1. IInv /\ [Next]_vars =>
        [\A o \in OrderIds :
           /\ status[o] = "confirmed" => status'[o] # "failed"
           /\ status[o] = "failed" => status'[o] # "confirmed"]_vars
  BY StatusMoves DEF IInv, OrderProgress
<1> QED
  BY <1>1, Inductive, PTL DEF Spec, SagaDecidesOnce

\* After the saga, a cancel is the last word on an order.
THEOREM CancelAfterSagaIsFinalHolds == Spec => CancelAfterSagaIsFinal
<1>1. IInv /\ [Next]_vars =>
        [\A o \in OrderIds :
           saga[o] \in SagaEnds /\ status[o] = "cancelled" =>
             status'[o] = "cancelled"]_vars
  BY StatusMoves DEF SagaEnds
<1> QED
  BY <1>1, Inductive, PTL DEF Spec, CancelAfterSagaIsFinal

-----------------------------------------------------------------------------
(* The work that a saga has left *)

\* The activities that a saga may still have to run, the one it is at included.
ActivitiesLeft ==
  [none |-> 7, create |-> 6, grant |-> 5, lookup |-> 4, setTotal |-> 3, charge |-> 2,
   charging |-> 2, markConfirmed |-> 1, markFailed |-> 1, completed |-> 0, failed |-> 0]

\* Twice the attempts that are left, as an attempt of the charge is two steps.
WorkLeft(o) ==
  IF saga[o] \in SagaEnds
    THEN 0
    ELSE 2 * (ActivitiesLeft[saga[o]] * MaxAttempts - tries[o])
           - (IF saga[o] = "charging" THEN 1 ELSE 0)

SagaWork ==
  \A o \in OrderIds :
    /\ WorkLeft(o) \in 0 .. 14 * MaxAttempts
    /\ WorkLeft(o) = 0 <=> saga[o] \in SagaEnds

\* The bound of the bound: the states are few, and each has its literal factor.
LEMMA WorkTypes == TypeOK => SagaWork
<1> SUFFICES ASSUME TypeOK, NEW o \in OrderIds
             PROVE  /\ WorkLeft(o) \in 0 .. 14 * MaxAttempts
                    /\ WorkLeft(o) = 0 <=> saga[o] \in SagaEnds
  BY DEF SagaWork
<1> DEFINE M == MaxAttempts
           t == tries[o]
<1>1. M \in Nat \ {0} /\ t \in 0 .. M - 1
  BY OrdersConstants DEF TypeOK
<1>2. saga[o] \in SagaSteps \union SagaEnds \union {"none"}
  BY DEF TypeOK
<1> HIDE DEF M, t
<1> QED
  BY <1>1, <1>2 DEF WorkLeft, ActivitiesLeft, SagaSteps, SagaEnds, M, t

Tries(o, step) == AttemptFailed(o, step) \/ Worked(o, step)

\* An attempt that is reported as failed is one attempt less, and one that ends
\* its step has at least a step less to go.
LEMMA AttemptWork ==
  ASSUME TypeOK, NEW o \in OrderIds, NEW step \in Tried,
         saga[o] = step \/ (step = "charge" /\ saga[o] = "charging"),
         Tries(o, step)
  PROVE  WorkLeft(o)' < WorkLeft(o)
<1> DEFINE M == MaxAttempts
           t == tries[o]
<1>1. M \in Nat \ {0} /\ t \in 0 .. M - 1
  BY OrdersConstants DEF TypeOK
<1>2. \/ saga'[o] = step /\ tries'[o] = t + 1 /\ t + 1 < M
      \/ saga'[o] \in {After[step], OnError[step]} /\ tries'[o] = 0
  BY DEF Tries, AttemptFailed, Worked, Proceed, TypeOK
<1> HIDE DEF M, t
<1>3. CASE saga'[o] = step /\ tries'[o] = t + 1 /\ t + 1 < M
  BY <1>1, <1>3 DEF WorkLeft, ActivitiesLeft, Tried, SagaSteps, SagaEnds, M, t
<1>4. CASE saga'[o] \in {After[step], OnError[step]} /\ tries'[o] = 0
  BY <1>1, <1>4
     DEF WorkLeft, ActivitiesLeft, After, OnError, Tried, SagaSteps, SagaEnds, M, t
<1> QED
  BY <1>2, <1>3, <1>4

LEMMA SagaStepWork ==
  ASSUME TypeOK, NEW o \in OrderIds, SagaStep(o)
  PROVE  WorkLeft(o)' < WorkLeft(o)
<1>0. {"create", "grant", "lookup", "setTotal", "charge", "markConfirmed", "markFailed"}
        \subseteq Tried
  BY DEF Tried, SagaSteps
<1>1. CASE LocalSagaStep(o)
  <2>1. CASE CreateOrder(o)
    <3>1. saga[o] = "create" /\ Tries(o, "create")
      BY <2>1 DEF CreateOrder, Tries
    <3> QED
      BY <1>0, <3>1, AttemptWork
  <2>2. CASE GrantOrderAccess(o)
    <3>1. saga[o] = "grant" /\ Tries(o, "grant")
      BY <2>2 DEF GrantOrderAccess, Tries
    <3> QED
      BY <1>0, <3>1, AttemptWork
  <2>3. CASE LookupProduct(o)
    <3>1. saga[o] = "lookup" /\ Tries(o, "lookup")
      BY <2>3 DEF LookupProduct, Tries, Worked, After
    <3> QED
      BY <1>0, <3>1, AttemptWork
  <2>4. CASE SetOrderTotal(o)
    <3>1. saga[o] = "setTotal" /\ Tries(o, "setTotal")
      BY <2>4 DEF SetOrderTotal, Tries
    <3> QED
      BY <1>0, <3>1, AttemptWork
  <2>5. CASE MarkConfirmed(o)
    <3>1. saga[o] = "markConfirmed" /\ Tries(o, "markConfirmed")
      BY <2>5 DEF MarkConfirmed, Tries
    <3> QED
      BY <1>0, <3>1, AttemptWork
  <2>6. CASE MarkFailed(o)
    <3>1. saga[o] = "markFailed" /\ Tries(o, "markFailed")
      BY <2>6 DEF MarkFailed, Tries
    <3> QED
      BY <1>0, <3>1, AttemptWork
  <2> QED
    BY <1>1, <2>1, <2>2, <2>3, <2>4, <2>5, <2>6 DEF LocalSagaStep
<1>2. CASE SendCharge(o)
  <2>1. MaxAttempts \in Nat \ {0} /\ tries[o] \in 0 .. MaxAttempts - 1 /\ tries' = tries
    BY <1>2, OrdersConstants DEF SendCharge, TypeOK
  <2>2. saga[o] = "charge" /\ saga'[o] = "charging"
    BY <1>2 DEF SendCharge, TypeOK
  <2> QED
    BY <2>1, <2>2 DEF WorkLeft, ActivitiesLeft, SagaEnds
<1>3. CASE ChargeAccepted(o)
  <2>1. saga[o] = "charging" /\ Tries(o, "charge")
    BY <1>3 DEF ChargeAccepted, Tries, Worked, After
  <2> QED
    BY <1>0, <2>1, AttemptWork
<1>4. CASE ChargeAttemptFailed(o)
  <2>1. (saga[o] = "charge" \/ saga[o] = "charging") /\ Tries(o, "charge")
    BY <1>4 DEF ChargeAttemptFailed, Tries
  <2> QED
    BY <1>0, <2>1, AttemptWork
<1> QED
  BY <1>1, <1>2, <1>3, <1>4 DEF SagaStep

\* A step of the saga, and its start, leave less to do, and nothing else touches
\* it: a repeat of the request, an operator's cancel and its workflow, and the
\* sagas of other orders.
SagaWorkRunsOut ==
  [][\A o \in OrderIds :
       /\ WorkLeft(o)' <= WorkLeft(o)
       /\ SagaStep(o) \/ (StartCheckout(o) /\ saga'[o] = "create") =>
            WorkLeft(o)' < WorkLeft(o)]_vars

LEMMA OthersKeepSaga ==
  ASSUME IInv, [Next]_vars, NEW o \in OrderIds
  PROVE  \/ SagaStep(o)
         \/ saga'[o] = saga[o] /\ tries'[o] = tries[o]
         \/ saga[o] = "none" /\ saga'[o] = "create" /\ tries'[o] = tries[o]
<1> USE DEF IInv, TypeOK, OrderIds, sagaVars
<1>1. ASSUME NEW r \in Requests,
             RejectCheckout(r) \/ ReceiveCheckout(r) \/ HandlerStep(r)
      PROVE  \/ saga'[o] = saga[o] /\ tries'[o] = tries[o]
             \/ saga[o] = "none" /\ saga'[o] = "create" /\ tries'[o] = tries[o]
  BY <1>1 DEF RejectCheckout, ReceiveCheckout, HandlerStep, ReplayedCheckout,
              StartCheckout, OrderProgress, NotStarted
<1>2. ASSUME NEW p \in OrderIds, SagaStep(p), p # o
      PROVE  saga'[o] = saga[o] /\ tries'[o] = tries[o]
  BY <1>2 DEF SagaStep, LocalSagaStep, CreateOrder, GrantOrderAccess, LookupProduct,
              SetOrderTotal, SendCharge, ChargeAccepted, ChargeAttemptFailed,
              MarkConfirmed, MarkFailed, Worked, AttemptFailed, Proceed
<1>3. ASSUME \/ \E p \in OrderIds : MarkCancelled(p)
             \/ \E op \in Operators : CancelHandlerStep(op)
             \/ UNCHANGED vars
      PROVE  saga' = saga /\ tries' = tries
  BY <1>3 DEF MarkCancelled, CancelHandlerStep, StartCancel, CheckCancel, vars
<1> QED
  BY <1>1, <1>2, <1>3 DEF Next

\* What makes every saga that Temporal keeps running end: a started one can take
\* no more than 14 * MaxAttempts steps, whatever fails and whoever interferes,
\* and it has ended when it has none left.
THEOREM SagaWorkRunsOutHolds == Spec => []SagaWork /\ SagaWorkRunsOut
<1>1. IInv => SagaWork
  BY WorkTypes DEF IInv
<1>2. IInv /\ [Next]_vars =>
        [\A o \in OrderIds :
           /\ WorkLeft(o)' <= WorkLeft(o)
           /\ SagaStep(o) \/ (StartCheckout(o) /\ saga'[o] = "create") =>
                WorkLeft(o)' < WorkLeft(o)]_vars
  <2> SUFFICES ASSUME IInv, [Next]_vars, NEW o \in OrderIds
               PROVE  /\ WorkLeft(o)' <= WorkLeft(o)
                      /\ SagaStep(o) \/ (StartCheckout(o) /\ saga'[o] = "create") =>
                           WorkLeft(o)' < WorkLeft(o)
    OBVIOUS
  <2>1. TypeOK /\ TypeOK'
    BY InductiveStep DEF IInv
  <2>2. WorkLeft(o) \in Nat /\ WorkLeft(o)' \in Nat
    <3>1. SagaWork /\ SagaWork'
      BY <2>1, WorkTypes, PTL
    <3>2. 14 * MaxAttempts \in Nat
      BY OrdersConstants
    <3> QED
      BY <3>1, <3>2 DEF SagaWork, OrderIds
  <2>3. SagaStep(o) => WorkLeft(o)' < WorkLeft(o)
    BY <2>1, SagaStepWork
  <2>4. ASSUME saga[o] = "none", saga'[o] = "create", tries'[o] = tries[o]
        PROVE  WorkLeft(o)' < WorkLeft(o)
    <3>1. MaxAttempts \in Nat \ {0} /\ tries[o] \in 0 .. MaxAttempts - 1
      BY <2>1, OrdersConstants DEF TypeOK
    <3> QED
      BY <2>4, <3>1 DEF WorkLeft, ActivitiesLeft, SagaEnds
  <2>5. ASSUME saga'[o] = saga[o], tries'[o] = tries[o]
        PROVE  WorkLeft(o)' = WorkLeft(o)
    BY <2>5 DEF WorkLeft
  <2>6. StartCheckout(o) /\ saga'[o] = "create" =>
          saga[o] = "none" /\ saga'[o] = "create" /\ tries'[o] = tries[o]
    <3> SUFFICES ASSUME StartCheckout(o), saga'[o] = "create"
                 PROVE  saga[o] = "none" /\ tries'[o] = tries[o]
      OBVIOUS
    <3>1. NotStarted(o) /\ tries' = tries
      BY DEF StartCheckout, NotStarted
    <3> QED
      BY <3>1 DEF IInv, OrderProgress
  <2> HIDE DEF WorkLeft
  <2> QED
    BY <2>2, <2>3, <2>4, <2>5, <2>6, OthersKeepSaga
<1> QED
  BY <1>1, <1>2, Inductive, PTL DEF Spec, SagaWorkRunsOut

-----------------------------------------------------------------------------
(* Division of an amount, truncated and rounded *)

\* Division of naturals.
LEMMA DivisionBounds ==
  ASSUME NEW a \in Nat, NEW b \in Nat \ {0}
  PROVE  /\ a \div b \in Nat
         /\ b * (a \div b) <= a /\ a < b * (a \div b) + b
BY SMT

\* The quotient is truncated: the remainder is smaller than the divisor and has
\* the sign of the amount, or is zero.
LEMMA QuoRem ==
  ASSUME NEW u \in Int, NEW d \in Int \ {0}
  PROVE  /\ Quo(u, d) \in Int /\ RemOf(u, d) \in Int
         /\ u = d * Quo(u, d) + RemOf(u, d)
         /\ AbsOf(RemOf(u, d)) < AbsOf(d)
         /\ u >= 0 => RemOf(u, d) >= 0
         /\ u <= 0 => RemOf(u, d) <= 0
         /\ (u < 0) # (d < 0) => Quo(u, d) <= 0
         /\ (u < 0) = (d < 0) => Quo(u, d) >= 0
<1> DEFINE a == AbsOf(u)
           b == AbsOf(d)
           q == a \div b
<1>1. a \in Nat /\ b \in Nat \ {0}
  BY DEF AbsOf
<1>2. q \in Nat /\ b * q <= a /\ a < b * q + b
  BY <1>1, DivisionBounds
<1>3. (d < 0 => d = -b) /\ (~ (d < 0) => d = b)
  BY DEF AbsOf
<1>4. (u < 0 => u = -a) /\ (~ (u < 0) => u = a)
  BY DEF AbsOf
<1>5. Quo(u, d) = IF (u < 0) # (d < 0) THEN -q ELSE q
  BY DEF Quo
<1> HIDE DEF a, b, q
<1>6. PICK p \in Nat : p = b * q
  BY <1>1, <1>2
<1>7. /\ b * (-q) = -p /\ (-b) * q = -p /\ (-b) * (-q) = p
  BY <1>1, <1>2, <1>6
<1>8. d * Quo(u, d) = IF u < 0 THEN -p ELSE p
  <2>1. CASE u < 0 /\ d < 0
    BY <1>3, <1>5, <1>6, <2>1, <1>7
  <2>2. CASE u < 0 /\ ~ (d < 0)
    BY <1>3, <1>5, <1>7, <2>2
  <2>3. CASE ~ (u < 0) /\ d < 0
    BY <1>3, <1>5, <1>7, <2>3
  <2>4. CASE ~ (u < 0) /\ ~ (d < 0)
    BY <1>3, <1>5, <1>6, <2>4
  <2> QED
    BY <2>1, <2>2, <2>3, <2>4
<1>9. /\ u < 0 => RemOf(u, d) = -(a - p)
      /\ ~ (u < 0) => RemOf(u, d) = a - p
  BY <1>1, <1>4, <1>8 DEF RemOf
<1>10. 0 <= a - p /\ a - p < b
  BY <1>1, <1>2, <1>6
<1>11. Quo(u, d) \in Int /\ RemOf(u, d) \in Int
  BY <1>1, <1>2, <1>5, <1>9
<1>12. d * Quo(u, d) \in Int
  BY <1>11
<1>13. u = d * Quo(u, d) + RemOf(u, d)
  BY <1>12 DEF RemOf
<1>14. AbsOf(RemOf(u, d)) = a - p
  BY <1>1, <1>9, <1>10, <1>4 DEF AbsOf
<1> QED
  BY <1>1, <1>2, <1>4, <1>5, <1>9, <1>10, <1>11, <1>13, <1>14 DEF b

\* A quotient moved away from zero overshoots by what the divisor lacked.
LEMMA RoundedError ==
  ASSUME NEW u \in Int, NEW d \in Int \ {0}, NEW mode \in Modes, RoundsAway(u, d, mode)
  PROVE  /\ DivRound(u, d, mode) \in {Quo(u, d) - 1, Quo(u, d) + 1}
         /\ Error(u, d, DivRound(u, d, mode)) = AbsOf(d) - AbsOf(RemOf(u, d))
         /\ AbsOf(d * DivRound(u, d, mode)) =
              AbsOf(u) + Error(u, d, DivRound(u, d, mode))
<1> DEFINE q == Quo(u, d)
           r == RemOf(u, d)
           s == DivRound(u, d, mode)
<1>1. /\ q \in Int /\ r \in Int /\ u = d * q + r /\ AbsOf(r) < AbsOf(d)
      /\ (u >= 0 => r >= 0) /\ (u <= 0 => r <= 0)
  BY QuoRem
<1>2. s = IF (u < 0) # (d < 0) THEN q - 1 ELSE q + 1
  BY <1>1 DEF DivRound
<1> HIDE DEF q, r, s
<1>3. /\ d * (q - 1) = d * q - d
      /\ d * (q + 1) = d * q + d
      /\ d * q \in Int
  BY <1>1
<1>4. d * s = IF u < 0 THEN u - r - AbsOf(d) ELSE u - r + AbsOf(d)
  BY <1>1, <1>2, <1>3 DEF AbsOf
<1>5. u - d * s = IF u < 0 THEN r + AbsOf(d) ELSE r - AbsOf(d)
  BY <1>1, <1>4 DEF AbsOf
<1>6. AbsOf(u - d * s) = AbsOf(d) - AbsOf(r)
  BY <1>1, <1>5 DEF AbsOf
<1>7. AbsOf(d * s) = AbsOf(u) + AbsOf(u - d * s)
  BY <1>1, <1>4, <1>5, <1>6 DEF AbsOf
<1> QED
  BY <1>2, <1>6, <1>7 DEF Error, s, r, q

\* A quotient that stays where it was truncated leaves the remainder.
LEMMA KeptError ==
  ASSUME NEW u \in Int, NEW d \in Int \ {0}, NEW mode \in Modes, ~ RoundsAway(u, d, mode)
  PROVE  /\ DivRound(u, d, mode) = Quo(u, d)
         /\ Error(u, d, Quo(u, d)) = AbsOf(RemOf(u, d))
         /\ AbsOf(d * Quo(u, d)) <= AbsOf(u)
<1> DEFINE q == Quo(u, d)
           r == RemOf(u, d)
<1>1. /\ q \in Int /\ r \in Int /\ u = d * q + r /\ AbsOf(r) < AbsOf(d)
      /\ (u >= 0 => r >= 0) /\ (u <= 0 => r <= 0)
  BY QuoRem
<1>2. DivRound(u, d, mode) = q
  BY DEF DivRound
<1>3. u - d * q = r
  BY DEF RemOf
<1>4. ((u < 0) # (d < 0) => q <= 0) /\ ((u < 0) = (d < 0) => q >= 0)
  BY QuoRem
<1> HIDE DEF q, r
<1>5. d * q \in Int /\ (u < 0 => d * q <= 0) /\ (~ (u < 0) => d * q >= 0)
  <2>1. CASE q = 0
    BY <2>1
  <2>2. CASE q < 0
    <3>1. d < 0 => d * q > 0
      BY <1>1, <2>2
    <3>2. d > 0 => d * q < 0
      BY <1>1, <2>2
    <3> QED
      BY <1>1, <1>4, <2>2, <3>1, <3>2
  <2>3. CASE q > 0
    <3>1. d < 0 => d * q < 0
      BY <1>1, <2>3
    <3>2. d > 0 => d * q > 0
      BY <1>1, <2>3
    <3> QED
      BY <1>1, <1>4, <2>3, <3>1, <3>2
  <2> QED
    BY <1>1, <2>1, <2>2, <2>3
<1>6. AbsOf(d * q) <= AbsOf(u)
  BY <1>1, <1>3, <1>5 DEF AbsOf
<1> QED
  BY <1>2, <1>3, <1>6 DEF Error, q, r

\* Any amount over any divisor rounds to a nearest quotient, by the mode.
LEMMA DividesAnyToNearest ==
  ASSUME NEW u \in Int, NEW d \in Int \ {0}, NEW mode \in Modes
  PROVE  LET q == DivRound(u, d, mode)
             tie == 2 * Error(u, d, q) = AbsOf(d)
         IN  /\ mode # "Down" => 2 * Error(u, d, q) <= AbsOf(d)
             /\ mode = "HalfEven" /\ tie => q % 2 = 0
             /\ mode = "HalfUp" /\ tie => AbsOf(d * q) > AbsOf(u)
             /\ mode = "Down" => Error(u, d, q) < AbsOf(d) /\ AbsOf(d * q) <= AbsOf(u)
<1> DEFINE q == DivRound(u, d, mode)
           k == Quo(u, d)
           e == Error(u, d, q)
           r == AbsOf(RemOf(u, d))
           b == AbsOf(d)
<1>1. k \in Int /\ r \in Nat /\ b \in Nat \ {0} /\ r < b /\ AbsOf(u) \in Nat
  <2>1. k \in Int /\ RemOf(u, d) \in Int /\ r < b
    BY QuoRem
  <2>2. r \in Nat /\ b \in Nat \ {0} /\ AbsOf(u) \in Nat
    BY <2>1 DEF AbsOf
  <2> QED
    BY <2>1, <2>2
<1>2. CASE RoundsAway(u, d, mode)
  <2>1. q \in {k - 1, k + 1} /\ e = b - r /\ AbsOf(d * q) = AbsOf(u) + e
    BY <1>2, RoundedError
  <2>2. mode # "Down" /\ (2 * r > b \/ (2 * r = b /\ (mode = "HalfUp" \/ k % 2 = 1)))
    BY <1>2 DEF RoundsAway
  <2> HIDE DEF q, k, e, r, b
  <2>3. 2 * e <= b /\ e > 0
    BY <1>1, <2>1, <2>2
  <2>4. mode = "HalfEven" /\ 2 * e = b => q % 2 = 0
    <3> SUFFICES ASSUME mode = "HalfEven", 2 * e = b PROVE q % 2 = 0
      OBVIOUS
    <3>1. 2 * r = b
      BY <1>1, <2>1
    <3>2. k % 2 = 1
      BY <1>1, <2>2, <3>1
    <3> QED
      BY <1>1, <2>1, <3>2
  <2>5. AbsOf(d * q) > AbsOf(u)
    BY <1>1, <2>1, <2>3
  <2> QED
    BY <2>2, <2>3, <2>4, <2>5 DEF e, b, q
<1>3. CASE ~ RoundsAway(u, d, mode)
  <2>1. q = k /\ e = r /\ AbsOf(d * q) <= AbsOf(u)
    BY <1>3, KeptError
  <2>2. mode # "Down" => ~ (2 * r > b) /\ (2 * r = b => mode # "HalfUp" /\ k % 2 # 1)
    BY <1>3 DEF RoundsAway
  <2> HIDE DEF q, k, e, r, b
  <2>3. k % 2 \in {0, 1}
    BY <1>1
  <2>4. mode # "Down" => 2 * e <= b
    BY <1>1, <2>1, <2>2
  <2>5. mode = "HalfEven" /\ 2 * e = b => q % 2 = 0
    BY <2>1, <2>2, <2>3
  <2>6. ~ (mode = "HalfUp" /\ 2 * e = b)
    BY <2>1, <2>2
  <2> QED
    BY <1>1, <2>1, <2>4, <2>5, <2>6 DEF e, b, q
<1> QED
  BY <1>2, <1>3

-----------------------------------------------------------------------------
(* The sum of a split *)

\* What iter is in the sum over S of the values of w.
Recursion(w, S, g) ==
  g = [s \in SUBSET S |->
         IF s = {} THEN 0
         ELSE w[CHOOSE x \in s : TRUE] + g[s \ {CHOOSE x \in s : TRUE}]]

\* A set of naturals that is not empty has a least element.
LEMMA LeastNatural ==
  ASSUME NEW T, T \subseteq Nat, T # {}
  PROVE  \E m \in T : \A k \in T : ~ (k < m)
<1>1. PICK m \in T : \A k \in T : <<k, m>> \notin OpToRel(<, Nat)
  BY WFMin, NatLessThanWellFounded, Zenon
<1> QED
  BY <1>1, Zenon DEF OpToRel

\* The recursion of a fold over a finite set determines its value.
LEMMA RecursionUnique ==
  ASSUME NEW S, IsFiniteSet(S), NEW w, NEW g, NEW h,
         Recursion(w, S, g), Recursion(w, S, h)
  PROVE  g = h
<1> DEFINE Bad == {s \in SUBSET S : g[s] # h[s]}
           Sizes == {Cardinality(s) : s \in Bad}
<1>1. \A s \in SUBSET S : IsFiniteSet(s) /\ Cardinality(s) \in Nat
  BY FS_Subset, FS_CardinalityType
<1>2. SUFFICES ASSUME Bad # {} PROVE FALSE
  BY DEF Recursion
<1>3. Sizes \subseteq Nat /\ Sizes # {}
  BY <1>1, <1>2
<1>4. PICK m \in Sizes : \A k \in Sizes : ~ (k < m)
  BY <1>3, LeastNatural
<1>5. PICK s \in Bad : Cardinality(s) = m
  BY <1>4
<1>6. s # {}
  BY <1>5 DEF Recursion
<1> DEFINE x == CHOOSE x \in s : TRUE
<1>7. x \in s
  BY <1>6
<1>8. s \ {x} \in SUBSET S /\ Cardinality(s \ {x}) = Cardinality(s) - 1
  BY <1>1, <1>5, <1>7, FS_RemoveElement
<1>9. s \ {x} \notin Bad
  BY <1>1, <1>4, <1>5, <1>8
<1>10. g[s \ {x}] = h[s \ {x}]
  BY <1>8, <1>9
<1>11. g[s] = w[x] + g[s \ {x}] /\ h[s] = w[x] + h[s \ {x}]
  BY <1>5, <1>6 DEF Recursion
<1> QED
  BY <1>5, <1>10, <1>11

\* A fold is the value of any function that meets its recursion.
LEMMA FoldIs ==
  ASSUME NEW S, IsFiniteSet(S), NEW w, DOMAIN w = S, NEW g, Recursion(w, S, g)
  PROVE  FoldFunction(LAMBDA part, sum : part + sum, 0, w) = g[S]
<1> DEFINE iter == CHOOSE f : Recursion(w, S, f)
<1>1. Recursion(w, S, iter)
  OBVIOUS
<1>2. iter = g
  BY <1>1, RecursionUnique
<1>3. FoldFunction(LAMBDA part, sum : part + sum, 0, w) = iter[S]
  BY DEF FoldFunction, FoldFunctionOnSet, MapThenFoldSet, Recursion
<1> QED
  BY <1>2, <1>3

\* What the first parts of a split take, and the sign of what all of them have.
LEMMA SplitParts ==
  ASSUME NEW u \in Int, NEW n \in Nat \ {0}
  PROVE  LET rest == Remainder(u, n)
         IN  /\ rest.size \in 0 .. n - 1 /\ rest.step \in {-1, 1}
             /\ u = n * Quo(u, n) + rest.step * rest.size
             /\ u >= 0 => Quo(u, n) >= 0 /\ (rest.step = 1 \/ rest.size = 0)
             /\ u <= 0 => Quo(u, n) <= 0 /\ (rest.step = -1 \/ rest.size = 0)
<1> DEFINE q == Quo(u, n)
           r == RemOf(u, n)
<1>1. /\ q \in Int /\ r \in Int /\ u = n * q + r /\ AbsOf(r) < AbsOf(n)
      /\ (u >= 0 => r >= 0) /\ (u <= 0 => r <= 0)
      /\ (u < 0 => q <= 0) /\ (u >= 0 => q >= 0)
  BY QuoRem
<1>2. u = 0 => q = 0
  BY DEF Quo, AbsOf
<1> HIDE DEF q, r
<1> DEFINE size == AbsOf(r)
           step == IF r < 0 THEN -1 ELSE 1
<1>3. size \in 0 .. n - 1 /\ step \in {-1, 1} /\ step * size = r
  BY <1>1 DEF AbsOf
<1>4. u >= 0 => q >= 0 /\ (step = 1 \/ size = 0)
  BY <1>1
<1>5. u <= 0 => q <= 0 /\ (step = -1 \/ size = 0)
  BY <1>1, <1>2 DEF AbsOf
<1>6. Remainder(u, n) = [size |-> size, step |-> step]
  BY DEF Remainder, r
<1> QED
  BY <1>1, <1>3, <1>4, <1>5, <1>6 DEF q

\* The parts of any split sum to the amount: over a set s of parts the sum is
\* the quotient for each of s and the step for each of those that take one.
LEMMA SplitSums ==
  ASSUME NEW u \in Int, NEW n \in Nat \ {0}
  PROVE  FoldFunction(LAMBDA part, sum : part + sum, 0, Split(u, n)) = u
<1> DEFINE q == Quo(u, n)
           size == Remainder(u, n).size
           step == Remainder(u, n).step
           parts == Split(u, n)
           S == 1 .. n
           Taking(s) == s \cap (1 .. size)
           g == [s \in SUBSET S |-> q * Cardinality(s) + step * Cardinality(Taking(s))]
<1>1. q \in Int /\ size \in 0 .. n - 1 /\ step \in {-1, 1} /\ u = n * q + step * size
  BY QuoRem, SplitParts
<1>2. parts = [i \in S |-> q + (IF i <= size THEN step ELSE 0)]
  BY DEF Split
<1> HIDE DEF q, size, step, parts
<1>3. IsFiniteSet(S) /\ Cardinality(S) = n
  BY FS_Interval
<1>4. \A s \in SUBSET S :
        /\ IsFiniteSet(s) /\ Cardinality(s) \in Nat
        /\ IsFiniteSet(Taking(s)) /\ Cardinality(Taking(s)) \in Nat
  BY <1>3, FS_Subset, FS_CardinalityType
<1>5. \A a, b \in Int : a * (b - 1) = a * b - a /\ a * b = b * a
  BY SMT
<1>6. g[{}] = 0
  <2>1. Cardinality({}) = 0 /\ Taking({}) = {}
    BY FS_EmptySet
  <2> QED
    BY <1>1, <2>1
<1>7. ASSUME NEW s \in SUBSET S, NEW x \in s
      PROVE  g[s] = parts[x] + g[s \ {x}]
  <2> DEFINE c == Cardinality(s)
             t == Cardinality(Taking(s))
  <2>1. c \in Nat /\ t \in Nat
    BY <1>4
  <2>2. Cardinality(s \ {x}) = c - 1
    BY <1>4, FS_RemoveElement
  <2>3. g[s] = q * c + step * t
    OBVIOUS
  <2>4. g[s \ {x}] = q * (c - 1) + step * Cardinality(Taking(s \ {x}))
    BY <2>2
  <2>5. CASE x <= size
    <3>1. Taking(s \ {x}) = Taking(s) \ {x} /\ x \in Taking(s)
      BY <2>5
    <3>2. Cardinality(Taking(s \ {x})) = t - 1
      <4>1. IsFiniteSet(Taking(s))
        BY <1>4
      <4> HIDE DEF Taking
      <4> QED
        BY <3>1, <4>1, FS_RemoveElement
    <3>3. parts[x] = q + step
      BY <1>2, <2>5
    <3> HIDE DEF g, Taking, c, t
    <3>4. q * (c - 1) = q * c - q /\ step * (t - 1) = step * t - step
      BY <1>1, <1>5, <2>1
    <3>5. q * c \in Int /\ step * t \in Int /\ step \in Int
      BY <1>1, <2>1
    <3> QED
      BY <1>1, <2>3, <2>4, <3>2, <3>3, <3>4, <3>5
  <2>6. CASE ~ (x <= size)
    <3>1. Taking(s \ {x}) = Taking(s)
      BY <2>6
    <3>2. parts[x] = q
      BY <1>1, <1>2, <2>6
    <3> HIDE DEF g, Taking, c
    <3>3. q * (c - 1) = q * c - q
      BY <1>1, <1>5, <2>1
    <3> HIDE DEF t
    <3>4. q * c \in Int /\ step * t \in Int
      BY <1>1, <2>1
    <3> QED
      BY <1>1, <2>3, <2>4, <3>1, <3>2, <3>3, <3>4 DEF t
  <2> QED
    BY <2>5, <2>6
<1>8. g = [s \in SUBSET S |-> g[s]]
  OBVIOUS
<1>9. g[S] = u
  <2>1. Taking(S) = 1 .. size
    BY <1>1
  <2>2. Cardinality(1 .. size) = size
    BY <1>1, FS_Interval
  <2>3. g[S] = q * n + step * size
    BY <1>3, <2>1, <2>2
  <2>4. q * n = n * q
    BY <1>1, <1>5
  <2> QED
    BY <1>1, <2>3, <2>4
<1> HIDE DEF g
<1>10. Recursion(parts, S, g)
  <2> DEFINE Chosen(s) == CHOOSE x \in s : TRUE
  <2>1. ASSUME NEW s \in SUBSET S
        PROVE  g[s] = IF s = {} THEN 0 ELSE parts[Chosen(s)] + g[s \ {Chosen(s)}]
    <3>1. CASE s = {}
      BY <1>6, <3>1
    <3>2. CASE s # {}
      <4>1. Chosen(s) \in s
        BY <3>2
      <4> HIDE DEF Chosen
      <4> QED
        BY <1>7, <3>2, <4>1
    <3> QED
      BY <3>1, <3>2
  <2>2. g = [s \in SUBSET S |->
               IF s = {} THEN 0 ELSE parts[Chosen(s)] + g[s \ {Chosen(s)}]]
    <3> HIDE DEF Chosen
    <3> QED
      BY <1>8, <2>1
  <2> QED
    BY <2>2, Zenon DEF Recursion
<1>11. DOMAIN parts = S
  BY <1>2
<1> QED
  BY <1>3, <1>9, <1>10, <1>11, FoldIs DEF parts

\* Any amount splits exactly, over any number of parts.
LEMMA SplitsAnyExactly ==
  ASSUME NEW u \in Int, NEW n \in Nat \ {0}
  PROVE  LET parts == Split(u, n)
         IN  /\ FoldFunction(LAMBDA part, sum : part + sum, 0, parts) = u
             /\ \A i, j \in 1 .. n : AbsOf(parts[i] - parts[j]) <= 1
             /\ \A i \in 1 .. n : parts[i] * u >= 0
<1> DEFINE q == Quo(u, n)
           size == Remainder(u, n).size
           step == Remainder(u, n).step
           parts == Split(u, n)
<1>1. /\ q \in Int /\ size \in 0 .. n - 1 /\ step \in {-1, 1}
      /\ u >= 0 => q >= 0 /\ (step = 1 \/ size = 0)
      /\ u <= 0 => q <= 0 /\ (step = -1 \/ size = 0)
  BY QuoRem, SplitParts
<1>2. \A i \in 1 .. n : parts[i] = q + (IF i <= size THEN step ELSE 0)
  BY DEF Split
<1>3. FoldFunction(LAMBDA part, sum : part + sum, 0, parts) = u
  BY SplitSums
<1> HIDE DEF q, size, step, parts
<1>4. ASSUME NEW i \in 1 .. n
      PROVE  /\ parts[i] \in {q, q + step}
             /\ u >= 0 => parts[i] >= 0
             /\ u <= 0 => parts[i] <= 0
  BY <1>1, <1>2
<1>5. \A i, j \in 1 .. n : AbsOf(parts[i] - parts[j]) <= 1
  <2>1. SUFFICES ASSUME NEW i \in 1 .. n, NEW j \in 1 .. n
                 PROVE  AbsOf(parts[i] - parts[j]) <= 1
    OBVIOUS
  <2>2. parts[i] \in {q, q + step} /\ parts[j] \in {q, q + step}
    BY <1>4
  <2>3. parts[i] - parts[j] \in {-1, 0, 1}
    BY <1>1, <2>2
  <2> QED
    BY <2>3 DEF AbsOf
<1>6. \A i \in 1 .. n : parts[i] * u >= 0
  <2>1. \A a, b \in Int : (a >= 0 /\ b >= 0) \/ (a <= 0 /\ b <= 0) => a * b >= 0
    BY SMT
  <2>2. ASSUME NEW i \in 1 .. n PROVE parts[i] * u >= 0
    <3>1. /\ parts[i] \in {q, q + step}
          /\ u >= 0 => parts[i] >= 0
          /\ u <= 0 => parts[i] <= 0
      BY <1>4
    <3>2. parts[i] \in Int
      BY <1>1, <3>1
    <3>3. (parts[i] >= 0 /\ u >= 0) \/ (parts[i] <= 0 /\ u <= 0)
      BY <3>1
    <3> QED
      BY <2>1, <3>2, <3>3
  <2> QED
    BY <2>2
<1> QED
  BY <1>3, <1>5, <1>6 DEF parts

-----------------------------------------------------------------------------
(* The amounts of orders *)

LEMMA RecordedAmountsAreIntegers == TypeOK => RecordedAmounts \subseteq Int
BY DEF TypeOK, RecordedAmounts

LEMMA AmountSplits == ASSUME NEW u \in Int PROVE SplitsExactly(u)
<1>1. \A n \in {m \in MoneyParts : m > 0} : n \in Nat \ {0}
  BY MoneyConstants
<1> QED
  BY <1>1, SplitsAnyExactly DEF SplitsExactly

LEMMA AmountDivides == ASSUME NEW u \in Int PROVE DividesToNearest(u)
BY MoneyConstants, DividesAnyToNearest DEF DividesToNearest

\* No unit is lost or made by a split, whatever the amount and the number of
\* parts: of those that orders record, their credits and any others.
THEOREM SplitLosesNothingHolds == Spec => []SplitLosesNothing
<1>1. UnitsSplitExactly
  BY MoneyConstants, AmountSplits DEF UnitsSplitExactly
<1>2. TypeOK => SplitLosesNothing
  BY <1>1, RecordedAmountsAreIntegers, AmountSplits DEF SplitLosesNothing
<1> QED
  BY <1>2, TypeCorrect, PTL

\* Rounding is to nearest and breaks ties by its mode, whatever the amount and
\* the divisor, of either sign.
THEOREM RoundsToNearestHolds == Spec => []RoundsToNearest
<1>1. UnitsDivideToNearest
  BY MoneyConstants, AmountDivides DEF UnitsDivideToNearest
<1>2. TypeOK => RoundsToNearest
  BY <1>1, RecordedAmountsAreIntegers, AmountDivides DEF RoundsToNearest
<1> QED
  BY <1>2, TypeCorrect, PTL
=============================================================================
