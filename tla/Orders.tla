------------------------------- MODULE Orders -------------------------------
(***************************************************************************)
(* The orders service: POST /orders, the Checkout saga it starts, the      *)
(* operator's cancel and the CancelOrder workflow.  Payment is seen from   *)
(* here only as the answer to POST /charges; module CheckoutSystem joins   *)
(* the two services.                                                       *)
(*                                                                         *)
(* An activity runs at least once.  An attempt can do its work and report  *)
(* it, do its work and lose the report, or fail before it; Temporal tries  *)
(* it again until MaxAttempts.  A handler reads the row and acts on what   *)
(* it read in two steps, so other handlers and workflows come between.     *)
(***************************************************************************)
EXTENDS Integers

CONSTANTS
  Requests,     \* calls of POST /orders; the order a call mints has its name
  Keys,         \* values of the Idempotency-Key header
  Operators,    \* callers of POST /orders/{id}/cancel, one call at a time each
  Prices,       \* the prices catalog may answer
  Quantities,   \* the quantities a request may carry
  MaxAttempts,  \* RetryPolicy.MaximumAttempts
  NoKey, NoOrder

ASSUME OrdersConstants ==
  /\ MaxAttempts \in Nat \ {0}
  /\ Prices \subseteq Nat
  /\ Quantities \subseteq Nat \ {0}
  /\ NoKey \notin Keys
  /\ NoOrder \notin Requests

VARIABLES
  request,      \* where each POST /orders is
  key,          \* its Idempotency-Key, also the column of the row it places
  quantity,
  handle,       \* the order its 202 names
  status,       \* orders.status, or "absent" when no row exists
  total,        \* orders.total
  tuples,       \* the OpenFGA relations written on each order
  saga,         \* the step the Checkout workflow of each order is at
  tries,        \* failed attempts of that step
  quote,        \* the saga's own total, price times quantity
  cancelCall,   \* the order an operator's cancel call has read as cancellable
  cancel,       \* the CancelOrder workflow of each order
  cancelTries

requestVars == <<request, key, quantity, handle>>
storeVars   == <<status, total, tuples>>
sagaVars    == <<saga, tries, quote>>
cancelVars  == <<cancelCall, cancel, cancelTries>>
vars        == <<requestVars, storeVars, sagaVars, cancelVars>>

OrderIds  == Requests
Statuses  == {"pending", "confirmed", "failed", "cancelled"}
Relations == {"owner", "org"}
SagaSteps == {"create", "grant", "lookup", "setTotal", "charge", "charging",
              "markConfirmed", "markFailed"}
SagaEnds  == {"completed", "failed"}

Exists(o) == status[o] # "absent"

-----------------------------------------------------------------------------
(* POST /orders *)

\* A request without a buyer, an organisation, a key or a quantity is refused.
RejectCheckout(r) ==
  /\ request[r] = "idle"
  /\ request' = [request EXCEPT ![r] = "refused"]
  /\ UNCHANGED <<key, quantity, handle, storeVars, sagaVars, cancelVars>>

ReceiveCheckout(r) ==
  /\ request[r] = "idle"
  /\ \E k \in Keys, q \in Quantities :
       /\ key' = [key EXCEPT ![r] = k]
       /\ quantity' = [quantity EXCEPT ![r] = q]
  /\ request' = [request EXCEPT ![r] = "received"]
  /\ UNCHANGED <<handle, storeVars, sagaVars, cancelVars>>

Placed(k) == {o \in OrderIds : Exists(o) /\ key[o] = k}

\* The read of the row by its key, before a workflow is started.
ReplayedCheckout(r) ==
  /\ request[r] = "received"
  /\ \/ \E o \in Placed(key[r]) :
          /\ handle' = [handle EXCEPT ![r] = o]
          /\ request' = [request EXCEPT ![r] = "accepted"]
     \/ /\ Placed(key[r]) = {}
        /\ request' = [request EXCEPT ![r] = "missed"]
        /\ UNCHANGED handle
     \/ /\ request' = [request EXCEPT ![r] = "refused"]
        /\ UNCHANGED handle
  /\ UNCHANGED <<key, quantity, storeVars, sagaVars, cancelVars>>

\* ExecuteWorkflow under an id minted for this call.  When the start succeeds
\* and its answer is lost, the caller sees a 500 and the saga runs.
StartCheckout(r) ==
  /\ request[r] = "missed"
  /\ \/ /\ saga' = [saga EXCEPT ![r] = "create"]
        /\ \/ /\ request' = [request EXCEPT ![r] = "accepted"]
              /\ handle' = [handle EXCEPT ![r] = r]
           \/ /\ request' = [request EXCEPT ![r] = "refused"]
              /\ UNCHANGED handle
     \/ /\ request' = [request EXCEPT ![r] = "refused"]
        /\ UNCHANGED <<saga, handle>>
  /\ UNCHANGED <<key, quantity, tries, quote, storeVars, cancelVars>>

-----------------------------------------------------------------------------
(* The Checkout saga *)

\* Mutants of After: the tuples written after the charge, and the total.
AfterGrantLast ==
  [create |-> "lookup", lookup |-> "setTotal", setTotal |-> "charge",
   charge |-> "grant", grant |-> "markConfirmed",
   markConfirmed |-> "completed", markFailed |-> "failed"]

AfterTotalLast ==
  [create |-> "grant", grant |-> "lookup", lookup |-> "charge",
   charge |-> "setTotal", setTotal |-> "markConfirmed",
   markConfirmed |-> "completed", markFailed |-> "failed"]

\* Mutant of OnError: a saga that could not confirm marks the order failed.
OnErrorCompensates ==
  [create |-> "failed", grant |-> "failed", lookup |-> "markFailed",
   setTotal |-> "markFailed", charge |-> "markFailed",
   markConfirmed |-> "markFailed", markFailed |-> "failed"]

\* The order of the steps, and where an error of each one leads: an error of
\* the first two ends the saga, a later one first marks the order failed, and
\* a saga whose last write fails reports the error and leaves the row.
After == [create |-> "grant", grant |-> "lookup", lookup |-> "setTotal",
          setTotal |-> "charge", charge |-> "markConfirmed",
          markConfirmed |-> "completed", markFailed |-> "failed"]

OnError == [create |-> "failed", grant |-> "failed", lookup |-> "markFailed",
            setTotal |-> "markFailed", charge |-> "markFailed",
            markConfirmed |-> "failed", markFailed |-> "failed"]

Proceed(o, step) ==
  /\ saga' = [saga EXCEPT ![o] = step]
  /\ tries' = [tries EXCEPT ![o] = 0]

\* Mutants of AttemptFailed: the error is dropped, and the policy has no
\* MaximumAttempts.
ErrorIgnored(o, step) ==
  IF tries[o] + 1 < MaxAttempts
    THEN /\ saga' = [saga EXCEPT ![o] = step]
         /\ tries' = [tries EXCEPT ![o] = @ + 1]
    ELSE Proceed(o, After[step])

RetriedForever(o, step) ==
  saga' = [saga EXCEPT ![o] = step] /\ UNCHANGED tries

\* The attempt is reported as failed, or not reported in time.
AttemptFailed(o, step) ==
  IF tries[o] + 1 < MaxAttempts
    THEN /\ saga' = [saga EXCEPT ![o] = step]
         /\ tries' = [tries EXCEPT ![o] = @ + 1]
    ELSE Proceed(o, OnError[step])

\* The attempt did its work; its report arrives or is lost.
Worked(o, step) == Proceed(o, After[step]) \/ AttemptFailed(o, step)

\* Mutant of KeyUnused: the index is not unique.
NoUniqueIndex(o) == TRUE

\* The unique index on orders.idempotency_key.
KeyUnused(o) == Placed(key[o]) = {}

\* insert ... on conflict (id) do nothing
CreateOrder(o) ==
  /\ saga[o] = "create"
  /\ \/ /\ Exists(o) \/ KeyUnused(o)
        /\ status' = [status EXCEPT ![o] = IF @ = "absent" THEN "pending" ELSE @]
        /\ Worked(o, "create")
     \/ UNCHANGED status /\ AttemptFailed(o, "create")
  /\ UNCHANGED <<total, tuples, quote, requestVars, cancelVars>>

\* Two writes, the owner's first.  An existing tuple counts as written.
GrantOrderAccess(o) ==
  /\ saga[o] = "grant"
  /\ \/ /\ tuples' = [tuples EXCEPT ![o] = Relations]
        /\ Worked(o, "grant")
     \/ \E written \in {{}, {"owner"}} :
          /\ tuples' = [tuples EXCEPT ![o] = @ \union written]
          /\ AttemptFailed(o, "grant")
  /\ UNCHANGED <<status, total, quote, requestVars, cancelVars>>

\* GET /products/{id}: the price of the moment, or an error or a 404.
LookupProduct(o) ==
  /\ saga[o] = "lookup"
  /\ \/ \E price \in Prices :
          /\ quote' = [quote EXCEPT ![o] = price * quantity[o]]
          /\ Proceed(o, After.lookup)
     \/ UNCHANGED quote /\ AttemptFailed(o, "lookup")
  /\ UNCHANGED <<storeVars, requestVars, cancelVars>>

SetOrderTotal(o) ==
  /\ saga[o] = "setTotal"
  /\ \/ /\ total' = [total EXCEPT ![o] = quote[o]]
        /\ Worked(o, "setTotal")
     \/ UNCHANGED total /\ AttemptFailed(o, "setTotal")
  /\ UNCHANGED <<status, tuples, quote, requestVars, cancelVars>>

\* ChargeActivity posts to payment with the order id as Idempotency-Key.
SendCharge(o) ==
  /\ saga[o] = "charge"
  /\ saga' = [saga EXCEPT ![o] = "charging"]
  /\ UNCHANGED <<tries, quote, storeVars, requestVars, cancelVars>>

\* Payment answered 202.
ChargeAccepted(o) ==
  /\ saga[o] = "charging"
  /\ Proceed(o, After.charge)
  /\ UNCHANGED <<quote, storeVars, requestVars, cancelVars>>

\* Any other answer, no answer in time, or a call that was never sent.
ChargeAttemptFailed(o) ==
  /\ saga[o] \in {"charge", "charging"}
  /\ AttemptFailed(o, "charge")
  /\ UNCHANGED <<quote, storeVars, requestVars, cancelVars>>

\* update orders set status = ... where id = ..., whatever the status was
MarkOrderStatus(o, to) ==
  status' = [status EXCEPT ![o] = IF Exists(o) THEN to ELSE @]

\* Mutant of MarkConfirmed: an attempt given up for lost still writes.
MarkConfirmedLate(o) ==
  /\ saga[o] \in {"markConfirmed", "completed"}
  /\ MarkOrderStatus(o, "confirmed")
  /\ saga' = [saga EXCEPT ![o] = "completed"]
  /\ UNCHANGED <<total, tuples, tries, quote, requestVars, cancelVars>>

MarkConfirmed(o) ==
  /\ saga[o] = "markConfirmed"
  /\ \/ MarkOrderStatus(o, "confirmed") /\ Worked(o, "markConfirmed")
     \/ UNCHANGED status /\ AttemptFailed(o, "markConfirmed")
  /\ UNCHANGED <<total, tuples, quote, requestVars, cancelVars>>

\* The error of this write is dropped; the saga fails either way.
MarkFailed(o) ==
  /\ saga[o] = "markFailed"
  /\ \/ MarkOrderStatus(o, "failed") /\ Worked(o, "markFailed")
     \/ UNCHANGED status /\ AttemptFailed(o, "markFailed")
  /\ UNCHANGED <<total, tuples, quote, requestVars, cancelVars>>

-----------------------------------------------------------------------------
(* POST /orders/{id}/cancel *)

Cancellable(o) == status[o] \in {"pending", "confirmed"}

\* The operator's call reads the row; a 404 and a 409 end it here.
CheckCancel(op, o) ==
  /\ cancelCall[op] = NoOrder
  /\ Cancellable(o)
  /\ cancelCall' = [cancelCall EXCEPT ![op] = o]
  /\ UNCHANGED <<cancel, cancelTries, storeVars, requestVars, sagaVars>>

\* ExecuteWorkflow under cancel-order-<id>.  A closed workflow is started again;
\* a running one is joined and a failed start is a 500, and neither changes
\* anything here.
StartCancel(op) ==
  LET o == cancelCall[op] IN
  /\ o # NoOrder
  /\ \/ /\ cancel[o] # "mark"
        /\ cancel' = [cancel EXCEPT ![o] = "mark"]
        /\ cancelTries' = [cancelTries EXCEPT ![o] = 0]
     \/ UNCHANGED <<cancel, cancelTries>>
  /\ cancelCall' = [cancelCall EXCEPT ![op] = NoOrder]
  /\ UNCHANGED <<storeVars, requestVars, sagaVars>>

CancelProceed(o, step) ==
  /\ cancel' = [cancel EXCEPT ![o] = step]
  /\ cancelTries' = [cancelTries EXCEPT ![o] = 0]

CancelAttemptFailed(o) ==
  IF cancelTries[o] + 1 < MaxAttempts
    THEN /\ cancelTries' = [cancelTries EXCEPT ![o] = @ + 1]
         /\ UNCHANGED cancel
    ELSE CancelProceed(o, "failed")

\* The CancelOrder workflow has one activity.
MarkCancelled(o) ==
  /\ cancel[o] = "mark"
  /\ \/ /\ MarkOrderStatus(o, "cancelled")
        /\ CancelProceed(o, "completed") \/ CancelAttemptFailed(o)
     \/ UNCHANGED status /\ CancelAttemptFailed(o)
  /\ UNCHANGED <<cancelCall, total, tuples, requestVars, sagaVars>>

-----------------------------------------------------------------------------
Init ==
  /\ request = [r \in Requests |-> "idle"]
  /\ key = [r \in Requests |-> NoKey]
  /\ quantity = [r \in Requests |-> 0]
  /\ handle = [r \in Requests |-> NoOrder]
  /\ status = [o \in OrderIds |-> "absent"]
  /\ total = [o \in OrderIds |-> 0]
  /\ tuples = [o \in OrderIds |-> {}]
  /\ saga = [o \in OrderIds |-> "none"]
  /\ tries = [o \in OrderIds |-> 0]
  /\ quote = [o \in OrderIds |-> 0]
  /\ cancelCall = [op \in Operators |-> NoOrder]
  /\ cancel = [o \in OrderIds |-> "none"]
  /\ cancelTries = [o \in OrderIds |-> 0]

HandlerStep(r) == ReplayedCheckout(r) \/ StartCheckout(r)

\* Every saga step but the two that touch payment.
LocalSagaStep(o) ==
  \/ CreateOrder(o) \/ GrantOrderAccess(o) \/ LookupProduct(o)
  \/ SetOrderTotal(o) \/ MarkConfirmed(o) \/ MarkFailed(o)

SagaStep(o) ==
  \/ LocalSagaStep(o) \/ SendCharge(o) \/ ChargeAccepted(o)
  \/ ChargeAttemptFailed(o)

CancelHandlerStep(op) == StartCancel(op) \/ \E o \in OrderIds : CheckCancel(op, o)

Next ==
  \/ \E r \in Requests : RejectCheckout(r) \/ ReceiveCheckout(r) \/ HandlerStep(r)
  \/ \E o \in OrderIds : SagaStep(o) \/ MarkCancelled(o)
  \/ \E op \in Operators : CancelHandlerStep(op)

Fairness ==
  /\ \A r \in Requests : WF_vars(HandlerStep(r))
  /\ \A o \in OrderIds : WF_vars(SagaStep(o)) /\ WF_vars(MarkCancelled(o))
  /\ \A op \in Operators : WF_vars(StartCancel(op))

Spec == Init /\ [][Next]_vars
FairSpec == Spec /\ Fairness

-----------------------------------------------------------------------------
(* Properties *)

TypeOK ==
  /\ request \in [Requests -> {"idle", "received", "missed", "accepted", "refused"}]
  /\ key \in [Requests -> Keys \union {NoKey}]
  /\ quantity \in [Requests -> Nat]
  /\ handle \in [Requests -> OrderIds \union {NoOrder}]
  /\ status \in [OrderIds -> Statuses \union {"absent"}]
  /\ total \in [OrderIds -> Nat]
  /\ tuples \in [OrderIds -> SUBSET Relations]
  /\ saga \in [OrderIds -> SagaSteps \union SagaEnds \union {"none"}]
  /\ tries \in [OrderIds -> 0 .. MaxAttempts - 1]
  /\ quote \in [OrderIds -> Nat]
  /\ cancelCall \in [Operators -> OrderIds \union {NoOrder}]
  /\ cancel \in [OrderIds -> {"none", "mark", "completed", "failed"}]
  /\ cancelTries \in [OrderIds -> 0 .. MaxAttempts - 1]

\* ADR-0003, ORD-004: two checkouts that repeat a key can both miss the read
\* and both start a saga, and still only one order row carries the key.
OneOrderPerKey ==
  \A o, p \in OrderIds :
    Exists(o) /\ Exists(p) /\ key[o] = key[p] => o = p

\* ORD-007: no tuple names an order that was never inserted, whichever attempt
\* of the insert failed or lost its report.
TuplesNameAnOrder ==
  \A o \in OrderIds : tuples[o] # {} => Exists(o)

\* The comment on the grant in Checkout: an order the saga decided is one its
\* buyer and the admins of its organisation can read.
ReadableOnceDecided ==
  \A o \in OrderIds :
    status[o] \in {"confirmed", "failed"} => tuples[o] = Relations

\* ORD-008: the charge is only asked for when the order is readable and its row
\* holds the amount that is asked for, whatever was retried before.
ChargeStates == {"charge", "charging", "markConfirmed", "completed"}

ChargedAsRecorded ==
  \A o \in OrderIds :
    saga[o] \in ChargeStates =>
      Exists(o) /\ tuples[o] = Relations /\ total[o] = quote[o]

\* ORD-006: a saga that completed left the order confirmed; only an operator's
\* cancel can have changed it.
CompletedIsConfirmed ==
  \A o \in OrderIds :
    saga[o] = "completed" => status[o] \in {"confirmed", "cancelled"}

\* The saga decides an order once: a lost report, a retry or an error of its
\* last write never turns failed into confirmed or confirmed into failed.
SagaDecidesOnce ==
  [][\A o \in OrderIds :
       /\ status[o] = "confirmed" => status'[o] # "failed"
       /\ status[o] = "failed" => status'[o] # "confirmed"]_vars

\* Once the saga is closed a cancel is final: no late attempt of the saga
\* brings the order back.
CancelAfterSagaIsFinal ==
  [][\A o \in OrderIds :
       saga[o] \in SagaEnds /\ status[o] = "cancelled" =>
         status'[o] = "cancelled"]_vars

\* Every 202 of POST /orders names an order whose saga ends.
AcceptedCheckoutEnds ==
  \A r \in Requests :
    request[r] = "accepted" ~>
      \E o \in OrderIds : handle[r] = o /\ saga[o] \in SagaEnds

\* openapi.yaml of orders: "a retry of the same request returns the order that
\* the first one created".  Two calls in flight with one key get two handles.
RetryReturnsFirstOrder ==
  \A r, s \in Requests :
    /\ request[r] = "accepted" /\ request[s] = "accepted"
    /\ key[r] = key[s]
    => handle[r] = handle[s]
=============================================================================
