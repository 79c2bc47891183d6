------------------------------ MODULE Placement -----------------------------
(***************************************************************************)
(* What a checkout promises the holder of an Idempotency-Key, with no      *)
(* sagas, handlers or retries: one order, charged once, and confirmed only *)
(* with a charge recorded under its id.  A charge that somebody else makes *)
(* under that id takes the place of the order's own.  CheckoutSystem       *)
(* implements it.                                                          *)
(***************************************************************************)
EXTENDS Integers

CONSTANTS Keys, OrderIds, Amounts, NoOrder

VARIABLES
  placed,     \* the order of each key
  charged,    \* the amount its saga has charged, 0 when it has not
  taken,      \* the orders under whose id somebody else has made a charge
  decision    \* what became of it

vars == <<placed, charged, taken, decision>>

Decisions == {"open", "confirmed", "failed", "cancelled"}

Init ==
  /\ placed = [k \in Keys |-> NoOrder]
  /\ charged = [k \in Keys |-> 0]
  /\ taken = {}
  /\ decision = [k \in Keys |-> "open"]

\* A key gets one order, and no other key has that order.
Place(k, o) ==
  /\ placed[k] = NoOrder
  /\ \A l \in Keys : placed[l] # o
  /\ placed' = [placed EXCEPT ![k] = o]
  /\ UNCHANGED <<charged, taken, decision>>

\* An order is charged once, and the amount stands.
Charge(k, a) ==
  /\ placed[k] # NoOrder /\ placed[k] \notin taken
  /\ charged[k] = 0
  /\ charged' = [charged EXCEPT ![k] = a]
  /\ UNCHANGED <<placed, taken, decision>>

\* Somebody else's charge comes first, or not at all.
Take(o) ==
  /\ \A k \in Keys : placed[k] = o => charged[k] = 0
  /\ taken' = taken \union {o}
  /\ UNCHANGED <<placed, charged, decision>>

\* Confirmed and failed exclude each other; a cancel may come at any time.
Decide(k, d) ==
  /\ placed[k] # NoOrder
  /\ d = "confirmed" =>
       (charged[k] > 0 \/ placed[k] \in taken) /\ decision[k] # "failed"
  /\ d = "failed" => decision[k] # "confirmed"
  /\ decision' = [decision EXCEPT ![k] = d]
  /\ UNCHANGED <<placed, charged, taken>>

\* Most steps of a saga, a handler or a retry show the holder nothing.
Next ==
  \/ UNCHANGED vars
  \/ \E k \in Keys :
       \/ \E o \in OrderIds : Place(k, o)
       \/ \E a \in Amounts : Charge(k, a)
       \/ \E d \in Decisions \ {"open"} : Decide(k, d)
  \/ \E o \in OrderIds : Take(o)

Spec == Init /\ [][Next]_vars
=============================================================================
