----------------------------- MODULE MCErasure ------------------------------
(* Small instances of Erasure: a subject with a row in each store, a checkout *)
(* and an event that may still be in flight.                                *)
EXTENDS Erasure

CONSTANTS membership, oldOrder, oldEvent, newOrder, newEvent

MCStoreOf ==
  [r \in Rows |-> CASE r = membership -> "orgs"
                    [] r \in {oldOrder, newOrder} -> "orders"
                    [] OTHER -> "analytics"]
=============================================================================
