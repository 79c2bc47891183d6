----------------------------- MODULE MCIdentity -----------------------------
(* Small instances of Identity: a webhook delivered twice, and edits that     *)
(* rename, promote and demote.                                               *)
EXTENDS Identity, TLC

MCNames == {"old", "new"}

MCRequests == {[name |-> {"new"}, operator |-> {}],
               [name |-> {"new"}, operator |-> {TRUE}],
               [name |-> {}, operator |-> {FALSE}]}

\* Deliveries are alike, and so are edits.
MCSymmetry == Permutations(Deliveries) \union Permutations(Edits)
=============================================================================
