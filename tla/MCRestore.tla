----------------------------- MODULE MCRestore ------------------------------
(* Weekly runs over two tables and a credential that is rotated.             *)
EXTENDS Restore, TLC

CONSTANTS t1, t2
=============================================================================
