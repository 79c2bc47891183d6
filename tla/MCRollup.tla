------------------------------ MODULE MCRollup ------------------------------
(* A funnel of two steps, two visits, and two passes at once.                *)
EXTENDS Rollup, TLC

CONSTANTS v1, v2, a1, a2, viewed, placed, p1, p2

MCSteps == <<viewed, placed>>
MCReplacement == v1 :> a1 @@ v2 :> a2
=============================================================================
