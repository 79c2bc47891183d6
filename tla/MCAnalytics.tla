---------------------------- MODULE MCAnalytics -----------------------------
(* An export of two events of one visit, one from a clock that runs ahead.   *)
EXTENDS Analytics, TLC

CONSTANTS s1, e1, e2, p1, p2

MCExport == <<<<e1, e2>>>>
MCSessionOf == e1 :> s1 @@ e2 :> s1
MCOccurredAt == e1 :> 0 @@ e2 :> 4
=============================================================================
