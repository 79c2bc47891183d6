---------------------------- MODULE MCSchedules -----------------------------
(* A rollout from one old pod to two new replicas.                           *)
EXTENDS Schedules, TLC

CONSTANTS kept, dropped, added, foreign, o1, n1, n2

MCFileOf == Old :> <<kept, dropped>> @@ New :> <<added, kept>>
MCVersionOf == o1 :> Old @@ n1 :> New @@ n2 :> New
=============================================================================
