-------------------------- MODULE Schedules_Proofs --------------------------
(***************************************************************************)
(* Theorems about Schedules, for any files, pods, versions of the worker   *)
(* and numbers of faults and restarts.                                     *)
(***************************************************************************)
EXTENDS Schedules, TLAPS

-----------------------------------------------------------------------------
(* The inductive invariant *)

\* What a pod is to delete, it found to be this owner's and not in its file;
\* its list may be old by the time it deletes.
OnlyOwnListed ==
  \A p \in Pods : \A id \in listed[p] :
    owner[id] # "other" /\ id \notin NamedBy(Version(p))

IInv == TypeOK /\ OnlyOwnListed

-----------------------------------------------------------------------------
(* Type correctness, part by part *)

ScheduleTypes ==
  /\ owner \in [Ids -> {"self", "other", "absent"}]
  /\ content \in [Ids -> Versions \union {NoContent}]
  /\ paused \in [Ids -> BOOLEAN]

AtEntry(p) == at[p] \in {"create", "describe", "update"}

PodTypes ==
  /\ at \in [Pods -> PodSteps \union PodRests]
  /\ next \in [Pods -> Nat]
  /\ held \in [Pods -> BOOLEAN]
  /\ listed \in [Pods -> SUBSET Ids]
  /\ \A p \in Pods : AtEntry(p) => next[p] \in DOMAIN FileOf[VersionOf[p]]

BoundTypes == faults \in 0 .. MaxFaults /\ restarts \in 0 .. MaxRestarts

LEMMA TypeParts ==
  /\ TypeOK <=> ScheduleTypes /\ PodTypes /\ BoundTypes
  /\ TypeOK' <=> ScheduleTypes' /\ PodTypes' /\ BoundTypes'
BY DEF TypeOK, ScheduleTypes, PodTypes, BoundTypes, AtEntry

LEMMA FileTypes ==
  ASSUME NEW p \in Pods
  PROVE  /\ Version(p) \in Versions
         /\ FileOf[Version(p)] \in Seq(Ids)
         /\ DOMAIN FileOf[Version(p)] \subseteq Nat
         /\ NamedBy(Version(p)) \subseteq Ids
BY ScheduleConstants DEF Version, NamedBy

LEMMA EntryType ==
  ASSUME PodTypes, NEW p \in Pods, AtEntry(p)
  PROVE  Entry(p) \in NamedBy(Version(p)) /\ Entry(p) \in Ids
<1>1. next[p] \in DOMAIN FileOf[Version(p)]
  BY DEF PodTypes, Version
<1> QED
  BY <1>1, FileTypes DEF Entry, NamedBy

LEMMA GotoTypes ==
  ASSUME PodTypes, NEW p \in Pods, NEW step \in PodSteps \union PodRests, Goto(p, step),
         step \in {"create", "describe", "update"} => AtEntry(p),
         UNCHANGED next, held' \in [Pods -> BOOLEAN], listed' \in [Pods -> SUBSET Ids]
  PROVE  PodTypes'
BY DEF Goto, PodTypes, AtEntry

LEMMA ExitTypes == ASSUME PodTypes, NEW p \in Pods, Exit(p) PROVE PodTypes'
BY GotoTypes DEF Exit, PodTypes, PodRests

LEMMA ApplyTypes ==
  ASSUME PodTypes, NEW p \in Pods, NEW i \in Nat, Apply(p, i)
  PROVE  PodTypes'
<1>1. CASE i \in DOMAIN FileOf[Version(p)]
  BY <1>1 DEF Apply, Goto, PodTypes, PodSteps, AtEntry, Version
<1>2. CASE i \notin DOMAIN FileOf[Version(p)]
  BY <1>2 DEF Apply, Goto, PodTypes, PodSteps, AtEntry, Version
<1> QED
  BY <1>1, <1>2

LEMMA WriteTypes ==
  ASSUME ScheduleTypes, NEW id \in Ids, NEW memo \in {"self", "other", "absent"},
         NEW version \in Versions \union {NoContent}, NEW pause \in BOOLEAN,
         WriteSchedule(id, memo, version, pause)
  PROVE  ScheduleTypes'
BY DEF WriteSchedule, ScheduleTypes

LEMMA BoundStep == ASSUME BoundTypes, NoFault \/ Fault PROVE BoundTypes'
BY ScheduleConstants DEF BoundTypes, NoFault, Fault, boundVars

LEMMA AnsweredTypes ==
  ASSUME PodTypes, BoundTypes, NEW p \in Pods, EntryAnswered(p)
  PROVE  PodTypes' /\ BoundTypes'
<1>1. CASE NextEntry(p) /\ NoFault
  <2>1. next[p] + 1 \in Nat
    BY DEF PodTypes
  <2> QED
    BY <1>1, <2>1, ApplyTypes, BoundStep DEF NextEntry
<1>2. CASE Exit(p) /\ Fault
  BY <1>2, ExitTypes, BoundStep
<1> QED
  BY <1>1, <1>2 DEF EntryAnswered

LEMMA CallFailsTypes ==
  ASSUME PodTypes, BoundTypes, NEW p \in Pods, NEW id, CallFails(p, id)
  PROVE  PodTypes' /\ BoundTypes'
BY ExitTypes, BoundStep DEF CallFails

LEMMA TypeInit == Init => TypeOK
BY ScheduleConstants DEF Init, TypeOK, Versions, PodSteps, PodRests

LEMMA EntryTypeSteps ==
  ASSUME TypeOK, NEW p \in Pods, Create(p) \/ Describe(p) \/ Update(p)
  PROVE  TypeOK'
<1>0. /\ ScheduleTypes /\ PodTypes /\ BoundTypes
      /\ Version(p) \in Versions
      /\ AtEntry(p) /\ Entry(p) \in Ids
  BY TypeParts, FileTypes, EntryType DEF Create, Describe, Update, AtEntry
<1>1. CASE Create(p)
  <2>1. CASE WriteSchedule(Entry(p), "self", Version(p), FALSE) /\ EntryAnswered(p)
    BY <1>0, <2>1, WriteTypes, AnsweredTypes, TypeParts
  <2>2. CASE Goto(p, "describe") /\ UNCHANGED <<scheduleVars, next, held, listed>> /\ NoFault
    <3>1. PodTypes'
      BY <1>0, <2>2, GotoTypes DEF PodSteps, PodTypes
    <3> QED
      BY <1>0, <2>2, <3>1, BoundStep, TypeParts DEF ScheduleTypes, scheduleVars
  <2>3. CASE UNCHANGED scheduleVars /\ Exit(p) /\ Fault
    BY <1>0, <2>3, ExitTypes, BoundStep, TypeParts DEF ScheduleTypes, scheduleVars
  <2> QED
    BY <1>1, <2>1, <2>2, <2>3 DEF Create
<1>2. CASE Describe(p)
  <2>1. ScheduleTypes'
    BY <1>0, <1>2 DEF Describe, ScheduleTypes, scheduleVars
  <2>2. CASE /\ Goto(p, "update") /\ NoFault
             /\ held' = [held EXCEPT ![p] = paused[Entry(p)]]
             /\ UNCHANGED <<next, listed>>
    <3>1. held' \in [Pods -> BOOLEAN]
      BY <1>0, <2>2 DEF PodTypes, ScheduleTypes
    <3>2. PodTypes'
      BY <1>0, <2>2, <3>1, GotoTypes DEF PodSteps, PodTypes
    <3> QED
      BY <1>0, <2>1, <2>2, <3>2, BoundStep, TypeParts
  <2>3. CASE CallFails(p, Entry(p))
    BY <1>0, <2>1, <2>3, CallFailsTypes, TypeParts
  <2> QED
    BY <1>2, <2>2, <2>3 DEF Describe
<1>3. CASE Update(p)
  <2>1. CASE Updated(p) /\ EntryAnswered(p)
    <3>1. owner[Entry(p)] \in {"self", "other", "absent"} /\ held[p] \in BOOLEAN
      BY <1>0 DEF ScheduleTypes, PodTypes
    <3> QED
      BY <1>0, <2>1, <3>1, WriteTypes, AnsweredTypes, TypeParts DEF Updated
  <2>2. CASE UNCHANGED scheduleVars /\ CallFails(p, Entry(p))
    BY <1>0, <2>2, CallFailsTypes, TypeParts DEF ScheduleTypes, scheduleVars
  <2> QED
    BY <1>3, <2>1, <2>2 DEF Update
<1> QED
  BY <1>1, <1>2, <1>3

LEMMA PruneTypeSteps ==
  ASSUME TypeOK, NEW p \in Pods,
         Start(p) \/ List(p) \/ (\E id \in Ids : Delete(p, id)) \/ Poll(p)
  PROVE  TypeOK'
<1>0. ScheduleTypes /\ PodTypes /\ BoundTypes
  BY TypeParts
<1>1. CASE Start(p)
  BY <1>0, <1>1, ApplyTypes, TypeParts
     DEF Start, ScheduleTypes, BoundTypes, scheduleVars, boundVars
<1>2. CASE List(p)
  <2>1. ScheduleTypes'
    BY <1>0, <1>2 DEF List, ScheduleTypes, scheduleVars
  <2>2. CASE /\ listed' = [listed EXCEPT ![p] = ToPrune(p)]
             /\ Goto(p, "prune") /\ UNCHANGED <<next, held>> /\ NoFault
    <3>1. listed' \in [Pods -> SUBSET Ids]
      BY <1>0, <2>2 DEF PodTypes, ToPrune
    <3>2. PodTypes'
      BY <1>0, <2>2, <3>1, GotoTypes DEF PodSteps, PodTypes
    <3> QED
      BY <1>0, <2>1, <2>2, <3>2, BoundStep, TypeParts
  <2>3. CASE Exit(p) /\ Fault
    BY <1>0, <2>1, <2>3, ExitTypes, BoundStep, TypeParts
  <2> QED
    BY <1>2, <2>2, <2>3 DEF List
<1>3. ASSUME NEW id \in Ids, Delete(p, id) PROVE TypeOK'
  <2>1. CASE WriteSchedule(id, "absent", NoContent, FALSE)
    <3>1. ScheduleTypes'
      BY <1>0, <2>1, WriteTypes
    <3>2. CASE /\ listed' = [listed EXCEPT ![p] = @ \ {id}]
               /\ UNCHANGED <<at, next, held>> /\ NoFault
      BY <1>0, <3>1, <3>2, BoundStep, TypeParts DEF PodTypes, AtEntry
    <3>3. CASE Exit(p) /\ Fault
      BY <1>0, <3>1, <3>3, ExitTypes, BoundStep, TypeParts
    <3>4. CASE UNCHANGED scheduleVars /\ CallFails(p, id)
      BY <1>0, <3>1, <3>4, CallFailsTypes, TypeParts
    <3> QED
      BY <1>3, <3>2, <3>3, <3>4 DEF Delete
  <2>2. CASE UNCHANGED scheduleVars /\ CallFails(p, id)
    BY <1>0, <2>2, CallFailsTypes, TypeParts DEF ScheduleTypes, scheduleVars
  <2> QED
    BY <1>3, <2>1, <2>2 DEF Delete
<1>4. CASE Poll(p)
  <2>1. PodTypes'
    BY <1>0, <1>4, GotoTypes DEF Poll, PodRests, PodTypes
  <2> QED
    BY <1>0, <1>4, <2>1, TypeParts
       DEF Poll, ScheduleTypes, BoundTypes, scheduleVars, boundVars
<1> QED
  BY <1>1, <1>2, <1>3, <1>4

LEMMA TypeStep == TypeOK /\ [Next]_vars => TypeOK'
<1> SUFFICES ASSUME TypeOK, [Next]_vars PROVE TypeOK'
  OBVIOUS
<1>0. ScheduleTypes /\ PodTypes /\ BoundTypes
  BY TypeParts
<1>1. ASSUME NEW p \in Pods, PodStep(p) PROVE TypeOK'
  BY <1>1, EntryTypeSteps, PruneTypeSteps DEF PodStep
<1>2. ASSUME NEW p \in Pods, Restart(p) \/ Retire(p) PROVE TypeOK'
  <2>1. PodTypes'
    BY <1>0, <1>2, GotoTypes DEF Restart, Retire, PodRests, PodTypes
  <2>2. BoundTypes'
    BY <1>0, <1>2, ScheduleConstants DEF Restart, Retire, BoundTypes, boundVars
  <2> QED
    BY <1>0, <1>2, <2>1, <2>2, TypeParts DEF Restart, Retire, ScheduleTypes, scheduleVars
<1>3. ASSUME NEW id \in Ids, SetPaused(id) PROVE TypeOK'
  <2>1. PodTypes'
    BY <1>0, <1>3 DEF SetPaused, PodTypes, AtEntry, podVars
  <2>2. BoundTypes'
    BY <1>0, <1>3 DEF SetPaused, BoundTypes, boundVars
  <2> QED
    BY <1>0, <1>3, <2>1, <2>2, TypeParts DEF SetPaused, ScheduleTypes
<1>4. CASE UNCHANGED vars
  BY <1>4 DEF vars, scheduleVars, podVars, boundVars, TypeOK
<1> QED
  BY <1>1, <1>2, <1>3, <1>4, ScheduleConstants DEF Next

\* Every variable keeps its type, for any number of pods, faults and restarts.
THEOREM TypeCorrect == Spec => []TypeOK
<1> QED
  BY TypeInit, TypeStep, PTL DEF Spec

-----------------------------------------------------------------------------
(* What a step does to a schedule *)

Kept(id) == owner'[id] = owner[id] /\ content'[id] = content[id]

\* The schedule is made from a file, written from a file, deleted off a list, or
\* paused and resumed by hand.
Made(p, id) ==
  /\ owner[id] = "absent" /\ owner'[id] = "self"
  /\ id \in NamedBy(Version(p))
Written(p, id) ==
  /\ owner[id] # "absent" /\ owner'[id] = owner[id]
  /\ id \in NamedBy(Version(p))
  /\ paused'[id] = held[p] /\ at[p] = "update" /\ Entry(p) = id
Deleted(p, id) == id \in listed[p] /\ owner[id] # "absent" /\ owner'[id] = "absent"
ByHand(id) == Kept(id) /\ at' = at

LEMMA ScheduleMoves ==
  ASSUME TypeOK, [Next]_vars, NEW id \in Ids
  PROVE  \/ Kept(id) /\ paused'[id] = paused[id]
         \/ \E p \in Pods : Made(p, id) \/ Written(p, id) \/ Deleted(p, id)
         \/ ByHand(id)
<1>0. ScheduleTypes /\ PodTypes
  BY TypeParts
<1>1. ASSUME NEW p \in Pods, Create(p) \/ Update(p)
      PROVE  (Kept(id) /\ paused'[id] = paused[id]) \/ Made(p, id) \/ Written(p, id)
  <2>1. Entry(p) \in NamedBy(Version(p)) /\ Entry(p) \in Ids
    BY <1>0, <1>1, EntryType DEF Create, Update, AtEntry
  <2>2. CASE UNCHANGED scheduleVars
    BY <2>2 DEF scheduleVars, Kept
  <2>3. CASE /\ Create(p) /\ ~Present(Entry(p))
             /\ WriteSchedule(Entry(p), "self", Version(p), FALSE)
    BY <1>0, <2>1, <2>3 DEF Present, WriteSchedule, Kept, Made, ScheduleTypes
  <2>4. CASE Update(p) /\ Present(Entry(p)) /\ Updated(p)
    BY <1>0, <2>1, <2>4 DEF Update, Present, Updated, WriteSchedule, Kept, Written, ScheduleTypes
  <2> QED
    BY <1>1, <2>2, <2>3, <2>4 DEF Create, Update
<1>2. ASSUME NEW p \in Pods, NEW d \in Ids, Delete(p, d)
      PROVE  (Kept(id) /\ paused'[id] = paused[id]) \/ Deleted(p, id)
  BY <1>0, <1>2 DEF Delete, Present, WriteSchedule, Kept, Deleted, scheduleVars, ScheduleTypes
<1>3. ASSUME NEW p \in Pods, \/ Start(p) \/ Describe(p) \/ List(p) \/ Poll(p)
                             \/ Restart(p) \/ Retire(p)
      PROVE  Kept(id) /\ paused'[id] = paused[id]
  BY <1>3 DEF Start, Describe, List, Poll, Restart, Retire, scheduleVars, Kept
<1>4. ASSUME NEW d \in Ids, SetPaused(d) PROVE ByHand(id)
  BY <1>4 DEF SetPaused, ByHand, Kept, podVars
<1>5. CASE UNCHANGED vars
  BY <1>5 DEF vars, scheduleVars, Kept
<1> QED
  BY <1>1, <1>2, <1>3, <1>4, <1>5, ScheduleConstants DEF Next, PodStep

-----------------------------------------------------------------------------
(* The invariant is inductive *)

LEMMA ListMoves ==
  ASSUME TypeOK, [Next]_vars, NEW p \in Pods
  PROVE  listed'[p] \subseteq listed[p] \/ (listed'[p] = ToPrune(p) /\ UNCHANGED owner)
<1>0. PodTypes
  BY TypeParts
<1>1. ASSUME NEW q \in Pods, Create(q) \/ Describe(q) \/ Update(q) \/ Start(q)
                             \/ Poll(q) \/ Restart(q) \/ Retire(q)
      PROVE  UNCHANGED listed
  BY <1>1 DEF Create, Describe, Update, Start, Poll, Restart, Retire,
              EntryAnswered, NextEntry, Apply, CallFails, Exit
<1>2. ASSUME NEW q \in Pods, List(q)
      PROVE  listed'[p] \subseteq listed[p] \/ (listed'[p] = ToPrune(p) /\ UNCHANGED owner)
  BY <1>0, <1>2 DEF List, Exit, PodTypes, scheduleVars
<1>3. ASSUME NEW q \in Pods, NEW d \in Ids, Delete(q, d) PROVE listed'[p] \subseteq listed[p]
  BY <1>0, <1>3 DEF Delete, CallFails, Exit, PodTypes
<1>4. ASSUME NEW d \in Ids, SetPaused(d) PROVE UNCHANGED listed
  BY <1>4 DEF SetPaused, podVars
<1>5. CASE UNCHANGED vars
  BY <1>5 DEF vars, podVars
<1> QED
  BY <1>1, <1>2, <1>3, <1>4, <1>5, ScheduleConstants DEF Next, PodStep

LEMMA InductiveStep == IInv /\ [Next]_vars => IInv'
<1> SUFFICES ASSUME IInv, [Next]_vars, NEW p \in Pods, NEW id \in listed'[p]
             PROVE  owner'[id] # "other" /\ id \notin NamedBy(Version(p))
  BY TypeStep DEF IInv, OnlyOwnListed
<1>1. TypeOK' /\ id \in Ids
  BY TypeStep DEF IInv, TypeOK
<1>2. CASE id \in listed[p]
  <2>1. owner[id] # "other" /\ id \notin NamedBy(Version(p))
    BY <1>2 DEF IInv, OnlyOwnListed
  <2> QED
    BY <1>1, <2>1, ScheduleMoves DEF IInv, Kept, Made, Written, Deleted, ByHand
<1>3. CASE listed'[p] = ToPrune(p) /\ UNCHANGED owner
  BY <1>3 DEF ToPrune
<1> QED
  BY <1>2, <1>3, ListMoves DEF IInv

\* A list is never of another owner's schedules, however old it has become.
THEOREM Inductive == Spec => []IInv
<1>1. Init => IInv
  BY TypeInit DEF Init, IInv, OnlyOwnListed
<1> QED
  BY <1>1, InductiveStep, PTL DEF Spec

-----------------------------------------------------------------------------
(* What the invariant gives *)

\* A reconcile never takes over or deletes what another owner has created.
THEOREM ForeignKeptHolds == Spec => ForeignKept
<1>1. IInv /\ [Next]_vars =>
        [\A id \in Ids :
           owner[id] = "other" =>
             /\ owner'[id] = "other"
             /\ content'[id] # content[id] => id \in NamedBy(Old) \union NamedBy(New)]_vars
  <2> SUFFICES ASSUME IInv, [Next]_vars, NEW id \in Ids, owner[id] = "other"
               PROVE  /\ owner'[id] = "other"
                      /\ content'[id] # content[id] => id \in NamedBy(Old) \union NamedBy(New)
    OBVIOUS
  <2>1. ASSUME NEW p \in Pods
        PROVE  /\ ~Deleted(p, id)
               /\ id \in NamedBy(Version(p)) => id \in NamedBy(Old) \union NamedBy(New)
    BY FileTypes DEF Deleted, IInv, OnlyOwnListed, Versions
  <2> QED
    BY <2>1, ScheduleMoves DEF IInv, Kept, Made, Written, ByHand
<1> QED
  BY <1>1, Inductive, PTL DEF Spec, ForeignKept

\* What both files name is there throughout, and a pause is undone only by a
\* pod that had read the schedule before.
THEOREM ObligationStandsHolds == Spec => ObligationStands
<1>1. IInv /\ [Next]_vars =>
        [\A id \in NamedAlways :
           Present(id) =>
             /\ owner'[id] # "absent"
             /\ paused[id] /\ at' # at => paused'[id] \/ HoldsUnpaused(id)]_vars
  <2> SUFFICES ASSUME IInv, [Next]_vars, NEW id \in NamedAlways, Present(id)
               PROVE  /\ owner'[id] # "absent"
                      /\ paused[id] /\ at' # at => paused'[id] \/ HoldsUnpaused(id)
    OBVIOUS
  <2>1. id \in Ids
    BY ScheduleConstants DEF NamedAlways, NamedBy, Versions
  <2>2. ASSUME NEW p \in Pods PROVE ~Deleted(p, id)
    BY FileTypes DEF Deleted, IInv, OnlyOwnListed, NamedAlways, Versions
  <2>3. ASSUME NEW p \in Pods, Written(p, id), ~HoldsUnpaused(id) PROVE paused'[id] = TRUE
    BY <2>3 DEF Written, HoldsUnpaused, IInv, TypeOK
  <2> QED
    BY <2>1, <2>2, <2>3, ScheduleMoves DEF IInv, Kept, Made, Written, ByHand, Present
<1> QED
  BY <1>1, Inductive, PTL DEF Spec, ObligationStands
=============================================================================
