------------------------------ MODULE Schedules -----------------------------
(***************************************************************************)
(* ReconcileSchedules: every pod of a worker makes the Temporal schedules  *)
(* match the file of its version before it polls.  Replicas and the pods   *)
(* of two versions do so at the same time, each call may fail, and a pod   *)
(* whose reconcile fails exits and is started again.                       *)
(*                                                                         *)
(* What a file says of one schedule, its cron, action and note, is the     *)
(* version of the file.  The list call sees what is there.                 *)
(***************************************************************************)
EXTENDS Integers, Sequences

CONSTANTS
  Ids,          \* schedule ids
  Old, New,     \* the versions of the worker
  FileOf,       \* the ids that the file of each version names, in its order
  Foreign,      \* the schedules this worker has not created
  Pods,
  VersionOf,
  MayPause,     \* schedules that an operator pauses or resumes
  NoContent,
  MaxFaults, MaxRestarts

Versions == {Old, New}
NamedBy(v) == {FileOf[v][i] : i \in DOMAIN FileOf[v]}
NamedAlways == NamedBy(Old) \intersect NamedBy(New)

ASSUME ScheduleConstants ==
  /\ FileOf \in [Versions -> Seq(Ids)]
  /\ Foreign \subseteq Ids
  /\ VersionOf \in [Pods -> Versions]
  /\ MayPause \subseteq Ids
  /\ NoContent \notin Versions
  /\ MaxFaults \in Nat /\ MaxRestarts \in Nat

\* ParseSchedules refuses a file that names an id twice.
ASSUME NoRepeatedId ==
  \A v \in Versions : \A i, j \in DOMAIN FileOf[v] :
    FileOf[v][i] = FileOf[v][j] => i = j

VARIABLES
  owner,     \* the memo of each schedule: "self", "other", or "absent"
  content,   \* the version whose file a schedule was last written from
  paused,
  at,        \* where the run of each pod is
  next,      \* the entry of its file it has reached
  held,      \* the pause it has read and will write back
  listed,    \* the entries of its list that it is to delete
  faults,    \* calls that have failed
  restarts

scheduleVars == <<owner, content, paused>>
podVars      == <<at, next, held, listed>>
boundVars    == <<faults, restarts>>
vars         == <<scheduleVars, podVars, boundVars>>

PodSteps == {"create", "describe", "update", "list", "prune"}
PodRests == {"down", "polling", "gone"}

TypeOK ==
  /\ owner \in [Ids -> {"self", "other", "absent"}]
  /\ content \in [Ids -> Versions \union {NoContent}]
  /\ paused \in [Ids -> BOOLEAN]
  /\ at \in [Pods -> PodSteps \union PodRests]
  /\ next \in [Pods -> Nat]
  /\ held \in [Pods -> BOOLEAN]
  /\ listed \in [Pods -> SUBSET Ids]
  /\ \A p \in Pods :
       at[p] \in {"create", "describe", "update"} => next[p] \in DOMAIN FileOf[VersionOf[p]]
  /\ faults \in 0 .. MaxFaults
  /\ restarts \in 0 .. MaxRestarts

Version(p) == VersionOf[p]
Entry(p) == FileOf[Version(p)][next[p]]
Present(id) == owner[id] # "absent"

Fault   == faults < MaxFaults /\ faults' = faults + 1 /\ UNCHANGED restarts
NoFault == UNCHANGED boundVars

-----------------------------------------------------------------------------
(* One pod *)

Goto(p, step) == at' = [at EXCEPT ![p] = step]

\* An error ends the process.
Exit(p) == Goto(p, "down") /\ UNCHANGED <<next, held, listed>>

\* The pod reaches entry i of its file, or the list after the last one.
Apply(p, i) ==
  /\ Goto(p, IF i \in DOMAIN FileOf[Version(p)] THEN "create" ELSE "list")
  /\ next' = [next EXCEPT ![p] = i]
  /\ UNCHANGED <<held, listed>>

NextEntry(p) == Apply(p, next[p] + 1)

\* The answer to the call that ends an entry arrives, or is lost.
EntryAnswered(p) == (NextEntry(p) /\ NoFault) \/ (Exit(p) /\ Fault)

\* A call on a schedule has failed: a fault if the schedule is there.
CallFails(p, id) ==
  /\ Exit(p)
  /\ IF Present(id) THEN Fault ELSE NoFault

Start(p) ==
  /\ at[p] = "down"
  /\ Apply(p, 1)
  /\ UNCHANGED <<scheduleVars, boundVars>>

WriteSchedule(id, memo, version, pause) ==
  /\ owner' = [owner EXCEPT ![id] = memo]
  /\ content' = [content EXCEPT ![id] = version]
  /\ paused' = [paused EXCEPT ![id] = pause]

Create(p) ==
  /\ at[p] = "create"
  /\ \/ /\ ~Present(Entry(p))
        /\ WriteSchedule(Entry(p), "self", Version(p), FALSE)
        /\ EntryAnswered(p)
     \/ /\ Present(Entry(p))
        /\ Goto(p, "describe")
        /\ UNCHANGED <<scheduleVars, next, held, listed>>
        /\ NoFault
     \/ /\ UNCHANGED scheduleVars
        /\ Exit(p) /\ Fault

\* The update reads the schedule first; one that is gone by then is an error.
Describe(p) ==
  /\ at[p] = "describe"
  /\ \/ /\ Present(Entry(p))
        /\ Goto(p, "update")
        /\ held' = [held EXCEPT ![p] = paused[Entry(p)]]
        /\ UNCHANGED <<next, listed>>
        /\ NoFault
     \/ CallFails(p, Entry(p))
  /\ UNCHANGED scheduleVars

\* Mutant of Updated: the state is written anew and not read first.
UpdatedUnpaused(p) ==
  WriteSchedule(Entry(p), owner[Entry(p)], Version(p), FALSE)

Updated(p) ==
  WriteSchedule(Entry(p), owner[Entry(p)], Version(p), held[p])

Update(p) ==
  /\ at[p] = "update"
  /\ \/ /\ Present(Entry(p))
        /\ Updated(p)
        /\ EntryAnswered(p)
     \/ /\ UNCHANGED scheduleVars
        /\ CallFails(p, Entry(p))

\* Mutants of ToPrune: the memo is not looked at, and nothing is pruned.
UnnamedWhoseverTheyAre(p) == {id \in Ids : Present(id)} \ NamedBy(Version(p))
NothingPruned(p) == {}

\* The schedules that this owner has created and its file does not name.
ToPrune(p) == {id \in Ids : owner[id] = "self"} \ NamedBy(Version(p))

List(p) ==
  /\ at[p] = "list"
  /\ \/ /\ listed' = [listed EXCEPT ![p] = ToPrune(p)]
        /\ Goto(p, "prune")
        /\ UNCHANGED <<next, held>>
        /\ NoFault
     \/ Exit(p) /\ Fault
  /\ UNCHANGED scheduleVars

\* A schedule that another pod has deleted since the list is an error.
Delete(p, id) ==
  /\ at[p] = "prune"
  /\ id \in listed[p]
  /\ \/ /\ Present(id)
        /\ WriteSchedule(id, "absent", NoContent, FALSE)
        /\ \/ /\ listed' = [listed EXCEPT ![p] = @ \ {id}]
              /\ UNCHANGED <<at, next, held>>
              /\ NoFault
           \/ Exit(p) /\ Fault
     \/ /\ UNCHANGED scheduleVars
        /\ CallFails(p, id)

Poll(p) ==
  /\ at[p] = "prune" /\ listed[p] = {}
  /\ Goto(p, "polling")
  /\ UNCHANGED <<scheduleVars, next, held, listed, boundVars>>

PodStep(p) ==
  \/ Start(p) \/ Create(p) \/ Describe(p) \/ Update(p) \/ List(p)
  \/ (\E id \in Ids : Delete(p, id))
  \/ Poll(p)

-----------------------------------------------------------------------------
(* The cluster around them *)

\* A node drain or a crash of a pod that polls.  The pods of the old version
\* outlive the start of the new one, and reconcile to their own file again.
Restart(p) ==
  /\ at[p] = "polling"
  /\ restarts < MaxRestarts
  /\ restarts' = restarts + 1
  /\ Goto(p, "down")
  /\ UNCHANGED <<scheduleVars, next, held, listed, faults>>

\* The controller removes a pod of the old version once the new one runs.
Retire(p) ==
  /\ Version(p) = Old
  /\ at[p] # "gone"
  /\ \E q \in Pods : Version(q) = New /\ at[q] = "polling"
  /\ Goto(p, "gone")
  /\ UNCHANGED <<scheduleVars, next, held, listed, boundVars>>

\* An operator pauses or resumes a schedule.
SetPaused(id) ==
  /\ Present(id)
  /\ paused' = [paused EXCEPT ![id] = ~@]
  /\ UNCHANGED <<owner, content, podVars, boundVars>>

\* The old version has been deployed, the new one is being rolled out.
Init ==
  /\ owner = [id \in Ids |-> IF id \in Foreign THEN "other"
                             ELSE IF id \in NamedBy(Old) THEN "self" ELSE "absent"]
  /\ content = [id \in Ids |-> IF id \in NamedBy(Old) THEN Old ELSE NoContent]
  /\ paused = [id \in Ids |-> FALSE]
  /\ at = [p \in Pods |-> IF VersionOf[p] = Old THEN "polling" ELSE "down"]
  /\ next = [p \in Pods |-> 1]
  /\ held = [p \in Pods |-> FALSE]
  /\ listed = [p \in Pods |-> {}]
  /\ faults = 0 /\ restarts = 0

Next ==
  \/ \E p \in Pods : PodStep(p) \/ Restart(p) \/ Retire(p)
  \/ \E id \in MayPause : SetPaused(id)

\* The kubelet starts a pod that exited, and its process runs on.
Fairness == \A p \in Pods : WF_vars(PodStep(p))

Spec == Init /\ [][Next]_vars
FairSpec == Spec /\ Fairness

-----------------------------------------------------------------------------
(* Properties *)

\* Whoever races, fails or starts again, a schedule that this owner has not
\* created is never deleted, and written only where a file names it.
ForeignKept ==
  [][\A id \in Ids :
       owner[id] = "other" =>
         /\ owner'[id] = "other"
         /\ content'[id] # content[id] => id \in NamedBy(Old) \union NamedBy(New)]_vars

\* A pod that has read the schedule unpaused and has not written it back.
HoldsUnpaused(id) ==
  \E p \in Pods : at[p] = "update" /\ Entry(p) = id /\ ~held[p]

\* A periodic obligation that both files name is there throughout a rollout,
\* and no reconcile undoes a pause, unless it had read the schedule before the
\* operator paused it.
ObligationStands ==
  [][\A id \in NamedAlways :
       Present(id) =>
         /\ owner'[id] # "absent"
         /\ paused[id] /\ at' # at => paused'[id] \/ HoldsUnpaused(id)]_vars

Matches ==
  \A id \in Ids :
    IF id \in NamedBy(New) THEN Present(id) /\ content[id] = New
                           ELSE owner[id] # "self"

\* No pod of the old version reconciles, or is about to.
OldAtRest ==
  \A p \in Pods : Version(p) = Old => at[p] \in {"polling", "gone"}

\* A pod of the new version that is to start when no old pod reconciles any more
\* makes the schedules match its file, and they stay so: for replicas that race,
\* for pods that fail and start again, and whatever mixture of the two files the
\* pods of both versions have left before.
ReconcileSettles ==
  \A p \in Pods :
    Version(p) = New => (at[p] = "down" /\ []OldAtRest ~> []Matches)
=============================================================================
