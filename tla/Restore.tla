------------------------------ MODULE Restore -------------------------------
(***************************************************************************)
(* RestoreVerification: a weekly workflow restores the backup of the       *)
(* source cluster into a scratch namespace, asserts that every table with  *)
(* rows in the source has rows in the restore, and tears the scratch       *)
(* namespace down.  Every activity is a sequence of Kubernetes calls; each *)
(* call may fail, before or after its effect, and an attempt that fails    *)
(* begins the activity again, MaxAttempts times at most.  The schedule     *)
(* starts no run while one is running.                                     *)
(*                                                                         *)
(* The operator of the scratch cluster works beside the runs: it makes the *)
(* volume, restores into it, and collects the volume of a cluster that is  *)
(* gone.  A cluster and its volume are named by the run that made them.    *)
(***************************************************************************)
EXTENDS Integers, FiniteSets

CONSTANTS
  Tables,
  MaxRuns,        \* runs of the schedule
  MaxAttempts,    \* attempts of one activity
  MaxRotations    \* rotations of the backup credential

ASSUME RestoreConstants ==
  /\ MaxRuns \in Nat \ {0}
  /\ MaxAttempts \in Nat \ {0}
  /\ MaxRotations \in Nat

VARIABLES
  live,        \* the tables of the source that have rows
  creds,       \* the version of the backup credential in the source namespace
  copied,      \* its copy in the scratch namespace, None if there is none
  cluster,     \* the run that made the scratch cluster, None if there is none
  ready,       \* whether that cluster has a ready instance
  restored,    \* the tables with rows in it
  volumes,     \* the runs whose scratch cluster still has a volume
  run,         \* the number of the last run
  at,          \* the call its workflow has reached
  attempt,     \* the attempt of the activity
  read,        \* the credential that the activity has read
  assertion,   \* how the assertion of the run ended
  verified,    \* the run that made the cluster which was asserted on
  found,       \* the tables with rows in it then
  kept,        \* the tables that have had rows ever since the run began
  outcomes     \* how every run ended

sourceVars  == <<live, creds>>
scratchVars == <<copied, cluster, ready, restored, volumes>>
ghostVars   == <<verified, found, kept>>
runVars     == <<run, at, attempt, read, assertion, outcomes>>
vars        == <<sourceVars, scratchVars, ghostVars, runVars>>

None     == -1
Runs     == 1 .. MaxRuns
Versions == 0 .. MaxRotations

RestoreSteps  == {"readCreds", "postCreds", "postCluster", "waitReady"}
TeardownSteps == {"deleteCluster", "deleteCreds", "waitVolumes"}
Steps         == RestoreSteps \union {"count"} \union TeardownSteps

TypeOK ==
  /\ live \in SUBSET Tables
  /\ creds \in Versions
  /\ copied \in Versions \union {None}
  /\ cluster \in Runs \union {None}
  /\ ready \in BOOLEAN
  /\ restored \in SUBSET Tables
  /\ volumes \in SUBSET Runs
  /\ run \in 0 .. MaxRuns
  /\ at \in Steps \union {"idle"}
  /\ at # "idle" => run \in Runs
  /\ attempt \in 1 .. MaxAttempts
  /\ read \in Versions
  /\ assertion \in {"none", "passed", "failed"}
  /\ verified \in Runs \union {None}
  /\ found \in SUBSET Tables
  /\ kept \in SUBSET Tables
  /\ outcomes \in [Runs -> {"none", "completed", "failed"}]

-----------------------------------------------------------------------------
(* The workflow around its activities *)

Goto(step) == at' = step /\ UNCHANGED <<run, attempt, assertion, outcomes>>

Activity(step) ==
  /\ at' = step
  /\ attempt' = 1
  /\ UNCHANGED <<run, outcomes>>

End(outcome) ==
  /\ at' = "idle"
  /\ attempt' = 1
  /\ outcomes' = [outcomes EXCEPT ![run] = outcome]
  /\ UNCHANGED <<run, assertion>>

Finish(tornDown) ==
  End(IF assertion = "passed" /\ tornDown THEN "completed" ELSE "failed")

FirstStep(step) ==
  CASE step \in RestoreSteps  -> "readCreds"
    [] step \in TeardownSteps -> "deleteCluster"
    [] OTHER                  -> step

\* The last attempt of an activity has failed.  A restore that fails ends the
\* run there; an assertion that fails is kept until the teardown is done.
GiveUp ==
  \/ at \in RestoreSteps /\ End("failed")
  \/ at = "count" /\ Activity("deleteCluster") /\ assertion' = "failed"
  \/ at \in TeardownSteps /\ Finish(FALSE)

\* Mutant of AttemptFailed: no limit on the attempts, as the policy has it by
\* default.
AttemptFailedRetriesForever ==
  at' = FirstStep(at) /\ UNCHANGED <<run, attempt, assertion, outcomes>>

AttemptFailed ==
  \/ /\ attempt < MaxAttempts
     /\ attempt' = attempt + 1
     /\ at' = FirstStep(at)
     /\ UNCHANGED <<run, assertion, outcomes>>
  \/ attempt = MaxAttempts /\ GiveUp

\* The answer to the call arrives, or is lost.
Answered(step) == Goto(step) \/ AttemptFailed

StartRun ==
  /\ at = "idle" /\ run < MaxRuns
  /\ run' = run + 1
  /\ at' = "readCreds"
  /\ assertion' = "none"
  /\ kept' = live
  /\ verified' = None
  /\ found' = {}
  /\ UNCHANGED <<sourceVars, scratchVars, attempt, read, outcomes>>

\* A call that has no effect, or a wait that reaches its deadline.
CallFails ==
  /\ at \in Steps
  /\ AttemptFailed
  /\ UNCHANGED <<sourceVars, scratchVars, ghostVars, read>>

-----------------------------------------------------------------------------
(* RestoreToScratchActivity *)

ReadCreds ==
  /\ at = "readCreds"
  /\ read' = creds
  /\ Goto("postCreds")
  /\ UNCHANGED <<sourceVars, scratchVars, ghostVars>>

\* A copy that is there is kept.
PostCreds ==
  /\ at = "postCreds"
  /\ copied' = IF copied = None THEN read ELSE copied
  /\ Answered("postCluster")
  /\ UNCHANGED <<sourceVars, ghostVars, read, cluster, ready, restored, volumes>>

\* So is a cluster that is there.
PostCluster ==
  /\ at = "postCluster"
  /\ cluster' = IF cluster = None THEN run ELSE cluster
  /\ Answered("waitReady")
  /\ UNCHANGED <<sourceVars, ghostVars, read, copied, ready, restored, volumes>>

WaitReady ==
  /\ at = "waitReady"
  /\ cluster # None /\ ready
  /\ Activity("count")
  /\ UNCHANGED <<sourceVars, scratchVars, ghostVars, read, assertion>>

-----------------------------------------------------------------------------
(* AssertRestoredRowCountsActivity *)

\* Mutant of Lost: a table that is missing or empty in the restore is no
\* failure as long as some table has rows, as a check of the total would say.
LostAll == IF restored = {} THEN live ELSE {}

\* compareCounts: the tables with rows in the source and none in the restore.
Lost == live \ restored

Count ==
  /\ at = "count"
  /\ verified' = cluster
  /\ found' = restored
  /\ \/ Lost = {} /\ Activity("deleteCluster") /\ assertion' = "passed"
     \/ Lost # {} /\ AttemptFailed
  /\ UNCHANGED <<sourceVars, scratchVars, kept, read>>

-----------------------------------------------------------------------------
(* TeardownScratchRestoreActivity *)

DeleteCluster ==
  /\ at = "deleteCluster"
  /\ cluster' = None
  /\ ready' = FALSE
  /\ restored' = {}
  /\ Answered("deleteCreds")
  /\ UNCHANGED <<sourceVars, ghostVars, read, copied, volumes>>

DeleteCreds ==
  /\ at = "deleteCreds"
  /\ copied' = None
  /\ Answered("waitVolumes")
  /\ UNCHANGED <<sourceVars, ghostVars, read, cluster, ready, restored, volumes>>

\* Mutant of VolumesGone: the teardown does not wait.
NoWait == TRUE

VolumesGone == volumes = {}

WaitVolumes ==
  /\ at = "waitVolumes"
  /\ VolumesGone
  /\ Finish(TRUE)
  /\ UNCHANGED <<sourceVars, scratchVars, ghostVars, read>>

-----------------------------------------------------------------------------
(* The world around the runs *)

Provision ==
  /\ cluster # None /\ cluster \notin volumes
  /\ volumes' = volumes \union {cluster}
  /\ UNCHANGED <<sourceVars, ghostVars, runVars, copied, cluster, ready, restored>>

\* The archive answers the current credential only.  A backup may lack tables
\* that have rows by now, hold some that have none any more, or be no good.
Recover ==
  /\ cluster # None /\ cluster \in volumes /\ ~ready
  /\ copied = creds
  /\ ready' = TRUE
  /\ restored' \in SUBSET Tables
  /\ UNCHANGED <<sourceVars, ghostVars, runVars, copied, cluster, volumes>>

CollectVolume ==
  /\ \E v \in volumes \ {cluster} : volumes' = volumes \ {v}
  /\ UNCHANGED <<sourceVars, ghostVars, runVars, copied, cluster, ready, restored>>

Rotate ==
  /\ creds < MaxRotations
  /\ creds' = creds + 1
  /\ UNCHANGED <<live, scratchVars, ghostVars, runVars>>

\* The services write to the source all the time, and empty it: the retention
\* pass drops a partition of the events, or clears the default one, and rows of
\* catalog and orgs are deleted.  The pass has the same minute as the run.
Fill ==
  /\ \E t \in Tables \ live : live' = live \union {t}
  /\ UNCHANGED <<creds, scratchVars, ghostVars, runVars>>

Drain ==
  /\ \E t \in live : live' = live \ {t} /\ kept' = kept \ {t}
  /\ UNCHANGED <<creds, scratchVars, verified, found, runVars>>

Init ==
  /\ live \in SUBSET Tables
  /\ creds = 0 /\ copied = None
  /\ cluster = None /\ ready = FALSE /\ restored = {} /\ volumes = {}
  /\ run = 0 /\ at = "idle" /\ attempt = 1 /\ read = 0
  /\ assertion = "none"
  /\ verified = None /\ found = {} /\ kept = {}
  /\ outcomes = [r \in Runs |-> "none"]

ActivityStep ==
  \/ ReadCreds \/ PostCreds \/ PostCluster \/ WaitReady
  \/ Count
  \/ DeleteCluster \/ DeleteCreds \/ WaitVolumes
  \/ CallFails

OperatorStep == Provision \/ Recover \/ CollectVolume

Next == StartRun \/ ActivityStep \/ OperatorStep \/ Rotate \/ Fill \/ Drain

Fairness == WF_vars(ActivityStep) /\ WF_vars(StartRun)

Spec == Init /\ [][Next]_vars
FairSpec == Spec /\ Fairness

-----------------------------------------------------------------------------
(* Properties *)

Scratch == cluster # None \/ copied # None \/ volumes # {}

\* A copy of production data, or of the credential that reads one, outlives a
\* run only if that run has failed and says so.
LeftoverIsReported ==
  at = "idle" /\ run > 0 /\ Scratch => outcomes[run] = "failed"

\* A run completes only if each table that had rows all through it had rows in
\* the cluster that it asserted on, whatever attempt did so.  Of a table that is
\* emptied or dropped meanwhile it says nothing.
CompletedRunFoundRows ==
  at = "idle" /\ run > 0 /\ outcomes[run] = "completed" => kept \subseteq found

\* A completed run has verified an older cluster only after every run since
\* the one that made it had failed.
StaleCopyOnlyAfterFailures ==
  \A r \in Runs :
    r = run /\ verified # None /\ verified < r =>
      \A q \in verified .. r - 1 : outcomes[q] = "failed"

\* Every run ends, whatever fails.
RunsEnd == at # "idle" ~> at = "idle"
=============================================================================
