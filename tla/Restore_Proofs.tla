--------------------------- MODULE Restore_Proofs ---------------------------
(***************************************************************************)
(* Theorems about Restore, for any number of tables, runs, attempts and    *)
(* rotations of the credential.                                            *)
(***************************************************************************)
EXTENDS Restore, TLAPS

-----------------------------------------------------------------------------
(* The inductive invariant *)

Ended(r) == outcomes[r] # "none"

\* What has been torn down when the teardown is at each call, and how a run
\* that is over reports what it leaves.
TornDown ==
  /\ at \in {"deleteCreds", "waitVolumes"} => cluster = None
  /\ at = "waitVolumes" => copied = None
  /\ run = 0 => cluster = None /\ copied = None /\ volumes = {}
  /\ at = "idle" /\ run > 0 => Ended(run)
  /\ at = "idle" /\ run > 0 /\ outcomes[run] = "completed" =>
       cluster = None /\ copied = None /\ volumes = {}

\* What the assertion of the run rests on.
Asserted ==
  /\ at \in RestoreSteps \union {"count"} => assertion = "none"
  /\ at = "idle" /\ run > 0 /\ outcomes[run] = "completed" => assertion = "passed"
  /\ assertion = "passed" => kept \subseteq found
  /\ kept \subseteq live

\* A cluster that outlives the run that made it does so because that run, and
\* each one after it, failed.
FailedSince(c, last) == \A q \in c .. last : outcomes[q] = "failed"

Aged ==
  /\ cluster # None => cluster <= run /\ FailedSince(cluster, run - 1)
  /\ verified # None => verified <= run /\ FailedSince(verified, run - 1)

IInv == TypeOK /\ TornDown /\ Asserted /\ Aged

-----------------------------------------------------------------------------
(* Type correctness *)

LEMMA StepSets ==
  /\ Steps = {"readCreds", "postCreds", "postCluster", "waitReady", "count",
              "deleteCluster", "deleteCreds", "waitVolumes"}
  /\ RestoreSteps = {"readCreds", "postCreds", "postCluster", "waitReady"}
  /\ TeardownSteps = {"deleteCluster", "deleteCreds", "waitVolumes"}
  /\ \A step \in RestoreSteps : FirstStep(step) = "readCreds"
  /\ \A step \in TeardownSteps : FirstStep(step) = "deleteCluster"
  /\ FirstStep("count") = "count"
BY DEF Steps, RestoreSteps, TeardownSteps, FirstStep

\* What a failed attempt of an activity leads to.
FailureEffect ==
  /\ run' = run
  /\ attempt' \in 1 .. MaxAttempts
  /\ \/ /\ at \in RestoreSteps
        /\ assertion' = assertion
        /\ \/ at' = "readCreds" /\ outcomes' = outcomes
           \/ at' = "idle" /\ outcomes' = [outcomes EXCEPT ![run] = "failed"]
     \/ /\ at = "count"
        /\ outcomes' = outcomes
        /\ \/ at' = "count" /\ assertion' = assertion
           \/ at' = "deleteCluster" /\ assertion' = "failed"
     \/ /\ at \in TeardownSteps
        /\ assertion' = assertion
        /\ \/ at' = "deleteCluster" /\ outcomes' = outcomes
           \/ at' = "idle" /\ outcomes' = [outcomes EXCEPT ![run] = "failed"]

LEMMA AttemptFailedEffect ==
  ASSUME TypeOK, at \in Steps, AttemptFailed
  PROVE  FailureEffect
<1>0. 1 \in 1 .. MaxAttempts
  BY RestoreConstants
<1>1. CASE attempt < MaxAttempts /\ attempt' = attempt + 1 /\ at' = FirstStep(at)
           /\ UNCHANGED <<run, assertion, outcomes>>
  <2>1. attempt + 1 \in 1 .. MaxAttempts
    BY <1>1, RestoreConstants DEF TypeOK
  <2>2. at \in RestoreSteps \/ at = "count" \/ at \in TeardownSteps
    BY DEF Steps
  <2> QED
    BY <1>1, <2>1, <2>2, StepSets DEF FailureEffect
<1>2. CASE GiveUp
  BY <1>0, <1>2 DEF GiveUp, End, Activity, Finish, FailureEffect
<1> QED
  BY <1>1, <1>2 DEF AttemptFailed

LEMMA TypeInit == Init => TypeOK
<1> SUFFICES ASSUME Init PROVE TypeOK
  OBVIOUS
<1>1. 1 \in 1 .. MaxAttempts /\ 0 \in 0 .. MaxRotations /\ 0 \in 0 .. MaxRuns
  BY RestoreConstants
<1> QED
  BY <1>1 DEF Init, TypeOK, Steps, Versions, Runs

LEMMA FailureTypes ==
  ASSUME TypeOK, at \in Steps, FailureEffect
  PROVE  /\ run' \in 0 .. MaxRuns /\ at' \in Steps \union {"idle"}
         /\ at' # "idle" => run' \in Runs
         /\ attempt' \in 1 .. MaxAttempts
         /\ assertion' \in {"none", "passed", "failed"}
         /\ outcomes' \in [Runs -> {"none", "completed", "failed"}]
<1>1. at # "idle"
  BY StepSets
<1> QED
  BY <1>1, StepSets DEF TypeOK, FailureEffect

LEMMA TypeStep == TypeOK /\ [Next]_vars => TypeOK'
<1> SUFFICES ASSUME TypeOK, [Next]_vars PROVE TypeOK'
  OBVIOUS
<1> USE DEF sourceVars, scratchVars, ghostVars, runVars
<1>0. 1 \in 1 .. MaxAttempts /\ MaxAttempts \in Nat
  BY RestoreConstants
<1>1. CASE StartRun
  <2>1. run + 1 \in 0 .. MaxRuns /\ run + 1 \in Runs
    BY <1>1, RestoreConstants DEF StartRun, TypeOK, Runs
  <2> QED
    BY <1>1, <2>1 DEF StartRun, TypeOK, Steps, RestoreSteps
<1>2. CASE CallFails
  BY <1>2, AttemptFailedEffect, FailureTypes DEF CallFails, TypeOK
<1>3. CASE ReadCreds
  BY <1>3 DEF ReadCreds, Goto, TypeOK, Steps, RestoreSteps
<1>4. ASSUME NEW step \in Steps, at \in Steps, Answered(step)
      PROVE  /\ run' \in 0 .. MaxRuns /\ at' \in Steps \union {"idle"}
             /\ at' # "idle" => run' \in Runs
             /\ attempt' \in 1 .. MaxAttempts
             /\ assertion' \in {"none", "passed", "failed"}
             /\ outcomes' \in [Runs -> {"none", "completed", "failed"}]
  <2>1. CASE Goto(step)
    BY <1>4, <2>1, StepSets DEF Goto, TypeOK
  <2> QED
    BY <1>4, <2>1, AttemptFailedEffect, FailureTypes DEF Answered
<1>5. CASE PostCreds
  BY <1>4, <1>5 DEF PostCreds, TypeOK, Steps, RestoreSteps
<1>6. CASE PostCluster
  BY <1>4, <1>6 DEF PostCluster, TypeOK, Steps, RestoreSteps
<1>7. CASE WaitReady
  BY <1>0, <1>7 DEF WaitReady, Activity, TypeOK, Steps, RestoreSteps
<1>8. CASE Count
  <2>1. CASE Lost = {} /\ Activity("deleteCluster") /\ assertion' = "passed"
    BY <1>0, <1>8, <2>1 DEF Count, Activity, TypeOK, Steps, TeardownSteps
  <2>2. CASE AttemptFailed
    BY <1>8, <2>2, AttemptFailedEffect, FailureTypes DEF Count, TypeOK, Steps
  <2> QED
    BY <1>8, <2>1, <2>2 DEF Count
<1>9. CASE DeleteCluster
  BY <1>4, <1>9 DEF DeleteCluster, TypeOK, Steps, TeardownSteps
<1>10. CASE DeleteCreds
  BY <1>4, <1>10 DEF DeleteCreds, TypeOK, Steps, TeardownSteps
<1>11. CASE WaitVolumes
  BY <1>0, <1>11 DEF WaitVolumes, Finish, End, TypeOK, Steps, TeardownSteps
<1>12. CASE OperatorStep
  BY <1>12 DEF OperatorStep, Provision, Recover, CollectVolume, TypeOK
<1>13. CASE Rotate
  BY <1>13, RestoreConstants DEF Rotate, TypeOK, Versions
<1>14. CASE Fill \/ Drain
  BY <1>14 DEF Fill, Drain, TypeOK
<1>15. CASE UNCHANGED vars
  BY <1>15 DEF vars, TypeOK
<1> QED
  BY <1>1, <1>2, <1>3, <1>5, <1>6, <1>7, <1>8, <1>9, <1>10, <1>11, <1>12, <1>13, <1>14, <1>15
     DEF Next, ActivityStep

\* Every variable keeps its type, however many runs and attempts there are.
THEOREM TypeCorrect == Spec => []TypeOK
<1> QED
  BY TypeInit, TypeStep, PTL DEF Spec

-----------------------------------------------------------------------------
(* The invariant is inductive *)

LEMMA InitProgress == Init => IInv
<1> SUFFICES ASSUME Init PROVE IInv
  OBVIOUS
<1> QED
  BY TypeInit DEF Init, IInv, TornDown, Asserted, Aged, RestoreSteps

\* A failure changes neither the scratch namespace nor what was found.
LEMMA FailureKeeps ==
  ASSUME IInv, at \in Steps, FailureEffect,
         cluster' \in {cluster, None, run},
         UNCHANGED <<sourceVars, kept>>,
         at = "count" => cluster' = cluster,
         verified' = verified \/ (at = "count" /\ verified' = cluster),
         found' = found \/ at = "count"
  PROVE  TornDown' /\ Asserted' /\ Aged'
<1> USE DEF sourceVars
<1>1. run \in Runs /\ at # "idle"
  BY StepSets DEF IInv, TypeOK
<1>2. outcomes' = outcomes \/ outcomes' = [outcomes EXCEPT ![run] = "failed"]
  BY DEF FailureEffect
<1>3. outcomes'[run] \in {outcomes[run], "failed"} /\ (at' = "idle" => outcomes'[run] = "failed")
  BY <1>1, StepSets DEF FailureEffect, IInv, TypeOK
<1>4. at' \notin {"deleteCreds", "waitVolumes"} /\ run' = run /\ run > 0
  BY <1>1, RestoreConstants DEF FailureEffect, Runs
<1>5. TornDown'
  BY <1>1, <1>3, <1>4 DEF TornDown, Ended
<1>6. Asserted'
  <2>1. at = "count" => assertion' # "passed"
    BY StepSets DEF FailureEffect, IInv, Asserted
  <2>2. at' \in RestoreSteps \union {"count"} => assertion' = "none"
    BY StepSets DEF FailureEffect, IInv, Asserted
  <2>3. assertion' = "passed" => assertion = "passed" /\ at # "count"
    BY <2>1 DEF FailureEffect
  <2> QED
    BY <1>3, <1>4, <2>2, <2>3 DEF Asserted, IInv
<1>7. \A c \in Runs : FailedSince(c, run - 1) => FailedSince(c, run - 1)'
  <2>1. ASSUME NEW c \in Runs, FailedSince(c, run - 1), NEW q \in c .. run - 1
        PROVE  outcomes'[q] = "failed"
    <3>1. outcomes[q] = "failed" /\ q \in Runs
      BY <1>1, <2>1, RestoreConstants DEF FailedSince, Runs
    <3> QED
      BY <1>2, <3>1 DEF IInv, TypeOK
  <2> QED
    BY <1>4, <2>1 DEF FailedSince
<1>8. Aged'
  <2>1. /\ run \in Int
        /\ cluster # None => cluster \in Runs
        /\ verified # None => verified \in Runs
    BY <1>1 DEF IInv, TypeOK, Runs
  <2>2. FailedSince(run, run - 1)'
    BY <1>4, <2>1 DEF FailedSince
  <2> QED
    BY <1>4, <1>7, <2>1, <2>2 DEF Aged, IInv, FailedSince
<1> QED
  BY <1>5, <1>6, <1>8

\* A step of an activity that goes on, or ends, with the outcomes unchanged.
MovesOn(step) ==
  \/ at \in {"postCreds", "postCluster"} /\ step \in RestoreSteps
  \/ at = "deleteCluster" /\ step = "deleteCreds" /\ cluster' = None
  \/ at = "deleteCreds" /\ step = "waitVolumes" /\ copied' = None /\ cluster' = cluster

LEMMA AnsweredKeeps ==
  ASSUME IInv, NEW step \in Steps, at \in Steps, Answered(step), MovesOn(step),
         cluster' \in {cluster, None, run},
         UNCHANGED <<live, creds, kept, verified, found>>
  PROVE  TornDown' /\ Asserted' /\ Aged'
<1> USE DEF sourceVars, MovesOn
<1>1. CASE AttemptFailed
  BY <1>1, AttemptFailedEffect, FailureKeeps DEF IInv
<1>2. CASE Goto(step)
  <2>1. run \in Runs /\ at # "idle" /\ step # "idle"
    BY StepSets DEF IInv, TypeOK
  <2>2. TornDown'
    BY <1>2, <2>1, RestoreConstants, StepSets DEF Goto, TornDown, IInv, Runs
  <2>3. Asserted'
    BY <1>2, <2>1, StepSets DEF Goto, Asserted, IInv
  <2>4. Aged'
    BY <1>2, <2>1 DEF Goto, Aged, IInv, FailedSince, Runs
  <2> QED
    BY <2>2, <2>3, <2>4
<1> QED
  BY <1>1, <1>2 DEF Answered

LEMMA StartProgress == ASSUME IInv, StartRun PROVE TornDown' /\ Asserted' /\ Aged'
<1> USE DEF StartRun, IInv, sourceVars, scratchVars
<1>1. run \in Nat /\ MaxRuns \in Nat
  BY RestoreConstants DEF TypeOK
<1>2. TornDown' /\ Asserted'
  BY <1>1, StepSets DEF TornDown, Asserted
<1>3. ASSUME cluster # None PROVE (cluster <= run /\ FailedSince(cluster, run - 1))'
  <2>1. run > 0 /\ outcomes[run] = "failed" /\ cluster \in Runs /\ run \in Runs
    BY <1>1, <1>3 DEF TornDown, Ended, TypeOK, Runs
  <2>2. ASSUME NEW q \in cluster .. run PROVE outcomes[q] = "failed"
    <3>1. q = run \/ q \in cluster .. run - 1
      BY <1>1, <2>1 DEF Runs
    <3> QED
      BY <1>3, <2>1, <3>1 DEF Aged, FailedSince
  <2>3. run' - 1 = run /\ cluster' = cluster /\ outcomes' = outcomes /\ cluster <= run'
    BY <1>1, <1>3, <2>1 DEF Aged
  <2>4. \A q \in cluster' .. run' - 1 : outcomes'[q] = "failed"
    BY <2>2, <2>3
  <2> QED
    BY <2>3, <2>4 DEF FailedSince
<1>4. verified' = None
  OBVIOUS
<1> QED
  BY <1>2, <1>3, <1>4 DEF Aged, FailedSince

LEMMA CountProgress == ASSUME IInv, Count PROVE TornDown' /\ Asserted' /\ Aged'
<1> USE DEF IInv, sourceVars, scratchVars
<1>1. at \in Steps /\ run \in Runs
  BY StepSets DEF Count, TypeOK
<1>2. CASE AttemptFailed
  BY <1>1, <1>2, AttemptFailedEffect, FailureKeeps DEF Count
<1>3. CASE Lost = {} /\ Activity("deleteCluster") /\ assertion' = "passed"
  <2>1. TornDown'
    BY <1>1, <1>3, RestoreConstants DEF Count, Activity, TornDown, Runs
  <2>2. Asserted'
    BY <1>3, StepSets DEF Count, Activity, Asserted, Lost
  <2>3. Aged'
    BY <1>1, <1>3 DEF Count, Activity, Aged, FailedSince, TypeOK, Runs
  <2> QED
    BY <2>1, <2>2, <2>3
<1> QED
  BY <1>2, <1>3 DEF Count

\* The teardown is complete when the run ends without an error.
LEMMA WaitVolumesProgress == ASSUME IInv, WaitVolumes PROVE TornDown' /\ Asserted' /\ Aged'
<1> USE DEF IInv, WaitVolumes, Finish, End, sourceVars, scratchVars, ghostVars
<1>1. run \in Runs /\ run > 0 /\ at = "waitVolumes" /\ run' = run
  BY RestoreConstants DEF TypeOK, Runs
<1>2. TornDown'
  BY <1>1 DEF TornDown, Ended, VolumesGone, TypeOK
<1>3. Asserted'
  BY <1>1, StepSets DEF Asserted, TypeOK
<1>4. cluster' = None
  BY <1>1 DEF TornDown
<1>5. verified # None => FailedSince(verified, run - 1)'
  <2>1. ASSUME verified # None, NEW q \in verified .. run - 1 PROVE outcomes'[q] = "failed"
    <3>1. outcomes[q] = "failed" /\ q # run /\ q \in Runs
      BY <1>1, <2>1, RestoreConstants DEF Aged, FailedSince, TypeOK, Runs
    <3> QED
      BY <3>1 DEF TypeOK
  <2> QED
    BY <1>1, <2>1 DEF FailedSince
<1> QED
  BY <1>1, <1>2, <1>3, <1>4, <1>5 DEF Aged, FailedSince

\* What the world does around a run: the cluster and its copy stay as they are.
LEMMA WorldProgress ==
  ASSUME IInv, UNCHANGED <<runVars, verified, found, copied, cluster>>,
         kept' \subseteq kept, kept' \subseteq live',
         volumes' # {} => volumes # {} \/ cluster # None
  PROVE  TornDown' /\ Asserted' /\ Aged'
BY DEF IInv, runVars, ghostVars, TornDown, Ended, Asserted, Aged, FailedSince

LEMMA InductiveStep == IInv /\ [Next]_vars => IInv'
<1> SUFFICES ASSUME IInv, [Next]_vars PROVE TornDown' /\ Asserted' /\ Aged'
  BY TypeStep DEF IInv
<1> USE DEF sourceVars, scratchVars, ghostVars
<1>1. CASE StartRun
  BY <1>1, StartProgress
<1>2. CASE CallFails
  BY <1>2, AttemptFailedEffect, FailureKeeps DEF CallFails, IInv
<1>3. CASE ReadCreds
  <2>1. /\ at = "readCreds" /\ at' = "postCreds"
        /\ UNCHANGED <<live, kept, found, verified, cluster, copied, volumes, run, assertion,
                       outcomes>>
    BY <1>3 DEF ReadCreds, Goto
  <2> QED
    BY <2>1, StepSets DEF IInv, TornDown, Ended, Asserted, Aged, FailedSince
<1>4. CASE PostCreds
  <2>1. at \in Steps /\ "postCluster" \in Steps
    BY <1>4, StepSets DEF PostCreds
  <2>2. Answered("postCluster") /\ UNCHANGED <<live, creds, kept, verified, found>>
    BY <1>4 DEF PostCreds
  <2>3. MovesOn("postCluster") /\ cluster' \in {cluster, None, run}
    BY <1>4, StepSets DEF PostCreds, MovesOn
  <2> QED
    BY <2>1, <2>2, <2>3, AnsweredKeeps
<1>5. CASE PostCluster
  <2>1. at \in Steps /\ "waitReady" \in Steps
    BY <1>5, StepSets DEF PostCluster
  <2>2. Answered("waitReady") /\ UNCHANGED <<live, creds, kept, verified, found>>
    BY <1>5 DEF PostCluster
  <2>3. MovesOn("waitReady") /\ cluster' \in {cluster, None, run}
    BY <1>5, StepSets DEF PostCluster, MovesOn
  <2> QED
    BY <2>1, <2>2, <2>3, AnsweredKeeps
<1>6. CASE WaitReady
  <2>1. /\ at = "waitReady" /\ at' = "count"
        /\ UNCHANGED <<live, kept, found, verified, cluster, copied, volumes, run, assertion,
                       outcomes>>
    BY <1>6 DEF WaitReady, Activity
  <2> QED
    BY <2>1, StepSets DEF IInv, TornDown, Ended, Asserted, Aged, FailedSince
<1>7. CASE Count
  BY <1>7, CountProgress
<1>8. CASE DeleteCluster
  <2>1. at \in Steps /\ "deleteCreds" \in Steps
    BY <1>8, StepSets DEF DeleteCluster
  <2>2. Answered("deleteCreds") /\ UNCHANGED <<live, creds, kept, verified, found>>
    BY <1>8 DEF DeleteCluster
  <2>3. MovesOn("deleteCreds") /\ cluster' \in {cluster, None, run}
    BY <1>8, StepSets DEF DeleteCluster, MovesOn
  <2> QED
    BY <2>1, <2>2, <2>3, AnsweredKeeps
<1>9. CASE DeleteCreds
  <2>1. at \in Steps /\ "waitVolumes" \in Steps
    BY <1>9, StepSets DEF DeleteCreds
  <2>2. Answered("waitVolumes") /\ UNCHANGED <<live, creds, kept, verified, found>>
    BY <1>9 DEF DeleteCreds
  <2>3. MovesOn("waitVolumes") /\ cluster' \in {cluster, None, run}
    BY <1>9, StepSets DEF DeleteCreds, MovesOn
  <2> QED
    BY <2>1, <2>2, <2>3, AnsweredKeeps
<1>10. CASE WaitVolumes
  BY <1>10, WaitVolumesProgress
<1>11. CASE OperatorStep
  BY <1>11, WorldProgress DEF OperatorStep, Provision, Recover, CollectVolume, IInv, Asserted
<1>12. CASE Rotate \/ Fill \/ Drain
  <2>1. kept \subseteq live
    BY DEF IInv, Asserted
  <2> QED
    BY <1>12, <2>1, WorldProgress DEF Rotate, Fill, Drain
<1>13. CASE UNCHANGED vars
  BY <1>13, WorldProgress DEF vars, IInv, Asserted
<1> QED
  BY <1>1, <1>2, <1>3, <1>4, <1>5, <1>6, <1>7, <1>8, <1>9, <1>10, <1>11, <1>12, <1>13
     DEF Next, ActivityStep

\* The invariant of the runs holds whatever call fails and whenever.
THEOREM Inductive == Spec => []IInv
<1> QED
  BY InitProgress, InductiveStep, PTL DEF Spec

-----------------------------------------------------------------------------
(* What the invariant gives *)

\* A scratch copy of production data outlives only a run that failed.
THEOREM LeftoverIsReportedHolds == Spec => []LeftoverIsReported
<1>1. IInv => LeftoverIsReported
  <2> SUFFICES ASSUME IInv, at = "idle", run > 0, Scratch PROVE outcomes[run] = "failed"
    BY DEF LeftoverIsReported
  <2>1. outcomes[run] \in {"none", "completed", "failed"}
    BY RestoreConstants DEF IInv, TypeOK, Runs
  <2> QED
    BY <2>1 DEF IInv, TornDown, Ended, Scratch
<1> QED
  BY <1>1, Inductive, PTL

\* A run that completed found rows in every table that had them all through it.
THEOREM CompletedRunFoundRowsHolds == Spec => []CompletedRunFoundRows
<1>1. IInv => CompletedRunFoundRows
  BY DEF IInv, Asserted, CompletedRunFoundRows
<1> QED
  BY <1>1, Inductive, PTL

\* An older run's cluster is verified only after failures all the way back.
THEOREM StaleCopyOnlyAfterFailuresHolds == Spec => []StaleCopyOnlyAfterFailures
<1>1. IInv => StaleCopyOnlyAfterFailures
  BY DEF IInv, Aged, FailedSince, StaleCopyOnlyAfterFailures
<1> QED
  BY <1>1, Inductive, PTL

-----------------------------------------------------------------------------
(* The work that a run has left *)

\* The calls of an activity from the one it is at, which is what an attempt may
\* take.
CallsLeft ==
  [readCreds     |-> 4, postCreds   |-> 3, postCluster |-> 2, waitReady |-> 1,
   count         |-> 1,
   deleteCluster |-> 3, deleteCreds |-> 2, waitVolumes |-> 1]

\* The calls that the attempts that are left can make, with those of the
\* activities that follow.
RunLeft ==
  LET more == MaxAttempts - attempt
  IN  CASE at \in RestoreSteps  -> 4 * more + CallsLeft[at] + 4 * MaxAttempts
        [] at = "count"         -> more + CallsLeft[at] + 3 * MaxAttempts
        [] at \in TeardownSteps -> 3 * more + CallsLeft[at]
        [] OTHER                -> 0

RunWork ==
  /\ RunLeft \in 0 .. 8 * MaxAttempts
  /\ RunLeft = 0 <=> at = "idle"

\* Each call of a run leaves less to do, whether it works, fails or loses its
\* answer, and the operator of the cluster, a rotation and the services never
\* give a run more to do.
RunWorkRunsOut ==
  [][/\ at # "idle" => RunLeft' <= RunLeft
     /\ ActivityStep => RunLeft' < RunLeft]_vars

LEMMA RunWorkType == TypeOK => RunWork
<1> SUFFICES ASSUME TypeOK PROVE RunWork
  OBVIOUS
<1> DEFINE M == MaxAttempts
           t == attempt
<1>1. M \in Nat \ {0} /\ t \in 1 .. M /\ at \in Steps \union {"idle"}
  BY RestoreConstants DEF TypeOK
<1> HIDE DEF M, t
<1>2. CASE at \in RestoreSteps
  BY <1>1, <1>2 DEF RunWork, RunLeft, CallsLeft, RestoreSteps, TeardownSteps, M, t
<1>3. CASE at = "count"
  BY <1>1, <1>3 DEF RunWork, RunLeft, CallsLeft, RestoreSteps, TeardownSteps, M, t
<1>4. CASE at \in TeardownSteps
  BY <1>1, <1>4 DEF RunWork, RunLeft, CallsLeft, RestoreSteps, TeardownSteps, M, t
<1>5. CASE at = "idle"
  BY <1>1, <1>5 DEF RunWork, RunLeft, RestoreSteps, TeardownSteps, M, t
<1> QED
  BY <1>1, <1>2, <1>3, <1>4, <1>5 DEF Steps

\* An attempt that has failed is one less, or the last one of its activity.
LEMMA AttemptFailedWork ==
  ASSUME TypeOK, at \in Steps, AttemptFailed
  PROVE  RunLeft' < RunLeft
<1> DEFINE M == MaxAttempts
           t == attempt
<1>1. M \in Nat \ {0} /\ t \in 1 .. M
  BY RestoreConstants DEF TypeOK
<1>2. CASE t < M /\ attempt' = t + 1 /\ at' = FirstStep(at)
  <2> HIDE DEF M, t
  <2>1. CASE at \in RestoreSteps
    BY <1>1, <1>2, <2>1 DEF RunLeft, CallsLeft, FirstStep, RestoreSteps, TeardownSteps, M, t
  <2>2. CASE at = "count"
    BY <1>1, <1>2, <2>2 DEF RunLeft, CallsLeft, FirstStep, RestoreSteps, TeardownSteps, M, t
  <2>3. CASE at \in TeardownSteps
    BY <1>1, <1>2, <2>3 DEF RunLeft, CallsLeft, FirstStep, RestoreSteps, TeardownSteps, M, t
  <2> QED
    BY <2>1, <2>2, <2>3 DEF Steps
<1>3. CASE GiveUp
  <2>1. \/ at \in RestoreSteps \union TeardownSteps /\ at' = "idle"
        \/ at = "count" /\ at' = "deleteCluster" /\ attempt' = 1
    BY <1>3 DEF GiveUp, End, Finish, Activity
  <2> HIDE DEF M, t
  <2>2. CASE at \in RestoreSteps \union TeardownSteps /\ at' = "idle"
    BY <1>1, <2>2 DEF RunLeft, CallsLeft, RestoreSteps, TeardownSteps, M, t
  <2>3. CASE at = "count" /\ at' = "deleteCluster" /\ attempt' = 1
    BY <1>1, <2>3 DEF RunLeft, CallsLeft, RestoreSteps, TeardownSteps, M, t
  <2> QED
    BY <2>1, <2>2, <2>3
<1> QED
  BY <1>2, <1>3 DEF AttemptFailed

\* A call that worked is followed by the next of its activity, by the activity
\* after it, or by the end of the run.
LEMMA WorkedWork ==
  ASSUME TypeOK,
         \/ /\ <<at, at'>> \in {<<"readCreds", "postCreds">>, <<"postCreds", "postCluster">>,
                                <<"postCluster", "waitReady">>,
                                <<"deleteCluster", "deleteCreds">>,
                                <<"deleteCreds", "waitVolumes">>}
            /\ attempt' = attempt
         \/ /\ <<at, at'>> \in {<<"waitReady", "count">>, <<"count", "deleteCluster">>}
            /\ attempt' = 1
         \/ at = "waitVolumes" /\ at' = "idle"
  PROVE  RunLeft' < RunLeft
<1> DEFINE M == MaxAttempts
           t == attempt
<1>1. M \in Nat \ {0} /\ t \in 1 .. M
  BY RestoreConstants DEF TypeOK
<1> HIDE DEF M, t
<1>2. ASSUME <<at, at'>> \in {<<"readCreds", "postCreds">>, <<"postCreds", "postCluster">>,
                              <<"postCluster", "waitReady">>,
                              <<"deleteCluster", "deleteCreds">>,
                              <<"deleteCreds", "waitVolumes">>},
             attempt' = t
      PROVE  RunLeft' < RunLeft
  BY <1>1, <1>2 DEF RunLeft, CallsLeft, RestoreSteps, TeardownSteps, M, t
<1>3. ASSUME <<at, at'>> \in {<<"waitReady", "count">>, <<"count", "deleteCluster">>},
             attempt' = 1
      PROVE  RunLeft' < RunLeft
  BY <1>1, <1>3 DEF RunLeft, CallsLeft, RestoreSteps, TeardownSteps, M, t
<1>4. ASSUME at = "waitVolumes", at' = "idle"
      PROVE  RunLeft' < RunLeft
  BY <1>1, <1>4 DEF RunLeft, CallsLeft, RestoreSteps, TeardownSteps, M, t
<1> QED
  BY <1>2, <1>3, <1>4 DEF t

LEMMA ActivityStepWork ==
  ASSUME TypeOK, ActivityStep
  PROVE  RunLeft' < RunLeft
<1>1. CASE ReadCreds
  BY <1>1, WorkedWork DEF ReadCreds, Goto
<1>2. CASE PostCreds
  BY <1>2, StepSets, WorkedWork, AttemptFailedWork DEF PostCreds, Answered, Goto
<1>3. CASE PostCluster
  BY <1>3, StepSets, WorkedWork, AttemptFailedWork DEF PostCluster, Answered, Goto
<1>4. CASE WaitReady
  BY <1>4, WorkedWork DEF WaitReady, Activity
<1>5. CASE Count
  BY <1>5, StepSets, WorkedWork, AttemptFailedWork DEF Count, Activity
<1>6. CASE DeleteCluster
  BY <1>6, StepSets, WorkedWork, AttemptFailedWork DEF DeleteCluster, Answered, Goto
<1>7. CASE DeleteCreds
  BY <1>7, StepSets, WorkedWork, AttemptFailedWork DEF DeleteCreds, Answered, Goto
<1>8. CASE WaitVolumes
  BY <1>8, WorkedWork DEF WaitVolumes, Finish, End
<1>9. CASE CallFails
  BY <1>9, AttemptFailedWork DEF CallFails
<1> QED
  BY <1>1, <1>2, <1>3, <1>4, <1>5, <1>6, <1>7, <1>8, <1>9 DEF ActivityStep

\* What makes every run that its worker keeps running end: it takes no more
\* than 8 * MaxAttempts calls, whatever fails, and it has ended when none is
\* left.
THEOREM RunWorkRunsOutHolds == Spec => []RunWork /\ RunWorkRunsOut
<1>1. TypeOK /\ [Next]_vars =>
        [/\ at # "idle" => RunLeft' <= RunLeft
         /\ ActivityStep => RunLeft' < RunLeft]_vars
  <2> SUFFICES ASSUME TypeOK, [Next]_vars
               PROVE  /\ at # "idle" => RunLeft' <= RunLeft
                      /\ ActivityStep => RunLeft' < RunLeft
    OBVIOUS
  <2>1. RunLeft \in Nat
    <3>1. 8 * MaxAttempts \in Nat
      BY RestoreConstants
    <3> QED
      BY <3>1, RunWorkType DEF RunWork
  <2>2. RunLeft' \in Nat
    <3>1. 8 * MaxAttempts \in Nat
      BY RestoreConstants
    <3>2. RunWork'
      <4>1. TypeOK'
        BY TypeStep
      <4> QED
        BY <4>1, RunWorkType, PTL
    <3> QED
      BY <3>1, <3>2 DEF RunWork
  <2>3. ActivityStep => RunLeft' < RunLeft
    BY ActivityStepWork
  <2>4. CASE StartRun
    BY <2>3, <2>4 DEF StartRun
  <2>5. CASE OperatorStep \/ Rotate \/ Fill \/ Drain \/ UNCHANGED vars
    <3>1. at' = at /\ attempt' = attempt
      BY <2>5 DEF OperatorStep, Provision, Recover, CollectVolume, Rotate, Fill, Drain, runVars,
                        vars
    <3>2. RunLeft' = RunLeft
      BY <3>1 DEF RunLeft
    <3> QED
      BY <2>1, <2>2, <2>3, <3>2
  <2> QED
    BY <2>1, <2>2, <2>3, <2>4, <2>5 DEF Next
<1> QED
  BY <1>1, RunWorkType, TypeCorrect, PTL DEF Spec, RunWorkRunsOut
=============================================================================
