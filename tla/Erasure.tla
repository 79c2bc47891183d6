------------------------------- MODULE Erasure ------------------------------
(***************************************************************************)
(* One data subject, the stores that name it, its Kratos identity and its  *)
(* OpenFGA tuples; the two that erase it, the EraseSubject workflow and    *)
(* the daily RetentionPass; and the workflows of the other services that   *)
(* were started for the subject and still write about it: a checkout or a  *)
(* registration inserts a row and then grants a tuple, an event only       *)
(* inserts.                                                                *)
(*                                                                         *)
(* A row names the subject or carries its replacement; which replacement   *)
(* is left out.  payment and catalog hold no identifier and get no call.   *)
(***************************************************************************)
EXTENDS Integers

CONSTANTS
  Old,          \* what was written about the subject before anyone erases it
  Writers,      \* what may still be written about it
  StoreOf,      \* the store that holds each row
  MaxAttempts,  \* RetryPolicy.MaximumAttempts of the worker's activities
  MaxFaults     \* bound on the calls that fail

Stores == {"orgs", "orders", "analytics"}
Rows   == Old \union Writers

ASSUME ErasureConstants ==
  /\ MaxAttempts \in Nat \ {0}
  /\ MaxFaults \in Nat
  /\ StoreOf \in [Rows -> Stores]
  /\ Old \intersect Writers = {}

VARIABLES
  row,          \* whether each row exists and names the subject
  tuples,       \* the rows whose tuple to the subject OpenFGA holds
  kratos,       \* whether the identity exists
  writer,       \* where the workflow behind each later row is
  erase,        \* the activity EraseSubject is at
  eraseTries,
  eraseFound,   \* the tuples EraseAuthzTuples has read and is to delete
  sweep,        \* where ApplyRetention is
  sweepTries,
  todo,         \* the stores its loop has not reached
  verdict,      \* what it knows of the subject
  sweepFound,   \* the tuples it has read and is to delete
  faults        \* the calls that have failed

dataVars  == <<row, tuples, kratos>>
eraseVars == <<erase, eraseTries, eraseFound>>
sweepVars == <<sweep, sweepTries, todo, verdict, sweepFound>>
vars      == <<dataVars, writer, eraseVars, sweepVars, faults>>

EraseSteps == Stores \union {"identity", "readTuples", "deleteTuples"}
SweepSteps == {"list", "lookup", "erase", "readTuples", "deleteTuples"}
Ends       == {"completed", "failed"}

HasTuple(r) == StoreOf[r] # "analytics"
Named(s) == {r \in Rows : StoreOf[r] = s /\ row[r] = "named"}

Fault == faults < MaxFaults /\ faults' = faults + 1
NoFault == UNCHANGED faults

-----------------------------------------------------------------------------
(* The other services *)

\* A session of the subject starts a workflow or sends an event.
StartWriter(w) ==
  /\ kratos
  /\ writer[w] = "idle"
  /\ writer' = [writer EXCEPT ![w] = "insert"]
  /\ UNCHANGED <<dataVars, eraseVars, sweepVars, faults>>

\* Its row is inserted with the identity its input carries, or it gives up.
InsertRow(w) ==
  /\ writer[w] = "insert"
  /\ \/ /\ row' = [row EXCEPT ![w] = "named"]
        /\ writer' = [writer EXCEPT ![w] = IF HasTuple(w) THEN "grant" ELSE "ended"]
     \/ UNCHANGED row /\ writer' = [writer EXCEPT ![w] = "ended"]
  /\ UNCHANGED <<tuples, kratos, eraseVars, sweepVars, faults>>

\* An attempt that worked or not, and is made again or not; how often is left out.
GrantTuple(w) ==
  /\ writer[w] = "grant"
  /\ tuples' = tuples \union {w} \/ UNCHANGED tuples
  /\ writer' = [writer EXCEPT ![w] = "ended"] \/ UNCHANGED writer
  /\ UNCHANGED <<row, kratos, eraseVars, sweepVars, faults>>

\* An identity can be deleted in the admin console.
DeleteInConsole ==
  /\ kratos
  /\ kratos' = FALSE
  /\ UNCHANGED <<row, tuples, writer, eraseVars, sweepVars, faults>>

-----------------------------------------------------------------------------
(* What an activity does to the stores *)

\* update ... set <identifier> = pseudonym where <identifier> = identity
EraseRows(s) ==
  row' = [r \in Rows |-> IF r \in Named(s) THEN "erased" ELSE row[r]]

\* A subject's tuples fit in one write of the batch size; OpenFGA refuses a write
\* that deletes a tuple that is gone.
Deletable(found) == found \subseteq tuples

-----------------------------------------------------------------------------
(* EraseSubject *)

\* The operator's script starts it under erase-subject-<identity>: a run that is
\* open is joined, a closed one is started again.
StartErase ==
  /\ erase \notin EraseSteps
  /\ erase' = "orgs"
  /\ eraseTries' = 0
  /\ UNCHANGED <<dataVars, writer, eraseFound, sweepVars, faults>>

\* Mutant of EraseAfter: the tuples go before the identity and the last store.
TuplesBeforeLastStore ==
  [orgs |-> "orders", orders |-> "readTuples", deleteTuples |-> "analytics",
   analytics |-> "identity", identity |-> "completed"]

EraseAfter ==
  [orgs |-> "orders", orders |-> "analytics", analytics |-> "identity",
   identity |-> "readTuples", deleteTuples |-> "completed"]

EraseProceed(step) == erase' = step /\ eraseTries' = 0

\* Mutant of EraseAttemptFailed: an activity that used its attempts is passed
\* over.
EraseErrorIgnored(step) ==
  IF eraseTries + 1 < MaxAttempts
    THEN erase' = step /\ eraseTries' = eraseTries + 1
    ELSE EraseProceed(IF step = "readTuples" THEN "completed" ELSE EraseAfter[step])

\* The activity is tried again from its start, or fails the workflow.
EraseAttemptFailed(step) ==
  IF eraseTries + 1 < MaxAttempts
    THEN erase' = step /\ eraseTries' = eraseTries + 1
    ELSE EraseProceed("failed")

\* A call is answered, is answered by nobody though it took effect, or fails.
EraseService(s) ==
  /\ erase = s
  /\ \/ EraseRows(s) /\ EraseProceed(EraseAfter[s]) /\ NoFault
     \/ EraseRows(s) /\ EraseAttemptFailed(s) /\ Fault
     \/ UNCHANGED row /\ EraseAttemptFailed(s) /\ Fault
  /\ UNCHANGED <<tuples, kratos, writer, eraseFound, sweepVars>>

\* A 404 is what a retry wants.
EraseIdentity ==
  /\ erase = "identity"
  /\ \/ kratos' = FALSE /\ EraseProceed(EraseAfter["identity"]) /\ NoFault
     \/ kratos' = FALSE /\ EraseAttemptFailed("identity") /\ Fault
     \/ UNCHANGED kratos /\ EraseAttemptFailed("identity") /\ Fault
  /\ UNCHANGED <<row, tuples, writer, eraseFound, sweepVars>>

\* EraseAuthzTuples reads the tuples of every type, then deletes them.
ReadTuples ==
  /\ erase = "readTuples"
  /\ \/ /\ erase' = "deleteTuples"
        /\ eraseFound' = tuples
        /\ UNCHANGED eraseTries
        /\ NoFault
     \/ UNCHANGED eraseFound /\ EraseAttemptFailed("readTuples") /\ Fault
  /\ UNCHANGED <<dataVars, writer, sweepVars>>

DeleteTuples ==
  /\ erase = "deleteTuples"
  /\ \/ /\ Deletable(eraseFound)
        /\ tuples' = tuples \ eraseFound
        /\ \/ EraseProceed(EraseAfter["deleteTuples"]) /\ NoFault
           \/ EraseAttemptFailed("readTuples") /\ Fault
     \/ /\ UNCHANGED tuples
        /\ EraseAttemptFailed("readTuples")
        /\ IF Deletable(eraseFound) THEN Fault ELSE NoFault
  /\ eraseFound' = {}
  /\ UNCHANGED <<row, kratos, writer, sweepVars>>

EraseStep ==
  (\E s \in Stores : EraseService(s)) \/ EraseIdentity \/ ReadTuples \/ DeleteTuples

-----------------------------------------------------------------------------
(* RetentionPass: one activity, tried again from its start *)

SweepTo(step, left, known) ==
  sweep' = step /\ todo' = left /\ verdict' = known /\ sweepFound' = {}

SweepIdle == SweepTo("idle", {}, "unseen")

\* The schedule starts a pass when none runs.
StartSweep ==
  /\ sweep = "idle"
  /\ SweepTo("list", Stores, "unseen")
  /\ sweepTries' = 0
  /\ UNCHANGED <<dataVars, writer, eraseVars, faults>>

SweepAttemptFailed ==
  IF sweepTries + 1 < MaxAttempts
    THEN SweepTo("list", Stores, "unseen") /\ sweepTries' = sweepTries + 1
    ELSE SweepIdle /\ UNCHANGED sweepTries

SweepFails == SweepAttemptFailed /\ Fault

\* Mutant of SweepOn: one store that lists its subjects is not erased.
SweepSkipsStore(left, known) ==
  IF left # {} THEN SweepTo("list", left, known)
  ELSE IF known = "orphan" THEN SweepTo("erase", Stores \ {"orders"}, known)
  ELSE SweepIdle

\* Every store is asked for its subjects, then the orphan is erased in each.
SweepOn(left, known) ==
  IF left # {} THEN SweepTo("list", left, known)
  ELSE IF known = "orphan" THEN SweepTo("erase", Stores, known)
  ELSE SweepIdle

\* A store lists the subject while a row names it; the first one that does has
\* the identity looked up.  Go visits the stores in any order.
ListSubjects(s) ==
  /\ sweep = "list"
  /\ s \in todo
  /\ \/ /\ IF verdict = "unseen" /\ Named(s) # {}
             THEN SweepTo("lookup", todo \ {s}, verdict)
             ELSE SweepOn(todo \ {s}, verdict)
        /\ NoFault /\ UNCHANGED sweepTries
     \/ SweepFails
  /\ UNCHANGED <<dataVars, writer, eraseVars>>

\* Mutant of LookupIdentity: any answer but a 200 counts as gone.
LookupFailureIsGone ==
  /\ sweep = "lookup"
  /\ \/ SweepOn(todo, IF kratos THEN "kept" ELSE "orphan") /\ NoFault
     \/ SweepOn(todo, "orphan") /\ Fault
  /\ UNCHANGED <<dataVars, writer, eraseVars, sweepTries>>

\* Only a 404 counts as gone; any other failure stops the pass.
LookupIdentity ==
  /\ sweep = "lookup"
  /\ \/ /\ SweepOn(todo, IF kratos THEN "kept" ELSE "orphan")
        /\ NoFault /\ UNCHANGED sweepTries
     \/ SweepFails
  /\ UNCHANGED <<dataVars, writer, eraseVars>>

SweepStore(s) ==
  /\ sweep = "erase"
  /\ s \in todo
  /\ \/ /\ EraseRows(s)
        /\ SweepTo(IF todo = {s} THEN "readTuples" ELSE "erase", todo \ {s}, verdict)
        /\ NoFault /\ UNCHANGED sweepTries
     \/ EraseRows(s) /\ SweepFails
     \/ UNCHANGED row /\ SweepFails
  /\ UNCHANGED <<tuples, kratos, writer, eraseVars>>

SweepReadTuples ==
  /\ sweep = "readTuples"
  /\ \/ /\ sweep' = "deleteTuples"
        /\ sweepFound' = tuples
        /\ NoFault /\ UNCHANGED <<todo, verdict, sweepTries>>
     \/ SweepFails
  /\ UNCHANGED <<dataVars, writer, eraseVars>>

SweepDeleteTuples ==
  /\ sweep = "deleteTuples"
  /\ \/ /\ Deletable(sweepFound)
        /\ tuples' = tuples \ sweepFound
        /\ \/ SweepIdle /\ UNCHANGED sweepTries /\ NoFault
           \/ SweepFails
     \/ /\ UNCHANGED tuples
        /\ SweepAttemptFailed
        /\ IF Deletable(sweepFound) THEN Fault ELSE NoFault
  /\ UNCHANGED <<row, kratos, writer, eraseVars>>

SweepStep ==
  \/ \E s \in Stores : ListSubjects(s) \/ SweepStore(s)
  \/ LookupIdentity \/ SweepReadTuples \/ SweepDeleteTuples

-----------------------------------------------------------------------------
Init ==
  /\ row = [r \in Rows |-> IF r \in Old THEN "named" ELSE "absent"]
  /\ tuples = {r \in Old : HasTuple(r)}
  /\ kratos = TRUE
  /\ writer = [w \in Writers |-> "idle"]
  /\ erase = "none"
  /\ eraseTries = 0
  /\ eraseFound = {}
  /\ sweep = "idle"
  /\ sweepTries = 0
  /\ todo = {}
  /\ verdict = "unseen"
  /\ sweepFound = {}
  /\ faults = 0

WriterStep(w) == InsertRow(w) \/ GrantTuple(w)

Next ==
  \/ \E w \in Writers : StartWriter(w) \/ WriterStep(w)
  \/ DeleteInConsole
  \/ StartErase \/ EraseStep
  \/ StartSweep \/ SweepStep

\* The workers run what was started, and the schedule starts a pass every day.
Fairness ==
  /\ WF_vars(StartSweep) /\ WF_vars(SweepStep)
  /\ WF_vars(EraseStep)
  /\ \A w \in Writers : WF_vars(WriterStep(w))

Spec == Init /\ [][Next]_vars
FairSpec == Spec /\ Fairness

-----------------------------------------------------------------------------
(* Properties *)

TypeOK ==
  /\ row \in [Rows -> {"absent", "named", "erased"}]
  /\ tuples \subseteq Rows
  /\ kratos \in BOOLEAN
  /\ writer \in [Writers -> {"idle", "insert", "grant", "ended"}]
  /\ erase \in EraseSteps \union Ends \union {"none"}
  /\ eraseTries \in 0 .. MaxAttempts - 1
  /\ eraseFound \subseteq Rows
  /\ sweep \in SweepSteps \union {"idle"}
  /\ sweepTries \in 0 .. MaxAttempts - 1
  /\ todo \subseteq Stores
  /\ verdict \in {"unseen", "kept", "orphan"}
  /\ sweepFound \subseteq Rows
  /\ faults \in 0 .. MaxFaults

OldErased == \A r \in Old : row[r] = "erased"
OldTuples == {r \in Old : HasTuple(r)}

\* PLT-001: the tuples go last.  While a row names the subject or the identity
\* exists, none of the subject's settled tuples is gone, whoever erases, whatever
\* failed and was tried again.
TuplesGoLast == ~ (OldTuples \subseteq tuples) => OldErased /\ ~ kratos

\* A run of EraseSubject that completed erased everything that was written
\* before it, in every store, in Kratos and in OpenFGA, also when a sweep took
\* part of it away under its hands.
CompletedErasureIsTotal ==
  erase = "completed" => OldErased /\ ~ kratos /\ OldTuples \intersect tuples = {}

\* README of platform: "a Kratos outage stops the pass and does not erase
\* anything".  A row is erased only by a run somebody asked for, or for an
\* identity that is gone.
OnlyTheGoneAreSwept ==
  [][(\E r \in Rows : row[r] = "named" /\ row'[r] = "erased") =>
       ~ kratos \/ erase \in EraseSteps]_vars

\* An identity that is gone, erased or deleted in the console, is named by no
\* row in the end, though what was in flight goes on writing after it.
RowsOfGoneAreErased == <>[](kratos \/ \A r \in Rows : row[r] # "named")

\* The comment on ApplyRetentionActivity: "Then the sweep finds every identifier
\* whose Kratos identity is gone, and erases it in every store and in OpenFGA."
TuplesOfGoneAreErased == <>[](kratos \/ tuples = {})
=============================================================================
