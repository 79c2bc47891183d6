--------------------------- MODULE Erasure_Proofs ---------------------------
(***************************************************************************)
(* Theorems about Erasure, for any rows, stores that hold them, workflows  *)
(* in flight, attempts and failures.                                       *)
(***************************************************************************)
EXTENDS Erasure, FiniteSets, FiniteSetTheorems, TLAPS

-----------------------------------------------------------------------------
(* The inductive invariant *)

ErasedIn(S) == \A r \in Old : StoreOf[r] \in S => row[r] = "erased"

\* What the activity EraseSubject is at says has been erased by then.
EraseProgress ==
  /\ erase = "orders" => ErasedIn({"orgs"})
  /\ erase = "analytics" => ErasedIn({"orgs", "orders"})
  /\ erase \in {"identity", "readTuples", "deleteTuples", "completed"} => OldErased
  /\ erase \in {"readTuples", "deleteTuples", "completed"} => ~ kratos
  /\ erase = "deleteTuples" => OldTuples \intersect tuples \subseteq eraseFound
  /\ erase = "completed" => OldTuples \intersect tuples = {}

\* A pass that erases does so for an identity it has found gone.
SweepProgress ==
  /\ verdict = "orphan" => ~ kratos
  /\ sweep \in {"erase", "readTuples", "deleteTuples"} => verdict = "orphan"
  /\ sweep = "erase" => ErasedIn(Stores \ todo)
  /\ sweep \in {"readTuples", "deleteTuples"} => OldErased

\* What was written stays written, erased or not.
OldWritten == \A r \in Old : row[r] # "absent"

IInv == TypeOK /\ OldWritten /\ EraseProgress /\ SweepProgress /\ TuplesGoLast

-----------------------------------------------------------------------------
(* How an attempt moves the workflow and the pass *)

Counts == 0 .. MaxAttempts - 1

\* An activity starts with no failed attempt.
LEMMA ZeroCounts == 0 \in Counts
BY ErasureConstants DEF Counts

\* A failed attempt leaves EraseSubject at an activity, or fails it.
LEMMA EraseMoves ==
  ASSUME TypeOK, NEW step
  PROVE  /\ EraseAttemptFailed(step) => erase' \in {step, "failed"} /\ eraseTries' \in Counts
         /\ \A next : EraseProceed(next) => erase' = next /\ eraseTries' \in Counts
<1>1. \A next : EraseProceed(next) => erase' = next /\ eraseTries' \in Counts
  BY ZeroCounts DEF EraseProceed
<1>2. CASE eraseTries + 1 < MaxAttempts
  <2>1. eraseTries + 1 \in Counts
    BY <1>2, ErasureConstants DEF TypeOK, Counts
  <2> QED
    BY <1>1, <1>2, <2>1 DEF EraseAttemptFailed
<1>3. CASE ~ (eraseTries + 1 < MaxAttempts)
  BY <1>1, <1>3 DEF EraseAttemptFailed
<1> QED
  BY <1>1, <1>2, <1>3

\* A failed attempt starts the pass over, or ends it.
LEMMA SweepMoves ==
  ASSUME TypeOK, SweepAttemptFailed
  PROVE  /\ sweep' \in {"list", "idle"}
         /\ sweepTries' \in Counts
         /\ todo' \subseteq Stores
         /\ verdict' = "unseen"
         /\ sweepFound' = {}
<1>1. CASE sweepTries + 1 < MaxAttempts
  <2>1. sweepTries + 1 \in Counts
    BY <1>1, ErasureConstants DEF TypeOK, Counts
  <2> QED
    BY <1>1, <2>1 DEF SweepAttemptFailed, SweepTo
<1>2. CASE ~ (sweepTries + 1 < MaxAttempts)
  BY <1>2 DEF SweepAttemptFailed, SweepIdle, SweepTo, TypeOK, Counts
<1> QED
  BY <1>1, <1>2

\* Erasing a store's rows touches no row of another store and names nobody.
LEMMA RowsErased ==
  ASSUME TypeOK, NEW s \in Stores, EraseRows(s)
  PROVE  /\ row' \in [Rows -> {"absent", "named", "erased"}]
         /\ \A r \in Rows : row[r] = "erased" => row'[r] = "erased"
         /\ \A r \in Rows : StoreOf[r] = s => row'[r] # "named"
         /\ \A r \in Rows : row[r] # "absent" => row'[r] # "absent"
BY DEF EraseRows, Named, TypeOK

\* One more store of which every old row is erased.
LEMMA StoreDone ==
  ASSUME TypeOK, OldWritten, NEW s \in Stores, EraseRows(s)
  PROVE  /\ OldWritten'
         /\ \A S : ErasedIn(S) => ErasedIn(S)' /\ ErasedIn(S \union {s})'
BY RowsErased, ErasureConstants DEF OldWritten, ErasedIn, TypeOK, Rows

-----------------------------------------------------------------------------
(* Type correctness *)

\* The first state satisfies the invariant: nothing is erased and nothing asked.
LEMMA InvInit == Init => IInv
<1> SUFFICES ASSUME Init PROVE IInv
  OBVIOUS
<1>1. TypeOK
  BY ZeroCounts, ErasureConstants DEF Init, TypeOK, Counts, Rows
<1>2. OldWritten /\ TuplesGoLast
  BY DEF Init, OldWritten, TuplesGoLast, OldTuples, Rows
<1>3. EraseProgress /\ SweepProgress
  BY DEF Init, EraseProgress, SweepProgress
<1> QED
  BY <1>1, <1>2, <1>3 DEF IInv

\* The number of failed calls stays within its bound.
LEMMA FaultsBounded == TypeOK /\ (Fault \/ NoFault) => faults' \in 0 .. MaxFaults
BY ErasureConstants DEF TypeOK, Fault, NoFault

\* The workflows in flight and the console keep every variable well typed.
LEMMA TypeOthers ==
  ASSUME TypeOK, NEW w \in Writers,
         StartWriter(w) \/ InsertRow(w) \/ GrantTuple(w) \/ DeleteInConsole
  PROVE  TypeOK'
<1> USE DEF TypeOK, dataVars, eraseVars, sweepVars
<1>1. CASE StartWriter(w)
  BY <1>1 DEF StartWriter
<1>2. CASE InsertRow(w)
  BY <1>2 DEF InsertRow
<1>3. CASE GrantTuple(w)
  BY <1>3 DEF GrantTuple, Rows
<1>4. CASE DeleteInConsole
  BY <1>4 DEF DeleteInConsole
<1> QED
  BY <1>1, <1>2, <1>3, <1>4

\* EraseSubject keeps every variable well typed.
LEMMA TypeErase == TypeOK /\ (StartErase \/ EraseStep) => TypeOK'
<1> SUFFICES ASSUME TypeOK, StartErase \/ EraseStep PROVE TypeOK'
  OBVIOUS
<1> USE DEF TypeOK, Counts, EraseSteps, Ends
<1>1. CASE StartErase
  BY <1>1, ZeroCounts DEF StartErase, dataVars, sweepVars, Stores
<1>2. ASSUME NEW s \in Stores, EraseService(s) PROVE TypeOK'
  <2>1. /\ erase' \in EraseSteps \union Ends /\ eraseTries' \in Counts
        /\ faults' \in 0 .. MaxFaults
    BY <1>2, EraseMoves, FaultsBounded DEF EraseService, EraseAfter, Stores
  <2>2. row' \in [Rows -> {"absent", "named", "erased"}]
    BY <1>2, RowsErased DEF EraseService
  <2> QED
    BY <1>2, <2>1, <2>2 DEF EraseService, sweepVars
<1>3. CASE EraseIdentity
  <2>1. /\ erase' \in EraseSteps \union Ends /\ eraseTries' \in Counts
        /\ faults' \in 0 .. MaxFaults
    BY <1>3, EraseMoves, FaultsBounded DEF EraseIdentity, EraseAfter
  <2> QED
    BY <1>3, <2>1 DEF EraseIdentity, sweepVars
<1>4. CASE ReadTuples
  <2>1. /\ erase' \in EraseSteps \union Ends /\ eraseTries' \in Counts
        /\ faults' \in 0 .. MaxFaults
    BY <1>4, EraseMoves, FaultsBounded DEF ReadTuples
  <2> QED
    BY <1>4, <2>1 DEF ReadTuples, dataVars, sweepVars
<1>5. CASE DeleteTuples
  <2>1. /\ erase' \in EraseSteps \union Ends /\ eraseTries' \in Counts
        /\ faults' \in 0 .. MaxFaults
    BY <1>5, EraseMoves, FaultsBounded DEF DeleteTuples, EraseAfter
  <2> QED
    BY <1>5, <2>1 DEF DeleteTuples, sweepVars
<1> QED
  BY <1>1, <1>2, <1>3, <1>4, <1>5 DEF EraseStep

\* What a pass may come to from a step at which nothing failed.
LEMMA SweepOnTypes ==
  ASSUME NEW left \in SUBSET Stores, NEW known \in {"unseen", "kept", "orphan"},
         SweepOn(left, known)
  PROVE  /\ sweep' \in {"list", "erase", "idle"}
         /\ todo' \subseteq Stores
         /\ verdict' \in {"unseen", known}
         /\ sweepFound' = {}
         /\ sweep' = "erase" => todo' = Stores /\ verdict' = "orphan"
BY DEF SweepOn, SweepTo, SweepIdle

\* The pass keeps every variable well typed.
LEMMA TypeSweep == TypeOK /\ (StartSweep \/ SweepStep) => TypeOK'
<1> SUFFICES ASSUME TypeOK, StartSweep \/ SweepStep PROVE TypeOK'
  OBVIOUS
<1> DEFINE Typed == /\ sweep' \in SweepSteps \union {"idle"} /\ sweepTries' \in Counts
                    /\ todo' \subseteq Stores /\ verdict' \in {"unseen", "kept", "orphan"}
                    /\ sweepFound' \subseteq Rows /\ faults' \in 0 .. MaxFaults
<1>1. SweepFails => Typed
  BY SweepMoves, FaultsBounded DEF SweepFails, SweepSteps
<1>2. CASE StartSweep
  BY <1>2, ZeroCounts DEF StartSweep, SweepTo, TypeOK, Counts, SweepSteps, dataVars, eraseVars
<1>3. ASSUME NEW s \in Stores, ListSubjects(s) PROVE TypeOK'
  <2>1. Typed
    BY <1>1, <1>3, SweepOnTypes, FaultsBounded
       DEF ListSubjects, SweepTo, TypeOK, Counts, SweepSteps
  <2> QED
    BY <1>3, <2>1 DEF ListSubjects, TypeOK, Counts, dataVars, eraseVars
<1>4. CASE LookupIdentity
  <2>1. Typed
    BY <1>1, <1>4, SweepOnTypes, FaultsBounded DEF LookupIdentity, TypeOK, Counts, SweepSteps
  <2> QED
    BY <1>4, <2>1 DEF LookupIdentity, TypeOK, Counts, dataVars, eraseVars
<1>5. ASSUME NEW s \in Stores, SweepStore(s) PROVE TypeOK'
  <2>1. Typed
    BY <1>1, <1>5, FaultsBounded DEF SweepStore, SweepTo, TypeOK, Counts, SweepSteps
  <2>2. row' \in [Rows -> {"absent", "named", "erased"}]
    BY <1>5, RowsErased DEF SweepStore, TypeOK
  <2> QED
    BY <1>5, <2>1, <2>2 DEF SweepStore, TypeOK, Counts, eraseVars
<1>6. CASE SweepReadTuples
  <2>1. Typed
    BY <1>1, <1>6, FaultsBounded DEF SweepReadTuples, TypeOK, Counts, SweepSteps
  <2> QED
    BY <1>6, <2>1 DEF SweepReadTuples, TypeOK, Counts, dataVars, eraseVars
<1>7. CASE SweepDeleteTuples
  <2>1. Typed
    BY <1>1, <1>7, SweepMoves, FaultsBounded
       DEF SweepDeleteTuples, SweepIdle, SweepTo, TypeOK, Counts, SweepSteps
  <2> QED
    BY <1>7, <2>1 DEF SweepDeleteTuples, TypeOK, Counts, eraseVars
<1> QED
  BY <1>2, <1>3, <1>4, <1>5, <1>6, <1>7 DEF SweepStep

\* Every step keeps every variable well typed.
LEMMA TypeStep == TypeOK /\ [Next]_vars => TypeOK'
<1> SUFFICES ASSUME TypeOK, [Next]_vars PROVE TypeOK'
  OBVIOUS
<1>1. CASE UNCHANGED vars
  BY <1>1 DEF vars, dataVars, eraseVars, sweepVars, TypeOK
<1>2. CASE DeleteInConsole
  BY <1>2 DEF DeleteInConsole, TypeOK, eraseVars, sweepVars
<1> QED
  BY <1>1, <1>2, TypeOthers, TypeErase, TypeSweep DEF Next, WriterStep

-----------------------------------------------------------------------------
(* Erasure is not taken back *)

\* No step names the subject again in an old row, restores its identity or
\* grants an old tuple again.
Stands ==
  /\ OldWritten'
  /\ \A S : ErasedIn(S) => ErasedIn(S)'
  /\ ~ kratos => ~ kratos'
  /\ OldTuples \intersect tuples' \subseteq tuples

\* A pass and a run of EraseSubject that a step leaves alone keep what they say.
LEMMA OthersProgress ==
  ASSUME TypeOK, Stands
  PROVE  /\ EraseProgress /\ UNCHANGED <<erase, eraseFound>> => EraseProgress'
         /\ SweepProgress /\ UNCHANGED <<sweep, todo, verdict>> => SweepProgress'
<1> USE ErasureConstants DEF Stands, OldErased, ErasedIn
<1>1. OldErased => OldErased'
  BY DEF Rows
<1>2. EraseProgress /\ UNCHANGED <<erase, eraseFound>> => EraseProgress'
  BY <1>1 DEF EraseProgress
<1>3. SweepProgress /\ UNCHANGED <<sweep, todo, verdict>> => SweepProgress'
  BY <1>1 DEF SweepProgress
<1> QED
  BY <1>2, <1>3

\* Every store done is every row done.
LEMMA AllStores == TypeOK => (ErasedIn(Stores) <=> OldErased)
BY ErasureConstants DEF ErasedIn, OldErased, Rows

\* A step that deletes no old tuple keeps the order of the erasure.
LEMMA TuplesKept ==
  ASSUME TypeOK, Stands, TuplesGoLast, OldTuples \intersect tuples \subseteq tuples'
  PROVE  TuplesGoLast'
<1>1. OldErased => OldErased'
  BY ErasureConstants DEF Stands, OldErased, ErasedIn, Rows
<1> QED
  BY <1>1 DEF Stands, TuplesGoLast, OldTuples

\* The workflows in flight write only rows and tuples of their own.
LEMMA OthersKeep ==
  ASSUME IInv, NEW w \in Writers,
         StartWriter(w) \/ InsertRow(w) \/ GrantTuple(w) \/ DeleteInConsole
  PROVE  Stands /\ EraseProgress' /\ SweepProgress' /\ TuplesGoLast'
<1> USE DEF IInv, dataVars, eraseVars, sweepVars
<1>1. OldWritten' /\ \A S : ErasedIn(S) => ErasedIn(S)'
  BY ErasureConstants
     DEF StartWriter, InsertRow, GrantTuple, DeleteInConsole, OldWritten, ErasedIn, TypeOK, Rows
<1>2. ~ kratos => ~ kratos'
  BY DEF StartWriter, InsertRow, GrantTuple, DeleteInConsole
<1>3. OldTuples \intersect tuples' \subseteq tuples /\ tuples \subseteq tuples'
  BY ErasureConstants DEF StartWriter, InsertRow, GrantTuple, DeleteInConsole, OldTuples
<1>4. Stands
  BY <1>1, <1>2, <1>3 DEF Stands
<1>5. UNCHANGED <<erase, eraseFound, sweep, todo, verdict>>
  BY DEF StartWriter, InsertRow, GrantTuple, DeleteInConsole
<1> QED
  BY <1>3, <1>4, <1>5, OthersProgress, TuplesKept

\* A run of EraseSubject erases in its order and knows what it has erased.
LEMMA EraseKeeps ==
  ASSUME IInv, StartErase \/ EraseStep
  PROVE  Stands /\ EraseProgress' /\ SweepProgress' /\ TuplesGoLast'
<1> USE DEF IInv, dataVars, sweepVars
<1>1. CASE StartErase
  <2>1. Stands
    BY <1>1 DEF StartErase, Stands, OldWritten, ErasedIn
  <2>2. EraseProgress' /\ TuplesGoLast'
    BY <1>1 DEF StartErase, EraseProgress, TuplesGoLast, OldErased
  <2> QED
    BY <1>1, <2>1, <2>2, OthersProgress DEF StartErase
<1>2. ASSUME NEW s \in Stores, EraseService(s)
      PROVE  Stands /\ EraseProgress' /\ SweepProgress' /\ TuplesGoLast'
  <2>1. CASE EraseRows(s)
    <3>1. Stands
      BY <1>2, <2>1, StoreDone DEF EraseService, Stands
    <3>2. erase' \in {s, "failed", EraseAfter[s]}
      BY <1>2, EraseMoves DEF EraseService
    <3>3. ErasedIn({s})'
      BY <2>1, RowsErased, ErasureConstants DEF OldWritten, ErasedIn, TypeOK, Rows
    <3>4. erase' = "orders" => ErasedIn({"orgs"})'
      <4>1. CASE s = "orgs"
        BY <3>3, <4>1
      <4>2. CASE s = "orders"
        BY <1>2, <3>1, <4>2 DEF EraseService, EraseProgress, Stands
      <4> QED
        BY <3>2, <4>1, <4>2 DEF EraseAfter, Stores
    <3>5. erase' = "analytics" => ErasedIn({"orgs", "orders"})'
      <4>1. CASE s = "orders"
        <5>1. ErasedIn({"orgs"})
          BY <1>2, <4>1 DEF EraseService, EraseProgress
        <5>2. ErasedIn({"orgs"} \union {s})'
          BY <2>1, <5>1, StoreDone
        <5> QED
          BY <4>1, <5>2 DEF ErasedIn
      <4>2. CASE s = "analytics"
        BY <1>2, <3>1, <4>2 DEF EraseService, EraseProgress, Stands
      <4> QED
        BY <3>2, <4>1, <4>2 DEF EraseAfter, Stores
    <3>6. erase' = "identity" => OldErased'
      <4>1. CASE s = "analytics"
        <5>1. ErasedIn({"orgs", "orders"})
          BY <1>2, <4>1 DEF EraseService, EraseProgress
        <5>2. ErasedIn({"orgs", "orders"} \union {s})'
          BY <2>1, <5>1, StoreDone
        <5>3. OldErased'
          BY <1>2, <4>1, <5>2, ErasureConstants DEF ErasedIn, OldErased, Rows, Stores
        <5> QED
          BY <5>3
      <4> QED
        BY <3>2, <4>1 DEF EraseAfter, Stores
    <3>7. erase' \notin {"readTuples", "deleteTuples", "completed"}
      BY <3>2 DEF EraseAfter, Stores
    <3>8. EraseProgress'
      BY <3>4, <3>5, <3>6, <3>7 DEF EraseProgress
    <3>9. tuples' = tuples /\ UNCHANGED <<sweep, todo, verdict>>
      BY <1>2 DEF EraseService
    <3> QED
      BY <3>1, <3>8, <3>9, OthersProgress, TuplesKept
  <2>2. CASE UNCHANGED row /\ EraseAttemptFailed(s)
    <3>1. Stands
      BY <1>2, <2>2 DEF EraseService, Stands, OldWritten, ErasedIn
    <3>2. erase' \in {s, "failed"} /\ erase = s
      BY <1>2, <2>2, EraseMoves DEF EraseService
    <3>3. UNCHANGED <<row, tuples, kratos, sweep, todo, verdict>>
      BY <1>2, <2>2 DEF EraseService
    <3>4. EraseProgress'
      BY <3>2, <3>3 DEF EraseProgress, Stores, ErasedIn, OldErased
    <3> QED
      BY <3>1, <3>3, <3>4, OthersProgress, TuplesKept
  <2> QED
    BY <1>2, <2>1, <2>2 DEF EraseService
<1>3. CASE EraseIdentity
  <2>1. Stands
    BY <1>3 DEF EraseIdentity, Stands, OldWritten, ErasedIn
  <2>2. /\ erase' \in {"identity", "readTuples", "failed"}
        /\ erase' = "readTuples" => ~ kratos'
        /\ UNCHANGED <<row, tuples, sweep, todo, verdict>>
    BY <1>3, EraseMoves DEF EraseIdentity, EraseAfter
  <2>3. EraseProgress'
    BY <1>3, <2>2 DEF EraseIdentity, EraseProgress, OldErased
  <2> QED
    BY <2>1, <2>2, <2>3, OthersProgress, TuplesKept
<1>4. CASE ReadTuples
  <2>1. Stands
    BY <1>4 DEF ReadTuples, Stands, OldWritten, ErasedIn
  <2>2. /\ erase' \in {"readTuples", "deleteTuples", "failed"}
        /\ erase' = "deleteTuples" => eraseFound' = tuples
        /\ UNCHANGED <<row, tuples, kratos, sweep, todo, verdict>>
    BY <1>4, EraseMoves DEF ReadTuples
  <2>3. EraseProgress'
    BY <1>4, <2>2 DEF ReadTuples, EraseProgress, OldErased, OldTuples
  <2> QED
    BY <2>1, <2>2, <2>3, OthersProgress, TuplesKept
<1>5. CASE DeleteTuples
  <2>1. /\ erase' \in {"readTuples", "completed", "failed"}
        /\ erase' = "completed" => tuples' = tuples \ eraseFound
        /\ tuples' \subseteq tuples
        /\ UNCHANGED <<row, kratos, sweep, todo, verdict>>
    BY <1>5, EraseMoves DEF DeleteTuples, EraseAfter
  <2>2. Stands
    BY <2>1 DEF Stands, OldWritten, ErasedIn
  <2>3. OldErased' /\ ~ kratos'
    BY <1>5, <2>1 DEF DeleteTuples, EraseProgress, OldErased
  <2>4. EraseProgress'
    BY <1>5, <2>1, <2>3 DEF DeleteTuples, EraseProgress, OldTuples
  <2> QED
    BY <2>1, <2>2, <2>3, <2>4, OthersProgress DEF TuplesGoLast
<1> QED
  BY <1>1, <1>2, <1>3, <1>4, <1>5 DEF EraseStep

\* A pass erases only what it found gone, every store before the tuples.
LEMMA SweepKeeps ==
  ASSUME IInv, StartSweep \/ SweepStep
  PROVE  Stands /\ EraseProgress' /\ SweepProgress' /\ TuplesGoLast'
<1> USE DEF IInv, dataVars, eraseVars
<1> DEFINE AtRest == sweep' \in {"list", "idle"} /\ verdict' = "unseen"
<1>1. AtRest => SweepProgress'
  BY DEF SweepProgress
<1>2. SweepFails => AtRest
  BY SweepMoves DEF SweepFails
<1>3. UNCHANGED dataVars => Stands
  BY DEF Stands, OldWritten, ErasedIn
<1>4. CASE StartSweep
  BY <1>1, <1>3, <1>4, OthersProgress, TuplesKept DEF StartSweep, SweepTo
<1>5. ASSUME NEW s \in Stores, ListSubjects(s)
      PROVE  Stands /\ EraseProgress' /\ SweepProgress' /\ TuplesGoLast'
  <2>1. UNCHANGED <<row, tuples, kratos, erase, eraseFound>> /\ sweep = "list"
    BY <1>5 DEF ListSubjects
  <2>2. CASE SweepFails
    BY <1>1, <1>2, <1>3, <2>1, <2>2, OthersProgress, TuplesKept
  <2>3. CASE SweepTo("lookup", todo \ {s}, verdict)
    <3>1. SweepProgress'
      BY <2>1, <2>3 DEF SweepTo, SweepProgress
    <3> QED
      BY <1>3, <2>1, <3>1, OthersProgress, TuplesKept
  <2>4. CASE SweepOn(todo \ {s}, verdict)
    <3>1. /\ verdict' \in {"unseen", verdict}
          /\ sweep' \in {"list", "erase", "idle"}
          /\ sweep' = "erase" => todo' = Stores /\ verdict' = "orphan"
      BY <2>4, SweepOnTypes DEF TypeOK
    <3>2. SweepProgress'
      BY <2>1, <3>1 DEF SweepProgress, ErasedIn
    <3> QED
      BY <1>3, <2>1, <3>2, OthersProgress, TuplesKept
  <2> QED
    BY <1>5, <2>2, <2>3, <2>4 DEF ListSubjects
<1>6. CASE LookupIdentity
  <2>1. UNCHANGED <<row, tuples, kratos, erase, eraseFound>>
    BY <1>6 DEF LookupIdentity
  <2>2. CASE SweepFails
    BY <1>1, <1>2, <1>3, <2>1, <2>2, OthersProgress, TuplesKept
  <2>3. ASSUME NEW known \in {"kept", "orphan"}, SweepOn(todo, known),
               known = "orphan" => ~ kratos
        PROVE  SweepProgress'
    <3>1. /\ verdict' \in {"unseen", known}
          /\ sweep' \in {"list", "erase", "idle"}
          /\ sweep' = "erase" => todo' = Stores /\ verdict' = "orphan"
      BY <2>3, SweepOnTypes DEF TypeOK
    <3> QED
      BY <2>1, <2>3, <3>1 DEF SweepProgress, ErasedIn
  <2>4. CASE SweepOn(todo, IF kratos THEN "kept" ELSE "orphan")
    <3>1. SweepProgress'
      BY <2>3, <2>4
    <3> QED
      BY <1>3, <2>1, <3>1, OthersProgress, TuplesKept
  <2> QED
    BY <1>6, <2>2, <2>4 DEF LookupIdentity
<1>7. ASSUME NEW s \in Stores, SweepStore(s)
      PROVE  Stands /\ EraseProgress' /\ SweepProgress' /\ TuplesGoLast'
  <2>1. UNCHANGED <<tuples, kratos, erase, eraseFound>>
    BY <1>7 DEF SweepStore
  <2>2. Stands
    <3>1. CASE EraseRows(s)
      BY <2>1, <3>1, StoreDone DEF Stands
    <3>2. CASE UNCHANGED row
      BY <2>1, <3>2 DEF Stands, OldWritten, ErasedIn
    <3> QED
      BY <1>7, <3>1, <3>2 DEF SweepStore
  <2>3. CASE SweepFails
    BY <1>1, <1>2, <2>1, <2>2, <2>3, OthersProgress, TuplesKept
  <2>4. CASE /\ EraseRows(s)
             /\ SweepTo(IF todo = {s} THEN "readTuples" ELSE "erase", todo \ {s}, verdict)
    <3>1. \A r \in Old : StoreOf[r] \notin todo' => row'[r] = "erased"
      BY <1>7, <2>4, RowsErased, ErasureConstants
         DEF SweepStore, SweepTo, SweepProgress, ErasedIn, OldWritten, TypeOK, Rows
    <3>2. ErasedIn(Stores \ todo)'
      BY <3>1 DEF ErasedIn
    <3>3. sweep' = "readTuples" => OldErased'
      BY <2>4, <3>1 DEF SweepTo, OldErased
    <3>4. verdict' = "orphan" /\ ~ kratos' /\ sweep' \in {"erase", "readTuples"}
      BY <1>7, <2>1, <2>4 DEF SweepStore, SweepTo, SweepProgress
    <3>5. SweepProgress'
      BY <3>2, <3>3, <3>4 DEF SweepProgress
    <3> QED
      BY <2>1, <2>2, <3>5, OthersProgress, TuplesKept
  <2> QED
    BY <1>7, <2>2, <2>3, <2>4 DEF SweepStore
<1>8. CASE SweepReadTuples
  <2>1. UNCHANGED <<row, tuples, kratos, erase, eraseFound>>
    BY <1>8 DEF SweepReadTuples
  <2>2. SweepProgress'
    BY <1>1, <1>2, <1>8, <2>1 DEF SweepReadTuples, SweepProgress, OldErased
  <2> QED
    BY <1>3, <2>1, <2>2, OthersProgress, TuplesKept
<1>9. CASE SweepDeleteTuples
  <2>1. UNCHANGED <<row, kratos, erase, eraseFound>> /\ tuples' \subseteq tuples
    BY <1>9 DEF SweepDeleteTuples
  <2>2. Stands
    BY <2>1 DEF Stands, OldWritten, ErasedIn
  <2>3. AtRest
    BY <1>2, <1>9, SweepMoves DEF SweepDeleteTuples, SweepIdle, SweepTo
  <2>4. OldErased' /\ ~ kratos'
    BY <1>9, <2>1 DEF SweepDeleteTuples, SweepProgress, OldErased
  <2> QED
    BY <1>1, <2>1, <2>2, <2>3, <2>4, OthersProgress DEF TuplesGoLast
<1> QED
  BY <1>4, <1>5, <1>6, <1>7, <1>8, <1>9 DEF SweepStep

-----------------------------------------------------------------------------
(* The properties *)

\* Every step of a writer, the console, EraseSubject and the pass preserves the
\* inductive invariant.
THEOREM Inductive == IInv /\ [Next]_vars => IInv'
<1> SUFFICES ASSUME IInv, [Next]_vars PROVE IInv'
  OBVIOUS
<1>1. TypeOK'
  BY TypeStep DEF IInv
<1>2. CASE UNCHANGED vars
  BY <1>1, <1>2 DEF IInv, OldWritten, EraseProgress, SweepProgress, TuplesGoLast, OldErased,
     ErasedIn, vars, dataVars, eraseVars, sweepVars
<1>3. CASE DeleteInConsole
  <2>1. UNCHANGED <<row, tuples, erase, eraseFound, sweep, todo, verdict>> /\ ~ kratos'
    BY <1>3 DEF DeleteInConsole, eraseVars, sweepVars
  <2>2. Stands
    BY <2>1 DEF IInv, Stands, OldWritten, ErasedIn
  <2> QED
    BY <1>1, <2>1, <2>2, OthersProgress, TuplesKept DEF IInv, Stands
<1> QED
  BY <1>1, <1>2, <1>3, OthersKeep, EraseKeeps, SweepKeeps DEF Next, WriterStep, IInv, Stands

\* The inductive invariant holds in every reachable state.
LEMMA Invariance == Spec => []IInv
BY InvInit, Inductive, PTL DEF Spec

\* Type correctness: every variable keeps the shape the code gives it.
THEOREM TypeCorrect == Spec => []TypeOK
<1>1. IInv => TypeOK
  BY DEF IInv
<1> QED
  BY <1>1, Invariance, PTL

\* No tuple of the subject goes before its rows and its identity are gone.
THEOREM TuplesGoLastHolds == Spec => []TuplesGoLast
<1>1. IInv => TuplesGoLast
  BY DEF IInv
<1> QED
  BY <1>1, Invariance, PTL

\* A run of EraseSubject that completed left nothing of what was there before it.
THEOREM CompletedErasureIsTotalHolds == Spec => []CompletedErasureIsTotal
<1>1. IInv => CompletedErasureIsTotal
  BY DEF IInv, EraseProgress, CompletedErasureIsTotal
<1> QED
  BY <1>1, Invariance, PTL

\* ApplyRetentionActivity erases nothing of an identity that exists.
THEOREM OnlyTheGoneAreSweptHolds == Spec => OnlyTheGoneAreSwept
<1> DEFINE Swept == (\E r \in Rows : row[r] = "named" /\ row'[r] = "erased") =>
                      ~ kratos \/ erase \in EraseSteps
<1>1. IInv /\ [Next]_vars => [Swept]_vars
  <2> SUFFICES ASSUME IInv, Next, NEW r \in Rows, row[r] = "named", row'[r] = "erased",
                      kratos
               PROVE  erase \in EraseSteps
    BY DEF vars
  <2>1. ASSUME NEW s \in Stores PROVE ~ SweepStore(s)
    BY <2>1 DEF SweepStore, IInv, SweepProgress
  <2>2. ASSUME NEW w \in Writers PROVE InsertRow(w) => row'[r] # "erased"
    BY <2>2 DEF InsertRow, IInv, TypeOK
  <2> QED
    BY <2>1, <2>2 DEF Next, WriterStep, StartWriter, GrantTuple, DeleteInConsole, StartErase,
       EraseStep, EraseService, EraseIdentity, ReadTuples, DeleteTuples, EraseSteps, StartSweep,
       SweepStep, ListSubjects, LookupIdentity, SweepReadTuples, SweepDeleteTuples, dataVars
<1> QED
  BY <1>1, Invariance, PTL DEF Spec, OnlyTheGoneAreSwept

-----------------------------------------------------------------------------
(* The work that the two have left *)

\* The calls that the attempts that are left can make, with those of the
\* activities that follow: EraseAuthzTuples reads and deletes, the others make
\* one call.
EraseLeft ==
  LET left == MaxAttempts - eraseTries IN
  IF      erase = "orgs"         THEN left + 5 * MaxAttempts
  ELSE IF erase = "orders"       THEN left + 4 * MaxAttempts
  ELSE IF erase = "analytics"    THEN left + 3 * MaxAttempts
  ELSE IF erase = "identity"     THEN left + 2 * MaxAttempts
  ELSE IF erase = "readTuples"   THEN 2 * left
  ELSE IF erase = "deleteTuples" THEN 2 * left - 1
  ELSE 0

\* The calls that an attempt of the pass can still make: a list and an erasure
\* of each of the three stores, one look at Kratos, and the tuples.
PassLeft ==
  LET stores == Cardinality(todo) IN
  IF      sweep = "list"
    THEN stores + (IF verdict = "unseen" THEN 1 ELSE 0) + 5
  ELSE IF sweep = "lookup"       THEN stores + 6
  ELSE IF sweep = "erase"        THEN stores + 2
  ELSE IF sweep = "readTuples"   THEN 2
  ELSE IF sweep = "deleteTuples" THEN 1
  ELSE 0

SweepLeft ==
  IF sweep = "idle" THEN 0 ELSE 9 * (MaxAttempts - 1 - sweepTries) + PassLeft

ErasureWork ==
  /\ EraseLeft \in 0 .. 6 * MaxAttempts
  /\ EraseLeft = 0 <=> erase \notin EraseSteps
  /\ SweepLeft \in 0 .. 9 * MaxAttempts
  /\ SweepLeft = 0 <=> sweep = "idle"

\* Each call of EraseSubject and of the pass leaves it less to do, and nothing
\* else gives one that runs more: the other one, a writer that inserts rows and
\* grants tuples behind it, or the console.
ErasureWorkRunsOut ==
  [][/\ erase \in EraseSteps => EraseLeft' <= EraseLeft
     /\ EraseStep => EraseLeft' < EraseLeft
     /\ sweep \in SweepSteps => SweepLeft' <= SweepLeft
     /\ SweepStep => SweepLeft' < SweepLeft]_vars

LEMMA StoresCounted ==
  ASSUME NEW S, S \subseteq Stores
  PROVE  /\ Cardinality(S) \in 0 .. 3
         /\ Cardinality(Stores) = 3
         /\ \A s \in S : Cardinality(S \ {s}) = Cardinality(S) - 1
<1>1. IsFiniteSet(Stores) /\ Cardinality(Stores) = 3
  <2>1. IsFiniteSet({}) /\ Cardinality({}) = 0
    BY FS_EmptySet
  <2>2. IsFiniteSet({"orgs"}) /\ Cardinality({"orgs"}) = 1
    BY FS_Singleton
  <2>3. /\ IsFiniteSet({"orgs"} \union {"orders"})
        /\ Cardinality({"orgs"} \union {"orders"}) = 2
    BY <2>2, FS_AddElement
  <2>4. /\ IsFiniteSet({"orgs"} \union {"orders"} \union {"analytics"})
        /\ Cardinality({"orgs"} \union {"orders"} \union {"analytics"}) = 3
    BY <2>3, FS_AddElement
  <2>5. Stores = {"orgs"} \union {"orders"} \union {"analytics"}
    BY DEF Stores
  <2> QED
    BY <2>4, <2>5
<1>2. IsFiniteSet(S) /\ Cardinality(S) <= 3
  BY <1>1, FS_Subset
<1>3. Cardinality(S) \in Nat
  BY <1>2, FS_CardinalityType
<1>4. \A s \in S : Cardinality(S \ {s}) = Cardinality(S) - 1
  BY <1>2, FS_RemoveElement
<1> QED
  BY <1>1, <1>2, <1>3, <1>4

PassBounded == PassLeft \in 0 .. 9 /\ (sweep \in SweepSteps => PassLeft # 0)

\* An attempt of the pass makes nine calls at most.
LEMMA PassLeftType == TypeOK => PassBounded
<1> SUFFICES ASSUME TypeOK PROVE PassBounded
  OBVIOUS
<1> DEFINE n == Cardinality(todo)
<1>1. n \in 0 .. 3
  BY StoresCounted DEF TypeOK
<1> HIDE DEF n
<1> QED
  BY <1>1 DEF PassBounded, PassLeft, SweepSteps, n

LEMMA WorkType == TypeOK => ErasureWork
<1> SUFFICES ASSUME TypeOK PROVE ErasureWork
  OBVIOUS
<1> DEFINE M == MaxAttempts
           t == eraseTries
           u == sweepTries
           p == PassLeft
<1>1. M \in Nat \ {0} /\ t \in 0 .. M - 1 /\ u \in 0 .. M - 1
  BY ErasureConstants DEF TypeOK
<1>2. /\ erase \in EraseSteps \union Ends \union {"none"}
      /\ sweep \in SweepSteps \union {"idle"}
  BY DEF TypeOK
<1>3. p \in 0 .. 9 /\ (sweep \in SweepSteps => p # 0)
  BY PassLeftType DEF PassBounded
<1> HIDE DEF M, t, u, p
<1>4. EraseLeft \in 0 .. 6 * M /\ (EraseLeft = 0 <=> erase \notin EraseSteps)
  BY <1>1, <1>2 DEF EraseLeft, EraseSteps, Stores, Ends, M, t
<1>5. SweepLeft \in 0 .. 9 * M /\ (SweepLeft = 0 <=> sweep = "idle")
  BY <1>1, <1>2, <1>3 DEF SweepLeft, SweepSteps, M, u, p
<1> QED
  BY <1>4, <1>5 DEF ErasureWork, M

\* An attempt of an activity that fails is one less.
EraseFails(step) ==
  erase' = step /\ eraseTries' = eraseTries + 1 /\ eraseTries + 1 < MaxAttempts

LEMMA EraseAttemptMoves ==
  ASSUME NEW step, EraseAttemptFailed(step)
  PROVE  EraseFails(step) \/ erase' = "failed"
BY DEF EraseAttemptFailed, EraseProceed, EraseFails

LEMMA EraseStepWork ==
  ASSUME TypeOK, EraseStep
  PROVE  EraseLeft' < EraseLeft /\ SweepLeft' = SweepLeft
<1> DEFINE M == MaxAttempts
           t == eraseTries
<1>1. M \in Nat \ {0} /\ t \in 0 .. M - 1
  BY ErasureConstants DEF TypeOK
<1>2. \/ erase \in Stores \union {"identity"} /\ EraseFails(erase)
      \/ /\ erase \in Stores \union {"identity"}
         /\ erase' = EraseAfter[erase] /\ eraseTries' = 0
      \/ erase = "readTuples" /\ EraseFails("readTuples")
      \/ erase = "readTuples" /\ erase' = "deleteTuples" /\ eraseTries' = t
      \/ erase = "deleteTuples" /\ EraseFails("readTuples")
      \/ erase \in EraseSteps /\ erase' \in Ends
  <2>1. ASSUME NEW s \in Stores, EraseService(s)
        PROVE  /\ erase = s
               /\ EraseFails(s) \/ erase' \in Ends
                    \/ (erase' = EraseAfter[s] /\ eraseTries' = 0)
    BY <2>1, EraseAttemptMoves DEF EraseService, EraseProceed, Ends
  <2>2. CASE EraseIdentity
    BY <2>2, EraseAttemptMoves DEF EraseIdentity, EraseProceed, EraseSteps, Ends
  <2>3. CASE ReadTuples
    BY <2>3, EraseAttemptMoves DEF ReadTuples, EraseSteps, Ends
  <2>4. CASE DeleteTuples
    BY <2>4, EraseAttemptMoves DEF DeleteTuples, EraseProceed, EraseAfter, EraseSteps, Ends
  <2> QED
    BY <2>1, <2>2, <2>3, <2>4 DEF EraseStep, EraseSteps
<1>3. UNCHANGED <<sweep, sweepTries, todo, verdict>>
  BY DEF EraseStep, EraseService, EraseIdentity, ReadTuples, DeleteTuples, sweepVars
<1>4. SweepLeft' = SweepLeft
  BY <1>3 DEF SweepLeft, PassLeft
<1> HIDE DEF M, t
<1>5. EraseLeft' < EraseLeft
  BY <1>1, <1>2 DEF EraseLeft, EraseFails, EraseAfter, EraseSteps, Stores, Ends, M, t
<1> QED
  BY <1>4, <1>5

\* A pass that starts over has used an attempt, and has all of the next one.
LEMMA SweepAttemptWork ==
  ASSUME TypeOK, TypeOK', sweep \in SweepSteps, SweepAttemptFailed
  PROVE  SweepLeft' < SweepLeft
<1> DEFINE M == MaxAttempts
           u == sweepTries
           p == PassLeft
           q == PassLeft'
<1>1. M \in Nat \ {0} /\ u \in 0 .. M - 1
  BY ErasureConstants DEF TypeOK
<1>2. p \in 0 .. 9 /\ p # 0
  BY PassLeftType DEF PassBounded
<1>3. q \in 0 .. 9
  <2>1. PassBounded'
    BY PassLeftType, PTL
  <2> QED
    BY <2>1 DEF PassBounded
<1>4. \/ sweep' = "list" /\ sweepTries' = u + 1 /\ u + 1 < M
      \/ sweep' = "idle"
  BY DEF SweepAttemptFailed, SweepIdle, SweepTo
<1> HIDE DEF M, u, p, q
<1> QED
  BY <1>1, <1>2, <1>3, <1>4 DEF SweepLeft, SweepSteps, M, u, p, q

\* Within an attempt every call leaves one less.
LEMMA SweepCallWork ==
  ASSUME TypeOK, sweep \in SweepSteps, sweepTries' = sweepTries,
         PassLeft' < PassLeft, PassLeft' \in Nat
  PROVE  SweepLeft' < SweepLeft
<1> DEFINE M == MaxAttempts
           u == sweepTries
           p == PassLeft
           q == PassLeft'
<1>1. M \in Nat \ {0} /\ u \in 0 .. M - 1
  BY ErasureConstants DEF TypeOK
<1>2. p \in 0 .. 9 /\ q \in Nat /\ q < p /\ sweepTries' = u
  BY PassLeftType DEF PassBounded
<1>3. SweepLeft = 9 * (M - 1 - u) + p
  BY DEF SweepLeft, SweepSteps
<1>4. SweepLeft' \in {0, 9 * (M - 1 - u) + q}
  BY DEF SweepLeft
<1> HIDE DEF M, u, p, q
<1> QED
  BY <1>1, <1>2, <1>3, <1>4

\* Where the loop goes on to from the stores that are left.
LEMMA SweepOnWork ==
  ASSUME TypeOK, NEW left \in SUBSET Stores, NEW known \in {"unseen", "kept", "orphan"},
         SweepOn(left, known)
  PROVE  /\ PassLeft' \in Nat
         /\ PassLeft' <= Cardinality(left) + (IF known = "unseen" THEN 1 ELSE 0) + 5
<1> DEFINE n == Cardinality(left)
<1>1. n \in 0 .. 3
  BY StoresCounted
<1>2. Cardinality(Stores) = 3
  BY StoresCounted
<1>3. CASE sweep' = "list" /\ todo' = left /\ verdict' = known
  <2> HIDE DEF n
  <2> QED
    BY <1>1, <1>3 DEF PassLeft, n
<1>4. CASE sweep' = "erase" /\ todo' = Stores
  <2> HIDE DEF n
  <2> QED
    BY <1>1, <1>2, <1>4 DEF PassLeft, n
<1>5. CASE sweep' = "idle"
  <2> HIDE DEF n
  <2> QED
    BY <1>1, <1>5 DEF PassLeft, n
<1> QED
  BY <1>3, <1>4, <1>5 DEF SweepOn, SweepIdle, SweepTo

LEMMA SweepStepWork ==
  ASSUME TypeOK, TypeOK', SweepStep
  PROVE  SweepLeft' < SweepLeft /\ EraseLeft' = EraseLeft
<1> DEFINE n == Cardinality(todo)
<1>1. n \in 0 .. 3 /\ todo \in SUBSET Stores /\ verdict \in {"unseen", "kept", "orphan"}
  BY StoresCounted DEF TypeOK
<1>2. ASSUME NEW s \in Stores, ListSubjects(s), ~ SweepAttemptFailed
      PROVE  SweepLeft' < SweepLeft
  <2>1. sweep = "list" /\ sweepTries' = sweepTries /\ s \in todo
    BY <1>2 DEF ListSubjects, SweepFails
  <2>2. Cardinality(todo \ {s}) = n - 1
    BY <1>1, <2>1, StoresCounted
  <2>3. CASE verdict = "unseen" /\ SweepTo("lookup", todo \ {s}, verdict)
    <3>1. sweep' = "lookup" /\ todo' = todo \ {s}
      BY <2>3 DEF SweepTo
    <3>2. PassLeft' = n + 5 /\ PassLeft = n + 6
      BY <1>1, <2>1, <2>2, <2>3, <3>1 DEF PassLeft
    <3> QED
      BY <1>1, <2>1, <3>2, SweepCallWork DEF SweepSteps
  <2>4. CASE SweepOn(todo \ {s}, verdict)
    <3>1. /\ PassLeft' \in Nat
          /\ PassLeft' <= n - 1 + (IF verdict = "unseen" THEN 1 ELSE 0) + 5
      BY <1>1, <2>2, <2>4, SweepOnWork
    <3>2. PassLeft = n + (IF verdict = "unseen" THEN 1 ELSE 0) + 5
      BY <2>1 DEF PassLeft
    <3>3. PassLeft' < PassLeft
      <4> HIDE DEF n
      <4> QED
        BY <1>1, <3>1, <3>2
    <3> QED
      BY <2>1, <3>1, <3>3, SweepCallWork DEF SweepSteps
  <2> QED
    BY <1>2, <2>3, <2>4 DEF ListSubjects, SweepFails
<1>3. ASSUME LookupIdentity, ~ SweepAttemptFailed
      PROVE  SweepLeft' < SweepLeft
  <2>1. PICK known \in {"kept", "orphan"} :
          sweep = "lookup" /\ sweepTries' = sweepTries /\ SweepOn(todo, known)
    BY <1>3 DEF LookupIdentity, SweepFails
  <2>2. PassLeft' \in Nat /\ PassLeft' <= n + 5
    <3>1. /\ PassLeft' \in Nat
          /\ PassLeft' <= n + (IF known = "unseen" THEN 1 ELSE 0) + 5
      BY <1>1, <2>1, SweepOnWork
    <3> HIDE DEF n
    <3> QED
      BY <1>1, <3>1
  <2>3. PassLeft = n + 6
    BY <2>1 DEF PassLeft
  <2>4. PassLeft' < PassLeft
    <3> HIDE DEF n
    <3> QED
      BY <1>1, <2>2, <2>3
  <2> QED
    BY <2>1, <2>2, <2>4, SweepCallWork DEF SweepSteps
<1>4. ASSUME NEW s \in Stores, SweepStore(s), ~ SweepAttemptFailed
      PROVE  SweepLeft' < SweepLeft
  <2>1. sweep = "erase" /\ sweepTries' = sweepTries /\ s \in todo /\ todo' = todo \ {s}
        /\ sweep' \in {"readTuples", "erase"} /\ (sweep' = "readTuples" => todo = {s})
    BY <1>4 DEF SweepStore, SweepFails, SweepTo
  <2>2. Cardinality(todo') = n - 1 /\ n - 1 \in 0 .. 3
    <3>1. Cardinality(todo \ {s}) \in 0 .. 3 /\ Cardinality(todo \ {s}) = n - 1
      BY <1>1, <2>1, StoresCounted
    <3> QED
      BY <2>1, <3>1
  <2>3. PassLeft = n + 2 /\ PassLeft' \in {n + 1, 2}
    BY <1>1, <2>1, <2>2 DEF PassLeft
  <2>4. PassLeft' < PassLeft /\ PassLeft' \in Nat
    <3> HIDE DEF n
    <3> QED
      BY <1>1, <2>2, <2>3
  <2> QED
    BY <2>1, <2>4, SweepCallWork DEF SweepSteps
<1>5. ASSUME SweepReadTuples \/ SweepDeleteTuples, ~ SweepAttemptFailed
      PROVE  SweepLeft' < SweepLeft
  <2>1. /\ sweepTries' = sweepTries
        /\ \/ sweep = "readTuples" /\ sweep' = "deleteTuples"
           \/ sweep = "deleteTuples" /\ sweep' = "idle"
    BY <1>5 DEF SweepReadTuples, SweepDeleteTuples, SweepFails, SweepIdle, SweepTo
  <2>2. PassLeft' < PassLeft /\ PassLeft' \in Nat
    BY <2>1 DEF PassLeft
  <2> QED
    BY <2>1, <2>2, SweepCallWork DEF SweepSteps
<1>6. sweep \in SweepSteps /\ UNCHANGED <<erase, eraseTries>>
  BY DEF SweepStep, ListSubjects, SweepStore, LookupIdentity, SweepReadTuples,
         SweepDeleteTuples, SweepSteps, eraseVars
<1>7. CASE SweepAttemptFailed
  BY <1>6, <1>7, SweepAttemptWork DEF EraseLeft
<1>8. CASE ~ SweepAttemptFailed
  BY <1>2, <1>3, <1>4, <1>5, <1>6, <1>8 DEF SweepStep, EraseLeft
<1> QED
  BY <1>7, <1>8

\* Whatever is no step of either leaves what runs where it is.
LEMMA OthersKeepWork ==
  ASSUME [Next]_vars
  PROVE  /\ erase \in EraseSteps /\ ~ EraseStep => EraseLeft' = EraseLeft
         /\ sweep \in SweepSteps /\ ~ SweepStep => SweepLeft' = SweepLeft
<1>1. erase \in EraseSteps /\ ~ EraseStep => UNCHANGED <<erase, eraseTries>>
  BY DEF Next, StartWriter, WriterStep, InsertRow, GrantTuple, DeleteInConsole, StartErase,
         StartSweep, SweepStep, ListSubjects, SweepStore, LookupIdentity, SweepReadTuples,
         SweepDeleteTuples, eraseVars, vars
<1>2. sweep \in SweepSteps /\ ~ SweepStep => UNCHANGED <<sweep, sweepTries, todo, verdict>>
  BY DEF Next, StartWriter, WriterStep, InsertRow, GrantTuple, DeleteInConsole, StartErase,
         StartSweep, EraseStep, EraseService, EraseIdentity, ReadTuples, DeleteTuples,
         SweepSteps, sweepVars, vars
<1> QED
  BY <1>1, <1>2 DEF EraseLeft, SweepLeft, PassLeft

\* What makes an erasure and a pass that their workers keep running end:
\* EraseSubject makes no more than 6 * MaxAttempts calls and ApplyRetention no
\* more than 9 * MaxAttempts, whatever fails and whatever is written behind
\* them, and each has ended when none is left.
THEOREM ErasureWorkRunsOutHolds == Spec => []ErasureWork /\ ErasureWorkRunsOut
<1>1. IInv => ErasureWork
  BY WorkType DEF IInv
<1>2. IInv /\ [Next]_vars =>
        [/\ erase \in EraseSteps => EraseLeft' <= EraseLeft
         /\ EraseStep => EraseLeft' < EraseLeft
         /\ sweep \in SweepSteps => SweepLeft' <= SweepLeft
         /\ SweepStep => SweepLeft' < SweepLeft]_vars
  <2> SUFFICES ASSUME IInv, [Next]_vars
               PROVE  /\ erase \in EraseSteps => EraseLeft' <= EraseLeft
                      /\ EraseStep => EraseLeft' < EraseLeft
                      /\ sweep \in SweepSteps => SweepLeft' <= SweepLeft
                      /\ SweepStep => SweepLeft' < SweepLeft
    OBVIOUS
  <2>1. TypeOK /\ TypeOK'
    BY Inductive DEF IInv
  <2>2. ErasureWork /\ ErasureWork'
    BY <2>1, WorkType, PTL
  <2>3. /\ EraseLeft \in Nat /\ EraseLeft' \in Nat
        /\ SweepLeft \in Nat /\ SweepLeft' \in Nat
    <3>1. 6 * MaxAttempts \in Nat /\ 9 * MaxAttempts \in Nat
      BY ErasureConstants
    <3> QED
      BY <2>2, <3>1 DEF ErasureWork
  <2>4. EraseStep => EraseLeft' < EraseLeft
    BY <2>1, EraseStepWork
  <2>5. SweepStep => SweepLeft' < SweepLeft
    BY <2>1, SweepStepWork
  <2> QED
    BY <2>3, <2>4, <2>5, OthersKeepWork
<1> QED
  BY <1>1, <1>2, Invariance, PTL DEF Spec, ErasureWorkRunsOut
=============================================================================
