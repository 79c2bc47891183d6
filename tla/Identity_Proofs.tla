-------------------------- MODULE Identity_Proofs ---------------------------
(***************************************************************************)
(* Theorems about Identity, for any number of deliveries, edits, bodies,   *)
(* organisations and attempts.                                             *)
(***************************************************************************)
EXTENDS Identity, TLAPS

-----------------------------------------------------------------------------
(* The inductive invariant *)

Granted(o) == o # NoOrg => o \in orgAdmins /\ org[o] # "absent"

\* Every copy of the record that someone is about to write back names an
\* organisation that is granted, so writing an old one back is harmless to it.
CopiesGranted ==
  /\ Granted(kratos.org)
  /\ Granted(setopSeen)
  /\ \A e \in Edits : Granted(seen[e].org)

\* What the step of RegisterUser says of the organisation it settled on.
RegProgress ==
  /\ reg \in {"grant", "read", "patch", "completed"} =>
       regOrg \in OrgIds /\ org[regOrg] # "absent"
  /\ reg \in {"read", "patch", "completed"} => regOrg \in orgAdmins

SetopProgress == setop = "completed" => operatorTuple = target

IInv == TypeOK /\ OnePersonalOrg /\ CopiesGranted /\ RegProgress /\ SetopProgress
-----------------------------------------------------------------------------
(* How an attempt moves the two workflows *)

Counts == 0 .. MaxAttempts - 1

\* An activity starts with no failed attempt.
LEMMA ZeroCounts == 0 \in Counts
BY IdentityConstants DEF Counts

\* An attempt leaves RegisterUser at an activity, or fails it.
LEMMA RegMoves ==
  ASSUME TypeOK, NEW step \in RegSteps
  PROVE  /\ RegAttemptFailed(step) => reg' \in {step, "failed"} /\ regTries' \in Counts
         /\ \A next : RegProceed(next) => reg' = next /\ regTries' \in Counts
<1>1. RegAttemptFailed(step) => reg' \in {step, "failed"} /\ regTries' \in Counts
  <2>1. CASE regTries + 1 < MaxAttempts
    <3>1. regTries + 1 \in Counts
      BY <2>1, IdentityConstants DEF TypeOK, Counts
    <3> QED
      BY <2>1, <3>1 DEF RegAttemptFailed
  <2>2. CASE ~ (regTries + 1 < MaxAttempts)
    BY <2>2, ZeroCounts DEF RegAttemptFailed, RegProceed
  <2> QED
    BY <2>1, <2>2
<1>2. \A next : RegProceed(next) => reg' = next /\ regTries' \in Counts
  BY ZeroCounts DEF RegProceed
<1> QED
  BY <1>1, <1>2

\* Whoever waits is answered or refused when the run closes.
LEMMA SetopMoves ==
  ASSUME TypeOK, NEW step \in SetopSteps
  PROVE  /\ SetopAttemptFailed(step) =>
              /\ setop' \in {step, "failed"} /\ setopTries' \in Counts
              /\ edit' \in [Edits -> EditSteps]
         /\ \A next : SetopProceed(next) =>
              /\ setop' = next /\ setopTries' \in Counts
              /\ edit' \in [Edits -> EditSteps]
<1>1. \A next : SetopProceed(next) =>
        setop' = next /\ setopTries' \in Counts /\ edit' \in [Edits -> EditSteps]
  BY ZeroCounts DEF SetopProceed, TypeOK, EditSteps
<1>2. SetopAttemptFailed(step) =>
        /\ setop' \in {step, "failed"} /\ setopTries' \in Counts
        /\ edit' \in [Edits -> EditSteps]
  <2>1. CASE setopTries + 1 < MaxAttempts
    <3>1. setopTries + 1 \in Counts
      BY <2>1, IdentityConstants DEF TypeOK, Counts
    <3> QED
      BY <2>1, <3>1 DEF SetopAttemptFailed, TypeOK
  <2>2. CASE ~ (setopTries + 1 < MaxAttempts)
    BY <2>2, <1>1 DEF SetopAttemptFailed
  <2> QED
    BY <2>1, <2>2
<1> QED
  BY <1>1, <1>2
-----------------------------------------------------------------------------
(* Type correctness *)

\* The first state is well typed.
LEMMA TypeInit == Init => TypeOK
<1> SUFFICES ASSUME Init PROVE TypeOK
  OBVIOUS
<1>1. NewRecord \in Records
  BY IdentityConstants DEF NewRecord, Records
<1>2. asked \in [Edits -> [name : SUBSET Names, operator : SUBSET BOOLEAN]]
  BY DEF Init
<1>3. seen \in [Edits -> Records] /\ edit \in [Edits -> EditSteps]
  BY <1>1 DEF Init, EditSteps
<1>4. regTries \in 0 .. MaxAttempts - 1 /\ setopTries \in 0 .. MaxAttempts - 1
  BY ZeroCounts DEF Counts, Init
<1> QED
  BY <1>1, <1>2, <1>3, <1>4 DEF Init, TypeOK

\* Metadata written whole over a record is a record.
LEMMA PatchedIsRecord ==
  ASSUME TypeOK, NEW o \in OrgIds \union {NoOrg}, NEW flag \in BOOLEAN
  PROVE  WithMetadata(o, flag) \in Records
BY DEF TypeOK, Records, WithMetadata

\* The steps of RegisterUser keep every variable well typed.
LEMMA TypeRegister == TypeOK /\ RegProgress /\ RegisterStep => TypeOK'
<1> SUFFICES ASSUME TypeOK, RegProgress, RegisterStep PROVE TypeOK'
  OBVIOUS
<1> USE DEF RegSteps, Ends, Counts
<1>1. CASE CreatePersonalOrg
  <2>1. /\ reg' \in {"create", "grant", "failed"} /\ regTries' \in Counts
        /\ regOrg' \in OrgIds \union {NoOrg}
        /\ org' \in [OrgIds -> {"absent", "personal", "renamed", "namedBack", "deleted"}]
    BY <1>1, RegMoves DEF CreatePersonalOrg, PersonalOrgs, TypeOK
  <2> QED
    BY <1>1, <2>1 DEF CreatePersonalOrg, TypeOK, setopVars, editVars
<1>2. CASE GrantOrgAdmin
  <2>1. reg' \in {"read", "grant", "failed"} /\ regTries' \in Counts
    BY <1>2, RegMoves DEF GrantOrgAdmin
  <2>2. orgAdmins' \subseteq OrgIds
    BY <1>2 DEF GrantOrgAdmin, TypeOK, RegProgress
  <2> QED
    BY <1>2, <2>1, <2>2 DEF GrantOrgAdmin, TypeOK, setopVars, editVars
<1>3. CASE ReadMetadata
  <2>1. reg' \in {"completed", "patch", "read", "failed"} /\ regTries' \in Counts
    BY <1>3, RegMoves DEF ReadMetadata, TypeOK
  <2>2. regSeen' \in BOOLEAN
    BY <1>3 DEF ReadMetadata, TypeOK, Records
  <2> QED
    BY <1>3, <2>1, <2>2 DEF ReadMetadata, TypeOK, orgVars, setopVars, editVars
<1>4. CASE PatchMetadata
  <2>1. reg' \in {"completed", "read", "failed"} /\ regTries' \in Counts
    BY <1>4, RegMoves DEF PatchMetadata
  <2>2. kratos' \in Records
    <3>1. WithMetadata(regOrg, regSeen) \in Records
      BY PatchedIsRecord DEF TypeOK
    <3>2. CASE kratos' = WithMetadata(regOrg, regSeen)
      BY <3>1, <3>2
    <3>3. CASE UNCHANGED kratos
      BY <3>3 DEF TypeOK
    <3> QED
      BY <1>4, <3>2, <3>3 DEF PatchMetadata
  <2> QED
    BY <1>4, <2>1, <2>2 DEF PatchMetadata, TypeOK, orgVars, setopVars, editVars
<1> QED
  BY <1>1, <1>2, <1>3, <1>4 DEF RegisterStep

\* The steps of SetOperator keep every variable well typed.
LEMMA TypeSetop == TypeOK /\ SetOperatorStep => TypeOK'
<1> SUFFICES ASSUME TypeOK, SetOperatorStep PROVE TypeOK'
  OBVIOUS
<1> USE DEF SetopSteps, Ends, Counts
<1>1. CASE ReadFlag
  <2>1. /\ setop' \in {"patchFlag", "readFlag", "failed"} /\ setopTries' \in Counts
        /\ edit' \in [Edits -> EditSteps]
    BY <1>1, SetopMoves DEF ReadFlag, TypeOK
  <2>2. setopSeen' \in OrgIds \union {NoOrg}
    BY <1>1 DEF ReadFlag, TypeOK, Records
  <2> QED
    BY <1>1, <2>1, <2>2 DEF ReadFlag, TypeOK, orgVars, regVars
<1>2. CASE PatchFlag
  <2>1. /\ setop' \in {"grant", "readFlag", "failed"} /\ setopTries' \in Counts
        /\ edit' \in [Edits -> EditSteps]
    BY <1>2, SetopMoves DEF PatchFlag
  <2>2. kratos' \in Records
    <3>1. WithMetadata(setopSeen, target) \in Records
      BY PatchedIsRecord DEF TypeOK
    <3>2. CASE kratos' = WithMetadata(setopSeen, target)
      BY <3>1, <3>2
    <3>3. CASE UNCHANGED kratos
      BY <3>3 DEF TypeOK
    <3> QED
      BY <1>2, <3>2, <3>3 DEF PatchFlag
  <2> QED
    BY <1>2, <2>1, <2>2 DEF PatchFlag, TypeOK, orgVars, regVars
<1>3. CASE SetOperatorGrant
  <2>1. /\ setop' \in {"completed", "grant", "failed"} /\ setopTries' \in Counts
        /\ edit' \in [Edits -> EditSteps]
    BY <1>3, SetopMoves DEF SetOperatorGrant
  <2>2. operatorTuple' \in BOOLEAN
    BY <1>3 DEF SetOperatorGrant, TypeOK
  <2> QED
    BY <1>3, <2>1, <2>2 DEF SetOperatorGrant, TypeOK, orgVars, regVars
<1> QED
  BY <1>1, <1>2, <1>3 DEF SetOperatorStep

\* The step an edit goes to is one of its steps.
LEMMA EditGoesOn ==
  \A req, rec : AfterRead(req, rec) \in EditSteps /\ AfterName(req, rec) \in EditSteps
BY DEF AfterRead, AfterName, EditSteps

\* The steps of UpdateIdentity keep every variable well typed.
LEMMA TypeEdit ==
  ASSUME TypeOK, NEW e \in Edits
  PROVE  /\ \A req \in Requests : ReadIdentity(e, req) => TypeOK'
         /\ PutIdentity(e) \/ StartSetOperator(e) \/ StopWaiting(e) => TypeOK'
<1> USE DEF TypeOK, EditSteps
<1>1. ASSUME NEW req \in Requests, ReadIdentity(e, req) PROVE TypeOK'
  <2>1. req \in [name : SUBSET Names, operator : SUBSET BOOLEAN]
    BY IdentityConstants
  <2>2. edit' \in [Edits -> EditSteps]
    BY <1>1, EditGoesOn DEF ReadIdentity, Refuse
  <2>3. /\ asked' \in [Edits -> [name : SUBSET Names, operator : SUBSET BOOLEAN]]
        /\ seen' \in [Edits -> Records]
    BY <1>1, <2>1 DEF ReadIdentity
  <2> QED
    BY <1>1, <2>2, <2>3 DEF ReadIdentity, orgVars, regVars, setopVars
<1>2. CASE PutIdentity(e)
  <2>1. NewRecord \in Records
    BY IdentityConstants DEF NewRecord, Records
  <2>2. \A n \in asked[e].name : n \in Names
    OBVIOUS
  <2>3. \A n \in Names : [seen[e] EXCEPT !.name = n] \in Records
    BY DEF Records
  <2>4. edit' \in [Edits -> EditSteps]
    BY <1>2, EditGoesOn DEF PutIdentity, Refuse
  <2>5. kratos' \in Records
    <3>1. \/ UNCHANGED kratos
          \/ \E n \in asked[e].name : kratos' = [seen[e] EXCEPT !.name = n]
      BY <1>2 DEF PutIdentity
    <3>2. CASE UNCHANGED kratos
      BY <3>2
    <3>3. CASE \E n \in asked[e].name : kratos' = [seen[e] EXCEPT !.name = n]
      <4>1. PICK n \in asked[e].name : kratos' = [seen[e] EXCEPT !.name = n]
        BY <3>3
      <4> QED
        BY <4>1, <2>2, <2>3
    <3> QED
      BY <3>1, <3>2, <3>3
  <2>6. seen' \in [Edits -> Records]
    BY <1>2, <2>1 DEF PutIdentity
  <2> QED
    BY <1>2, <2>4, <2>5, <2>6 DEF PutIdentity, orgVars, regVars, setopVars
<1>3. CASE StartSetOperator(e)
  <2>1. /\ setop' \in SetopSteps \union Ends \union {"none"}
        /\ edit' \in [Edits -> EditSteps]
    BY <1>3 DEF StartSetOperator, Refuse, SetopSteps
  <2>2. setopTries' \in 0 .. MaxAttempts - 1
    BY <1>3, ZeroCounts DEF StartSetOperator, Counts
  <2>3. target' \in BOOLEAN
    BY <1>3 DEF StartSetOperator
  <2> QED
    BY <1>3, <2>1, <2>2, <2>3 DEF StartSetOperator, orgVars, regVars
<1>4. CASE StopWaiting(e)
  BY <1>4 DEF StopWaiting, Refuse, orgVars, regVars, setopVars
<1> QED
  BY <1>1, <1>2, <1>3, <1>4

\* All steps keep every variable well typed.
LEMMA TypeStep == TypeOK /\ RegProgress /\ [Next]_vars => TypeOK'
<1> SUFFICES ASSUME TypeOK, RegProgress, [Next]_vars PROVE TypeOK'
  OBVIOUS
<1>1. ASSUME NEW d \in Deliveries, OnIdentityCreated(d) PROVE TypeOK'
  BY <1>1, ZeroCounts
  DEF OnIdentityCreated, TypeOK, RegSteps, Counts, orgVars, setopVars, editVars
<1>2. ASSUME NEW o \in OrgIds, UpdateOrg(o) \/ DeleteOrg(o) PROVE TypeOK'
  <2>1. org' \in [OrgIds -> {"absent", "personal", "renamed", "namedBack", "deleted"}]
    BY <1>2 DEF UpdateOrg, DeleteOrg, TypeOK
  <2> QED
    BY <1>2, <2>1 DEF UpdateOrg, DeleteOrg, TypeOK, regVars, setopVars, editVars
<1>3. CASE UNCHANGED vars
  BY <1>3 DEF TypeOK, vars, orgVars, regVars, setopVars, editVars
<1> QED
  BY <1>1, <1>2, <1>3, TypeRegister, TypeSetop, TypeEdit DEF Next
-----------------------------------------------------------------------------
(* The inductive invariant holds *)

\* A new identity satisfies it.
LEMMA InvInit == Init => IInv
<1> SUFFICES ASSUME Init PROVE IInv
  OBVIOUS
<1>1. TypeOK
  BY TypeInit
<1>2. OnePersonalOrg
  BY DEF Init, OnePersonalOrg
<1>3. CopiesGranted /\ RegProgress /\ SetopProgress
  BY DEF Init, CopiesGranted, Granted, NewRecord, RegProgress, SetopProgress
<1> QED
  BY <1>1, <1>2, <1>3 DEF IInv

\* Organisations and tuples are never taken back, so what is granted stays so.
Grows == /\ orgAdmins \subseteq orgAdmins'
         /\ \A o \in OrgIds : org[o] # "absent" => org'[o] # "absent"

\* The organisations a step leaves alone, and those it creates or names.
LEMMA OrgsGrow == TypeOK /\ RegProgress /\ [Next]_vars => Grows
<1> SUFFICES ASSUME TypeOK, RegProgress, [Next]_vars PROVE Grows
  OBVIOUS
<1> USE DEF TypeOK, Grows
<1>1. CASE RegisterStep
  BY <1>1 DEF RegisterStep, CreatePersonalOrg, GrantOrgAdmin, ReadMetadata, PatchMetadata,
              orgVars
<1>2. ASSUME NEW o \in OrgIds, UpdateOrg(o) \/ DeleteOrg(o) PROVE Grows
  BY <1>2 DEF UpdateOrg, DeleteOrg
<1>3. CASE UNCHANGED orgVars
  BY <1>3 DEF orgVars
<1>4. SetOperatorStep => UNCHANGED orgVars
  BY DEF SetOperatorStep, ReadFlag, PatchFlag, SetOperatorGrant
<1>5. \A e \in Edits :
        /\ PutIdentity(e) \/ StartSetOperator(e) \/ StopWaiting(e) => UNCHANGED orgVars
        /\ \A req \in Requests : ReadIdentity(e, req) => UNCHANGED orgVars
  BY DEF PutIdentity, StartSetOperator, StopWaiting, ReadIdentity
<1>6. \A d \in Deliveries : OnIdentityCreated(d) => UNCHANGED orgVars
  BY DEF OnIdentityCreated
<1> QED
  BY <1>1, <1>2, <1>3, <1>4, <1>5, <1>6 DEF Next, vars

\* RegisterUser: an organisation is created only when none has the default
\* name, and the record is written only after the tuple.
LEMMA RegisterKeeps ==
  ASSUME IInv, RegisterStep, TypeOK', Grows
  PROVE  OnePersonalOrg' /\ CopiesGranted' /\ RegProgress' /\ SetopProgress'
<1> USE DEF IInv, RegSteps
<1>1. CASE CreatePersonalOrg
  <2>1. UNCHANGED <<orgAdmins, kratos, seen, setopSeen, setop, operatorTuple, target>>
    BY <1>1 DEF CreatePersonalOrg, setopVars, editVars
  <2>2. reg' \in {"create", "grant", "failed"}
    BY <1>1, RegMoves DEF CreatePersonalOrg
  <2>3. OnePersonalOrg'
    BY <1>1 DEF CreatePersonalOrg, OnePersonalOrg, PersonalOrgs, TypeOK
  <2>4. reg' = "grant" => regOrg' \in OrgIds /\ org'[regOrg'] # "absent"
    BY <1>1, RegMoves DEF CreatePersonalOrg, PersonalOrgs, TypeOK
  <2>5. CopiesGranted'
    BY <2>1 DEF CopiesGranted, Granted, Grows, TypeOK, Records
  <2> QED
    BY <2>1, <2>2, <2>3, <2>4, <2>5 DEF RegProgress, SetopProgress
<1>2. CASE GrantOrgAdmin
  <2>1. UNCHANGED <<org, kratos, seen, setopSeen, regOrg, setop, operatorTuple, target>>
    BY <1>2 DEF GrantOrgAdmin, setopVars, editVars
  <2>2. /\ reg' \in {"read", "grant", "failed"}
        /\ reg' = "read" => regOrg \in orgAdmins'
    BY <1>2, RegMoves DEF GrantOrgAdmin
  <2>3. CopiesGranted'
    BY <2>1 DEF CopiesGranted, Granted, Grows
  <2> QED
    BY <1>2, <2>1, <2>2, <2>3
    DEF GrantOrgAdmin, OnePersonalOrg, RegProgress, SetopProgress
<1>3. CASE ReadMetadata
  <2>1. /\ reg' \in {"completed", "patch", "read", "failed"}
        /\ UNCHANGED <<org, orgAdmins, kratos, seen, setopSeen, regOrg, setop,
                       operatorTuple, target>>
    BY <1>3, RegMoves DEF ReadMetadata, orgVars, setopVars, editVars
  <2> QED
    BY <1>3, <2>1
    DEF ReadMetadata, OnePersonalOrg, CopiesGranted, Granted, RegProgress, SetopProgress
<1>4. CASE PatchMetadata
  <2>1. /\ reg' \in {"completed", "read", "failed"}
        /\ UNCHANGED <<org, orgAdmins, seen, setopSeen, regOrg, setop,
                       operatorTuple, target>>
    BY <1>4, RegMoves DEF PatchMetadata, orgVars, setopVars, editVars
  <2>2. kratos'.org \in {kratos.org, regOrg}
    BY <1>4 DEF PatchMetadata, WithMetadata
  <2>3. Granted(regOrg)
    BY <1>4 DEF PatchMetadata, RegProgress, Granted
  <2>4. CopiesGranted'
    BY <2>1, <2>2, <2>3 DEF CopiesGranted, Granted
  <2> QED
    BY <1>4, <2>1, <2>4 DEF PatchMetadata, OnePersonalOrg, RegProgress, SetopProgress
<1> QED
  BY <1>1, <1>2, <1>3, <1>4 DEF RegisterStep

\* SetOperator: what it puts back is what it read, and it completes only after
\* the tuple's write.
LEMMA SetopKeeps ==
  ASSUME IInv, SetOperatorStep
  PROVE  OnePersonalOrg' /\ CopiesGranted' /\ RegProgress' /\ SetopProgress'
<1> USE DEF IInv, SetopSteps
<1>0. UNCHANGED <<org, orgAdmins, reg, regOrg, seen, target>>
  BY DEF SetOperatorStep, ReadFlag, PatchFlag, SetOperatorGrant, orgVars, regVars
<1>1. OnePersonalOrg' /\ RegProgress'
  BY <1>0 DEF OnePersonalOrg, RegProgress
<1>2. CASE ReadFlag
  <2>1. setop' \in {"patchFlag", "readFlag", "failed"}
    BY <1>2, SetopMoves DEF ReadFlag
  <2>2. kratos' = kratos /\ setopSeen' \in {kratos.org, setopSeen}
    BY <1>2 DEF ReadFlag
  <2> QED
    BY <1>0, <1>1, <2>1, <2>2 DEF CopiesGranted, Granted, SetopProgress
<1>3. CASE PatchFlag
  <2>1. setop' \in {"grant", "readFlag", "failed"}
    BY <1>3, SetopMoves DEF PatchFlag
  <2>2. kratos'.org \in {kratos.org, setopSeen} /\ setopSeen' = NoOrg
    BY <1>3 DEF PatchFlag, WithMetadata
  <2> QED
    BY <1>0, <1>1, <2>1, <2>2 DEF CopiesGranted, Granted, SetopProgress
<1>4. CASE SetOperatorGrant
  <2>1. /\ setop' \in {"completed", "grant", "failed"}
        /\ setop' = "completed" => operatorTuple' = target
    BY <1>4, SetopMoves DEF SetOperatorGrant
  <2>2. UNCHANGED <<kratos, setopSeen>>
    BY <1>4 DEF SetOperatorGrant
  <2> QED
    BY <1>0, <1>1, <2>1, <2>2 DEF CopiesGranted, Granted, SetopProgress
<1> QED
  BY <1>2, <1>3, <1>4 DEF SetOperatorStep

\* UpdateIdentity: the record that is put back names what the one read named.
LEMMA EditKeeps ==
  ASSUME IInv, NEW e \in Edits,
         \/ PutIdentity(e) \/ StartSetOperator(e) \/ StopWaiting(e)
         \/ \E req \in Requests : ReadIdentity(e, req)
  PROVE  OnePersonalOrg' /\ CopiesGranted' /\ RegProgress' /\ SetopProgress'
<1> USE DEF IInv
<1>1. UNCHANGED <<org, orgAdmins, reg, regOrg, operatorTuple, setopSeen>>
  BY DEF ReadIdentity, PutIdentity, StartSetOperator, StopWaiting,
         orgVars, regVars, setopVars
<1>2. OnePersonalOrg' /\ RegProgress'
  BY <1>1 DEF OnePersonalOrg, RegProgress
<1>3. SetopProgress'
  BY <1>1 DEF ReadIdentity, PutIdentity, StartSetOperator, StopWaiting, setopVars,
              SetopProgress
<1>4. kratos'.org \in {kratos.org, seen[e].org}
  <2>1. \A n : [seen[e] EXCEPT !.name = n].org = seen[e].org
    BY DEF TypeOK, Records
  <2>2. kratos' = kratos \/ \E n \in asked[e].name : kratos' = [seen[e] EXCEPT !.name = n]
    BY DEF ReadIdentity, PutIdentity, StartSetOperator, StopWaiting
  <2> QED
    BY <2>1, <2>2
<1>5. \A f \in Edits : seen'[f].org \in {seen[f].org, kratos.org, NoOrg}
  BY DEF ReadIdentity, PutIdentity, StartSetOperator, StopWaiting, TypeOK, NewRecord
<1>6. CopiesGranted'
  BY <1>1, <1>4, <1>5 DEF CopiesGranted, Granted
<1> QED
  BY <1>2, <1>3, <1>6

\* Every step of the webhook, the two workflows, the operators and the edits
\* preserves the inductive invariant.
THEOREM Inductive == IInv /\ [Next]_vars => IInv'
<1> SUFFICES ASSUME IInv, [Next]_vars PROVE IInv'
  OBVIOUS
<1>1. TypeOK' /\ Grows
  BY TypeStep, OrgsGrow DEF IInv
<1> SUFFICES OnePersonalOrg' /\ CopiesGranted' /\ RegProgress' /\ SetopProgress'
  BY <1>1 DEF IInv
<1>2. ASSUME NEW d \in Deliveries, OnIdentityCreated(d)
      PROVE  OnePersonalOrg' /\ CopiesGranted' /\ RegProgress' /\ SetopProgress'
  BY <1>2 DEF OnIdentityCreated, IInv, OnePersonalOrg, CopiesGranted, Granted,
              RegProgress, SetopProgress, orgVars, setopVars, editVars
<1>3. ASSUME NEW o \in OrgIds, UpdateOrg(o) \/ DeleteOrg(o)
      PROVE  OnePersonalOrg' /\ CopiesGranted' /\ RegProgress' /\ SetopProgress'
  <2>1. UNCHANGED <<orgAdmins, kratos, seen, setopSeen, reg, regOrg, setop,
                    operatorTuple, target>>
    BY <1>3 DEF UpdateOrg, DeleteOrg, regVars, setopVars, editVars
  <2>2. OnePersonalOrg'
    BY <1>3 DEF UpdateOrg, DeleteOrg, OnePersonalOrg, IInv, TypeOK
  <2>3. CopiesGranted'
    BY <1>1, <2>1 DEF IInv, CopiesGranted, Granted, Grows, TypeOK, Records
  <2> QED
    BY <1>1, <2>1, <2>2, <2>3 DEF IInv, RegProgress, SetopProgress, Grows
<1>4. CASE UNCHANGED vars
  BY <1>4 DEF IInv, OnePersonalOrg, CopiesGranted, Granted, RegProgress, SetopProgress,
              vars, orgVars, regVars, setopVars, editVars
<1>5. CASE RegisterStep
  BY <1>1, <1>5, RegisterKeeps
<1>6. CASE SetOperatorStep
  BY <1>6, SetopKeeps
<1>7. ASSUME NEW e \in Edits,
             \/ PutIdentity(e) \/ StartSetOperator(e) \/ StopWaiting(e)
             \/ \E req \in Requests : ReadIdentity(e, req)
      PROVE  OnePersonalOrg' /\ CopiesGranted' /\ RegProgress' /\ SetopProgress'
  BY <1>7, EditKeeps
<1> QED
  BY <1>2, <1>3, <1>4, <1>5, <1>6, <1>7 DEF Next

-----------------------------------------------------------------------------
(* The properties *)

\* The inductive invariant holds in every reachable state.
LEMMA Invariance == Spec => []IInv
BY InvInit, Inductive, PTL DEF Spec

\* Type correctness: every variable keeps the shape the code gives it.
THEOREM TypeCorrect == Spec => []TypeOK
<1>1. IInv => TypeOK
  BY DEF IInv
<1> QED
  BY <1>1, Invariance, PTL

\* CreatePersonalOrgActivity never makes a second personal organisation,
\* whatever the deliveries, lost commits and renames.
THEOREM OnePersonalOrgHolds == Spec => []OnePersonalOrg
<1>1. IInv => OnePersonalOrg
  BY DEF IInv
<1> QED
  BY <1>1, Invariance, PTL

\* The organisation the record names is one the identity is admin of, because
\* every copy that can be written back has that property.
THEOREM OrgClaimIsGrantedHolds == Spec => []OrgClaimIsGranted
<1>1. IInv => OrgClaimIsGranted
  BY DEF IInv, CopiesGranted, Granted, OrgClaimIsGranted
<1> QED
  BY <1>1, Invariance, PTL

\* A dual write whose run has completed is whole on the OpenFGA side.
THEOREM TupleFollowsRunHolds == Spec => []TupleFollowsRun
<1>1. IInv => TupleFollowsRun
  BY DEF IInv, RegProgress, SetopProgress, TupleFollowsRun
<1> QED
  BY <1>1, Invariance, PTL

-----------------------------------------------------------------------------
(* The work that the two workflows have left *)

\* The calls that the attempts that are left can make, with those of the
\* activities that follow: SetIdentityOrg and SetOperatorFlag make two a time,
\* the other activities one.
RegLeft ==
  LET left == MaxAttempts - regTries IN
  IF      reg = "create" THEN left + 3 * MaxAttempts
  ELSE IF reg = "grant"  THEN left + 2 * MaxAttempts
  ELSE IF reg = "read"   THEN 2 * left
  ELSE IF reg = "patch"  THEN 2 * left - 1
  ELSE 0

SetopLeft ==
  LET left == MaxAttempts - setopTries IN
  IF      setop = "readFlag"  THEN 2 * left + MaxAttempts
  ELSE IF setop = "patchFlag" THEN 2 * left - 1 + MaxAttempts
  ELSE IF setop = "grant"     THEN left
  ELSE 0

DualWriteWork ==
  /\ RegLeft \in 0 .. 4 * MaxAttempts
  /\ RegLeft = 0 <=> reg \notin RegSteps
  /\ SetopLeft \in 0 .. 3 * MaxAttempts
  /\ SetopLeft = 0 <=> setop \notin SetopSteps

\* Each call of a run leaves it less to do, and nothing else gives a run that is
\* open more: a webhook that is delivered again, an edit that joins the run, the
\* other workflow, or the operators.
DualWriteWorkRunsOut ==
  [][/\ reg \in RegSteps => RegLeft' <= RegLeft
     /\ RegisterStep => RegLeft' < RegLeft
     /\ setop \in SetopSteps => SetopLeft' <= SetopLeft
     /\ SetOperatorStep => SetopLeft' < SetopLeft]_vars

LEMMA WorkType == TypeOK => DualWriteWork
<1> SUFFICES ASSUME TypeOK PROVE DualWriteWork
  OBVIOUS
<1> DEFINE M == MaxAttempts
           t == regTries
           u == setopTries
<1>1. M \in Nat \ {0} /\ t \in 0 .. M - 1 /\ u \in 0 .. M - 1
  BY IdentityConstants DEF TypeOK
<1>2. reg \in RegSteps \union Ends \union {"none"}
  BY DEF TypeOK
<1>3. setop \in SetopSteps \union Ends \union {"none"}
  BY DEF TypeOK
<1> HIDE DEF M, t, u
<1>4. RegLeft \in 0 .. 4 * M /\ (RegLeft = 0 <=> reg \notin RegSteps)
  BY <1>1, <1>2 DEF RegLeft, RegSteps, Ends, M, t
<1>5. SetopLeft \in 0 .. 3 * M /\ (SetopLeft = 0 <=> setop \notin SetopSteps)
  BY <1>1, <1>3 DEF SetopLeft, SetopSteps, Ends, M, u
<1> QED
  BY <1>4, <1>5 DEF DualWriteWork, M

\* What a step of a workflow does to its place: it begins the activity again, it
\* goes on within the attempt, or it goes to a later activity or an end.
RegFails(step) == reg' = step /\ regTries' = regTries + 1 /\ regTries + 1 < MaxAttempts
SetopFails(step) ==
  setop' = step /\ setopTries' = setopTries + 1 /\ setopTries + 1 < MaxAttempts

LEMMA RegAttemptMoves ==
  ASSUME NEW step, RegAttemptFailed(step)
  PROVE  RegFails(step) \/ reg' = "failed"
BY DEF RegAttemptFailed, RegProceed, RegFails

LEMMA SetopAttemptMoves ==
  ASSUME NEW step, SetopAttemptFailed(step)
  PROVE  SetopFails(step) \/ setop' = "failed"
BY DEF SetopAttemptFailed, SetopProceed, SetopFails

LEMMA RegisterWork ==
  ASSUME TypeOK, RegisterStep
  PROVE  RegLeft' < RegLeft /\ SetopLeft' = SetopLeft
<1> DEFINE M == MaxAttempts
           t == regTries
<1>1. M \in Nat \ {0} /\ t \in 0 .. M - 1
  BY IdentityConstants DEF TypeOK
<1>2. \/ reg = "create" /\ (RegFails("create") \/ (reg' = "grant" /\ regTries' = 0))
      \/ reg = "grant" /\ (RegFails("grant") \/ (reg' = "read" /\ regTries' = 0))
      \/ reg = "read" /\ (RegFails("read") \/ (reg' = "patch" /\ regTries' = t))
      \/ reg = "patch" /\ RegFails("read")
      \/ reg \in RegSteps /\ reg' \in Ends
  <2>0. /\ RegAttemptFailed("create") => RegFails("create") \/ reg' = "failed"
        /\ RegAttemptFailed("grant") => RegFails("grant") \/ reg' = "failed"
        /\ RegAttemptFailed("read") => RegFails("read") \/ reg' = "failed"
    BY RegAttemptMoves
  <2>1. CASE CreatePersonalOrg
    BY <2>0, <2>1 DEF CreatePersonalOrg, RegProceed, RegSteps, Ends
  <2>2. CASE GrantOrgAdmin
    BY <2>0, <2>2 DEF GrantOrgAdmin, RegProceed, RegSteps, Ends
  <2>3. CASE ReadMetadata
    BY <2>0, <2>3 DEF ReadMetadata, RegProceed, RegSteps, Ends
  <2>4. CASE PatchMetadata
    BY <2>0, <2>4 DEF PatchMetadata, RegProceed, RegSteps, Ends
  <2> QED
    BY <2>1, <2>2, <2>3, <2>4 DEF RegisterStep
<1>3. UNCHANGED <<setop, setopTries>>
  BY DEF RegisterStep, CreatePersonalOrg, GrantOrgAdmin, ReadMetadata, PatchMetadata, setopVars
<1>4. SetopLeft' = SetopLeft
  BY <1>3 DEF SetopLeft
<1> HIDE DEF M, t
<1>5. RegLeft' < RegLeft
  BY <1>1, <1>2 DEF RegLeft, RegFails, RegSteps, Ends, M, t
<1> QED
  BY <1>4, <1>5

LEMMA SetOperatorWork ==
  ASSUME TypeOK, SetOperatorStep
  PROVE  SetopLeft' < SetopLeft /\ RegLeft' = RegLeft
<1> DEFINE M == MaxAttempts
           t == setopTries
<1>1. M \in Nat \ {0} /\ t \in 0 .. M - 1
  BY IdentityConstants DEF TypeOK
<1>2. \/ setop = "readFlag"
           /\ (SetopFails("readFlag") \/ (setop' = "patchFlag" /\ setopTries' = t))
      \/ setop = "patchFlag"
           /\ (SetopFails("readFlag") \/ (setop' = "grant" /\ setopTries' = 0))
      \/ setop = "grant" /\ SetopFails("grant")
      \/ setop \in SetopSteps /\ setop' \in Ends
  <2>0. /\ SetopAttemptFailed("readFlag") => SetopFails("readFlag") \/ setop' = "failed"
        /\ SetopAttemptFailed("grant") => SetopFails("grant") \/ setop' = "failed"
    BY SetopAttemptMoves
  <2>1. CASE ReadFlag
    BY <2>0, <2>1 DEF ReadFlag, SetopSteps, Ends
  <2>2. CASE PatchFlag
    BY <2>0, <2>2 DEF PatchFlag, SetopProceed, SetopSteps, Ends
  <2>3. CASE SetOperatorGrant
    BY <2>0, <2>3 DEF SetOperatorGrant, SetopProceed, SetopSteps, Ends
  <2> QED
    BY <2>1, <2>2, <2>3 DEF SetOperatorStep
<1>3. UNCHANGED <<reg, regTries>>
  BY DEF SetOperatorStep, ReadFlag, PatchFlag, SetOperatorGrant, regVars
<1>4. RegLeft' = RegLeft
  BY <1>3 DEF RegLeft
<1> HIDE DEF M, t
<1>5. SetopLeft' < SetopLeft
  BY <1>1, <1>2 DEF SetopLeft, SetopFails, SetopSteps, Ends, M, t
<1> QED
  BY <1>4, <1>5

\* Whatever is no step of the workflow itself leaves a run that is open where it
\* is, so it joins it or is no business of it.
LEMMA OthersKeepRuns ==
  ASSUME [Next]_vars
  PROVE  /\ reg \in RegSteps /\ ~ RegisterStep => RegLeft' = RegLeft
         /\ setop \in SetopSteps /\ ~ SetOperatorStep => SetopLeft' = SetopLeft
<1>1. reg \in RegSteps /\ ~ RegisterStep => UNCHANGED <<reg, regTries>>
  BY DEF Next, OnIdentityCreated, SetOperatorStep, ReadFlag, PatchFlag, SetOperatorGrant,
         UpdateOrg, DeleteOrg, PutIdentity, StartSetOperator, StopWaiting, ReadIdentity,
         regVars, vars
<1>2. setop \in SetopSteps /\ ~ SetOperatorStep => UNCHANGED <<setop, setopTries>>
  BY DEF Next, OnIdentityCreated, RegisterStep, CreatePersonalOrg, GrantOrgAdmin,
         ReadMetadata, PatchMetadata, UpdateOrg, DeleteOrg, PutIdentity, StartSetOperator,
         StopWaiting, ReadIdentity, setopVars, vars
<1> QED
  BY <1>1, <1>2 DEF RegLeft, SetopLeft

\* What makes every run that its worker keeps running end: RegisterUser makes no
\* more than 4 * MaxAttempts calls and SetOperator no more than 3 * MaxAttempts,
\* whatever fails and whoever interferes, and it has ended when none is left.
THEOREM DualWriteWorkRunsOutHolds == Spec => []DualWriteWork /\ DualWriteWorkRunsOut
<1>1. IInv => DualWriteWork
  BY WorkType DEF IInv
<1>2. IInv /\ [Next]_vars =>
        [/\ reg \in RegSteps => RegLeft' <= RegLeft
         /\ RegisterStep => RegLeft' < RegLeft
         /\ setop \in SetopSteps => SetopLeft' <= SetopLeft
         /\ SetOperatorStep => SetopLeft' < SetopLeft]_vars
  <2> SUFFICES ASSUME IInv, [Next]_vars
               PROVE  /\ reg \in RegSteps => RegLeft' <= RegLeft
                      /\ RegisterStep => RegLeft' < RegLeft
                      /\ setop \in SetopSteps => SetopLeft' <= SetopLeft
                      /\ SetOperatorStep => SetopLeft' < SetopLeft
    OBVIOUS
  <2>1. TypeOK /\ DualWriteWork /\ DualWriteWork'
    <3>1. IInv'
      BY Inductive
    <3> QED
      BY <3>1, <1>1, PTL DEF IInv
  <2>2. /\ RegLeft \in Nat /\ RegLeft' \in Nat
        /\ SetopLeft \in Nat /\ SetopLeft' \in Nat
    <3>1. 4 * MaxAttempts \in Nat /\ 3 * MaxAttempts \in Nat
      BY IdentityConstants
    <3> QED
      BY <2>1, <3>1 DEF DualWriteWork
  <2>3. RegisterStep => RegLeft' < RegLeft
    BY <2>1, RegisterWork
  <2>4. SetOperatorStep => SetopLeft' < SetopLeft
    BY <2>1, SetOperatorWork
  <2> QED
    BY <2>2, <2>3, <2>4, OthersKeepRuns
<1> QED
  BY <1>1, <1>2, Invariance, PTL DEF Spec, DualWriteWorkRunsOut
=============================================================================
