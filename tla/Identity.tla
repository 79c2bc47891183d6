------------------------------ MODULE Identity ------------------------------
(***************************************************************************)
(* One identity and the two services that write its Kratos record: orgs,   *)
(* whose webhook starts RegisterUser, and authz, whose UpdateIdentity puts *)
(* the record back and runs SetOperator.  Each of the three writers reads  *)
(* the record in one call and writes it in another, and metadata_public    *)
(* (org_id and operator) is always written whole.                          *)
(*                                                                         *)
(* Every store, lock and workflow id involved is keyed by the identity, so *)
(* two identities do not interact.                                         *)
(***************************************************************************)
EXTENDS Integers

CONSTANTS
  Deliveries,   \* deliveries of the Kratos registration webhook
  Edits,        \* calls of UpdateIdentity
  Requests,     \* the bodies of those calls
  Names,        \* the names a record may carry
  FirstName,    \* the name the identity registered with
  MaxOrgs,      \* bound on the organisations the model can create
  MaxAttempts   \* RetryPolicy.MaximumAttempts, of both workflows

\* An optional field of a request is a set of at most one value.
ASSUME IdentityConstants ==
  /\ MaxAttempts \in Nat \ {0}
  /\ MaxOrgs \in Nat
  /\ FirstName \in Names
  /\ Requests \subseteq [name : SUBSET Names, operator : SUBSET BOOLEAN]

VARIABLES
  pending,      \* the webhook deliveries that have not arrived
  org,          \* the identity's organisations: whose name each one has
  orgAdmins,    \* the organisations it holds the admin tuple of
  kratos,       \* its Kratos record
  reg,          \* the step RegisterUser is at
  regTries,     \* failed attempts of the activity it is at
  regOrg,       \* the organisation CreatePersonalOrg returned
  regSeen,      \* the operator flag SetIdentityOrg read and is to write back
  operatorTuple,\* group:operator#member
  setop,        \* the step SetOperator is at
  setopTries,
  target,       \* the value its input asks for
  setopSeen,    \* the org_id SetOperatorFlag read and is to write back
  edit,         \* where each UpdateIdentity call is
  asked,        \* its body
  seen          \* the record it read and is to put back

orgVars   == <<org, orgAdmins>>
regVars   == <<pending, reg, regTries, regOrg, regSeen>>
setopVars == <<operatorTuple, setop, setopTries, target, setopSeen>>
editVars  == <<edit, asked, seen>>
vars      == <<orgVars, kratos, regVars, setopVars, editVars>>

OrgIds == 1 .. MaxOrgs
NoOrg == 0
Records == [name : Names, org : OrgIds \union {NoOrg}, operator : BOOLEAN]

\* A self-registered identity: a name, no organisation yet, no operator.
NewRecord == [name |-> FirstName, org |-> NoOrg, operator |-> FALSE]

RegSteps   == {"create", "grant", "read", "patch"}
SetopSteps == {"readFlag", "patchFlag", "grant"}
Ends       == {"completed", "failed"}
EditSteps  == {"unsent", "naming", "operator", "waiting", "answered", "refused"}

-----------------------------------------------------------------------------
(* The webhook and RegisterUser *)

\* ExecuteWorkflow under register-user-<identity>: a delivery that finds the
\* workflow running joins it, one that finds it closed starts it again.
OnIdentityCreated(d) ==
  /\ d \in pending
  /\ pending' = pending \ {d}
  /\ \/ /\ reg \notin RegSteps
        /\ reg' = "create"
        /\ regTries' = 0
     \/ UNCHANGED <<reg, regTries>>
  /\ UNCHANGED <<orgVars, kratos, regOrg, regSeen, setopVars, editVars>>

RegProceed(step) == reg' = step /\ regTries' = 0

\* Mutant of RegAttemptFailed: an activity that used its attempts is passed over.
RegErrorIgnored(step) ==
  IF regTries + 1 < MaxAttempts
    THEN reg' = step /\ regTries' = regTries + 1
    ELSE RegProceed(IF step = "grant" THEN "read" ELSE "failed")

\* The attempt fails: the activity starts over at its first step, or has used
\* its attempts and fails the workflow.
RegAttemptFailed(step) ==
  IF regTries + 1 < MaxAttempts
    THEN reg' = step /\ regTries' = regTries + 1
    ELSE RegProceed("failed")

\* Mutant of PersonalOrgs: the organisation of an earlier attempt is not looked for.
NothingFound == {}

\* The organisations FindPersonalOrg matches: the default name, still there
\* since the insert or given back by an operator.
PersonalOrgs == {o \in OrgIds : org[o] \in {"personal", "namedBack"}}

\* One transaction under the identity's advisory lock: the oldest organisation
\* found, or a new one with its admin member.  Ids are minted in order.
CreatePersonalOrg ==
  /\ reg = "create"
  /\ \/ \E o \in PersonalOrgs :
          /\ \A p \in PersonalOrgs : o <= p
          /\ regOrg' = o
          /\ UNCHANGED org
          /\ RegProceed("grant")
     \/ \E o \in OrgIds :
          /\ PersonalOrgs = {}
          /\ \A p \in OrgIds : org[p] = "absent" <=> p >= o
          /\ org' = [org EXCEPT ![o] = "personal"]
          /\ \/ regOrg' = o /\ RegProceed("grant")
             \/ UNCHANGED regOrg /\ RegAttemptFailed("create")
     \/ UNCHANGED <<org, regOrg>> /\ RegAttemptFailed("create")
  /\ UNCHANGED <<orgAdmins, kratos, pending, regSeen, setopVars, editVars>>

\* org:<id>#admin, in OpenFGA.
GrantOrgAdmin ==
  /\ reg = "grant"
  /\ \/ /\ orgAdmins' = orgAdmins \union {regOrg}
        /\ RegProceed("read") \/ RegAttemptFailed("grant")
     \/ UNCHANGED orgAdmins /\ RegAttemptFailed("grant")
  /\ UNCHANGED <<org, kratos, pending, regOrg, regSeen, setopVars, editVars>>

\* SetIdentityOrg reads the metadata, and is done when it holds the organisation.
ReadMetadata ==
  /\ reg = "read"
  /\ \/ kratos.org = regOrg /\ RegProceed("completed") /\ UNCHANGED regSeen
     \/ /\ kratos.org # regOrg
        /\ reg' = "patch"
        /\ regSeen' = kratos.operator
        /\ UNCHANGED regTries
     \/ UNCHANGED regSeen /\ RegAttemptFailed("read")
  /\ UNCHANGED <<orgVars, kratos, pending, regOrg, setopVars, editVars>>

\* The record after a patch of /metadata_public, which replaces the whole object.
WithMetadata(o, flag) == [name |-> kratos.name, org |-> o, operator |-> flag]

\* It writes the metadata it read back with the organisation in it.
PatchMetadata ==
  /\ reg = "patch"
  /\ \/ /\ kratos' = WithMetadata(regOrg, regSeen)
        /\ RegProceed("completed") \/ RegAttemptFailed("read")
     \/ UNCHANGED kratos /\ RegAttemptFailed("read")
  /\ regSeen' = FALSE
  /\ UNCHANGED <<orgVars, pending, regOrg, setopVars, editVars>>

RegisterStep ==
  CreatePersonalOrg \/ GrantOrgAdmin \/ ReadMetadata \/ PatchMetadata

-----------------------------------------------------------------------------
(* An operator renames or deletes an organisation *)

\* A new name is the default one or it is not.
UpdateOrg(o) ==
  /\ org[o] \notin {"absent", "deleted"}
  /\ \E name \in {"renamed", "namedBack"} : org' = [org EXCEPT ![o] = name]
  /\ UNCHANGED <<orgAdmins, kratos, regVars, setopVars, editVars>>

\* The row goes with its members; the tuples and the record keep naming it.
DeleteOrg(o) ==
  /\ org[o] # "absent"
  /\ org' = [org EXCEPT ![o] = "deleted"]
  /\ UNCHANGED <<orgAdmins, kratos, regVars, setopVars, editVars>>

-----------------------------------------------------------------------------
(* UpdateIdentity *)

Changes(field, value) == \E v \in field : v # value

AfterName(req, rec) ==
  IF Changes(req.operator, rec.operator) THEN "operator" ELSE "answered"

AfterRead(req, rec) ==
  IF Changes(req.name, rec.name) THEN "naming" ELSE AfterName(req, rec)

Refuse(e) == edit' = [edit EXCEPT ![e] = "refused"]

\* The call reads the record; a read that fails is answered 500.
ReadIdentity(e, req) ==
  /\ edit[e] = "unsent"
  /\ \/ /\ edit' = [edit EXCEPT ![e] = AfterRead(req, kratos)]
        /\ asked' = [asked EXCEPT ![e] = req]
        /\ seen' = [seen EXCEPT ![e] = IF AfterRead(req, kratos) = "naming"
                                        THEN kratos ELSE @]
     \/ Refuse(e) /\ UNCHANGED <<asked, seen>>
  /\ UNCHANGED <<orgVars, kratos, regVars, setopVars>>

\* The PUT replaces the record by the one that was read, with the new name.  It
\* is applied and answered, applied unanswered, or not applied.
PutIdentity(e) ==
  /\ edit[e] = "naming"
  /\ \/ \E n \in asked[e].name :
          LET put == [seen[e] EXCEPT !.name = n] IN
          /\ kratos' = put
          /\ \/ edit' = [edit EXCEPT ![e] = AfterName(asked[e], put)]
             \/ Refuse(e)
     \/ UNCHANGED kratos /\ Refuse(e)
  /\ seen' = [seen EXCEPT ![e] = NewRecord]
  /\ UNCHANGED <<orgVars, regVars, setopVars, asked>>

\* ExecuteWorkflow under set-operator-<identity>: the call starts the workflow
\* or joins the one that runs, whatever value that one was given, and waits.
StartSetOperator(e) ==
  /\ edit[e] = "operator"
  /\ \/ /\ setop \notin SetopSteps
        /\ setop' = "readFlag"
        /\ setopTries' = 0
        /\ target' \in asked[e].operator
        /\ edit' = [edit EXCEPT ![e] = "waiting"] \/ Refuse(e)
     \/ /\ setop \in SetopSteps
        /\ edit' = [edit EXCEPT ![e] = "waiting"]
        /\ UNCHANGED <<setop, setopTries, target>>
     \/ Refuse(e) /\ UNCHANGED <<setop, setopTries, target>>
  /\ UNCHANGED <<orgVars, kratos, regVars, operatorTuple, setopSeen, asked, seen>>

\* setOperatorTimeout, or the caller giving up, ends the wait and not the workflow.
StopWaiting(e) ==
  /\ edit[e] = "waiting"
  /\ Refuse(e)
  /\ UNCHANGED <<orgVars, kratos, regVars, setopVars, asked, seen>>

-----------------------------------------------------------------------------
(* SetOperator *)

\* Whoever waits for the run gets its result when it closes.
SetopProceed(step) ==
  /\ setop' = step
  /\ setopTries' = 0
  /\ edit' = [e \in Edits |->
       IF edit[e] = "waiting" /\ step \in Ends
         THEN IF step = "completed" THEN "answered" ELSE "refused"
         ELSE edit[e]]

\* Mutant of SetopAttemptFailed: an activity that used its attempts is passed over.
SetopErrorIgnored(step) ==
  IF setopTries + 1 < MaxAttempts
    THEN setop' = step /\ setopTries' = setopTries + 1 /\ UNCHANGED edit
    ELSE SetopProceed(IF step = "readFlag" THEN "grant" ELSE "completed")

SetopAttemptFailed(step) ==
  IF setopTries + 1 < MaxAttempts
    THEN setop' = step /\ setopTries' = setopTries + 1 /\ UNCHANGED edit
    ELSE SetopProceed("failed")

\* SetOperatorFlag reads the record,
ReadFlag ==
  /\ setop = "readFlag"
  /\ \/ /\ setop' = "patchFlag"
        /\ setopSeen' = kratos.org
        /\ UNCHANGED <<setopTries, edit>>
     \/ UNCHANGED setopSeen /\ SetopAttemptFailed("readFlag")
  /\ UNCHANGED <<orgVars, kratos, regVars, operatorTuple, target, asked, seen>>

\* and writes the metadata it read back with the flag in it.
PatchFlag ==
  /\ setop = "patchFlag"
  /\ \/ /\ kratos' = WithMetadata(setopSeen, target)
        /\ SetopProceed("grant") \/ SetopAttemptFailed("readFlag")
     \/ UNCHANGED kratos /\ SetopAttemptFailed("readFlag")
  /\ setopSeen' = NoOrg
  /\ UNCHANGED <<orgVars, regVars, operatorTuple, target, asked, seen>>

\* The tuple is granted or revoked; either is done when it was already so.
SetOperatorGrant ==
  /\ setop = "grant"
  /\ \/ /\ operatorTuple' = target
        /\ SetopProceed("completed") \/ SetopAttemptFailed("grant")
     \/ UNCHANGED operatorTuple /\ SetopAttemptFailed("grant")
  /\ UNCHANGED <<orgVars, kratos, regVars, target, setopSeen, asked, seen>>

SetOperatorStep == ReadFlag \/ PatchFlag \/ SetOperatorGrant

-----------------------------------------------------------------------------
Init ==
  /\ pending = Deliveries
  /\ org = [o \in OrgIds |-> "absent"]
  /\ orgAdmins = {}
  /\ kratos = NewRecord
  /\ reg = "none"
  /\ regTries = 0
  /\ regOrg = NoOrg
  /\ regSeen = FALSE
  /\ operatorTuple = FALSE
  /\ setop = "none"
  /\ setopTries = 0
  /\ target = FALSE
  /\ setopSeen = NoOrg
  /\ edit = [e \in Edits |-> "unsent"]
  /\ asked = [e \in Edits |-> [name |-> {}, operator |-> {}]]
  /\ seen = [e \in Edits |-> NewRecord]

Next ==
  \/ \E d \in Deliveries : OnIdentityCreated(d)
  \/ RegisterStep
  \/ SetOperatorStep
  \/ \E o \in OrgIds : UpdateOrg(o) \/ DeleteOrg(o)
  \/ \E e \in Edits :
       \/ PutIdentity(e) \/ StartSetOperator(e) \/ StopWaiting(e)
       \/ \E req \in Requests : ReadIdentity(e, req)

Spec == Init /\ [][Next]_vars

-----------------------------------------------------------------------------
(* Properties *)

TypeOK ==
  /\ pending \subseteq Deliveries
  /\ org \in [OrgIds -> {"absent", "personal", "renamed", "namedBack", "deleted"}]
  /\ orgAdmins \subseteq OrgIds
  /\ kratos \in Records
  /\ reg \in RegSteps \union Ends \union {"none"}
  /\ regTries \in 0 .. MaxAttempts - 1
  /\ regOrg \in OrgIds \union {NoOrg}
  /\ regSeen \in BOOLEAN
  /\ operatorTuple \in BOOLEAN
  /\ setop \in SetopSteps \union Ends \union {"none"}
  /\ setopTries \in 0 .. MaxAttempts - 1
  /\ target \in BOOLEAN
  /\ setopSeen \in OrgIds \union {NoOrg}
  /\ edit \in [Edits -> EditSteps]
  /\ asked \in [Edits -> [name : SUBSET Names, operator : SUBSET BOOLEAN]]
  /\ seen \in [Edits -> Records]

\* ADR-0304 and CreatePersonalOrgActivity: an identity gets one personal
\* organisation.  However often the webhook is delivered, an attempt's commit is
\* reported lost or an operator renames, there are never two that registration
\* named.
OnePersonalOrg ==
  \A o, p \in OrgIds : org[o] = "personal" /\ org[p] = "personal" => o = p

\* X-Org-Id is built from the record alone.  An organisation it names was
\* created, and the identity was granted its admin relation, even when an old
\* record is put back.
OrgClaimIsGranted ==
  kratos.org # NoOrg => kratos.org \in orgAdmins /\ org[kratos.org] # "absent"

\* The dual writes are whole once their run has completed, whatever its retries
\* and the runs and edits beside it did: the identity is the admin of the
\* organisation its registration settled on, and the operator tuple has the value
\* the run was given, because two edits share a run and do not race two.
TupleFollowsRun ==
  /\ reg = "completed" => regOrg \in orgAdmins
  /\ setop = "completed" => operatorTuple = target
=============================================================================
