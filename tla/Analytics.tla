----------------------------- MODULE Analytics ------------------------------
(***************************************************************************)
(* The event store of the analytics service: the collector exports events  *)
(* to OTLPLogs, which stores those of the sessions that have a grant, and  *)
(* the daily retention pass keeps the monthly partitions they are stored   *)
(* in.  The collector sends an export again when it gets no answer, while  *)
(* the call it gave up may go on.  So may a pass, beside the next one.     *)
(*                                                                         *)
(* Time is counted in instants, MonthLength of them to a month, from 0.    *)
(* There is one export; each call of it stores rows of its own.            *)
(***************************************************************************)
EXTENDS Integers, Sequences, FiniteSets

CONSTANTS
  Sessions,
  Events,
  SessionOf,     \* the session of each event
  OccurredAt,    \* the time its browser gave it
  Export,        \* the batches, one per session: sequences of events
  MonthLength,
  Period,        \* how long a row is kept
  LastInstant,
  MaxCalls,      \* times the collector sends the export
  MaxDecisions,  \* decisions of visitors about consent
  Passes,        \* requests of the retention endpoint
  MaxFailures,   \* statements that fail, and passes that are given up
  NoPass

Calls    == 1 .. MaxCalls
Instants == 0 .. LastInstant

\* batches: the events of a session are one batch, with nothing in it twice.
\* The events are those of the export.
ASSUME AnalyticsConstants ==
  /\ SessionOf \in [Events -> Sessions]
  /\ OccurredAt \in [Events -> Nat]
  /\ Export \in Seq(Seq(Events)) /\ Len(Export) > 0
  /\ \A i \in DOMAIN Export : Len(Export[i]) > 0
  /\ \A i, j \in DOMAIN Export : \A k \in DOMAIN Export[i], l \in DOMAIN Export[j] :
       /\ SessionOf[Export[i][k]] = SessionOf[Export[j][l]] <=> i = j
       /\ Export[i][k] = Export[j][l] => i = j /\ k = l
  /\ \A e \in Events : \E i \in DOMAIN Export : \E k \in DOMAIN Export[i] : Export[i][k] = e
  /\ MonthLength \in Nat \ {0} /\ Period \in Nat /\ LastInstant \in Nat
  /\ MaxCalls \in Nat /\ MaxDecisions \in Nat /\ MaxFailures \in Nat
  /\ NoPass \notin Passes

VARIABLES
  now,
  consent,     \* the latest decision of each session
  decisions,
  sent,        \* the last call the collector has made
  answered,    \* whether it has an answer to it
  call,        \* where each call is
  batch, item, \* the batch and the event it has reached
  allowed,     \* the sessions that it has found granted
  grants,      \* the sessions that had a grant at some time of the call
  rows,        \* where the row of an event and a call is
  partitions,  \* the months that have a partition
  current,     \* the pass whose answer the workflow waits for
  at,          \* where each pass is
  asOf,        \* the time it began
  listed,      \* the partitions it has listed
  month,       \* the month it is to create
  moved,       \* the rows that its transaction moves
  failures

consentVars == <<consent, decisions>>
ingestVars  == <<sent, answered, call, batch, item, allowed>>
passVars    == <<current, at, asOf, listed, month, moved>>
vars == <<now, consentVars, ingestVars, grants, rows, partitions, passVars, failures>>

Rows      == Events \X Calls
Months    == 0 .. (LastInstant \div MonthLength) + 1
MonthOf(t) == t \div MonthLength
RowMonth(x) == MonthOf(OccurredAt[x[1]])

\* Places of a row that are not a month.
Absent  == -1
Default == -2

PassSteps == {"create", "take", "put", "drop", "prune"}

TypeOK ==
  /\ now \in Instants
  /\ consent \in [Sessions -> {"none", "granted", "denied"}]
  /\ decisions \in 0 .. MaxDecisions
  /\ sent \in 0 .. MaxCalls /\ answered \in BOOLEAN
  /\ call \in [Calls -> {"unsent", "check", "insert", "stored", "failed"}]
  /\ batch \in [Calls -> Nat] /\ item \in [Calls -> Nat]
  /\ allowed \in [Calls -> SUBSET Sessions]
  /\ grants \in [Calls -> SUBSET Sessions]
  /\ rows \in [Rows -> Months \union {Absent, Default}]
  /\ partitions \in SUBSET Months
  /\ current \in Passes \union {NoPass}
  /\ at \in [Passes -> PassSteps \union {"idle"}]
  /\ asOf \in [Passes -> Instants]
  /\ listed \in [Passes -> SUBSET Months]
  /\ month \in [Passes -> Months]
  /\ moved \in [Passes -> SUBSET Rows]
  /\ failures \in 0 .. MaxFailures

Failure == failures < MaxFailures /\ failures' = failures + 1

-----------------------------------------------------------------------------
(* Consent *)

UnderWay(c) == call[c] \in {"check", "insert"}

\* RecordConsent: a decision replaces the one before.
Decide(s, state) ==
  /\ decisions < MaxDecisions
  /\ consent[s] # state
  /\ decisions' = decisions + 1
  /\ consent' = [consent EXCEPT ![s] = state]
  /\ grants' = [c \in Calls |-> IF UnderWay(c) /\ state = "granted"
                                THEN grants[c] \union {s} ELSE grants[c]]
  /\ UNCHANGED <<now, ingestVars, rows, partitions, passVars, failures>>

\* Mutant of HasGrant: a session that has not answered is taken to consent.
HasNotRefused(s) == consent[s] # "denied"

HasGrant(s) == consent[s] = "granted"

-----------------------------------------------------------------------------
(* The collector and OTLPLogs *)

Send ==
  /\ sent < MaxCalls /\ ~answered
  /\ sent' = sent + 1
  /\ call' = [call EXCEPT ![sent + 1] = "check"]
  /\ grants' = [grants EXCEPT ![sent + 1] = {s \in Sessions : consent[s] = "granted"}]
  /\ UNCHANGED <<now, consentVars, answered, batch, item, allowed, rows, partitions,
                 passVars, failures>>

Batch(c)   == Export[batch[c]]
Session(c) == SessionOf[Batch(c)[1]]

\* The next batch of the export, or the answer; the collector takes it if it
\* still waits for this call.
NextBatch(c) ==
  IF batch[c] < Len(Export)
  THEN /\ call' = [call EXCEPT ![c] = "check"]
       /\ batch' = [batch EXCEPT ![c] = @ + 1]
       /\ item' = [item EXCEPT ![c] = 1]
       /\ UNCHANGED answered
  ELSE /\ call' = [call EXCEPT ![c] = "stored"]
       /\ answered' \in {answered, answered \/ sent = c}
       /\ UNCHANGED <<batch, item>>

\* RecordEvents: the check of the grant.
CheckGrant(c) ==
  /\ call[c] = "check"
  /\ \/ /\ HasGrant(Session(c))
        /\ call' = [call EXCEPT ![c] = "insert"]
        /\ allowed' = [allowed EXCEPT ![c] = @ \union {Session(c)}]
        /\ UNCHANGED <<answered, batch, item>>
     \/ /\ ~HasGrant(Session(c))
        /\ NextBatch(c)
        /\ UNCHANGED allowed
  /\ UNCHANGED <<now, consentVars, sent, grants, rows, partitions, passVars, failures>>

\* Postgres routes a row to the partition of its month, or to the default one.
Place(x) == IF RowMonth(x) \in partitions THEN RowMonth(x) ELSE Default

\* The next event of the batch, or the next batch.
NextEvent(c) ==
  IF item[c] < Len(Batch(c))
  THEN item' = [item EXCEPT ![c] = @ + 1] /\ UNCHANGED <<answered, call, batch>>
  ELSE NextBatch(c)

InsertEvent(c) ==
  LET x == <<Batch(c)[item[c]], c>>
  IN  /\ call[c] = "insert"
      /\ rows' = [rows EXCEPT ![x] = Place(x)]
      /\ NextEvent(c)
      /\ UNCHANGED <<now, consentVars, sent, allowed, grants, partitions, passVars, failures>>

\* Mutant of CallFailed: an event that cannot be inserted is skipped.
SkipEvent(c) == call[c] = "insert" /\ NextEvent(c)

\* A 503: the events inserted so far stay.
CallFailed(c) ==
  /\ UnderWay(c)
  /\ call' = [call EXCEPT ![c] = "failed"]
  /\ UNCHANGED <<answered, batch, item>>

FailCall(c) ==
  /\ CallFailed(c)
  /\ Failure
  /\ UNCHANGED <<now, consentVars, sent, allowed, grants, rows, partitions, passVars>>

-----------------------------------------------------------------------------
(* The retention pass *)

\* The month ended at or before the cutoff.
Expired(m, t) == (m + 1) * MonthLength <= t - Period

Step(p, step) == at' = [at EXCEPT ![p] = step]

Ends(p) ==
  /\ current' = IF current = p THEN NoPass ELSE current
  /\ at' = [at EXCEPT ![p] = "idle"]
  /\ asOf' = [asOf EXCEPT ![p] = 0]
  /\ listed' = [listed EXCEPT ![p] = {}]
  /\ month' = [month EXCEPT ![p] = 0]
  /\ moved' = [moved EXCEPT ![p] = {}]

\* An error ends the pass, and rolls its transaction back.
PassFails(p) == Ends(p) /\ UNCHANGED <<rows, partitions>>

\* The workflow runs one activity, and that one attempt at a time.
StartPass(p) ==
  /\ current = NoPass /\ at[p] = "idle"
  /\ current' = p
  /\ Step(p, "create")
  /\ asOf' = [asOf EXCEPT ![p] = now]
  /\ listed' = [listed EXCEPT ![p] = partitions]
  /\ month' = [month EXCEPT ![p] = MonthOf(now)]
  /\ UNCHANGED <<now, consentVars, ingestVars, grants, rows, partitions, moved, failures>>

\* Wanted: the month of the pass and the next one.
AfterMonth(p) ==
  IF month[p] = MonthOf(asOf[p])
  THEN Step(p, "create") /\ month' = [month EXCEPT ![p] = @ + 1]
  ELSE Step(p, "drop") /\ UNCHANGED month

InDefault(m) == {x \in Rows : rows[x] = Default /\ RowMonth(x) = m}

\* A month that was listed is there.
SkipMonth(p) ==
  /\ at[p] = "create"
  /\ month[p] \in listed[p]
  /\ AfterMonth(p)
  /\ UNCHANGED <<now, consentVars, ingestVars, grants, rows, partitions, current, asOf, listed,
                 moved, failures>>

\* create, its first statement.  Postgres refuses a month that is there, and
\* one that has rows in the default partition: those are to move.
CreateMonth(p) ==
  /\ at[p] = "create"
  /\ month[p] \notin listed[p]
  /\ \/ /\ month[p] \notin partitions
        /\ InDefault(month[p]) = {}
        /\ partitions' = partitions \union {month[p]}
        /\ AfterMonth(p)
        /\ UNCHANGED <<rows, current, asOf, listed, moved>>
     \/ /\ month[p] \notin partitions
        /\ InDefault(month[p]) # {}
        /\ Step(p, "take")
        /\ UNCHANGED <<rows, partitions, current, asOf, listed, month, moved>>
     \/ /\ month[p] \in partitions
        /\ PassFails(p)
  /\ UNCHANGED <<now, consentVars, ingestVars, grants, failures>>

\* Mutant of AfterTaking: the delete is not part of a transaction.
AfterDeleting(taken) == [x \in Rows |-> IF x \in taken THEN Absent ELSE rows[x]]

\* Others see the rows where they were until the transaction commits.
AfterTaking(taken) == rows

\* The transaction takes the month's rows out of the default partition.
TakeRows(p) ==
  /\ at[p] = "take"
  /\ moved' = [moved EXCEPT ![p] = InDefault(month[p])]
  /\ rows' = AfterTaking(InDefault(month[p]))
  /\ Step(p, "put")
  /\ UNCHANGED <<now, consentVars, ingestVars, grants, partitions, current, asOf, listed, month,
                 failures>>

\* It makes the month and puts them in.  A row that came to the default
\* partition since, or another pass that made the month, makes it fail.
CanPut(p) == month[p] \notin partitions /\ InDefault(month[p]) \subseteq moved[p]

PutRows(p) ==
  /\ at[p] = "put"
  /\ \/ /\ CanPut(p)
        /\ partitions' = partitions \union {month[p]}
        /\ rows' = [x \in Rows |-> IF x \in moved[p] THEN month[p] ELSE rows[x]]
        /\ moved' = [moved EXCEPT ![p] = {}]
        /\ AfterMonth(p)
        /\ UNCHANGED <<current, asOf, listed>>
     \/ ~CanPut(p) /\ PassFails(p)
  /\ UNCHANGED <<now, consentVars, ingestVars, grants, failures>>

\* The expired of the partitions that were listed, one statement each; one
\* that another pass has dropped since is an error.
DropMonth(p, m) ==
  /\ at[p] = "drop"
  /\ m \in listed[p] /\ Expired(m, asOf[p])
  /\ \/ /\ m \in partitions
        /\ partitions' = partitions \ {m}
        /\ rows' = [x \in Rows |-> IF rows[x] = m THEN Absent ELSE rows[x]]
        /\ listed' = [listed EXCEPT ![p] = @ \ {m}]
        /\ UNCHANGED <<current, at, asOf, month, moved>>
     \/ /\ m \notin partitions
        /\ PassFails(p)
  /\ UNCHANGED <<now, consentVars, ingestVars, grants, failures>>

DropsDone(p) ==
  /\ at[p] = "drop"
  /\ \A m \in listed[p] : ~Expired(m, asOf[p])
  /\ Step(p, "prune")
  /\ UNCHANGED <<now, consentVars, ingestVars, grants, rows, partitions, current, asOf, listed,
                 month, moved, failures>>

\* Mutant of Prunable: what is in the default partition stays there.
NeverPrunable(x, t) == FALSE

Prunable(x, t) == rows[x] = Default /\ OccurredAt[x[1]] < t - Period

PruneDefault(p) ==
  /\ at[p] = "prune"
  /\ rows' = [x \in Rows |-> IF Prunable(x, asOf[p]) THEN Absent ELSE rows[x]]
  /\ Ends(p)
  /\ UNCHANGED <<now, consentVars, ingestVars, grants, partitions, failures>>

\* A statement of the pass fails.
FailPass(p) ==
  /\ at[p] # "idle"
  /\ PassFails(p)
  /\ Failure
  /\ UNCHANGED <<now, consentVars, ingestVars, grants>>

\* The attempt runs out of time; its request goes on.
GiveUp(p) ==
  /\ current = p
  /\ current' = NoPass
  /\ Failure
  /\ UNCHANGED <<now, consentVars, ingestVars, grants, rows, partitions, at, asOf, listed,
                 month, moved>>

-----------------------------------------------------------------------------

Tick ==
  /\ now < LastInstant
  /\ now' = now + 1
  /\ UNCHANGED <<consentVars, ingestVars, grants, rows, partitions, passVars, failures>>

\* The migration creates the first two months.
Init ==
  /\ now = 0
  /\ consent = [s \in Sessions |-> "none"] /\ decisions = 0
  /\ sent = 0 /\ answered = FALSE
  /\ call = [c \in Calls |-> "unsent"]
  /\ batch = [c \in Calls |-> 1] /\ item = [c \in Calls |-> 1]
  /\ allowed = [c \in Calls |-> {}] /\ grants = [c \in Calls |-> {}]
  /\ rows = [x \in Rows |-> Absent]
  /\ partitions = {0, 1}
  /\ current = NoPass
  /\ at = [p \in Passes |-> "idle"] /\ asOf = [p \in Passes |-> 0]
  /\ listed = [p \in Passes |-> {}] /\ month = [p \in Passes |-> 0]
  /\ moved = [p \in Passes |-> {}]
  /\ failures = 0

CallStep(c) == CheckGrant(c) \/ InsertEvent(c) \/ FailCall(c)

PassStep(p) ==
  \/ SkipMonth(p) \/ CreateMonth(p) \/ TakeRows(p) \/ PutRows(p)
  \/ (\E m \in Months : DropMonth(p, m)) \/ DropsDone(p)
  \/ PruneDefault(p)

Next ==
  \/ \E s \in Sessions, state \in {"granted", "denied"} : Decide(s, state)
  \/ Send
  \/ \E c \in Calls : CallStep(c)
  \/ \E p \in Passes : StartPass(p) \/ PassStep(p) \/ FailPass(p) \/ GiveUp(p)
  \/ Tick

\* Time passes, the schedule starts passes day after day, and the service
\* serves what it has taken.
Fairness ==
  /\ WF_vars(Tick)
  /\ WF_vars(\E p \in Passes : StartPass(p))
  /\ \A p \in Passes : WF_vars(PassStep(p))
  /\ \A c \in Calls : WF_vars(CallStep(c))

Spec == Init /\ [][Next]_vars
FairSpec == Spec /\ Fairness

-----------------------------------------------------------------------------
(* Properties *)

Stored(x) == rows[x] # Absent
PastRetention(x) == OccurredAt[x[1]] < now - Period

\* An event is stored only if its session had a grant at some time of the call
\* that stored it: a decision taken before the call was made is respected.
StoredUnderGrant ==
  \A x \in Rows : Stored(x) => SessionOf[x[1]] \in grants[x[2]]

\* An export that the collector takes for delivered has a row of each event
\* whose session it found granted, until the retention of the event has passed.
AnsweredIsKept ==
  answered =>
    \A e \in Events : LET x == <<e, sent>> IN
      SessionOf[e] \in allowed[sent] => Stored(x) \/ PastRetention(x)

\* No row goes before its time, whatever passes, inserts and failures meet
\* while its partition is made.
OnlyExpiredRowsGo ==
  [][\A x \in Rows : Stored(x) /\ ~Stored(x)' => PastRetention(x)]_vars

\* The passes get there: this month and the next come to have a partition, an
\* expired month has none, and no row is in the default partition past its time.
RetentionSettles ==
  <>[](/\ {MonthOf(now), MonthOf(now) + 1} \subseteq partitions
       /\ \A m \in partitions : ~Expired(m, now)
       /\ \A x \in Rows : rows[x] = Default => ~PastRetention(x))
=============================================================================
