-------------------------- MODULE Analytics_Proofs --------------------------
(***************************************************************************)
(* Theorems about Analytics, for any export, sessions, lengths of a month  *)
(* and of the retention, and numbers of calls, passes and failures; and    *)
(* about Rollup, which shares no state with it.                            *)
(***************************************************************************)
EXTENDS Analytics, Rollup, FiniteSetTheorems, TLAPS

-----------------------------------------------------------------------------
(* The constants *)

LEMMA DivisionBounds ==
  \A t \in Nat, m \in Nat \ {0} :
    t \div m \in Nat /\ (t \div m) * m <= t /\ t < ((t \div m) + 1) * m
BY SMT

LEMMA DivisionOrder ==
  ASSUME NEW a \in Nat, NEW b \in Nat, NEW m \in Nat \ {0}, a <= b
  PROVE  a \div m <= b \div m
<1>1. (a \div m) * m < ((b \div m) + 1) * m
  BY DivisionBounds
<1>2. \A x, y \in Int : x * m < (y + 1) * m => x <= y
  BY SMT
<1> QED
  BY <1>1, <1>2, DivisionBounds

LEMMA MonthTypes ==
  /\ \A t \in Nat : MonthOf(t) \in Nat
  /\ \A t \in Instants : MonthOf(t) \in Months /\ MonthOf(t) + 1 \in Months
  /\ Months \subseteq Nat /\ 0 \in Months /\ 1 \in Months
<1>1. MonthLength \in Nat \ {0} /\ LastInstant \in Nat
  BY AnalyticsConstants
<1>2. \A t \in Nat : MonthOf(t) \in Nat
  BY <1>1, DivisionBounds DEF MonthOf
<1>3. LastInstant \div MonthLength \in Nat
  BY <1>1, DivisionBounds
<1>4. \A t \in Instants : t \in Nat /\ MonthOf(t) <= LastInstant \div MonthLength
  BY <1>1, DivisionOrder DEF Instants, MonthOf
<1> QED
  BY <1>2, <1>3, <1>4 DEF Months

LEMMA ExportTypes ==
  /\ DOMAIN Export = 1 .. Len(Export) /\ Len(Export) \in Nat /\ 1 \in DOMAIN Export
  /\ \A i \in DOMAIN Export :
       /\ Export[i] \in Seq(Events)
       /\ Len(Export[i]) \in Nat /\ DOMAIN Export[i] = 1 .. Len(Export[i])
       /\ 1 \in DOMAIN Export[i]
       /\ \A k \in DOMAIN Export[i] :
            /\ Export[i][k] \in Events
            /\ SessionOf[Export[i][k]] = SessionOf[Export[i][1]]
            /\ SessionOf[Export[i][k]] \in Sessions
<1>1. Export \in Seq(Seq(Events)) /\ Len(Export) > 0
  BY AnalyticsConstants
<1>2. ASSUME NEW i \in DOMAIN Export
      PROVE  /\ Export[i] \in Seq(Events) /\ Len(Export[i]) \in Nat
             /\ DOMAIN Export[i] = 1 .. Len(Export[i]) /\ 1 \in DOMAIN Export[i]
  BY <1>1, <1>2, AnalyticsConstants
<1>3. ASSUME NEW i \in DOMAIN Export, NEW k \in DOMAIN Export[i]
      PROVE  /\ Export[i][k] \in Events
             /\ SessionOf[Export[i][k]] = SessionOf[Export[i][1]]
             /\ SessionOf[Export[i][k]] \in Sessions
  BY <1>2, AnalyticsConstants
<1> QED
  BY <1>1, <1>2, <1>3

-----------------------------------------------------------------------------
(* The inductive invariant *)

\* What each call has found of the consent, and where in the export it is.
CallOK(c) ==
  /\ c > sent => call[c] = "unsent"
  /\ call[c] = "unsent" => batch[c] = 1 /\ item[c] = 1 /\ allowed[c] = {}
  /\ UnderWay(c) =>
       /\ batch[c] \in DOMAIN Export
       /\ item[c] \in DOMAIN Export[batch[c]]
       /\ \A s \in Sessions : consent[s] = "granted" => s \in grants[c]
       /\ \A i \in DOMAIN Export :
            i > batch[c] => SessionOf[Export[i][1]] \notin allowed[c]
  /\ allowed[c] \subseteq grants[c]
  /\ call[c] = "check" => item[c] = 1 /\ Session(c) \notin allowed[c]
  /\ call[c] = "insert" => Session(c) \in allowed[c]

CallProgress == \A c \in Calls : CallOK(c)

AnswerIsStored == answered => sent \in Calls /\ call[sent] = "stored"

\* Where the rows are, and which ones a transaction moves.
InMove(x) == \E p \in Passes : x \in moved[p]

RowOK(x) ==
  /\ Stored(x) \/ InMove(x) => x[2] <= sent /\ SessionOf[x[1]] \in grants[x[2]]
  /\ rows[x] \in Months => rows[x] = RowMonth(x)
  /\ \A p \in Passes : x \in moved[p] => RowMonth(x) = month[p]

RowsPlaced == \A x \in Rows : RowOK(x)

PassOK(p) == asOf[p] <= now /\ (at[p] # "put" => moved[p] = {})

PassProgress == \A p \in Passes : PassOK(p)

\* The events that a call has got past are stored, unless they have expired.
Passed(c, i, k) ==
  \/ call[c] = "stored"
  \/ UnderWay(c) /\ i < batch[c]
  \/ call[c] = "insert" /\ i = batch[c] /\ k < item[c]

Safe(x) == Stored(x) \/ PastRetention(x)

KeptBy(c) ==
  \A i \in DOMAIN Export : \A k \in DOMAIN Export[i] :
    SessionOf[Export[i][k]] \in allowed[c] /\ Passed(c, i, k) => Safe(<<Export[i][k], c>>)

Kept == \A c \in Calls : KeptBy(c)

IInv ==
  TypeOK /\ CallProgress /\ AnswerIsStored /\ RowsPlaced /\ PassProgress /\ Kept

-----------------------------------------------------------------------------
(* Type correctness, part by part *)

IngestTypes ==
  /\ consent \in [Sessions -> {"none", "granted", "denied"}]
  /\ decisions \in 0 .. MaxDecisions
  /\ sent \in 0 .. MaxCalls /\ answered \in BOOLEAN
  /\ call \in [Calls -> {"unsent", "check", "insert", "stored", "failed"}]
  /\ batch \in [Calls -> Nat] /\ item \in [Calls -> Nat]
  /\ allowed \in [Calls -> SUBSET Sessions]
  /\ grants \in [Calls -> SUBSET Sessions]

StoreTypes ==
  /\ rows \in [Rows -> Months \union {Absent, Default}]
  /\ partitions \in SUBSET Months

PassTypes ==
  /\ current \in Passes \union {NoPass}
  /\ at \in [Passes -> PassSteps \union {"idle"}]
  /\ asOf \in [Passes -> Instants]
  /\ listed \in [Passes -> SUBSET Months]
  /\ month \in [Passes -> Months]
  /\ moved \in [Passes -> SUBSET Rows]

CountTypes == now \in Instants /\ failures \in 0 .. MaxFailures

LEMMA TypeParts ==
  /\ TypeOK <=> IngestTypes /\ StoreTypes /\ PassTypes /\ CountTypes
  /\ TypeOK' <=> IngestTypes' /\ StoreTypes' /\ PassTypes' /\ CountTypes'
BY DEF TypeOK, IngestTypes, StoreTypes, PassTypes, CountTypes

\* What a step leaves alone keeps its type.
LEMMA SameTypes ==
  /\ IngestTypes /\ UNCHANGED <<consentVars, ingestVars, grants>> => IngestTypes'
  /\ StoreTypes /\ UNCHANGED <<rows, partitions>> => StoreTypes'
  /\ PassTypes /\ UNCHANGED passVars => PassTypes'
  /\ CountTypes /\ UNCHANGED <<now, failures>> => CountTypes'
BY DEF consentVars, ingestVars, passVars, IngestTypes, StoreTypes, PassTypes, CountTypes

LEMMA FailureTypes == CountTypes /\ Failure /\ UNCHANGED now => CountTypes'
BY AnalyticsConstants DEF CountTypes, Failure

LEMMA RowTypes ==
  ASSUME NEW x \in Rows
  PROVE  /\ x[1] \in Events /\ x[2] \in Calls /\ x = <<x[1], x[2]>>
         /\ OccurredAt[x[1]] \in Nat /\ RowMonth(x) \in Nat
BY AnalyticsConstants, MonthTypes DEF Rows, RowMonth

-----------------------------------------------------------------------------
(* Where a call is in its export *)

LEMMA Position ==
  ASSUME NEW c \in Calls, CallOK(c), UnderWay(c)
  PROVE  /\ batch[c] \in DOMAIN Export /\ item[c] \in DOMAIN Export[batch[c]]
         /\ batch[c] \in Nat /\ item[c] \in Nat
         /\ Batch(c) = Export[batch[c]]
         /\ Session(c) = SessionOf[Export[batch[c]][1]] /\ Session(c) \in Sessions
         /\ Batch(c)[item[c]] \in Events
         /\ SessionOf[Batch(c)[item[c]]] = Session(c)
BY ExportTypes DEF CallOK, Batch, Session

\* The next batch, or the end of the export.
OnToBatch(c) ==
  /\ batch[c] + 1 \in DOMAIN Export
  /\ call' = [call EXCEPT ![c] = "check"]
  /\ batch' = [batch EXCEPT ![c] = batch[c] + 1]
  /\ item' = [item EXCEPT ![c] = 1]
  /\ answered' = answered

Answers(c) ==
  /\ batch[c] = Len(Export)
  /\ call' = [call EXCEPT ![c] = "stored"]
  /\ batch' = batch /\ item' = item
  /\ answered' = answered \/ (answered' = TRUE /\ sent = c)

LEMMA NextBatchMoves ==
  ASSUME IngestTypes, NEW c \in Calls, batch[c] \in DOMAIN Export, NextBatch(c)
  PROVE  OnToBatch(c) \/ Answers(c)
<1>1. CASE batch[c] < Len(Export)
  <2>1. batch[c] + 1 \in DOMAIN Export
    BY <1>1, ExportTypes
  <2> QED
    BY <1>1, <2>1 DEF NextBatch, OnToBatch
<1>2. CASE ~(batch[c] < Len(Export))
  <2>1. batch[c] = Len(Export)
    BY <1>2, ExportTypes
  <2>2. answered' \in {answered, answered \/ sent = c}
    BY <1>2 DEF NextBatch
  <2>3. answered \in BOOLEAN
    BY DEF IngestTypes
  <2>4. answered' = answered \/ (answered' = TRUE /\ sent = c)
    BY <2>2, <2>3, Zenon
  <2> QED
    BY <1>2, <2>1, <2>4 DEF NextBatch, Answers
<1> QED
  BY <1>1, <1>2

\* The next event of the batch, or the next batch.
OnToEvent(c) ==
  /\ item[c] + 1 \in DOMAIN Export[batch[c]]
  /\ item' = [item EXCEPT ![c] = item[c] + 1]
  /\ call' = call /\ batch' = batch /\ answered' = answered

LEMMA NextEventMoves ==
  ASSUME IngestTypes, NEW c \in Calls, CallOK(c), UnderWay(c), NextEvent(c)
  PROVE  \/ OnToEvent(c)
         \/ item[c] = Len(Export[batch[c]]) /\ (OnToBatch(c) \/ Answers(c))
<1>0. batch[c] \in DOMAIN Export /\ item[c] \in 1 .. Len(Export[batch[c]])
      /\ Batch(c) = Export[batch[c]] /\ Len(Export[batch[c]]) \in Nat
  BY Position, ExportTypes
<1>1. CASE item[c] < Len(Batch(c))
  <2>1. item[c] + 1 \in DOMAIN Export[batch[c]]
    BY <1>0, <1>1, ExportTypes
  <2> QED
    BY <1>1, <2>1 DEF NextEvent, OnToEvent
<1>2. CASE ~(item[c] < Len(Batch(c)))
  <2>1. item[c] = Len(Export[batch[c]])
    BY <1>0, <1>2
  <2>2. NextBatch(c)
    BY <1>2 DEF NextEvent
  <2> QED
    BY <1>0, <2>1, <2>2, NextBatchMoves
<1> QED
  BY <1>1, <1>2

-----------------------------------------------------------------------------
(* Type correctness, step by step *)

LEMMA TypeInit == Init => TypeOK
<1> SUFFICES ASSUME Init PROVE TypeOK
  OBVIOUS
<1>1. IngestTypes
  <2>1. MaxCalls \in Nat /\ MaxDecisions \in Nat
    BY AnalyticsConstants
  <2>2. /\ consent \in [Sessions -> {"none", "granted", "denied"}]
        /\ call \in [Calls -> {"unsent", "check", "insert", "stored", "failed"}]
        /\ batch \in [Calls -> Nat] /\ item \in [Calls -> Nat]
        /\ allowed \in [Calls -> SUBSET Sessions] /\ grants \in [Calls -> SUBSET Sessions]
    BY DEF Init
  <2>3. decisions \in 0 .. MaxDecisions /\ sent \in 0 .. MaxCalls
    <3>1. decisions = 0 /\ sent = 0
      BY DEF Init
    <3> QED
      BY <2>1, <3>1
  <2>4. answered \in BOOLEAN
    BY Zenon DEF Init
  <2> QED
    BY <2>2, <2>3, <2>4 DEF IngestTypes
<1>2. StoreTypes
  BY MonthTypes DEF Init, StoreTypes
<1>3. CountTypes
  BY AnalyticsConstants DEF Init, CountTypes, Instants
<1>4. PassTypes
  BY <1>3, MonthTypes DEF Init, PassTypes, CountTypes
<1> QED
  BY <1>1, <1>2, <1>3, <1>4, TypeParts

LEMMA AnsweredType ==
  ASSUME answered \in BOOLEAN, NEW c, answered' = answered \/ (answered' = TRUE /\ sent = c)
  PROVE  answered' \in BOOLEAN
BY Zenon

LEMMA MovesTypes ==
  ASSUME IngestTypes, NEW c \in Calls, OnToBatch(c) \/ OnToEvent(c) \/ Answers(c)
  PROVE  /\ answered' \in BOOLEAN /\ batch' \in [Calls -> Nat] /\ item' \in [Calls -> Nat]
         /\ call' \in [Calls -> {"unsent", "check", "insert", "stored", "failed"}]
<1>1. CASE OnToBatch(c)
  BY <1>1 DEF OnToBatch, IngestTypes
<1>2. CASE OnToEvent(c)
  BY <1>2 DEF OnToEvent, IngestTypes
<1>3. CASE Answers(c)
  <2>1. answered' \in BOOLEAN
    BY <1>3, AnsweredType DEF Answers, IngestTypes
  <2> QED
    BY <1>3, <2>1 DEF Answers, IngestTypes
<1> QED
  BY <1>1, <1>2, <1>3

LEMMA IngestTypeSteps ==
  ASSUME IngestTypes, CallProgress,
         \/ \E s \in Sessions, state \in {"granted", "denied"} : Decide(s, state)
         \/ Send
         \/ \E c \in Calls : CallStep(c)
  PROVE  IngestTypes'
<1>1. ASSUME NEW s \in Sessions, NEW state \in {"granted", "denied"}, Decide(s, state)
      PROVE  IngestTypes'
  BY <1>1, AnalyticsConstants DEF Decide, IngestTypes, ingestVars
<1>2. CASE Send
  BY <1>2, AnalyticsConstants DEF Send, IngestTypes, consentVars, Calls
<1>3. ASSUME NEW c \in Calls, UnderWay(c) PROVE CallOK(c) /\ Session(c) \in Sessions
  BY <1>3, Position DEF CallProgress
<1>4. ASSUME NEW c \in Calls, CheckGrant(c) PROVE IngestTypes'
  <2>1. UnderWay(c) /\ CallOK(c) /\ Session(c) \in Sessions /\ batch[c] \in DOMAIN Export
    BY <1>3, <1>4, Position DEF CheckGrant, UnderWay
  <2>2. CASE /\ call' = [call EXCEPT ![c] = "insert"]
             /\ allowed' = [allowed EXCEPT ![c] = @ \union {Session(c)}]
             /\ UNCHANGED <<answered, batch, item>>
    BY <1>4, <2>1, <2>2 DEF CheckGrant, IngestTypes, consentVars
  <2>3. CASE NextBatch(c) /\ UNCHANGED allowed
    BY <1>4, <2>1, <2>3, NextBatchMoves, MovesTypes DEF CheckGrant, IngestTypes, consentVars
  <2> QED
    BY <1>4, <2>2, <2>3 DEF CheckGrant
<1>5. ASSUME NEW c \in Calls, InsertEvent(c) PROVE IngestTypes'
  <2>1. UnderWay(c) /\ NextEvent(c)
        /\ UNCHANGED <<consent, decisions, sent, allowed, grants>>
    BY <1>5 DEF InsertEvent, UnderWay, consentVars
  <2> QED
    BY <1>3, <2>1, NextEventMoves, MovesTypes DEF IngestTypes
<1>6. ASSUME NEW c \in Calls, FailCall(c) PROVE IngestTypes'
  BY <1>6 DEF FailCall, CallFailed, IngestTypes, consentVars
<1> QED
  BY <1>1, <1>2, <1>4, <1>5, <1>6 DEF CallStep

LEMMA MonthIsTyped ==
  ASSUME NEW x \in Rows, RowMonth(x) \in partitions, StoreTypes
  PROVE  Place(x) \in Months
BY DEF Place, StoreTypes

LEMMA StoreTypeSteps ==
  ASSUME StoreTypes, PassTypes, CallProgress, NEW c \in Calls, InsertEvent(c)
  PROVE  StoreTypes'
<1> DEFINE x == <<Batch(c)[item[c]], c>>
<1>1. x \in Rows
  BY Position DEF InsertEvent, UnderWay, CallProgress, Rows
<1>2. Place(x) \in Months \union {Absent, Default}
  BY DEF Place, StoreTypes
<1> QED
  BY <1>1, <1>2 DEF InsertEvent, StoreTypes

LEMMA EndsTypes == ASSUME PassTypes, NEW p \in Passes, Ends(p) PROVE PassTypes'
<1>1. 0 \in Instants /\ 0 \in Months
  BY MonthTypes, AnalyticsConstants DEF Instants
<1> QED
  BY <1>1 DEF Ends, PassTypes

LEMMA AfterMonthTypes ==
  ASSUME PassTypes, NEW p \in Passes, AfterMonth(p)
  PROVE  /\ at' \in [Passes -> PassSteps \union {"idle"}] /\ month' \in [Passes -> Months]
         /\ at' = [at EXCEPT ![p] = at'[p]] /\ at'[p] \in {"create", "drop"}
<1>1. CASE month[p] = MonthOf(asOf[p])
  <2>1. month[p] + 1 \in Months
    BY <1>1, MonthTypes DEF PassTypes
  <2> QED
    BY <1>1, <2>1 DEF AfterMonth, Step, PassTypes, PassSteps
<1>2. CASE month[p] # MonthOf(asOf[p])
  BY <1>2 DEF AfterMonth, Step, PassTypes, PassSteps
<1> QED
  BY <1>1, <1>2

LEMMA StartPassTypes == ASSUME TypeOK, NEW p \in Passes, StartPass(p) PROVE TypeOK'
<1>0. IngestTypes /\ StoreTypes /\ PassTypes /\ CountTypes
  BY TypeParts
<1>1. MonthOf(now) \in Months
  BY <1>0, MonthTypes DEF CountTypes
<1>2. PassTypes'
  BY <1>0, <1>1 DEF StartPass, Step, PassTypes, StoreTypes, CountTypes, PassSteps
<1> QED
  BY <1>0, <1>2, SameTypes, TypeParts DEF StartPass

LEMMA PassTypeSteps ==
  ASSUME TypeOK, NEW p \in Passes, PassStep(p) \/ FailPass(p) \/ GiveUp(p)
  PROVE  TypeOK'
<1>0. IngestTypes /\ StoreTypes /\ PassTypes /\ CountTypes
  BY TypeParts
<1>1. IngestTypes'
  BY <1>0, SameTypes
     DEF PassStep, SkipMonth, CreateMonth, TakeRows, PutRows, DropMonth, DropsDone, PruneDefault,
         FailPass, GiveUp
<1>2. CountTypes'
  BY <1>0, SameTypes, FailureTypes
     DEF PassStep, SkipMonth, CreateMonth, TakeRows, PutRows, DropMonth, DropsDone, PruneDefault,
         FailPass, GiveUp
<1>3. CASE PassFails(p)
  BY <1>0, <1>1, <1>2, <1>3, EndsTypes, SameTypes, TypeParts DEF PassFails
<1>4. CASE SkipMonth(p)
  <2>1. PassTypes'
    BY <1>0, <1>4, AfterMonthTypes DEF SkipMonth, PassTypes
  <2> QED
    BY <1>0, <1>1, <1>2, <1>4, <2>1, SameTypes, TypeParts DEF SkipMonth
<1>5. CASE CreateMonth(p) /\ ~PassFails(p)
  <2>1. PassTypes'
    BY <1>0, <1>5, AfterMonthTypes DEF CreateMonth, Step, PassTypes, PassSteps
  <2>2. StoreTypes'
    BY <1>0, <1>5 DEF CreateMonth, StoreTypes, PassTypes
  <2> QED
    BY <1>1, <1>2, <2>1, <2>2, TypeParts
<1>6. CASE TakeRows(p)
  <2>1. InDefault(month[p]) \in SUBSET Rows
    BY DEF InDefault
  <2>2. PassTypes'
    BY <1>0, <1>6, <2>1 DEF TakeRows, Step, PassTypes, PassSteps
  <2> QED
    BY <1>0, <1>1, <1>2, <1>6, <2>2, SameTypes, TypeParts DEF TakeRows, AfterTaking
<1>7. CASE PutRows(p) /\ ~PassFails(p)
  <2>1. PassTypes'
    BY <1>0, <1>7, AfterMonthTypes DEF PutRows, PassTypes
  <2>2. StoreTypes'
    BY <1>0, <1>7 DEF PutRows, StoreTypes, PassTypes
  <2> QED
    BY <1>1, <1>2, <2>1, <2>2, TypeParts
<1>8. ASSUME NEW m \in Months, DropMonth(p, m), ~PassFails(p) PROVE TypeOK'
  <2>1. PassTypes'
    BY <1>0, <1>8 DEF DropMonth, PassTypes
  <2>2. StoreTypes'
    BY <1>0, <1>8 DEF DropMonth, StoreTypes
  <2> QED
    BY <1>1, <1>2, <2>1, <2>2, TypeParts
<1>9. CASE DropsDone(p)
  <2>1. PassTypes'
    BY <1>0, <1>9 DEF DropsDone, Step, PassTypes, PassSteps
  <2> QED
    BY <1>0, <1>1, <1>2, <1>9, <2>1, SameTypes, TypeParts DEF DropsDone
<1>10. CASE PruneDefault(p)
  <2>1. StoreTypes'
    BY <1>0, <1>10 DEF PruneDefault, StoreTypes
  <2> QED
    BY <1>0, <1>1, <1>2, <1>10, <2>1, EndsTypes, TypeParts DEF PruneDefault
<1>11. CASE GiveUp(p)
  <2>1. PassTypes'
    BY <1>0, <1>11 DEF GiveUp, PassTypes
  <2> QED
    BY <1>0, <1>1, <1>2, <1>11, <2>1, SameTypes, TypeParts DEF GiveUp
<1> QED
  BY <1>3, <1>4, <1>5, <1>6, <1>7, <1>8, <1>9, <1>10, <1>11 DEF PassStep, FailPass

LEMMA TypeStep == TypeOK /\ CallProgress /\ [Next]_vars => TypeOK'
<1> SUFFICES ASSUME TypeOK, CallProgress, [Next]_vars PROVE TypeOK'
  OBVIOUS
<1>0. IngestTypes /\ StoreTypes /\ PassTypes /\ CountTypes
  BY TypeParts
<1>1. ASSUME \/ \E s \in Sessions, state \in {"granted", "denied"} : Decide(s, state)
             \/ Send
             \/ \E c \in Calls : CallStep(c)
      PROVE  TypeOK'
  <2>1. IngestTypes' /\ PassTypes'
    BY <1>0, <1>1, IngestTypeSteps, SameTypes
       DEF Decide, Send, CallStep, CheckGrant, InsertEvent, FailCall
  <2>2. StoreTypes'
    BY <1>0, <1>1, StoreTypeSteps, SameTypes DEF Decide, Send, CallStep, CheckGrant, FailCall
  <2>3. CountTypes'
    BY <1>0, <1>1, SameTypes, FailureTypes
       DEF Decide, Send, CallStep, CheckGrant, InsertEvent, FailCall
  <2> QED
    BY <2>1, <2>2, <2>3, TypeParts
<1>2. ASSUME NEW p \in Passes, StartPass(p) \/ PassStep(p) \/ FailPass(p) \/ GiveUp(p)
      PROVE  TypeOK'
  BY <1>2, StartPassTypes, PassTypeSteps
<1>3. CASE Tick
  <2>1. CountTypes'
    BY <1>0, <1>3, AnalyticsConstants DEF Tick, CountTypes, Instants
  <2> QED
    BY <1>0, <1>3, <2>1, SameTypes, TypeParts DEF Tick
<1>4. CASE UNCHANGED vars
  BY <1>0, <1>4, SameTypes, TypeParts DEF vars
<1> QED
  BY <1>1, <1>2, <1>3, <1>4 DEF Next

-----------------------------------------------------------------------------
(* What a step does to a row, and to a pass *)

LEMMA TimeGoesOn ==
  ASSUME TypeOK, [Next]_vars
  PROVE  now \in Int /\ now' \in Int /\ now <= now'
<1>1. now \in Int
  BY DEF TypeOK, Instants
<1>2. ASSUME NEW p \in Passes, StartPass(p) \/ PassStep(p) \/ FailPass(p) \/ GiveUp(p)
      PROVE  now' = now
  BY <1>2 DEF StartPass, PassStep, SkipMonth, CreateMonth, TakeRows, PutRows, DropMonth, DropsDone,
              PruneDefault, FailPass, GiveUp
<1>3. ASSUME NEW c \in Calls, CallStep(c) PROVE now' = now
  BY <1>3 DEF CallStep, CheckGrant, InsertEvent, FailCall
<1>4. ASSUME \/ \E s \in Sessions, state \in {"granted", "denied"} : Decide(s, state)
             \/ Send \/ UNCHANGED vars
      PROVE  now' = now
  BY <1>4 DEF Decide, Send, vars
<1>5. Tick => now' = now + 1
  BY DEF Tick
<1>6. now' = now \/ now' = now + 1
  BY <1>2, <1>3, <1>4, <1>5 DEF Next
<1> QED
  BY <1>1, <1>6

Inserted(c, x) == InsertEvent(c) /\ x = <<Batch(c)[item[c]], c>> /\ rows'[x] = Place(x)
PutBack(p, x)  == x \in moved[p] /\ rows'[x] = month[p]

LEMMA DroppedIsPast ==
  ASSUME TypeOK, NEW x \in Rows, RowOK(x), NEW p \in Passes, PassOK(p),
         rows[x] \in Months, Expired(rows[x], asOf[p])
  PROVE  PastRetention(x)
<1>1. rows[x] = RowMonth(x) /\ asOf[p] <= now /\ asOf[p] \in Int /\ now \in Int
      /\ OccurredAt[x[1]] \in Nat /\ Period \in Nat /\ MonthLength \in Nat \ {0}
  BY RowTypes, AnalyticsConstants DEF RowOK, PassOK, TypeOK, Instants
<1>2. OccurredAt[x[1]] < (RowMonth(x) + 1) * MonthLength
  BY <1>1, DivisionBounds DEF RowMonth, MonthOf
<1>3. RowMonth(x) \in Nat /\ (RowMonth(x) + 1) * MonthLength \in Int
  BY <1>1, RowTypes
<1> QED
  BY <1>1, <1>2, <1>3 DEF Expired, PastRetention

LEMMA PrunedIsPast ==
  ASSUME TypeOK, NEW x \in Rows, NEW p \in Passes, PassOK(p), Prunable(x, asOf[p])
  PROVE  PastRetention(x)
<1>1. asOf[p] <= now /\ asOf[p] \in Int /\ now \in Int /\ OccurredAt[x[1]] \in Nat /\ Period \in Nat
  BY RowTypes, AnalyticsConstants DEF PassOK, TypeOK, Instants
<1> QED
  BY <1>1 DEF Prunable, PastRetention

LEMMA RowMoves ==
  ASSUME TypeOK, RowsPlaced, PassProgress, CallProgress, [Next]_vars, NEW x \in Rows
  PROVE  \/ rows'[x] = rows[x]
         \/ \E c \in Calls : Inserted(c, x)
         \/ \E p \in Passes : PutBack(p, x)
         \/ rows'[x] = Absent /\ PastRetention(x)
<1>0. StoreTypes
  BY TypeParts
<1>1. ASSUME NEW c \in Calls, InsertEvent(c)
      PROVE  rows'[x] = rows[x] \/ Inserted(c, x)
  BY <1>0, <1>1 DEF InsertEvent, Inserted, StoreTypes
<1>2. ASSUME NEW p \in Passes, PutRows(p) PROVE rows'[x] = rows[x] \/ PutBack(p, x)
  BY <1>2 DEF PutRows, PassFails, PutBack
<1>3. ASSUME NEW p \in Passes, NEW m \in Months, DropMonth(p, m)
      PROVE  rows'[x] = rows[x] \/ (rows'[x] = Absent /\ PastRetention(x))
  <2>1. CASE rows' = [y \in Rows |-> IF rows[y] = m THEN Absent ELSE rows[y]]
    BY <1>3, <2>1, DroppedIsPast DEF DropMonth, RowsPlaced, PassProgress
  <2> QED
    BY <1>3, <2>1 DEF DropMonth, PassFails
<1>4. ASSUME NEW p \in Passes, PruneDefault(p)
      PROVE  rows'[x] = rows[x] \/ (rows'[x] = Absent /\ PastRetention(x))
  BY <1>4, PrunedIsPast DEF PruneDefault, PassProgress
<1>5. ASSUME NEW p \in Passes, \/ StartPass(p) \/ SkipMonth(p) \/ CreateMonth(p) \/ TakeRows(p)
                               \/ DropsDone(p) \/ FailPass(p) \/ GiveUp(p)
      PROVE  rows' = rows
  BY <1>5 DEF StartPass, SkipMonth, CreateMonth, TakeRows, AfterTaking, DropsDone, FailPass,
              PassFails, GiveUp
<1>6. ASSUME NEW c \in Calls, CheckGrant(c) \/ FailCall(c) PROVE rows' = rows
  BY <1>6 DEF CheckGrant, FailCall
<1>7. ASSUME \/ \E s \in Sessions, state \in {"granted", "denied"} : Decide(s, state)
             \/ Send \/ Tick \/ UNCHANGED vars
      PROVE  rows' = rows
  BY <1>7 DEF Decide, Send, Tick, vars
<1> QED
  BY <1>1, <1>2, <1>3, <1>4, <1>5, <1>6, <1>7 DEF Next, CallStep, PassStep

\* A month is a number from 0 on: a row that is somewhere is not absent.
LEMMA PlacesApart ==
  /\ Absent \notin Months /\ Default \notin Months /\ Default # Absent
  /\ \A x \in Rows : Place(x) # Absent
<1>1. \A m \in Months : m # Absent /\ m # Default
  BY MonthTypes DEF Absent, Default
<1>2. Default # Absent
  BY DEF Absent, Default
<1>3. \A x \in Rows : RowMonth(x) # Absent
  BY RowTypes DEF Absent
<1> QED
  BY <1>1, <1>2, <1>3 DEF Place

\* Nothing safe is lost.
LEMMA SafeStays ==
  ASSUME TypeOK, RowsPlaced, PassProgress, CallProgress, [Next]_vars, NEW x \in Rows, Safe(x)
  PROVE  Safe(x)'
<1>1. PastRetention(x) => PastRetention(x)'
  BY TimeGoesOn, RowTypes, AnalyticsConstants DEF PastRetention
<1>2. \A p \in Passes : month[p] # Absent
  BY PlacesApart DEF TypeOK
<1> QED
  BY <1>1, <1>2, RowMoves, PlacesApart DEF Safe, Stored, Inserted, PutBack

LEMMA PassMoves ==
  ASSUME TypeOK, PassProgress, [Next]_vars, NEW p \in Passes
  PROVE  /\ asOf'[p] \in {asOf[p], 0, now}
         /\ \/ moved'[p] = {}
            \/ /\ moved'[p] = moved[p] /\ month'[p] = month[p] /\ at'[p] = at[p]
            \/ /\ moved'[p] = InDefault(month[p]) /\ month'[p] = month[p] /\ at'[p] = "put"
<1>0. PassTypes /\ PassOK(p)
  BY TypeParts DEF PassProgress
<1> DEFINE Same(q) == /\ moved'[q] = moved[q] /\ month'[q] = month[q] /\ at'[q] = at[q]
                      /\ asOf'[q] = asOf[q]
<1>1. ASSUME NEW q \in Passes, Ends(q)
      PROVE  asOf'[q] = 0 /\ moved'[q] = {} /\ \A r \in Passes \ {q} : Same(r)
  BY <1>0, <1>1 DEF Ends, PassTypes
<1>2. ASSUME NEW q \in Passes, AfterMonth(q)
      PROVE  \A r \in Passes \ {q} : month'[r] = month[r] /\ at'[r] = at[r]
  BY <1>0, <1>2 DEF AfterMonth, Step, PassTypes
<1>3. ASSUME NEW q \in Passes, PassFails(q) \/ FailPass(q) \/ PruneDefault(q)
      PROVE  (p = q /\ asOf'[p] = 0 /\ moved'[p] = {}) \/ Same(p)
  BY <1>1, <1>3 DEF PassFails, FailPass, PruneDefault
<1>4. ASSUME NEW q \in Passes, StartPass(q)
      PROVE  (p = q /\ asOf'[p] = now /\ moved'[p] = {}) \/ Same(p)
  BY <1>0, <1>4 DEF StartPass, Step, PassTypes, PassOK
<1>5. ASSUME NEW q \in Passes, SkipMonth(q) \/ (CreateMonth(q) /\ ~PassFails(q))
      PROVE  (p = q /\ asOf'[p] = asOf[p] /\ moved'[p] = {}) \/ Same(p)
  <2>1. at[q] = "create" /\ moved' = moved /\ asOf' = asOf
    BY <1>5 DEF SkipMonth, CreateMonth
  <2>2. p = q => moved[p] = {}
    BY <1>0, <2>1 DEF PassOK
  <2>3. p # q => month'[p] = month[p] /\ at'[p] = at[p]
    BY <1>0, <1>2, <1>5 DEF SkipMonth, CreateMonth, Step, PassTypes
  <2> QED
    BY <2>1, <2>2, <2>3
<1>6. ASSUME NEW q \in Passes, TakeRows(q)
      PROVE  \/ /\ p = q /\ asOf'[p] = asOf[p] /\ moved'[p] = InDefault(month[p])
                /\ month'[p] = month[p] /\ at'[p] = "put"
             \/ Same(p)
  BY <1>0, <1>6 DEF TakeRows, Step, PassTypes
<1>7. ASSUME NEW q \in Passes, PutRows(q), ~PassFails(q)
      PROVE  (p = q /\ asOf'[p] = asOf[p] /\ moved'[p] = {}) \/ Same(p)
  BY <1>0, <1>2, <1>7 DEF PutRows, PassTypes
<1>8. ASSUME NEW q \in Passes, GiveUp(q) \/ (\E m \in Months : DropMonth(q, m) /\ ~PassFails(q))
      PROVE  Same(p)
  BY <1>8 DEF GiveUp, DropMonth
<1>9. ASSUME NEW q \in Passes, DropsDone(q)
      PROVE  (p = q /\ asOf'[p] = asOf[p] /\ moved'[p] = {}) \/ Same(p)
  BY <1>0, <1>9 DEF DropsDone, Step, PassTypes, PassOK
<1>10. ASSUME \/ \E s \in Sessions, state \in {"granted", "denied"} : Decide(s, state)
              \/ Send \/ Tick \/ UNCHANGED vars \/ \E c \in Calls : CallStep(c)
       PROVE  Same(p)
  BY <1>10 DEF Decide, Send, Tick, CallStep, CheckGrant, InsertEvent, FailCall, vars, passVars
<1>11. ASSUME NEW q \in Passes, \/ StartPass(q) \/ PassStep(q) \/ FailPass(q) \/ GiveUp(q)
       PROVE  \/ Same(p)
              \/ asOf'[p] \in {asOf[p], 0, now} /\ moved'[p] = {}
              \/ /\ asOf'[p] = asOf[p] /\ moved'[p] = InDefault(month[p])
                 /\ month'[p] = month[p] /\ at'[p] = "put"
  BY <1>3, <1>4, <1>5, <1>6, <1>7, <1>8, <1>9, <1>11 DEF PassStep
<1> QED
  BY <1>10, <1>11 DEF Next

-----------------------------------------------------------------------------
(* The rows and the passes keep their part of the invariant *)

LEMMA PassOKStep ==
  ASSUME TypeOK, PassProgress, [Next]_vars, NEW p \in Passes
  PROVE  PassOK(p)'
<1>1. PassOK(p) /\ now \in Nat /\ asOf[p] \in Int
  BY DEF PassProgress, TypeOK, Instants
<1>2. asOf'[p] <= now'
  BY <1>1, PassMoves, TimeGoesOn DEF PassOK
<1> QED
  BY <1>1, <1>2, PassMoves DEF PassOK

LEMMA GrantsGrow ==
  ASSUME TypeOK, [Next]_vars, NEW c \in Calls, c <= sent
  PROVE  c <= sent' /\ grants[c] \subseteq grants'[c]
<1>0. c \in Int /\ sent \in Int
  BY DEF TypeOK, Calls
<1>1. ASSUME NEW s \in Sessions, NEW state \in {"granted", "denied"}, Decide(s, state)
      PROVE  sent' = sent /\ grants[c] \subseteq grants'[c]
  BY <1>1 DEF Decide, ingestVars
<1>2. CASE Send
  BY <1>0, <1>2 DEF Send, TypeOK
<1>3. ASSUME NEW d \in Calls, CallStep(d) PROVE sent' = sent /\ grants' = grants
  BY <1>3 DEF CallStep, CheckGrant, InsertEvent, FailCall
<1>4. ASSUME NEW p \in Passes, StartPass(p) \/ PassStep(p) \/ FailPass(p) \/ GiveUp(p)
      PROVE  sent' = sent /\ grants' = grants
  BY <1>4 DEF StartPass, PassStep, SkipMonth, CreateMonth, TakeRows, PutRows, DropMonth, DropsDone,
              PruneDefault, FailPass, GiveUp, ingestVars
<1>5. CASE Tick \/ UNCHANGED vars
  BY <1>5 DEF Tick, vars, ingestVars
<1> QED
  BY <1>0, <1>1, <1>2, <1>3, <1>4, <1>5 DEF Next

LEMMA InsertedIsGranted ==
  ASSUME TypeOK, CallProgress, NEW c \in Calls, NEW x \in Rows, Inserted(c, x)
  PROVE  x[2] = c /\ c <= sent /\ SessionOf[x[1]] \in grants[c]
<1>1. CallOK(c) /\ call[c] = "insert" /\ UnderWay(c)
  BY DEF CallProgress, Inserted, InsertEvent, UnderWay
<1>2. x[1] = Batch(c)[item[c]] /\ x[2] = c
  BY DEF Inserted
<1>3. SessionOf[x[1]] \in allowed[c]
  BY <1>1, <1>2, Position DEF CallOK
<1>4. c \in Int /\ sent \in Int
  BY DEF TypeOK, Calls
<1> QED
  BY <1>1, <1>2, <1>3, <1>4 DEF CallOK

LEMMA RowOKStep ==
  ASSUME TypeOK, RowsPlaced, PassProgress, CallProgress, [Next]_vars, NEW x \in Rows
  PROVE  RowOK(x)'
<1>0. RowOK(x) /\ x[2] \in Calls
  BY RowTypes DEF RowsPlaced
<1>1. ASSUME NEW p \in Passes, x \in moved'[p]
      PROVE  (InMove(x) \/ Stored(x)) /\ RowMonth(x) = month'[p]
  <2>1. CASE moved'[p] = moved[p] /\ month'[p] = month[p]
    BY <1>0, <1>1, <2>1 DEF RowOK, InMove
  <2>2. CASE moved'[p] = InDefault(month[p]) /\ month'[p] = month[p]
    BY <1>1, <2>2, PlacesApart DEF InDefault, Stored
  <2> QED
    BY <1>1, <2>1, <2>2, PassMoves
<1>2. Stored(x)' => InMove(x) \/ Stored(x) \/ \E c \in Calls : Inserted(c, x)
  BY RowMoves DEF Stored, PutBack, InMove
<1>3. InMove(x)' => InMove(x) \/ Stored(x)
  BY <1>1 DEF InMove
<1>4. Stored(x)' \/ InMove(x)' => x[2] <= sent /\ SessionOf[x[1]] \in grants[x[2]]
  BY <1>0, <1>2, <1>3, InsertedIsGranted DEF RowOK
<1>5. Stored(x)' \/ InMove(x)' => x[2] <= sent' /\ SessionOf[x[1]] \in grants'[x[2]]
  BY <1>0, <1>4, GrantsGrow
<1>6. rows'[x] \in Months => rows'[x] = RowMonth(x)
  BY <1>0, RowMoves, PlacesApart DEF RowOK, Inserted, Place, PutBack
<1> QED
  BY <1>1, <1>5, <1>6 DEF RowOK, RowMonth

-----------------------------------------------------------------------------
(* The calls keep theirs *)

\* A call that a step does not touch.
SameCall(d) ==
  /\ call'[d] = call[d] /\ batch'[d] = batch[d] /\ item'[d] = item[d]
  /\ allowed'[d] = allowed[d]

LEMMA CallStays ==
  ASSUME NEW d \in Calls, CallOK(d), SameCall(d),
         consent' = consent, grants'[d] = grants[d], sent' = sent
  PROVE  CallOK(d)'
BY DEF CallOK, SameCall, UnderWay, Session, Batch

LEMMA PassedStays ==
  ASSUME NEW d \in Calls, SameCall(d), NEW i, NEW k
  PROVE  Passed(d, i, k)' <=> Passed(d, i, k)
BY DEF SameCall, Passed, UnderWay

\* The sessions of two batches differ.
LEMMA BatchesApart ==
  ASSUME NEW i \in DOMAIN Export, NEW j \in DOMAIN Export, i # j
  PROVE  SessionOf[Export[i][1]] # SessionOf[Export[j][1]]
<1>1. 1 \in DOMAIN Export[i] /\ 1 \in DOMAIN Export[j]
  BY ExportTypes
<1>2. \A k \in DOMAIN Export[i], l \in DOMAIN Export[j] :
        SessionOf[Export[i][k]] = SessionOf[Export[j][l]] <=> i = j
  BY AnalyticsConstants
<1> QED
  BY <1>1, <1>2

\* A call that has got past an event has stored it, or found no grant for it.
LEMMA KeptByStep ==
  ASSUME TypeOK, RowsPlaced, PassProgress, CallProgress, [Next]_vars, NEW d \in Calls, KeptBy(d),
         \A i \in DOMAIN Export : \A k \in DOMAIN Export[i] :
           SessionOf[Export[i][k]] \in allowed'[d] /\ Passed(d, i, k)' =>
             \/ SessionOf[Export[i][k]] \in allowed[d] /\ Passed(d, i, k)
             \/ Safe(<<Export[i][k], d>>)'
  PROVE  KeptBy(d)'
<1> SUFFICES ASSUME NEW i \in DOMAIN Export, NEW k \in DOMAIN Export[i],
                    SessionOf[Export[i][k]] \in allowed[d], Passed(d, i, k)
             PROVE  Safe(<<Export[i][k], d>>)'
  BY DEF KeptBy
<1>1. <<Export[i][k], d>> \in Rows
  BY ExportTypes DEF Rows
<1> QED
  BY <1>1, SafeStays DEF KeptBy

LEMMA CheckGrantKeeps ==
  ASSUME IInv, [Next]_vars, NEW c \in Calls, CheckGrant(c)
  PROVE  CallOK(c)' /\ KeptBy(c)'
<1>0. /\ IngestTypes /\ CallOK(c) /\ KeptBy(c) /\ call[c] = "check" /\ UnderWay(c)
      /\ batch[c] \in DOMAIN Export /\ batch[c] \in Nat /\ item[c] = 1
      /\ Session(c) = SessionOf[Export[batch[c]][1]] /\ Session(c) \in Sessions
      /\ Session(c) \notin allowed[c] /\ c <= sent
  <2>1. call[c] = "check" /\ UnderWay(c) /\ CallOK(c)
    BY DEF CheckGrant, UnderWay, IInv, CallProgress
  <2>2. c \in Int /\ sent \in Int
    BY DEF IInv, TypeOK, Calls
  <2> QED
    BY <2>1, <2>2, Position, TypeParts DEF IInv, Kept, CallOK
<1>1. UNCHANGED <<consent, sent, grants>>
  BY DEF CheckGrant, consentVars
<1>2. CASE /\ HasGrant(Session(c)) /\ call' = [call EXCEPT ![c] = "insert"]
           /\ allowed' = [allowed EXCEPT ![c] = @ \union {Session(c)}]
           /\ UNCHANGED <<batch, item>>
  <2>1. call'[c] = "insert" /\ allowed'[c] = allowed[c] \union {Session(c)}
        /\ batch'[c] = batch[c] /\ item'[c] = 1
    BY <1>0, <1>2 DEF IngestTypes
  <2>2. \A i \in DOMAIN Export :
          i # batch[c] => SessionOf[Export[i][1]] # Session(c)
    BY <1>0, BatchesApart
  <2>3. Session(c) \in grants[c]
    BY <1>0, <1>2 DEF HasGrant, CallOK
  <2>4. Session(c)' = Session(c)
    BY <2>1 DEF Session, Batch
  <2>5. CallOK(c)'
    <3>1. \A i \in DOMAIN Export :
            i > batch'[c] => SessionOf[Export[i][1]] \notin allowed'[c]
      BY <1>0, <2>1, <2>2 DEF CallOK
    <3> QED
      BY <1>0, <1>1, <2>1, <2>3, <2>4, <3>1 DEF CallOK, UnderWay
  <2>6. ASSUME NEW i \in DOMAIN Export, NEW k \in DOMAIN Export[i],
               SessionOf[Export[i][k]] \in allowed'[c], Passed(c, i, k)'
        PROVE  SessionOf[Export[i][k]] \in allowed[c] /\ Passed(c, i, k)
    <3>1. i < batch[c] \/ (i = batch[c] /\ k < 1)
      BY <1>0, <2>1, <2>6 DEF Passed, UnderWay
    <3>2. i \in Nat /\ k \in Nat /\ k >= 1
      BY ExportTypes
    <3>3. i < batch[c] /\ i # batch[c]
      BY <1>0, <3>1, <3>2
    <3>4. SessionOf[Export[i][k]] = SessionOf[Export[i][1]]
      BY ExportTypes
    <3> QED
      BY <1>0, <2>1, <2>2, <2>6, <3>3, <3>4 DEF Passed, UnderWay
  <2> QED
    BY <1>0, <2>5, <2>6, KeptByStep DEF IInv
<1>3. CASE NextBatch(c) /\ UNCHANGED allowed
  <2>1. OnToBatch(c) \/ Answers(c)
    BY <1>0, <1>3, NextBatchMoves
  <2>2. CallOK(c)'
    <3>1. CASE OnToBatch(c)
      <4>1. call'[c] = "check" /\ batch'[c] = batch[c] + 1 /\ item'[c] = 1
            /\ batch'[c] \in DOMAIN Export /\ 1 \in DOMAIN Export[batch'[c]]
        BY <1>0, <3>1, ExportTypes DEF OnToBatch, IngestTypes
      <4>2. \A i \in DOMAIN Export : i \in Nat
        BY ExportTypes
      <4>3. \A i \in DOMAIN Export :
              i > batch[c] => SessionOf[Export[i][1]] \notin allowed[c]
        BY <1>0 DEF CallOK
      <4>4. Session(c)' \notin allowed[c]
        BY <1>0, <4>1, <4>3 DEF Session, Batch
      <4> QED
        BY <1>0, <1>1, <1>3, <4>1, <4>2, <4>3, <4>4 DEF CallOK, UnderWay
    <3>2. CASE Answers(c)
      <4>1. call'[c] = "stored"
        BY <1>0, <3>2 DEF Answers, IngestTypes
      <4> QED
        BY <1>0, <1>1, <1>3, <4>1 DEF CallOK, UnderWay
    <3> QED
      BY <2>1, <3>1, <3>2
  <2>3. ASSUME NEW i \in DOMAIN Export, NEW k \in DOMAIN Export[i],
               SessionOf[Export[i][k]] \in allowed'[c], Passed(c, i, k)'
        PROVE  SessionOf[Export[i][k]] \in allowed[c] /\ Passed(c, i, k)
    <3>1. i \in Nat /\ i <= Len(Export) /\ SessionOf[Export[i][k]] = SessionOf[Export[i][1]]
      BY ExportTypes
    <3>2. i # batch[c]
      BY <1>0, <1>3, <2>3, <3>1
    <3>3. i < batch[c]
      <4>1. CASE OnToBatch(c)
        <5>1. call'[c] = "check" /\ batch'[c] = batch[c] + 1
          BY <1>0, <4>1 DEF OnToBatch, IngestTypes
        <5> QED
          BY <1>0, <2>3, <3>1, <3>2, <5>1 DEF Passed, UnderWay
      <4>2. CASE Answers(c)
        BY <1>0, <3>1, <3>2, <4>2 DEF Answers
      <4> QED
        BY <2>1, <4>1, <4>2
    <3> QED
      BY <1>0, <1>3, <2>3, <3>3 DEF Passed
  <2> QED
    BY <1>0, <2>2, <2>3, KeptByStep DEF IInv
<1> QED
  BY <1>2, <1>3 DEF CheckGrant

LEMMA InsertEventKeeps ==
  ASSUME IInv, [Next]_vars, NEW c \in Calls, InsertEvent(c)
  PROVE  CallOK(c)' /\ KeptBy(c)'
<1>0. /\ IngestTypes /\ StoreTypes /\ CallOK(c) /\ KeptBy(c) /\ call[c] = "insert" /\ UnderWay(c)
      /\ batch[c] \in DOMAIN Export /\ batch[c] \in Nat /\ item[c] \in Nat
      /\ Session(c) = SessionOf[Export[batch[c]][1]] /\ Session(c) \in allowed[c] /\ c <= sent
      /\ Batch(c) = Export[batch[c]] /\ Batch(c)[item[c]] \in Events
  <2>1. call[c] = "insert" /\ UnderWay(c) /\ CallOK(c)
    BY DEF InsertEvent, UnderWay, IInv, CallProgress
  <2>2. c \in Int /\ sent \in Int
    BY DEF IInv, TypeOK, Calls
  <2> QED
    BY <2>1, <2>2, Position, TypeParts DEF IInv, Kept, CallOK
<1>1. UNCHANGED <<consent, sent, grants, allowed>> /\ NextEvent(c)
  BY DEF InsertEvent, consentVars
<1>2. OnToEvent(c) \/ (item[c] = Len(Export[batch[c]]) /\ (OnToBatch(c) \/ Answers(c)))
  BY <1>0, <1>1, NextEventMoves
<1>3. \A i \in DOMAIN Export : i > batch[c] => SessionOf[Export[i][1]] \notin allowed[c]
  BY <1>0 DEF CallOK
<1>4. CallOK(c)'
  <2>1. CASE OnToEvent(c)
    <3>1. /\ call'[c] = "insert" /\ batch'[c] = batch[c]
          /\ item'[c] \in DOMAIN Export[batch[c]]
      BY <1>0, <2>1 DEF OnToEvent, IngestTypes
    <3>2. Session(c)' = Session(c)
      BY <3>1 DEF Session, Batch
    <3> QED
      BY <1>0, <1>1, <1>3, <3>1, <3>2 DEF CallOK, UnderWay
  <2>2. CASE OnToBatch(c)
    <3>1. call'[c] = "check" /\ batch'[c] = batch[c] + 1 /\ item'[c] = 1
          /\ batch'[c] \in DOMAIN Export /\ 1 \in DOMAIN Export[batch'[c]]
      BY <1>0, <2>2, ExportTypes DEF OnToBatch, IngestTypes
    <3>2. \A i \in DOMAIN Export : i \in Nat
      BY ExportTypes
    <3>3. Session(c)' \notin allowed[c]
      BY <1>0, <1>3, <3>1 DEF Session, Batch
    <3> QED
      BY <1>0, <1>1, <1>3, <3>1, <3>2, <3>3 DEF CallOK, UnderWay
  <2>3. CASE Answers(c)
    <3>1. call'[c] = "stored"
      BY <1>0, <2>3 DEF Answers, IngestTypes
    <3> QED
      BY <1>0, <1>1, <3>1 DEF CallOK, UnderWay
  <2> QED
    BY <1>2, <2>1, <2>2, <2>3
<1>5. PICK x \in Rows : x = <<Export[batch[c]][item[c]], c>>
  BY <1>0 DEF Rows
<1>6. Safe(x)'
  <2>1. rows'[x] = Place(x)
    BY <1>0, <1>5 DEF InsertEvent, StoreTypes
  <2> QED
    BY <2>1, PlacesApart DEF Safe, Stored
<1>7. ASSUME NEW i \in DOMAIN Export, NEW k \in DOMAIN Export[i],
             SessionOf[Export[i][k]] \in allowed'[c], Passed(c, i, k)'
      PROVE  \/ SessionOf[Export[i][k]] \in allowed[c] /\ Passed(c, i, k)
             \/ Safe(<<Export[i][k], c>>)'
  <2>0. /\ i \in Nat /\ i <= Len(Export) /\ k \in Nat /\ k <= Len(Export[i])
    BY ExportTypes
  <2>1. i < batch[c] \/ (i = batch[c] /\ k <= item[c])
    <3>1. CASE OnToEvent(c)
      <4>1. call'[c] = "insert" /\ batch'[c] = batch[c] /\ item'[c] = item[c] + 1
        BY <1>0, <3>1 DEF OnToEvent, IngestTypes
      <4> QED
        BY <1>0, <1>7, <2>0, <4>1 DEF Passed, UnderWay
    <3>2. CASE item[c] = Len(Export[batch[c]]) /\ OnToBatch(c)
      <4>1. call'[c] = "check" /\ batch'[c] = batch[c] + 1
        BY <1>0, <3>2 DEF OnToBatch, IngestTypes
      <4> QED
        BY <1>0, <1>7, <2>0, <3>2, <4>1 DEF Passed, UnderWay
    <3>3. CASE item[c] = Len(Export[batch[c]]) /\ Answers(c)
      BY <1>0, <2>0, <3>3 DEF Answers
    <3> QED
      BY <1>2, <3>1, <3>2, <3>3
  <2>2. CASE i < batch[c] \/ (i = batch[c] /\ k < item[c])
    BY <1>0, <1>1, <1>7, <2>2 DEF Passed
  <2>3. CASE i = batch[c] /\ k = item[c]
    <3>1. <<Export[i][k], c>> = x
      BY <1>5, <2>3
    <3> QED
      BY <1>6, <3>1
  <2> QED
    BY <1>0, <2>0, <2>1, <2>2, <2>3
<1> QED
  BY <1>0, <1>4, <1>7, KeptByStep DEF IInv

LEMMA FailCallKeeps ==
  ASSUME IInv, [Next]_vars, NEW c \in Calls, FailCall(c)
  PROVE  CallOK(c)' /\ KeptBy(c)'
<1>1. /\ CallOK(c) /\ KeptBy(c) /\ UnderWay(c) /\ call'[c] = "failed"
      /\ UNCHANGED <<sent, grants, allowed>>
  BY DEF IInv, CallProgress, Kept, FailCall, CallFailed, TypeOK
<1>2. c <= sent
  <2>1. c \in Int /\ sent \in Int
    BY DEF IInv, TypeOK, Calls
  <2> QED
    BY <1>1, <2>1 DEF CallOK, UnderWay
<1>3. CallOK(c)'
  BY <1>1, <1>2 DEF CallOK, UnderWay
<1>4. \A i, k : ~Passed(c, i, k)'
  BY <1>1 DEF Passed, UnderWay
<1> QED
  BY <1>3, <1>4 DEF KeptBy

LEMMA DecideKeeps ==
  ASSUME IInv, [Next]_vars, NEW s \in Sessions, NEW state \in {"granted", "denied"},
         Decide(s, state), NEW c \in Calls
  PROVE  CallOK(c)' /\ KeptBy(c)'
<1>1. /\ IngestTypes /\ CallOK(c) /\ KeptBy(c) /\ SameCall(c) /\ sent' = sent
      /\ allowed' = allowed
  BY TypeParts DEF IInv, CallProgress, Kept, Decide, ingestVars, SameCall
<1>2. /\ grants[c] \subseteq grants'[c]
      /\ UnderWay(c) /\ state = "granted" => s \in grants'[c]
  BY DEF Decide
<1>3. \A r \in Sessions : consent'[r] = "granted" =>
        consent[r] = "granted" \/ (r = s /\ state = "granted")
  BY <1>1 DEF Decide, IngestTypes
<1>4. Session(c)' = Session(c) /\ (UnderWay(c)' <=> UnderWay(c))
  BY <1>1 DEF SameCall, Session, Batch, UnderWay
<1>5. CallOK(c)'
  <2>1. UnderWay(c) => \A r \in Sessions : consent'[r] = "granted" => r \in grants'[c]
    BY <1>1, <1>2, <1>3 DEF CallOK
  <2> QED
    BY <1>1, <1>2, <1>4, <2>1 DEF CallOK, SameCall
<1>6. KeptBy(c)'
  BY <1>1, PassedStays, KeptByStep DEF IInv
<1> QED
  BY <1>5, <1>6

LEMMA SendKeeps ==
  ASSUME IInv, [Next]_vars, Send, NEW c \in Calls
  PROVE  CallOK(c)' /\ KeptBy(c)'
<1>1. /\ IngestTypes /\ CallOK(c) /\ KeptBy(c)
      /\ c \in Int /\ sent \in Int /\ sent' = sent + 1
      /\ UNCHANGED <<consent, batch, item, allowed>>
  BY TypeParts DEF IInv, CallProgress, Kept, Send, consentVars, TypeOK, Calls
<1>2. CASE c # sent + 1
  <2>1. call'[c] = call[c] /\ grants'[c] = grants[c]
    BY <1>1, <1>2 DEF Send, IngestTypes
  <2>2. CallOK(c)'
    BY <1>1, <1>2, <2>1 DEF CallOK, UnderWay, Session, Batch
  <2> QED
    BY <1>1, <2>1, <2>2, PassedStays, KeptByStep DEF IInv, SameCall
<1>3. CASE c = sent + 1
  <2>1. call[c] = "unsent" /\ batch[c] = 1 /\ item[c] = 1 /\ allowed[c] = {}
    BY <1>1, <1>3 DEF CallOK
  <2>2. call'[c] = "check" /\ grants'[c] = {s \in Sessions : consent[s] = "granted"}
    BY <1>1, <1>3 DEF Send, IngestTypes
  <2>3. CallOK(c)'
    BY <1>1, <1>3, <2>1, <2>2, ExportTypes DEF CallOK, UnderWay
  <2>4. KeptBy(c)'
    BY <1>1, <2>1 DEF KeptBy
  <2> QED
    BY <2>3, <2>4
<1> QED
  BY <1>2, <1>3

LEMMA OtherCallsKeep ==
  ASSUME IInv, [Next]_vars, NEW c \in Calls, CallStep(c), NEW d \in Calls, d # c
  PROVE  CallOK(d)' /\ KeptBy(d)'
<1>0. IngestTypes /\ CallOK(d) /\ KeptBy(d) /\ CallOK(c)
  BY TypeParts DEF IInv, CallProgress, Kept
<1>1. SameCall(d) /\ UNCHANGED <<consent, sent, grants>>
  <2>1. CASE CheckGrant(c)
    <3>1. UnderWay(c) /\ batch[c] \in DOMAIN Export
      BY <1>0, <2>1, Position DEF CheckGrant, UnderWay
    <3> QED
      BY <1>0, <2>1, <3>1, NextBatchMoves
         DEF CheckGrant, OnToBatch, Answers, IngestTypes, SameCall, consentVars
  <2>2. CASE InsertEvent(c)
    <3>1. UnderWay(c) /\ NextEvent(c)
      BY <2>2 DEF InsertEvent, UnderWay
    <3>2. UNCHANGED <<consent, sent, grants, allowed>>
      BY <2>2 DEF InsertEvent, consentVars
    <3>3. OnToEvent(c) \/ OnToBatch(c) \/ Answers(c)
      BY <1>0, <3>1, NextEventMoves
    <3>4. call'[d] = call[d] /\ batch'[d] = batch[d] /\ item'[d] = item[d]
      BY <1>0, <3>3 DEF OnToEvent, OnToBatch, Answers, IngestTypes
    <3> QED
      BY <3>2, <3>4 DEF SameCall
  <2>3. CASE FailCall(c)
    BY <1>0, <2>3 DEF FailCall, CallFailed, IngestTypes, SameCall, consentVars
  <2> QED
    BY <2>1, <2>2, <2>3 DEF CallStep
<1>2. CallOK(d)'
  BY <1>0, <1>1, CallStays
<1>3. KeptBy(d)'
  BY <1>0, <1>1, PassedStays, KeptByStep DEF IInv, SameCall
<1> QED
  BY <1>2, <1>3

LEMMA StoreStepKeeps ==
  ASSUME IInv, [Next]_vars, UNCHANGED <<consentVars, ingestVars, grants>>, NEW c \in Calls
  PROVE  CallOK(c)' /\ KeptBy(c)'
<1>1. /\ CallOK(c) /\ KeptBy(c) /\ SameCall(c)
      /\ consent' = consent /\ grants' = grants /\ sent' = sent /\ allowed' = allowed
  BY DEF IInv, CallProgress, Kept, consentVars, ingestVars, SameCall
<1>2. KeptBy(c)'
  BY <1>1, PassedStays, KeptByStep DEF IInv
<1> QED
  BY <1>1, <1>2, CallStays

LEMMA StoreSteps ==
  ASSUME NEW p \in Passes, StartPass(p) \/ PassStep(p) \/ FailPass(p) \/ GiveUp(p)
  PROVE  UNCHANGED <<consentVars, ingestVars, grants>>
BY DEF StartPass, PassStep, SkipMonth, CreateMonth, TakeRows, PutRows, DropMonth, DropsDone,
       PruneDefault, FailPass, GiveUp

LEMMA CallsKeep ==
  ASSUME IInv, [Next]_vars, NEW d \in Calls
  PROVE  CallOK(d)' /\ KeptBy(d)'
<1>1. ASSUME NEW c \in Calls, CallStep(c) PROVE CallOK(d)' /\ KeptBy(d)'
  BY <1>1, OtherCallsKeep, CheckGrantKeeps, InsertEventKeeps, FailCallKeeps DEF CallStep
<1>2. ASSUME NEW p \in Passes, StartPass(p) \/ PassStep(p) \/ FailPass(p) \/ GiveUp(p)
      PROVE  CallOK(d)' /\ KeptBy(d)'
  BY <1>2, StoreSteps, StoreStepKeeps
<1>3. CASE Tick \/ UNCHANGED vars
  BY <1>3, StoreStepKeeps DEF Tick, vars
<1> QED
  BY <1>1, <1>2, <1>3, DecideKeeps, SendKeeps DEF Next

LEMMA AnswerStep == ASSUME IInv, [Next]_vars PROVE AnswerIsStored'
<1>0. IngestTypes /\ AnswerIsStored /\ answered \in BOOLEAN
  BY TypeParts DEF IInv, IngestTypes
<1>1. ASSUME NEW c \in Calls, CheckGrant(c) \/ InsertEvent(c) PROVE AnswerIsStored'
  <2>1. call[c] \in {"check", "insert"} /\ CallOK(c) /\ UnderWay(c) /\ sent' = sent
        /\ batch[c] \in DOMAIN Export
    BY <1>1, Position DEF CheckGrant, InsertEvent, IInv, CallProgress, UnderWay
  <2>2. answered => sent \in Calls /\ sent # c /\ call[sent] = "stored"
    BY <1>0, <2>1 DEF AnswerIsStored
  <2>3. \/ call' = [call EXCEPT ![c] = call'[c]] /\ answered' = answered
        \/ Answers(c)
    BY <1>0, <1>1, <2>1, NextBatchMoves, NextEventMoves
       DEF CheckGrant, InsertEvent, OnToBatch, OnToEvent, IngestTypes
  <2>4. CASE call' = [call EXCEPT ![c] = call'[c]] /\ answered' = answered
    BY <1>0, <2>1, <2>2, <2>4 DEF AnswerIsStored, IngestTypes
  <2>5. CASE Answers(c)
    <3>1. answered' => answered \/ sent = c
      BY <2>5 DEF Answers
    <3>2. call' = [call EXCEPT ![c] = "stored"]
      BY <2>5 DEF Answers
    <3> QED
      BY <1>0, <2>1, <2>2, <3>1, <3>2 DEF AnswerIsStored, IngestTypes
  <2> QED
    BY <2>3, <2>4, <2>5
<1>2. ASSUME NEW c \in Calls, FailCall(c) PROVE AnswerIsStored'
  BY <1>0, <1>2 DEF FailCall, CallFailed, UnderWay, AnswerIsStored, IngestTypes
<1>3. CASE Send
  BY <1>3 DEF Send, AnswerIsStored
<1>4. ASSUME \/ \E s \in Sessions, state \in {"granted", "denied"} : Decide(s, state)
             \/ \E p \in Passes : StartPass(p) \/ PassStep(p) \/ FailPass(p) \/ GiveUp(p)
             \/ Tick \/ UNCHANGED vars
      PROVE  UNCHANGED <<answered, sent, call>>
  BY <1>4, StoreSteps DEF Decide, Tick, vars, ingestVars
<1> QED
  BY <1>0, <1>1, <1>2, <1>3, <1>4 DEF Next, CallStep, AnswerIsStored

-----------------------------------------------------------------------------
(* The invariant is inductive *)

LEMMA InductiveInit == Init => IInv
<1> SUFFICES ASSUME Init PROVE IInv
  OBVIOUS
<1>1. CallProgress
  BY DEF Init, CallProgress, CallOK, UnderWay
<1>2. AnswerIsStored
  BY DEF Init, AnswerIsStored
<1>3. RowsPlaced
  BY PlacesApart DEF Init, RowsPlaced, RowOK, Stored, InMove
<1>4. PassProgress
  BY DEF Init, PassProgress, PassOK
<1>5. Kept
  BY DEF Init, Kept, KeptBy
<1> QED
  BY <1>1, <1>2, <1>3, <1>4, <1>5, TypeInit DEF IInv

LEMMA InductiveStep == IInv /\ [Next]_vars => IInv'
<1> SUFFICES ASSUME IInv, [Next]_vars PROVE IInv'
  OBVIOUS
<1>1. TypeOK'
  BY TypeStep DEF IInv
<1>2. CallProgress' /\ Kept'
  BY CallsKeep DEF CallProgress, Kept
<1>3. RowsPlaced'
  BY RowOKStep DEF IInv, RowsPlaced
<1>4. PassProgress'
  BY PassOKStep DEF IInv, PassProgress
<1> QED
  BY <1>1, <1>2, <1>3, <1>4, AnswerStep DEF IInv

\* What each call has found and got past, and where each row is, whatever calls
\* and passes are under way beside it.
THEOREM Inductive == Spec => []IInv
<1> QED
  BY InductiveInit, InductiveStep, PTL DEF Spec

\* Every variable keeps its type.
THEOREM TypeCorrect == Spec => []TypeOK
<1>1. IInv => TypeOK
  BY DEF IInv
<1> QED
  BY <1>1, Inductive, PTL

-----------------------------------------------------------------------------
(* What the invariant gives *)

\* No event is stored of a session that had no grant while its call ran.
THEOREM StoredUnderGrantHolds == Spec => []StoredUnderGrant
<1>1. IInv => StoredUnderGrant
  BY DEF IInv, RowsPlaced, RowOK, StoredUnderGrant
<1> QED
  BY <1>1, Inductive, PTL

\* What the collector takes for delivered is stored until its time has passed.
THEOREM AnsweredIsKeptHolds == Spec => []AnsweredIsKept
<1>1. IInv => AnsweredIsKept
  <2> SUFFICES ASSUME IInv, answered, NEW e \in Events, SessionOf[e] \in allowed[sent]
               PROVE  Safe(<<e, sent>>)
    BY DEF AnsweredIsKept, Safe
  <2>1. sent \in Calls /\ call[sent] = "stored"
    BY DEF IInv, AnswerIsStored
  <2>2. PICK i \in DOMAIN Export : \E k \in DOMAIN Export[i] : Export[i][k] = e
    BY AnalyticsConstants
  <2>3. PICK k \in DOMAIN Export[i] : Export[i][k] = e
    BY <2>2
  <2> QED
    BY <2>1, <2>3 DEF IInv, Kept, KeptBy, Passed
<1> QED
  BY <1>1, Inductive, PTL

\* No row goes before its time, whichever pass, insert or failure it meets.
THEOREM OnlyExpiredRowsGoHolds == Spec => OnlyExpiredRowsGo
<1>1. IInv /\ [Next]_vars =>
        [\A x \in Rows : Stored(x) /\ ~Stored(x)' => PastRetention(x)]_vars
  <2> SUFFICES ASSUME IInv, [Next]_vars, NEW x \in Rows, Stored(x), ~Stored(x)'
               PROVE  PastRetention(x)
    OBVIOUS
  <2>1. \A p \in Passes : month[p] # Absent
    BY PlacesApart DEF IInv, TypeOK
  <2> QED
    BY <2>1, RowMoves, PlacesApart DEF IInv, Stored, Inserted, PutBack
<1> QED
  BY <1>1, Inductive, PTL DEF Spec, OnlyExpiredRowsGo

-----------------------------------------------------------------------------
(***************************************************************************)
(* The funnel rollup, the service's other daily pass, over a state of its  *)
(* own: what follows is about Rollup, for any funnel, visits, days,        *)
(* passes, events and failures.                                            *)
(***************************************************************************)

\* A set of naturals that is not empty has a least element.
LEMMA LeastNatural ==
  ASSUME NEW T, T \subseteq Nat, T # {}
  PROVE  \E m \in T : \A k \in T : ~ (k < m)
<1>1. PICK m \in T : \A k \in T : <<k, m>> \notin OpToRel(<, Nat)
  BY WFMin, NatLessThanWellFounded, Zenon
<1> QED
  BY <1>1, Zenon DEF OpToRel

-----------------------------------------------------------------------------
(* Finite sets of sessions *)

\* The events that are stored are finitely many, and so are their sessions.
RollupInv == RollupTypeOK /\ IsFiniteSet(events)

SessionsIn(seen) == {e.session : e \in seen}
Counted(seen, i) == {s \in SessionIds : Reached(seen, s, i)}

LEMMA FewSessions ==
  ASSUME NEW seen, IsFiniteSet(seen)
  PROVE  IsFiniteSet(SessionsIn(seen))
<1> DEFINE f == [e \in seen |-> e.session]
<1>1. f \in Surjection(seen, SessionsIn(seen))
  BY DEF Surjection, SessionsIn
<1> QED
  BY <1>1, FS_Surjection

LEMMA EventsOfADay ==
  ASSUME RollupInv, NEW d \in Days
  PROVE  EventsOf(d) \subseteq Event /\ IsFiniteSet(EventsOf(d))
<1>1. EventsOf(d) \in SUBSET events
  BY DEF EventsOf
<1> QED
  BY <1>1, FS_Subset DEF RollupInv, RollupTypeOK

LEMMA StepTypes ==
  /\ DOMAIN Steps = 1 .. Len(Steps) /\ Len(Steps) \in Nat /\ Len(Steps) >= 2
  /\ 1 \in DOMAIN Steps
  /\ \A i \in DOMAIN Steps :
       \A j \in 1 .. i : j \in DOMAIN Steps /\ Steps[j] \in Names
<1>1. Steps \in Seq(Names) /\ Len(Steps) >= 2
  BY RollupConstants
<1>2. DOMAIN Steps = 1 .. Len(Steps) /\ Len(Steps) \in Nat
  BY <1>1
<1>3. \A i \in DOMAIN Steps : Steps[i] \in Names
  BY <1>1
<1> QED
  BY <1>1, <1>2, <1>3

LEMMA ReachedArePresent ==
  ASSUME NEW seen, NEW i \in DOMAIN Steps, NEW s, Reached(seen, s, i)
  PROVE  s \in SessionsIn(seen)
<1>1. 1 \in 1 .. i
  BY StepTypes
<1> QED
  BY <1>1 DEF Reached, Has, SessionsIn

LEMMA ReachedAreFew ==
  ASSUME NEW seen, IsFiniteSet(seen), NEW i \in DOMAIN Steps
  PROVE  /\ IsFiniteSet(Counted(seen, i))
         /\ Count(seen)[i] = Cardinality(Counted(seen, i))
         /\ Count(seen)[i] \in Nat
<1>1. Counted(seen, i) \in SUBSET SessionsIn(seen)
  BY ReachedArePresent DEF Counted
<1>2. IsFiniteSet(Counted(seen, i))
  BY <1>1, FewSessions, FS_Subset
<1>3. Count(seen)[i] = Cardinality(Counted(seen, i))
  BY DEF Count, Counted
<1> QED
  BY <1>2, <1>3, FS_CardinalityType

LEMMA CountType ==
  ASSUME NEW seen, IsFiniteSet(seen)
  PROVE  Count(seen) \in [DOMAIN Steps -> Nat]
BY ReachedAreFew DEF Count

-----------------------------------------------------------------------------
(* Types *)

LEMMA WindowTypes ==
  ASSUME NEW last \in Days
  PROVE  /\ Window(last) \subseteq Days
         /\ (CHOOSE d \in Window(last) : \A e \in Window(last) : d <= e) \in Days
<1> DEFINE first == IF last < TrailingDays THEN 1 ELSE last - TrailingDays + 1
<1>1. first \in Nat \ {0} /\ first <= last /\ last \in Nat /\ last <= MaxDay
  BY RollupConstants DEF Days
<1>2. Window(last) = first .. last
  BY DEF Window
<1> HIDE DEF first
<1>3. Window(last) \subseteq Days /\ first \in Window(last)
  BY <1>1, <1>2, RollupConstants DEF Days
<1>4. \A e \in Window(last) : first <= e
  BY <1>1, <1>2
<1> QED
  BY <1>3, <1>4

LEMMA RollupInvInit ==
  RollupInit => RollupInv
<1> SUFFICES ASSUME RollupInit PROVE RollupInv
  OBVIOUS
<1>1. 1 \in Days /\ 0 \in 0 .. MaxEvents /\ 0 \in 0 .. MaxErrors
  BY RollupConstants DEF Days
<1>2. NoHeld \in [DOMAIN Steps -> Nat]
  BY DEF NoHeld
<1> QED
  BY <1>1, <1>2, StepTypes, FS_EmptySet DEF RollupInit, RollupInv, RollupTypeOK, placeVars

\* A pass that ends leaves what the others hold alone.
LEMMA PassEndTypes ==
  ASSUME RollupTypeOK, NEW p \in Rollups, RollupEnds(p)
  PROVE  /\ awaited' \in Rollups \union {NoRollup}
         /\ place' \in [Rollups -> {"idle", "read", "write"}]
         /\ day' \in [Rollups -> Days] /\ upTo' \in [Rollups -> Days]
         /\ held' \in [Rollups -> [DOMAIN Steps -> Nat]]
         /\ step' \in [Rollups -> DOMAIN Steps]
<1>1. 1 \in Days /\ 1 \in DOMAIN Steps
  BY StepTypes, RollupConstants DEF Days
<1>2. NoHeld \in [DOMAIN Steps -> Nat]
  BY DEF NoHeld
<1> QED
  BY <1>1, <1>2 DEF RollupEnds, RollupTypeOK

LEMMA WriteStepTypes ==
  ASSUME RollupTypeOK, NEW p \in Rollups, WriteStep(p)
  PROVE  RollupTypeOK'
<1> USE DEF RollupTypeOK
<1>1. table' \in [Days \X DOMAIN Steps -> Nat \union {NoCount}]
  BY DEF WriteStep, Upserted
<1>2. CASE step[p] < Len(Steps) /\ step' = [step EXCEPT ![p] = @ + 1]
           /\ UNCHANGED <<counted, awaited, place, day, upTo, held>>
  <2>1. step[p] + 1 \in DOMAIN Steps
    BY <1>2, StepTypes
  <2> QED
    BY <1>1, <1>2, <2>1 DEF WriteStep
<1>3. CASE step[p] = Len(Steps) /\ day[p] < upTo[p]
           /\ place' = [place EXCEPT ![p] = "read"]
           /\ day' = [day EXCEPT ![p] = @ + 1]
           /\ held' = [held EXCEPT ![p] = NoHeld]
           /\ step' = [step EXCEPT ![p] = 1]
           /\ UNCHANGED <<counted, awaited, upTo>>
  <2>1. day[p] + 1 \in Days
    BY <1>3, RollupConstants DEF Days
  <2>2. NoHeld \in [DOMAIN Steps -> Nat] /\ 1 \in DOMAIN Steps
    BY StepTypes DEF NoHeld
  <2> QED
    BY <1>1, <1>3, <2>1, <2>2 DEF WriteStep
<1>4. CASE RollupEnds(p) /\ counted' = (counted \/ (awaited = p /\ upTo[p] = today))
  <2>1. counted' \in BOOLEAN
    BY <1>4
  <2> QED
    BY <1>1, <1>4, <2>1, PassEndTypes DEF WriteStep
<1> QED
  BY <1>2, <1>3, <1>4 DEF WriteStep

LEMMA ErasedEvents ==
  ASSUME RollupInv, NEW vs \in SUBSET Visits, Erase(vs)
  PROVE  events' \in SUBSET Event /\ IsFiniteSet(events')
<1> DEFINE f == [e \in events |->
                   IF e.session \in vs THEN [session |-> Anonymous(e.session),
                                             name |-> e.name, day |-> e.day, hour |-> e.hour]
                   ELSE e]
<1>1. events' = {f[e] : e \in events}
  BY DEF Erase
<1>2. f \in Surjection(events, events')
  BY <1>1 DEF Surjection
<1>3. IsFiniteSet(events')
  BY <1>2, FS_Surjection DEF RollupInv
<1>4. \A e \in events : f[e] \in Event
  BY DEF RollupInv, RollupTypeOK, Event, SessionIds, Anonymous
<1> QED
  BY <1>1, <1>3, <1>4

LEMMA RollupInductive ==
  ASSUME RollupInv, [RollupNext]_rollupVars
  PROVE  RollupInv'
<1> USE DEF RollupInv
<1>1. ASSUME NEW p \in Rollups, StartRollup(p) PROVE RollupInv'
  BY <1>1, WindowTypes DEF StartRollup, RollupTypeOK
<1>2. ASSUME NEW p \in Rollups, ReadBucket(p) PROVE RollupInv'
  <2>1. day[p] \in Days
    BY DEF RollupTypeOK
  <2>2. Count(EventsOf(day[p])) \in [DOMAIN Steps -> Nat]
    BY <2>1, EventsOfADay, CountType
  <2> QED
    BY <1>2, <2>2, StepTypes DEF ReadBucket, RollupTypeOK
<1>3. ASSUME NEW p \in Rollups, WriteStep(p) PROVE RollupInv'
  BY <1>3, WriteStepTypes DEF WriteStep
<1>4. ASSUME NEW p \in Rollups, FailRollup(p) PROVE RollupInv'
  <2>1. errors' \in 0 .. MaxErrors
    BY <1>4, RollupConstants DEF FailRollup, RollupTypeOK
  <2> QED
    BY <1>4, <2>1, PassEndTypes DEF FailRollup, RollupTypeOK
<1>5. ASSUME NEW p \in Rollups, GiveUpRollup(p) PROVE RollupInv'
  <2>1. errors' \in 0 .. MaxErrors
    BY <1>5, RollupConstants DEF GiveUpRollup, RollupTypeOK
  <2> QED
    BY <1>5, <2>1 DEF GiveUpRollup, RollupTypeOK, placeVars
<1>6. ASSUME NEW p \in Rollups, CancelRollup(p) PROVE RollupInv'
  BY <1>6, PassEndTypes DEF CancelRollup, RollupTypeOK
<1>7. ASSUME NEW v \in Visits, NEW name \in Names, NEW d \in Days, NEW h \in Hours,
             Store(v, name, d, h)
      PROVE  RollupInv'
  <2> DEFINE e == [session |-> v, name |-> name, day |-> d, hour |-> h]
  <2>1. e \in Event
    BY DEF Event, SessionIds
  <2>2. events' = events \union {e} /\ IsFiniteSet(events')
    BY <1>7, FS_AddElement DEF Store
  <2>3. arrived' \in 0 .. MaxEvents
    BY <1>7, RollupConstants DEF Store, RollupTypeOK
  <2> HIDE DEF e
  <2> QED
    BY <1>7, <2>1, <2>2, <2>3 DEF Store, RollupTypeOK, placeVars
<1>8. ASSUME NEW vs \in SUBSET Visits, Erase(vs) PROVE RollupInv'
  BY <1>8, ErasedEvents DEF Erase, RollupTypeOK, placeVars
<1>9. CASE NextDay
  <2>1. today' \in Days
    BY <1>9, RollupConstants DEF NextDay, RollupTypeOK, Days
  <2> QED
    BY <1>9, <2>1 DEF NextDay, RollupTypeOK, placeVars
<1>10. CASE UNCHANGED rollupVars
  BY <1>10 DEF rollupVars, placeVars, RollupTypeOK
<1> QED
  BY <1>1, <1>2, <1>3, <1>4, <1>5, <1>6, <1>7, <1>8, <1>9, <1>10 DEF RollupNext, Work

\* Every variable of the rollup keeps its type, whatever its passes, the events
\* that arrive, the erasures and the days do.
THEOREM RollupTypeCorrect ==
  RollupSpec => []RollupTypeOK
<1>1. RollupInv => RollupTypeOK
  BY DEF RollupInv
<1>2. RollupInit => RollupInv
  BY RollupInvInit
<1>3. RollupInv /\ [RollupNext]_rollupVars => RollupInv'
  BY RollupInductive
<1> QED
  BY <1>1, <1>2, <1>3, PTL DEF RollupSpec

-----------------------------------------------------------------------------
(* What a count counts *)

LEMMA FirstSeenIsAnEvents ==
  ASSUME NEW seen, seen \subseteq Event, NEW s, NEW name,
         Has(seen, s, name)
  PROVE  \E e \in seen :
           e.session = s /\ e.name = name /\ e.hour = FirstSeen(seen, s, name)
<1> DEFINE hours == {e.hour : e \in {x \in seen : x.session = s /\ x.name = name}}
<1>1. hours \subseteq Nat /\ hours # {}
  BY RollupConstants DEF Has, Event
<1>2. PICK m \in hours : \A k \in hours : ~ (k < m)
  BY <1>1, LeastNatural
<1>3. ASSUME NEW g \in hours PROVE m <= g
  <2>1. m \in Nat /\ g \in Nat /\ ~ (g < m)
    BY <1>1, <1>2
  <2> QED
    BY <2>1
<1>4. FirstSeen(seen, s, name) \in hours
  BY <1>2, <1>3 DEF FirstSeen
<1> QED
  BY <1>4

LEMMA ReachedHaveTraversed ==
  ASSUME NEW seen, seen \subseteq Event,
         NEW i \in DOMAIN Steps, NEW s, Reached(seen, s, i)
  PROVE  Traversed(seen, s, i)
<1> DEFINE IsStep(j, e) == /\ e.session = s /\ e.name = Steps[j]
                           /\ e.hour = FirstSeen(seen, s, Steps[j])
           path == [j \in 1 .. i |-> CHOOSE e \in seen : IsStep(j, e)]
<1>1. ASSUME NEW j \in 1 .. i
      PROVE  path[j] \in seen /\ IsStep(j, path[j])
  <2>1. Has(seen, s, Steps[j])
    BY DEF Reached
  <2>2. \E e \in seen : IsStep(j, e)
    BY <2>1, FirstSeenIsAnEvents
  <2> QED
    BY <2>2
<1> HIDE DEF path
<1>2. path \in [1 .. i -> {e \in seen : e.session = s}]
  BY <1>1 DEF path
<1>3. \A j \in 1 .. i : path[j].name = Steps[j]
  BY <1>1
<1>4. ASSUME NEW j \in 2 .. i PROVE path[j - 1].hour <= path[j].hour
  <2>1. j \in 1 .. i /\ j - 1 \in 1 .. i /\ j # 1
    BY StepTypes
  <2>2. InOrder(seen, s, j)
    BY <2>1 DEF Reached
  <2>3. FirstSeen(seen, s, Steps[j - 1]) <= FirstSeen(seen, s, Steps[j])
    BY <2>1, <2>2 DEF InOrder
  <2>4. IsStep(j, path[j]) /\ IsStep(j - 1, path[j - 1])
    BY <1>1, <2>1
  <2> QED
    BY <2>3, <2>4
<1> QED
  BY <1>2, <1>3, <1>4 DEF Traversed

LEMMA TraversedArePresent ==
  ASSUME NEW seen, NEW i \in DOMAIN Steps, NEW s, Traversed(seen, s, i)
  PROVE  s \in SessionsIn(seen)
<1>1. PICK path \in [1 .. i -> {e \in seen : e.session = s}] : TRUE
  BY DEF Traversed
<1>2. 1 \in 1 .. i
  BY StepTypes
<1> QED
  BY <1>1, <1>2 DEF SessionsIn

LEMMA CountedSessions ==
  ASSUME NEW seen, seen \subseteq Event, IsFiniteSet(seen),
         NEW i \in DOMAIN Steps
  PROVE  /\ Count(seen)[i] <= Cardinality({s \in SessionIds : Traversed(seen, s, i)})
         /\ i > 1 => Count(seen)[i] <= Count(seen)[i - 1]
<1> DEFINE Through == {s \in SessionIds : Traversed(seen, s, i)}
<1>1. IsFiniteSet(Through)
  <2>1. Through \in SUBSET SessionsIn(seen)
    BY TraversedArePresent
  <2> QED
    BY <2>1, FewSessions, FS_Subset
<1>2. Counted(seen, i) \in SUBSET Through
  BY ReachedHaveTraversed DEF Counted
<1>3. Count(seen)[i] <= Cardinality(Through)
  <2> HIDE DEF Through
  <2> QED
    BY <1>1, <1>2, ReachedAreFew, FS_Subset
<1>4. ASSUME i > 1 PROVE Count(seen)[i] <= Count(seen)[i - 1]
  <2>1. i - 1 \in DOMAIN Steps /\ 1 .. i - 1 \subseteq 1 .. i
    BY <1>4, StepTypes
  <2>2. Counted(seen, i) \in SUBSET Counted(seen, i - 1)
    BY <2>1 DEF Counted, Reached
  <2>3. /\ Count(seen)[i] = Cardinality(Counted(seen, i))
        /\ Count(seen)[i - 1] = Cardinality(Counted(seen, i - 1))
        /\ IsFiniteSet(Counted(seen, i - 1))
    BY <2>1, ReachedAreFew
  <2> QED
    BY <2>2, <2>3, FS_Subset
<1> QED
  BY <1>3, <1>4

\* However long the funnel and however many events a day holds: the query's
\* counts never increase along the steps, and none exceeds the number of sessions
\* that have gone through the steps in order.
THEOREM CountsAreTraversalsHolds ==
  RollupSpec => []CountsAreTraversals
<1>1. RollupInv => CountsAreTraversals
  <2> SUFFICES ASSUME RollupInv, NEW d \in Days, NEW i \in DOMAIN Steps
               PROVE  LET seen == EventsOf(d)
                          through == {s \in SessionIds : Traversed(seen, s, i)}
                      IN  /\ Count(seen)[i] <= Cardinality(through)
                          /\ i > 1 => Count(seen)[i] <= Count(seen)[i - 1]
    BY DEF CountsAreTraversals
  <2> QED
    BY EventsOfADay, CountedSessions
<1>2. RollupInit => RollupInv
  BY RollupInvInit
<1>3. RollupInv /\ [RollupNext]_rollupVars => RollupInv'
  BY RollupInductive
<1> QED
  BY <1>1, <1>2, <1>3, PTL DEF RollupSpec

-----------------------------------------------------------------------------
(* An erasure renames the sessions of a day and leaves its counts *)

Renamed(vs, s) == IF s \in vs THEN Replacement[s] ELSE s

LEMMA ErasedDay ==
  ASSUME RollupInv, NEW vs \in SUBSET Visits, Erase(vs),
         NEW d \in Days
  PROVE  EventsOf(d)' =
           {[session |-> Renamed(vs, e.session), name |-> e.name, day |-> d, hour |-> e.hour] :
              e \in EventsOf(d)}
<1>1. \A e \in events :
        e = [session |-> e.session, name |-> e.name, day |-> e.day, hour |-> e.hour]
  BY DEF RollupInv, RollupTypeOK, Event
<1>2. events' = {[session |-> Renamed(vs, e.session), name |-> e.name,
                  day |-> e.day, hour |-> e.hour] : e \in events}
  BY <1>1 DEF Erase, Renamed, Anonymous
<1> QED
  BY <1>2 DEF EventsOf

\* No session that is stored is a replacement, so two that differ stay so.
LEMMA RenamedApart ==
  ASSUME NEW vs \in SUBSET Visits, Erase(vs),
         NEW e \in events, NEW f \in events,
         Renamed(vs, e.session) = Renamed(vs, f.session)
  PROVE  e.session = f.session
BY RollupConstants DEF Erase, Renamed

LEMMA SeenAlike ==
  ASSUME RollupInv, NEW vs \in SUBSET Visits, Erase(vs),
         NEW d \in Days, NEW s \in SessionsIn(EventsOf(d)), NEW name
  PROVE  /\ Has(EventsOf(d)', Renamed(vs, s), name) <=> Has(EventsOf(d), s, name)
         /\ FirstSeen(EventsOf(d)', Renamed(vs, s), name) = FirstSeen(EventsOf(d), s, name)
<1> DEFINE seen == EventsOf(d)
           After(e) == [session |-> Renamed(vs, e.session), name |-> e.name,
                        day |-> d, hour |-> e.hour]
           later == {After(e) : e \in seen}
<1>1. EventsOf(d)' = later
  BY ErasedDay
<1>2. PICK f \in events : f \in seen /\ f.session = s
  BY DEF SessionsIn, EventsOf
<1>3. \A e \in seen : Renamed(vs, e.session) = Renamed(vs, s) <=> e.session = s
  BY <1>2, RenamedApart DEF EventsOf
<1>4. \A e : /\ After(e).session = Renamed(vs, e.session)
             /\ After(e).name = e.name /\ After(e).hour = e.hour
  OBVIOUS
<1> HIDE DEF seen, After
<1>5. Has(later, Renamed(vs, s), name) <=> Has(seen, s, name)
  <2>1. Has(seen, s, name) =>
          \E e \in seen : After(e).session = Renamed(vs, s) /\ After(e).name = name
    BY <1>3, <1>4 DEF Has
  <2>2. (\E e \in seen : After(e).session = Renamed(vs, s) /\ After(e).name = name) =>
          Has(seen, s, name)
    BY <1>3, <1>4 DEF Has
  <2> QED
    BY <2>1, <2>2 DEF Has
<1> DEFINE these == {x \in seen : x.session = s /\ x.name = name}
           those == {x \in later : x.session = Renamed(vs, s) /\ x.name = name}
<1>6. {e.hour : e \in those} = {e.hour : e \in these}
  <2>1. those = {After(e) : e \in these}
    BY <1>3, <1>4
  <2> HIDE DEF these, those
  <2> QED
    BY <1>4, <2>1
<1>7. FirstSeen(later, Renamed(vs, s), name) = FirstSeen(seen, s, name)
  BY <1>6 DEF FirstSeen
<1> QED
  BY <1>1, <1>5, <1>7 DEF seen

LEMMA ReachedAlike ==
  ASSUME RollupInv, NEW vs \in SUBSET Visits, Erase(vs),
         NEW d \in Days, NEW s \in SessionsIn(EventsOf(d)), NEW i \in DOMAIN Steps
  PROVE  Reached(EventsOf(d)', Renamed(vs, s), i) <=> Reached(EventsOf(d), s, i)
BY SeenAlike DEF Reached, InOrder

LEMMA SameCount ==
  ASSUME RollupInv, NEW vs \in SUBSET Visits, Erase(vs),
         NEW d \in Days, NEW i \in DOMAIN Steps
  PROVE  Count(EventsOf(d)')[i] = Count(EventsOf(d))[i]
<1> DEFINE seen == EventsOf(d)
           later == EventsOf(d)'
           before == Counted(seen, i)
           after == Counted(later, i)
           f == [s \in before |-> Renamed(vs, s)]
<1>1. IsFiniteSet(seen) /\ IsFiniteSet(later)
  <2>1. later \in SUBSET events'
    BY DEF EventsOf
  <2> QED
    BY <2>1, EventsOfADay, ErasedEvents, FS_Subset
<1>2. before \subseteq SessionsIn(seen) /\ after \subseteq SessionsIn(later)
  BY ReachedArePresent DEF Counted
<1>3. \A s \in before : f[s] \in after
  <2>1. \A s \in SessionIds : Renamed(vs, s) \in SessionIds
    BY DEF Renamed, SessionIds
  <2> QED
    BY <1>2, <2>1, ReachedAlike DEF Counted
<1>4. \A s, t \in before : f[s] = f[t] => s = t
  BY <1>2, RenamedApart DEF SessionsIn, EventsOf
<1>5. ASSUME NEW t \in after PROVE \E s \in before : f[s] = t
  <2>1. PICK e \in seen : t = Renamed(vs, e.session)
    BY <1>2, ErasedDay DEF SessionsIn
  <2>2. e.session \in SessionsIn(seen) /\ e.session \in SessionIds
    BY EventsOfADay DEF SessionsIn, Event
  <2>3. e.session \in before
    BY <2>1, <2>2, ReachedAlike DEF Counted
  <2> QED
    BY <2>1, <2>3
<1>6. f \in Bijection(before, after)
  <2>1. f \in [before -> after] /\ DOMAIN f = before
    BY <1>3
  <2> HIDE DEF f
  <2> QED
    BY <1>4, <1>5, <2>1 DEF Bijection, Injection, Surjection, IsInjective
<1>7. Cardinality(after) = Cardinality(before)
  <2>1. IsFiniteSet(before)
    BY <1>1, ReachedAreFew
  <2>2. ExistsBijection(before, after)
    BY <1>6 DEF ExistsBijection
  <2> QED
    BY <2>1, <2>2, FS_Bijection
<1> QED
  BY <1>1, <1>7, ReachedAreFew

LEMMA SameCounts ==
  ASSUME RollupInv, NEW vs \in SUBSET Visits, Erase(vs),
         NEW d \in Days
  PROVE  Count(EventsOf(d))' = Count(EventsOf(d))
<1>1. \A i \in DOMAIN Steps : Count(EventsOf(d)')[i] = Count(EventsOf(d))[i]
  BY SameCount
<1>2. Count(EventsOf(d)') = Count(EventsOf(d))
  BY <1>1 DEF Count
<1>3. Count(EventsOf(d))' = Count(EventsOf(d)')
  BY DEF Count, Reached, Has, InOrder, FirstSeen, EventsOf
<1> QED
  BY <1>2, <1>3

\* An erasure gives each erased session a replacement of its own, so the sessions
\* of a day are renamed one to one and every count of every day stays.
THEOREM ErasureKeepsCountsHolds ==
  RollupSpec => ErasureKeepsCounts
<1>1. RollupInv /\ [RollupNext]_rollupVars =>
        [(\E vs \in (SUBSET Visits) \ {{}} : Erase(vs)) =>
           \A d \in Days : Count(EventsOf(d))' = Count(EventsOf(d))]_rollupVars
  BY SameCounts
<1>2. RollupInit => RollupInv
  BY RollupInvInit
<1>3. RollupInv /\ [RollupNext]_rollupVars => RollupInv'
  BY RollupInductive
<1> QED
  BY <1>1, <1>2, <1>3, PTL DEF RollupSpec, ErasureKeepsCounts
=============================================================================
