------------------------------- MODULE Rollup -------------------------------
(***************************************************************************)
(* ComputeFunnelRollup of the analytics service, and the daily schedule of *)
(* the platform worker that calls it.  A pass covers the trailing days of  *)
(* one funnel: it reads the events of a day, counts the sessions that      *)
(* reached each step in order, and writes one row per step.  Meanwhile     *)
(* events arrive, late ones too, a subject's sessions are anonymised, and  *)
(* a pass whose caller has given up goes on beside the next one.           *)
(*                                                                         *)
(* Days are counted from 1.  The time of an event within its day is Hours. *)
(* No name is one of Analytics, so that a module can be about both.        *)
(***************************************************************************)
EXTENDS Integers, FiniteSets, Sequences

CONSTANTS
  Visits,       \* session ids that browsers have
  Replacement,  \* the anonymous id that an erasure mints for each of them
  Names,        \* the event names of the funnel
  Steps,        \* the same, in its order
  Hours,        \* times within a day
  MaxDay,
  TrailingDays,
  Rollups,      \* requests of the rollup that may be under way at once
  MaxEvents, MaxErrors,
  NoCount, NoRollup

Days       == 1 .. MaxDay
SessionIds == Visits \union {Replacement[v] : v \in Visits}

\* Load refuses a funnel of one step and one that repeats a step.
ASSUME RollupConstants ==
  /\ Steps \in Seq(Names) /\ Len(Steps) >= 2
  /\ \A i, j \in DOMAIN Steps : Steps[i] = Steps[j] => i = j
  /\ \A v, w \in Visits : Replacement[v] = Replacement[w] => v = w
  /\ \A v \in Visits : Replacement[v] \notin Visits
  /\ \A h \in Hours : h \in Nat
  /\ MaxDay \in Nat \ {0} /\ TrailingDays \in Nat \ {0}
  /\ MaxEvents \in Nat /\ MaxErrors \in Nat
  /\ NoCount \notin Nat /\ NoRollup \notin Rollups

VARIABLES
  today,
  counted,   \* the pass of today has completed
  awaited,   \* the pass whose answer the schedule's workflow waits for
  events,    \* the rows of events, [session, name, day, hour]
  arrived,   \* how many have been stored
  table,     \* funnel_rollup: the count of each day and step
  place,     \* where each pass is
  day,       \* the bucket it is at
  upTo,      \* the last bucket of its window
  held,      \* the counts it has computed for the bucket
  step,      \* the step it is to write
  errors

placeVars  == <<place, day, upTo, held, step>>
rollupVars == <<today, counted, awaited, events, arrived, table, placeVars, errors>>

Event == [session : SessionIds, name : Names, day : Days, hour : Hours]

RollupTypeOK ==
  /\ today \in Days /\ counted \in BOOLEAN
  /\ awaited \in Rollups \union {NoRollup}
  /\ events \in SUBSET Event
  /\ arrived \in 0 .. MaxEvents
  /\ table \in [Days \X DOMAIN Steps -> Nat \union {NoCount}]
  /\ place \in [Rollups -> {"idle", "read", "write"}]
  /\ day \in [Rollups -> Days] /\ upTo \in [Rollups -> Days]
  /\ held \in [Rollups -> [DOMAIN Steps -> Nat]]
  /\ step \in [Rollups -> DOMAIN Steps]
  /\ errors \in 0 .. MaxErrors

-----------------------------------------------------------------------------
(* Counting *)

Has(seen, s, name) == \E e \in seen : e.session = s /\ e.name = name

FirstSeen(seen, s, name) ==
  LET hours == {e.hour : e \in {x \in seen : x.session = s /\ x.name = name}}
  IN  CHOOSE h \in hours : \A g \in hours : h <= g

\* Mutant of InOrder: a set of independent counts.
InAnyOrder(seen, s, i) == TRUE

\* The first occurrence of step i is not before that of the step before it.
InOrder(seen, s, i) ==
  i = 1 \/ FirstSeen(seen, s, Steps[i - 1]) <= FirstSeen(seen, s, Steps[i])

Reached(seen, s, i) ==
  \A j \in 1 .. i : Has(seen, s, Steps[j]) /\ InOrder(seen, s, j)

\* The sessions that reach each step in order.
Count(seen) ==
  [i \in DOMAIN Steps |-> Cardinality({s \in SessionIds : Reached(seen, s, i)})]

EventsOf(d) == {e \in events : e.day = d}

-----------------------------------------------------------------------------
(* A pass *)

Window(last) == (IF last < TrailingDays THEN 1 ELSE last - TrailingDays + 1) .. last

NoHeld == [i \in DOMAIN Steps |-> 0]

RollupEnds(p) ==
  /\ awaited' = IF awaited = p THEN NoRollup ELSE awaited
  /\ place' = [place EXCEPT ![p] = "idle"]
  /\ day' = [day EXCEPT ![p] = 1]
  /\ upTo' = [upTo EXCEPT ![p] = 1]
  /\ held' = [held EXCEPT ![p] = NoHeld]
  /\ step' = [step EXCEPT ![p] = 1]

\* The schedule runs one workflow, and its activity one attempt at a time.
StartRollup(p) ==
  /\ awaited = NoRollup /\ place[p] = "idle"
  /\ awaited' = p
  /\ place' = [place EXCEPT ![p] = "read"]
  /\ day' = [day EXCEPT ![p] = CHOOSE d \in Window(today) : \A e \in Window(today) : d <= e]
  /\ upTo' = [upTo EXCEPT ![p] = today]
  /\ UNCHANGED <<today, counted, events, arrived, table, held, step, errors>>

\* rollupBucket: one query of the bucket's events.
ReadBucket(p) ==
  /\ place[p] = "read"
  /\ held' = [held EXCEPT ![p] = Count(EventsOf(day[p]))]
  /\ step' = [step EXCEPT ![p] = 1]
  /\ place' = [place EXCEPT ![p] = "write"]
  /\ UNCHANGED <<today, counted, awaited, events, arrived, table, day, upTo, errors>>

\* Mutant of Upserted: a step that nothing reached is not written.
UpsertedUnlessZero(p) ==
  [table EXCEPT ![<<day[p], step[p]>>] = IF held[p][step[p]] = 0 THEN @ ELSE held[p][step[p]]]

Upserted(p) == [table EXCEPT ![<<day[p], step[p]>>] = held[p][step[p]]]

\* One statement per step, the zeroes included.
WriteStep(p) ==
  /\ place[p] = "write"
  /\ table' = Upserted(p)
  /\ \/ /\ step[p] < Len(Steps)
        /\ step' = [step EXCEPT ![p] = @ + 1]
        /\ UNCHANGED <<counted, awaited, place, day, upTo, held>>
     \/ /\ step[p] = Len(Steps) /\ day[p] < upTo[p]
        /\ place' = [place EXCEPT ![p] = "read"]
        /\ day' = [day EXCEPT ![p] = @ + 1]
        /\ held' = [held EXCEPT ![p] = NoHeld]
        /\ step' = [step EXCEPT ![p] = 1]
        /\ UNCHANGED <<counted, awaited, upTo>>
     \/ /\ step[p] = Len(Steps) /\ day[p] = upTo[p]
        /\ RollupEnds(p)
        /\ counted' = (counted \/ (awaited = p /\ upTo[p] = today))
  /\ UNCHANGED <<today, events, arrived, errors>>

\* An error ends the pass; the steps written so far stay.
FailRollup(p) ==
  /\ awaited = p
  /\ errors < MaxErrors
  /\ errors' = errors + 1
  /\ RollupEnds(p)
  /\ UNCHANGED <<today, counted, events, arrived, table>>

\* The attempt runs out of time.  Its request is cancelled, now or later.
GiveUpRollup(p) ==
  /\ awaited = p
  /\ errors < MaxErrors
  /\ errors' = errors + 1
  /\ awaited' = NoRollup
  /\ UNCHANGED <<today, counted, events, arrived, table, placeVars>>

CancelRollup(p) ==
  /\ place[p] # "idle" /\ awaited # p
  /\ RollupEnds(p)
  /\ UNCHANGED <<today, counted, events, arrived, table, errors>>

-----------------------------------------------------------------------------
(* Around the passes *)

\* An event arrives at most TrailingDays late, a browser's session long erased
\* perhaps.
Store(v, name, d, h) ==
  /\ arrived < MaxEvents
  /\ d \in Window(today)
  /\ arrived' = arrived + 1
  /\ events' = events \union {[session |-> v, name |-> name, day |-> d, hour |-> h]}
  /\ UNCHANGED <<today, counted, awaited, table, placeVars, errors>>

\* Mutant of Anonymous: one replacement for all the sessions of the subject.
OneForAll(v) == Replacement[CHOOSE w \in Visits : TRUE]

Anonymous(v) == Replacement[v]

\* EraseSubjectAnalytics, of a subject whose sessions are vs.  Each call mints
\* new replacements: a visit is erased once here, however long it goes on.
Erase(vs) ==
  /\ \E e \in events : e.session \in vs
  /\ \A e \in events, v \in vs : e.session # Replacement[v]
  /\ events' = {IF e.session \in vs THEN [session |-> Anonymous(e.session),
                                          name |-> e.name, day |-> e.day, hour |-> e.hour]
                ELSE e : e \in events}
  /\ UNCHANGED <<today, counted, awaited, arrived, table, placeVars, errors>>

NextDay ==
  /\ counted /\ today < MaxDay
  /\ today' = today + 1
  /\ counted' = FALSE
  /\ UNCHANGED <<awaited, events, arrived, table, placeVars, errors>>

RollupInit ==
  /\ today = 1 /\ counted = FALSE /\ awaited = NoRollup
  /\ events = {} /\ arrived = 0
  /\ table = [row \in Days \X DOMAIN Steps |-> NoCount]
  /\ place = [p \in Rollups |-> "idle"]
  /\ day = [p \in Rollups |-> 1] /\ upTo = [p \in Rollups |-> 1]
  /\ held = [p \in Rollups |-> NoHeld]
  /\ step = [p \in Rollups |-> 1]
  /\ errors = 0

Work(p) == ReadBucket(p) \/ WriteStep(p)

RollupNext ==
  \/ \E p \in Rollups : StartRollup(p) \/ Work(p)
  \/ \E p \in Rollups : FailRollup(p) \/ GiveUpRollup(p) \/ CancelRollup(p)
  \/ \E v \in Visits, name \in Names, d \in Days, h \in Hours : Store(v, name, d, h)
  \/ \E vs \in (SUBSET Visits) \ {{}} : Erase(vs)
  \/ NextDay

\* The schedule starts passes day after day and the service runs them.
RollupFairness ==
  /\ WF_rollupVars(NextDay)
  /\ WF_rollupVars(\E p \in Rollups : StartRollup(p))
  /\ \A p \in Rollups : WF_rollupVars(Work(p))

RollupSpec == RollupInit /\ [][RollupNext]_rollupVars
RollupFairSpec == RollupSpec /\ RollupFairness

-----------------------------------------------------------------------------
(* Properties *)

Right(d) == \A i \in DOMAIN Steps : table[<<d, i>>] = Count(EventsOf(d))[i]

\* Every bucket of the days that passes still cover comes to hold the count of
\* its events, whatever an older pass, or one that failed, wrote meanwhile.
RollupSettles == <>[](\A d \in Window(MaxDay) : Right(d))

\* An erasure changes no count: the sessions of a subject stay distinct.
ErasureKeepsCounts ==
  [][(\E vs \in (SUBSET Visits) \ {{}} : Erase(vs)) =>
       \A d \in Days : Count(EventsOf(d))' = Count(EventsOf(d))]_rollupVars

\* Events of steps 1 to i of one session in non-decreasing order of time.
Traversed(seen, s, i) ==
  \E path \in [1 .. i -> {e \in seen : e.session = s}] :
    /\ \A j \in 1 .. i : path[j].name = Steps[j]
    /\ \A j \in 2 .. i : path[j - 1].hour <= path[j].hour

\* Counts never increase along the funnel, and no more sessions are counted
\* than have gone through the steps in order.
CountsAreTraversals ==
  \A d \in Days :
    LET seen == EventsOf(d)
    IN  \A i \in DOMAIN Steps :
          /\ Count(seen)[i] <= Cardinality({s \in SessionIds : Traversed(seen, s, i)})
          /\ i > 1 => Count(seen)[i] <= Count(seen)[i - 1]
=============================================================================
