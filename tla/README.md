# A model of the platform's sagas

This directory holds TLA+ modules that model the parts of the platform where
several services, workflows and stores have to agree, the TLC configurations
that check them on small instances, and TLAPS proofs of what matters most for
every instance. The source is the Go monorepo this directory stands beside;
paths below are relative to its root.

## The system

Each service keeps its rows in a Postgres database of its own. What spans two
stores is a Temporal workflow: the HTTP handler starts it, answers 202 with a
handle, and the workflow's activities write one store each. Permissions are
OpenFGA tuples, identities live in Kratos.

| Component | State it keeps | Operations that change it | What makes it correct |
| --- | --- | --- | --- |
| orders (`services/orders`) | `orders` rows; tuples on orders | `POST /orders`, the `Checkout` saga (create, grant, lookup, total, charge, mark), `POST /orders/{id}/cancel`, `CancelOrder` | one order per key; tuples and row agree; the charge asked for is the total recorded; a decision stands |
| payment (`services/payment`) | `charges` rows; tuples on charges | `POST /charges`, `Charge`, `POST /charges/{id}/refund`, `Refund` | one settlement per key; the row claims what the processor did |
| catalog (`services/catalog`) | `products` rows | operator CRUD | single-row statements |
| orgs (`services/orgs`) | organisations, members; `metadata_public.org_id`; tuples on organisations | Kratos webhook, `RegisterUser`, organisation CRUD, erase | one personal organisation per identity; row, tuple and identity agree |
| authz (`services/authz`) | the operator flag in `metadata_public`; the operator tuple | `PATCH` identity, `SetOperator` | flag and tuple agree after the last edit; no lost update of the record |
| platform (`services/platform`) | no rows; drives the others on schedules | `EraseSubject`, retention sweep, `RestoreVerification`, rollup | nothing of an erased subject is left; the tuples go last; a sweep touches only the gone; a scratch restore is torn down |
| analytics (`services/analytics`) | events in monthly partitions, consents, rollups | collector export, consent endpoint, rollup, retention, erase | nothing stored without a grant; no row lost before its time; a rollup holds the count of its events |
| `libs/go/temporalmw` | Temporal schedules | reconcile at the start of each worker pod | the schedules come to be those of the file; a foreign one stays; a pause stays |
| `libs/go/money` | none | `Parse`, `Mul`, `Div`, `Split` | no unit is lost |
| frontend, admin console, tools, infrastructure | none that the services depend on | | out of scope |

How they interact: the `Checkout` saga reads the price from catalog and posts
to payment over HTTP with the order's id as `Idempotency-Key`; orders and
payment share no state, and `POST /charges` is open to any other caller too.
Operators cancel orders and refund charges at any time.
orgs and authz both rewrite the same `metadata_public` object. The platform
worker calls the services' subject endpoints, the analytics rollup and retention
endpoints, and the Kubernetes API; its schedules are reconciled when it starts.

What is hard in all of it:

* Temporal runs an activity at least once. An attempt can take effect and lose
  its report, so every write may be tried again after other actors have moved.
* A handler reads a row, then starts a workflow on what it read.
* Workflows are started under an id. A running one is joined, a closed one is
  started again (the default reuse policy; no policy is set in the code).
* A call that timed out goes on in the service it reached, beside the retry.
* An insert and a workflow start are two steps, and the second can fail alone.
* A pass that its caller has given up goes on beside the pass that replaces it.
* Something else acts on the same objects: an operator of the scratch cluster, an
  operator at the console, a replica, a pod of the old version.

`PROJECT.json` lists these hazards at the lines where they bite, with the
properties that would catch each one.

## Modules

| Module | Models |
| --- | --- |
| `Orders` | the orders service on its own; payment is an answer that comes or does not |
| `Payment` | the payment service on its own; the processor is the set of charges it settled and reversed |
| `CheckoutSystem` | both services, joined by the call that `ChargeActivity` makes, with other callers of `POST /charges` beside it |
| `Placement` | what the two promise the holder of a key: one order, charged once, confirmed only with a charge under its id |
| `Identity` | one Kratos record and the two services that write it: orgs with `RegisterUser`, authz with `UpdateIdentity` and `SetOperator` |
| `Erasure` | one data subject, `EraseSubject` and the daily retention sweep, with workflows of the subject in flight |
| `Analytics` | consent, the collector's export and the monthly partitions of the event store |
| `Rollup` | one funnel: passes over a trailing window of days, late events, erasures |
| `Restore` | the weekly restore verification with the scratch cluster's operator |
| `Schedules` | the reconcile that every pod of a worker runs at its start, through a rollout |
| `Money` | the arithmetic of `libs/go/money` |
| `OrderAmounts` | what `Money` does to the amounts that `Orders` records; `MCOrders` checks both |
| `Orders_Proofs` | theorems about `Orders`, and about `Money` through `OrderAmounts` |
| `Analytics_Proofs` | theorems about `Analytics` and about `Rollup` |
| `Payment_Proofs`, `CheckoutSystem_Proofs`, `Identity_Proofs`, `Erasure_Proofs`, `Restore_Proofs`, `Schedules_Proofs` | theorems about the components of these names |
| `MCOrders`, `MCPayment`, `MCCheckoutSystem`, `MCIdentity`, `MCErasure`, `MCAnalytics`, `MCRollup`, `MCRestore`, `MCSchedules` | values for TLC |

### Orders

A call `r` of `POST /orders` mints an order id before it starts the saga, so
the order has the name of the call. `request[r]` is how far the handler is:
`idle`, `received` (validated), `missed` (no row under the key), then
`accepted` (202) or `refused` (any error). The row is `status`, `total`, and
`key` and `quantity` of the call; `tuples` are the two relations written by
`GrantOrderAccessActivity`.

`saga[o]` is the activity the `Checkout` workflow is at and `tries[o]` its
failed attempts. `After` and `OnError` are the control flow of
`workflows/checkout.go`. An attempt has three outcomes: it worked and said so
(`Proceed`), it worked and its report was lost, or it failed before its effect;
the last two go through `AttemptFailed`, which retries until `MaxAttempts`. The
charge is two steps, `SendCharge` and `ChargeAccepted` or
`ChargeAttemptFailed`, because it is another service that acts in between.

`CheckCancel` and `StartCancel` are the two halves of the cancel handler,
`MarkCancelled` the one activity of its workflow. Status writes are
unconditional, as the `update` is.

### Payment

`call[c]` is the create handler between its three steps: lookup, insert,
start. Each can fail with the earlier ones done, and each can succeed and have
its answer lost, which the caller sees as an error. `charge` is the row's
status, `settling` the `Charge` workflow and `refund` the `Refund` workflow of
each charge. `SettleActivity` and `RefundActivity` are mocks that return nil;
the model keeps the set of charges they ran for and lets them fail as any
activity can.

### CheckoutSystem and Placement

Each attempt of `ChargeActivity` is one call of `Payment`, named by the order
and the attempt; all attempts of an order carry the same key. A call stays in
payment after its attempt timed out and may be served at any later time, even
after the saga has ended. `ChargeAccepted` needs payment's 202 for the current
attempt; nothing else passes between the two modules.

`POST /charges` is public and anonymous (`services/payment/openapi.yaml:31`), and
the key, the order id and the amount are three independent fields of a request.
So there are `DirectCalls`, which no saga has sent: `ReceiveDirectCharge` brings
any of `DirectAmounts` under `DirectKey`, which may be the id of an order, at any
moment, before its saga has started too. The `order_id` of a request is left out:
payment stores it and compares it with nothing (`ChargesOf` goes by the call that
inserted the row). `CreateCharge` of payment answers 202 for whatever row is under
the key (`handlers.go:106-110`), so a saga's call may be accepted for the row of
a direct one. What is stated of an order's charge is stated of the rows that the
saga's own calls insert; `KeyTaken` is the other case, and `ConfirmedIsCharged`
allows it because the code does.

`Placement` has one variable for the order of a key, one for the amount charged,
one for the orders under whose id somebody else has made a charge (`taken`), and
one for the decision. The refinement reads them off the two databases: the
order is the row that carries the key, the amount that of the row the saga's calls
have under the order's id, the decision the row's status (`pending` is `open`).
A key has one order; an order is charged by its saga once or by somebody else
first, never both; the amount stands; confirmed needs one of the two.

### Identity

Every store, lock and workflow id of registration and promotion is keyed by the
identity, so the module takes one identity. `kratos` is its record: a name and
`metadata_public`, that is the organisation and the operator flag. Three writers
read it in one call and write it in another, and each has its two halves as two
actions: `ReadMetadata` and `PatchMetadata` (orgs, `SetIdentityOrgActivity`),
`ReadFlag` and `PatchFlag` (authz, `SetOperatorFlag`), `ReadIdentity` and
`PutIdentity` (authz, `UpdateIdentity`). What each has read and is to write back
is `regSeen`, `setopSeen` and `seen`. A patch of `/metadata_public` replaces the
whole object; a PUT replaces the whole record.

`org[o]` is whose name the organisation carries, because `FindPersonalOrg`
searches by the default name: `personal` since registration, `renamed`, or
`namedBack` by an operator. `OnIdentityCreated` and `StartSetOperator` start
their workflow or join the one that runs. A call that joins a run waits for its
result whatever value the run was given. The record that `UpdateIdentity` reads
for its answer is left out.

### Erasure

The module takes one subject. `row[r]` is whether a row names it (`named`), is
`absent`, or carries a replacement (`erased`); `tuples` are the rows whose tuple
OpenFGA holds; `kratos` is whether the identity exists. `erase` is the activity
`EraseSubject` is at, `sweep` where `ApplyRetentionActivity` is, `todo` the
stores its loop over a Go map has not reached, `verdict` what it knows of the
subject. The pass is one activity, so a failure anywhere starts it over; the
workflow retries the activity that failed. `EraseAuthzTuplesActivity` is a read
and a delete in both, and OpenFGA refuses to delete what is gone.

`Writers` are checkouts and events of the subject: started while the identity
exists, their rows inserted at any later time, a checkout's tuple granted after
its row. The replacement itself is left out: in a workflow it is a side effect,
minted once per run. payment and catalog name no subject.

### Analytics

Time is counted in instants, `MonthLength` of them to a month. There is one
export of the collector, a batch for each session, and each sending of it is a
call `c` with rows of its own, because `insert` mints a fresh id each time.
`call[c]`, `batch[c]` and `item[c]` are how far `OTLPLogs` is; `allowed[c]` are
the sessions it has found granted. A call fails with a 503 and leaves what it
has inserted; the collector sends again without an answer, and the first call
may go on. `grants[c]` is a history variable: who had a grant during the call.

`rows[x]` is the partition that holds the row of an event and a call: a month,
`Default` or `Absent`. A pass `p` is the sequence of statements of
`retention.Apply`: the list of partitions, the two wanted months, each created
directly (`CreateMonth`) or by a transaction that moves the rows of the default
partition (`TakeRows`, `PutRows`), the drops, the delete in the default
partition. The transaction's rows are seen by others where they were until it
commits, and it fails when the month has been made or another row of it has
come since it took them. `GiveUp` is a pass whose caller's attempt has timed
out: it goes on beside the next one.

### Rollup

One funnel, days counted from 1, events with a time within their day. A pass
covers the trailing days: `ReadBucket` reads one day and counts, `WriteStep`
writes one step of it, in statements of their own. `Count` is `rollup.Count`: the
first occurrence of each step, walked in order. `Erase` gives each session of a
subject its replacement in one statement, as `EraseSubjectAnalytics` does.
`CancelRollup` ends a pass whose caller has given up, at any later step.

### Restore

`at` is the Kubernetes call that the workflow has reached, over its three
activities. A call fails before its effect (`CallFails`) or loses its answer
(`Answered`); either way the activity begins again until `MaxAttempts`. A
restore that gives up ends the run without a teardown; an assertion that gives
up is kept until the teardown is done. `Provision`, `Recover` and
`CollectVolume` are what CloudNativePG does with the cluster and its volume; a
restore needs the credential that is current, and may lack any tables.
`cluster` is the number of the run that made the scratch cluster, so a later
run that meets an old one is seen. `Fill` and `Drain` are the services at work on
the source: a table gets its first row or loses its last one at any step. The
retention pass, which the schedule starts at the same minute on Sundays, drops
partitions of the event store and clears the default one, and a table is a
partition to `rowCounts`. So a run may complete without a table that had rows
when it began. `verified`, `found` and `kept` are history variables: which cluster
was asserted on, what was in it, and which tables have had rows ever since the run
began; `CompletedRunFoundRows` is about these. The counts of source and restore
are taken at one moment in the model; a table that had rows all through the run is
counted either way.

### Schedules

`owner`, `content` and `paused` are the schedules in Temporal; what a file says
of a schedule is the version it comes from. A pod goes through its file entry by
entry (create; if it is there, read and write back), lists, deletes, and polls.
Any error ends the process and the kubelet starts it again. `Describe` and
`Update` are apart because the Temporal SDK reads the schedule, runs `DoUpdate`,
and sends the result. An entry may be gone by then, or at the delete, because a
replica deleted it. `Retire` removes an old pod once a new one polls. Until then
an old pod lives, and `Restart` takes a polling pod of either version: a node
drain or a crash makes an old pod apply the old file beside the new pods, or after
them. What the two leave may match neither file. `ReconcileSettles` therefore
speaks of a new pod that is still to reconcile when the old ones are at rest, with
any such mixture to begin with.

### Money

`Quo` and `RemOf` are `big.Int.QuoRem`, which truncates toward zero; `DivRound`
and `Split` are built on them as in the code. `SplitsExactly` and
`DividesToNearest` are the reference definitions; `OrderAmounts` states them of
the totals that orders record, and `MCOrders` checks that, along with amounts from
-25 to 25 and divisors from -8 to 8. The code works on integers of any size, and
the largest divisor that matters is small: remainders and ties repeat with each
multiple of it. The proofs take every integer.

### Assumptions about what is outside

* A statement that an activity sent takes effect, if at all, before its attempt
  is timed out: activities pass their context, which carries the attempt's
  deadline, to the driver. The HTTP calls of payment go on after it.
* Workflow code is replayed deterministically; a crash of a worker is an attempt
  that is not reported.
* Postgres enforces the unique indexes, and one statement or transaction is
  atomic. A PUT or PATCH of Kratos is atomic and takes effect, if at all, before
  its caller gives up.
* A subject's tuples are read at one moment and fit in one OpenFGA write (the
  code reads type by type and writes batches of 100).
* The processor does not reorder or repeat what an activity asks of it.
* A statement of an analytics pass that its caller has given up still takes
  effect in order; one that fails has no effect.
* The collector gives up sending after `MaxCalls`; a batch holds no event twice.
* No rollback happens: no pod of the old version is made anew after the new one
  has been deployed, though one that is there may restart.
* Requests of OpenFGA and of Kubernetes that outlive their attempt do not take
  effect after it. The clients pass the attempt's context on; a server that acts
  on a request whose client has gone is not modelled, except for payment.
* Of payment's callers nothing is assumed. Of the theorems and properties of
  `CheckoutSystem`, those about charges speak of the charges that sagas make.
* The archive accepts only the current credential. Runs of the restore schedule
  do not overlap (Temporal's default overlap policy).

## What the runs check

| Run | Instance | Shows |
| --- | --- | --- |
| `orders` | 2 checkouts, 1 key, 1 operator, 3 attempts, prices 0 and 3 | the row, the tuples and the saga agree at each step; a key has one row; the saga decides once; a cancel after the saga is final; every 202 names an order whose saga ends. Also `Money`: the parts of a split sum to the amount, and rounding is to nearest, over amounts and divisors of both signs |
| `payment` | 2 calls, 1 key, 2 operators, 3 attempts, amounts 0 and 5 | one settlement per key; the row is backed by the processor; only settled charges are reversed; an outcome stands; workflows end |
| `checkout_system` | 1 checkout, 1 operator, 2 attempts, prices 0 and 3, 1 direct call under the order's id | the saga's charge settles once though calls outlive their attempts; the row it inserts matches its order; a confirmed order has its own charge or a direct one under its key; the total stands once charged; the system implements `Placement` |
| `identity` | 2 webhook deliveries, 2 edits of 3 kinds, 2 organisations, 2 attempts | registration makes one personal organisation; the record names only what is granted; a completed dual write is whole |
| `erasure` | a row in each of the 3 stores, a checkout and an event in flight, 2 attempts, 2 failures | tuples go last; a completed run was total; a sweep touches only the gone; no row names a gone identity for ever |
| `analytics` | 1 session, a batch of 2 events, one from a clock that runs ahead, 2 calls, 2 decisions, 2 passes, 4 instants, 1 failure | nothing is stored without a grant; an answered export is kept; no row goes before its time; the partitions come right |
| `rollup` | 2 steps, 2 sessions, 2 events, 2 days, 2 passes, 1 failure | every bucket of a day that passes still cover settles to the count of its events; erasure changes no count; a count is of sessions that went through the steps |
| `restore` | 2 tables, 3 runs, 2 attempts, 1 rotation | what is left behind is reported; a completed run saw rows in every table that kept some through it; every run ends |
| `schedules` | files of 2 entries that share 1, a foreign schedule, 1 old and 2 new pods, 1 failure, 1 restart of any | a foreign schedule stays; a shared one is never absent, and no pod undoes a pause unless it had read the schedule before; a new pod that starts when the old ones are at rest makes the schedules match its file |
| `orders_replay` | 2 checkouts, 1 key | violated, see below |
| `payment_unstarted` | 2 calls, 1 key | violated |
| `erasure_tuples_left` | nothing in flight, 1 failure | violated |

Bounds. `MaxAttempts` is 3 in the code and in the two single-service runs. The
composed runs use 2, which is the least with a call that outlives its attempt
and a retry beside it. Two callers of one key are the least that race, and a
third only repeats what the second finds: the index admits one. Orders of
different keys share no variable, and the theorems cover any number. A price of
0 makes the total that payment refuses. In these no counter needs a bound of its
own: attempts are bounded by the retry policy, and requests are finite.

`MaximumAttempts` is 5 in `Identity` and 10 in `Erasure`; both runs use 2, the
least with a retry and a last failure. Two deliveries and two edits are the
least that join or follow each other's run. `MaxOrgs` bounds the organisations:
a second one needs a rename or a delete before a delivery, and two deliveries
make at most two. `MaxFaults` bounds the calls of the platform worker that fail,
in `Erasure`: a pass is started every day for ever, and a store that always
fails is never erased. Two failures are enough to end a pass or a run for good,
or to break each of them once. The theorems take any of these numbers.

`checkout_system` has one checkout: what two sagas that race for a key do is in
`orders`, and `CheckoutSystem_Proofs` proves the composition for any number. It
has one direct call, under the order's id and with the amount 1, which is no total
of the order; a second one adds nothing, since a key has one row. That an accepted
checkout ends is checked in `orders` alone, where payment may answer or not at
every attempt; by `ImplementsOrders` the composition adds no behaviour to that,
and its run has no fairness.

`analytics` has one session, since sessions share only the position in an export;
two events are the least with a batch that is half inserted. The second is
stamped with a month that no partition covers yet, so its row starts in the
default partition and a later pass has to move it. With months of two instants
and a period of one, four instants see the first month expire and be dropped,
with the first event in it; or that event arrives after the drop, and has to be
deleted from the default partition. Two passes are the least that overlap. `rollup`
needs two days for a window that moves and two passes to
have an old one write beside a new one; a third session or step adds no new way
for a bucket to be stale. `restore` runs three times because the second may meet
what the first left, and the third what the second made of it; one rotation makes
a copied credential stale. `schedules` has an entry of each kind: in both files,
dropped, added and foreign. One restart lets the old pod reconcile again at any
step of the new ones, or a new one begin anew; one failure stops a pod at any call.
Pauses are of the shared schedule (`MayPause`), whose content both versions write.
`MaxAttempts` is 10 in the code of the platform worker and 2 here.

Bounds on counters: `MaxCalls`, `MaxDecisions`, `LastInstant` and `MaxFailures`
in `Analytics`, `MaxEvents`, `MaxDay` and `MaxErrors` in `Rollup`, `MaxRuns`
and `MaxRotations` in `Restore`, `MaxFaults`, `MaxRestarts` and `MayPause`
in `Schedules`.

Deadlock is not checked. When all calls are answered and the workflows have
ended the system stops, as it should.

Fairness. Weak fairness for each handler once its request has arrived (an HTTP
server runs it to its end), for each workflow step (the worker polls its queue,
`cmd/worker/main.go`, and Temporal times an attempt out) and for each call that
reached payment. None for callers: nobody has to place, cancel or refund.
Workers may fail every attempt; the liveness properties hold because attempts
are bounded. The fairness of the saga covers `SendCharge`, `ChargeAccepted` and
`ChargeAttemptFailed` together, so payment need never answer. In `Erasure` a
pass is started again and again (the schedule) and the pass, the workflow and
what is in flight go on; nobody has to ask for an erasure or delete an identity.
`Identity` states no liveness: its runs end by the same bound on attempts. In
`Analytics` and `Rollup` time passes and a pass is started while none is waited
for (the daily schedules), and the service serves what it has taken; a browser,
a visitor and the collector owe nothing. In `Restore` the worker makes its calls
and the schedule starts its runs, but CloudNativePG need never restore or
collect anything: `RunsEnd` rests on the deadlines and the bound on attempts. In
`Schedules` the kubelet starts a pod that exited and its process runs on.
`RollupSettles`, `RetentionSettles` and `ReconcileSettles` say what holds from
some point on; failures are bounded, as they must be for that.
`RollupSettles` is of the days that passes still cover: time stops at `MaxDay`,
which no day has left the window by, and passes are repeated from then on, where
the code gives each day three. A stale write of the last pass over a day, by a pass
that was given up, is never repaired and is no part of it.
`Identity` is checked with symmetry of deliveries and of edits, which differ in
nothing but their name.

Every passing property has a mutant: a definition of the model changed the way
a bug would change the code, under which TLC finds the property violated. The
mutants stand in the modules before the definitions that they change. The type
invariants are proved and are not runs' properties.

## Where the code and its documents differ

* `orders_replay`. `services/orders/openapi.yaml:36` says a retry with the same
  key returns the first order. The handler looks the key up in `orders`, and the
  saga inserts the row later, so a retry in between mints a second order and is
  answered 202 with it. The unique index then fails the second saga: the handle
  names an order that never exists. `OneOrderPerKey` and `PaidOncePerKey` hold
  all the same.
* `payment_unstarted`. When the insert succeeds and the workflow start fails,
  each retry is answered 202 from the row and nothing starts the workflow. The
  charge stays pending, and the order is confirmed.
* `erasure_tuples_left`. A pass that erased an orphan's rows and then failed is
  tried again, asks the stores who their subjects are, and no store lists it any
  more. Its tuples stay, in every later pass too, against the comment on
  `ApplyRetentionActivity`. `EraseSubject` has no such gap.

Not given runs of their own, but read off the models:

* The caller of `POST /charges` is not known to payment, and the lookup under the
  key compares neither order nor amount. The handle of a 202 of orders names the
  order's id before the saga has charged; a direct call with that id as its key
  makes payment answer the saga's call from its row. The order is then confirmed
  with another amount charged under its id, or for another order (`KeyTaken` in
  `ConfirmedIsCharged`), where ORD-006 speaks of the order's charge.
* A run of the restore verification compares with the source as it is then. A table
  that is emptied or dropped between the start and the count is not missed.
* `docs/reference/system-view.md:80` shows the saga compensating on failure. When
  its charge call runs out of attempts it marks the order failed and leaves the
  charge, which may settle. An order is confirmed on payment's 202 and its charge
  may fail later.
* `activities/checkout.go:197` of orders calls the status it writes terminal. A
  cancel of a pending order is overwritten when the saga reaches its last step.
* `authz/internal/handlers/handlers.go:142` says the PUT cannot overwrite the
  operator flag because `SetOperator` runs after it. That is so within one call.
  The PUT of one edit carries the record read at its start and reverts the flag
  that another edit's completed run wrote, while the tuple stays.
* A second `Refund` workflow can start for a charge that is already refunded,
  when both operators read `settled`; the retry of a settled write whose report
  was lost turns `refunded` back into `settled`. `OutcomeStands`,
  `ReversedWasSettled` and `StatusBackedByProcessor` say what still holds then.
* A second delivery of the webhook after a rename makes a second organisation and
  moves the record to it; an edit that joins a run with the opposite value is
  answered as done; a tuple that a checkout grants after its order's row and the
  tuples were erased outlives the subject.
* `activities/restore.go:88-90` says a run restores the latest backup and always
  tests what production writes. After a run that left its cluster behind, the
  next one finds it and asserts on it: an older restore. That takes a failure,
  which `StaleCopyOnlyAfterFailures` states. With the archive's credential rotated
  in between, the kept copy never restores, the restore gives up before the
  teardown, and each later run does the same until somebody deletes it. The runs
  fail, so it is reported (`LeftoverIsReported`).
* An export that is sent again stores its events twice: each insert mints a fresh
  id. Nothing is lost (`AnsweredIsKept`), and `SummariseEvents` counts both. The
  rollup counts sessions and is not affected. A row lives up to a month past
  `Period`, since partitions are dropped whole.
* `rollupTrailingDays` is said to be longer than any likely delivery delay. The
  window counts the day of the pass, at 00:20: an event of the last minutes of a
  day has two days and a little to arrive, not three. `Count` takes first
  occurrences, so a session in which a later step also happened early is not
  counted though it went through the funnel.
* A pod of the old version that restarts after the new one has reconciled applies
  the old file and deletes the schedules the new one added, until a new pod
  starts. When it restarts while the new pods reconcile, the two leave a mixture of
  the files that matches neither. Two replicas that delete the same schedule make
  one of them exit and start again.

## What is proved

The eight proof modules prove, for any values of the constants that satisfy the
named assumptions (`OrdersConstants`, `MoneyConstants`, `PaymentConstants`,
`CheckoutConstants`, `IdentityConstants`, `ErasureConstants`,
`AnalyticsConstants`, `RollupConstants`, `RestoreConstants`,
`ScheduleConstants`), the type invariants and every safety invariant and action
property that the passing runs check. The refinement of `Placement` is proved
too. The theorems about `Rollup` are in `Analytics_Proofs`: the two share the
service and no state, and `Rollup` keeps its names apart for that.

`OneOrderPerKey` is not inductive: a saga that is at its first step could have a
row for all the invariant says, and a request could change the key of a row.
The strengthening `OrderProgress` says, for each step of the saga, what has been
written by then: no row before `create`, a row and no decision at `grant`, both
tuples from `lookup` on, the total from `charge` on, and `confirmed` or `failed`
only with the steps that write them. Each action has a lemma that says where its
attempt can lead (`Outcomes`) and shows `OrderProgress` of its own order and of
the others. `SagaDecidesOnce` and `CancelAfterSagaIsFinal` follow from the
invariant and `StatusMoves`, which lists the four ways a status changes.

For `Payment` the strengthening is in two halves. `ChargeProgress` ties the
steps of the `Charge` workflow to the row, the tuple and the processor;
`RefundProgress` says that an operator's stale read and a running refund are
always of a charge that was settled, because `settled` and `refunded` are never
left for anything but each other. `ChargeStepEffect` and `RefundStepEffect`
reduce a workflow step to what it writes and where it leads.

The invariants of `Orders` and `Payment` were model-checked on the instances
above before they were proved.

For `Identity` the step that matters is a stale record put back. The
strengthening `CopiesGranted` says that the record and every copy of it that
someone holds name an organisation that is granted; organisations and tuples are
never taken back (`Grows`), so writing any copy is harmless to
`OrgClaimIsGranted`. `RegProgress` says what the step of `RegisterUser` has made.

For `Erasure`, `EraseProgress` says which stores are erased at each activity of
`EraseSubject` and `SweepProgress` which ones a pass has done, and that a pass
that erases has found the identity gone. `Stands` says that no step takes erasure
back: old rows are not named again, the identity does not return, old tuples are
not granted again. With it, a run and a pass keep what they know whatever the
other one does, and both halves of `TuplesGoLast` follow.

For `CheckoutSystem` nothing of the two services is proved again.
`CheckoutSystem_Proofs` takes `Orders_Proofs` and `Payment_Proofs` with the
composition's constants, shows that each step of the system is a step of either,
of both or of neither, and gets their invariants. What is new is `Links`: a call
that a saga sent is for the order as its row shows it, from then on, and a
confirmed order has a charge under its id (`FreeOrTaken`: of its own, or of a
direct call). `DirectEffect` and `DirectLinks` say that a direct call writes
nothing that `Links` rests on. `PlacementKept` follows from `View`, which says
what the refinement mapping reads off a state that satisfies the invariant, and
a case for each thing that a step may write: a row, a charge of either kind
(`TakenView`), a decision.

For `Analytics` the two halves are independent. `CallOK` and `KeptBy` say, by the
position of a call in its export, what it has stored; `RowOK` and `PassOK` say
that a month's partition holds that month's rows only and that a transaction
moves only rows of the month it makes, so that a drop takes only what has
expired (`DroppedIsPast`) and a move loses nothing. `AnsweredIsKept` needs both.

For `Restore` the strengthening `Aged` carries, with the scratch cluster, that
each run since the one that made it has failed, and `TornDown` what has been
deleted at each call of the teardown. A table of `kept` is in the source by the
invariant, so an assertion that passes has found it. For `Schedules`, `OnlyOwnListed` says that
what a pod is about to delete was its owner's when it was listed and is in no
case foreign now, however old the list.

The composition also implements either service whole: `ImplementsOrders` and
`ImplementsPayment` say that a behaviour of `CheckoutSystem` is one of `Orders`
and one of `Payment`. The first says that joining a saga to payment's answers
adds nothing that a service with any answers could not do; the second needs
`Links`, because the amounts that sagas send have to be totals of orders, which
with those of direct calls are the amounts of that instance of `Payment`.

For `Rollup` a count is the cardinality of a set of sessions that changes with
the events. What makes the two comparable is that only finitely many events ever
arrive (`RollupInv`). `CountsAreTraversals` then follows from inclusions: a session
that is counted at a step is counted at the one before, and the first occurrences
it was counted for are a path through the funnel. `ErasureKeepsCounts` follows from a
bijection: replacements are fresh, so erasing renames the sessions of a day one
to one, and a session is counted exactly when the renamed one is.

For `Money` nothing depends on the state but the recorded totals, which are
integers. A truncated division is characterised by its remainder, smaller than
the divisor and of the sign of the amount. `Split` is summed by a fold, whose
recursion is given a closed form, the quotient for each part and one step for each
part within the remainder; a least index at which it would fail contradicts the
recursion, because the library's induction takes an operator and cannot be used.

### Bounded work

Liveness rests on two things: that whoever has a step to take takes it, which is
fairness, and that the steps run out. The second is proved. For each workflow a
number says what it has left: what the attempts left to its activity can do, and
all attempts of the activities after it. It is bounded, it is 0 exactly
when the workflow has ended, every step of the workflow lowers it, and nothing
else raises it while the workflow runs.

| Theorem | A run of | takes at most |
| --- | --- | --- |
| `SagaWorkRunsOutHolds` | `Checkout` | `14 * MaxAttempts` steps |
| `WorkRunsOutHolds` | `Charge`, `Refund` | `4 * MaxAttempts`, `2 * MaxAttempts` steps |
| `DualWriteWorkRunsOutHolds` | `RegisterUser`, `SetOperator` | `4 * MaxAttempts`, `3 * MaxAttempts` calls |
| `ErasureWorkRunsOutHolds` | `EraseSubject`, a retention pass | `6 * MaxAttempts`, `9 * MaxAttempts` calls |
| `RunWorkRunsOutHolds` | a restore verification | `8 * MaxAttempts` calls |

The mutants that retry for ever (`RetriedForever`, `AttemptFailedRetriesForever`)
are what these exclude. A pod of `Schedules` and the passes of `Analytics` and
`Rollup` have no such number: a pod restarts as often as failures allow, and a
pass works on whatever has arrived.

### Only model-checked

The liveness properties, which are out of the prover's reach under fairness:
`AcceptedCheckoutEnds` and those of the other runs, with `RollupSettles`,
`RetentionSettles` and `ReconcileSettles`. And the three violations, which are
counterexamples and need no proof.

## Plan

In the order of what matters to the people whose data and money it is, all done:

1. `Orders`, `Payment`, `CheckoutSystem`, `Placement`, and their proofs.
2. `Identity` and its proofs.
3. `Erasure` and the proofs of its safety properties.
4. `Analytics` and `Rollup` with their proofs.
5. `Restore` and `Schedules` with their proofs.
6. `Money` with its proofs, and the work that each workflow has left.

What could follow: a rollback in `Schedules`; the two violated divergences of
`Identity` and `Orders` listed above as runs of their own; a bound on the steps of
a pod of `Schedules` between two failures.

## What is not modelled

Most of the Go in the repository is generated: of some 61,000 lines that are
counted as implementation about 45,000 are SDKs, servers and queries generated
from the OpenAPI documents and the SQL. They encode, decode and route, keep no
state, and are modelled by what their callers do with them. The share of the
whole that the map covers is small for that reason.

* The reads (`GET` endpoints, subject pages and exports) change nothing.
* Validation beyond accept or refuse, wire formats, currencies, telemetry and
  error texts.
* catalog: one statement per request behind an operator check, no workflow. Its
  price is an input of `Orders`, read at any moment.
* The middleware libraries: request plumbing without state. What `Grant` promises,
  that an existing tuple counts as written, is part of the actions that call it.
* Parsing and formatting of money, and of the collector's log format.
* The drill, the trigger review and the cardinality audit: each opens an issue.
* The frontend, the console, tools, manifests and scripts: they keep no state
  that the services agree on.

`PROJECT.json` lists each component with its status.
