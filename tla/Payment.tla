------------------------------ MODULE Payment -------------------------------
(***************************************************************************)
(* The payment service: POST /charges with its deduplication on the        *)
(* Idempotency-Key, the Charge workflow, POST /charges/{id}/refund and the *)
(* Refund workflow.  The payment processor is a mock in this repository;   *)
(* it is seen only as the set of charges each activity ran for.            *)
(*                                                                         *)
(* The create handler is three steps, read, insert and start, and each can *)
(* fail with the steps before it done: a store or Temporal may be down, or *)
(* the caller may have given up, which cancels the request's context.      *)
(***************************************************************************)
EXTENDS Integers

CONSTANTS
  Calls,        \* calls of POST /charges; the charge a call mints has its name
  KeyOf,        \* the Idempotency-Key of each call
  Amounts,      \* the amounts a call may carry
  Operators,    \* callers of the refund endpoint, one call at a time each
  MaxAttempts,  \* RetryPolicy.MaximumAttempts
  NoCharge

ASSUME PaymentConstants ==
  /\ MaxAttempts \in Nat \ {0}
  /\ Amounts \subseteq Int
  /\ NoCharge \notin Calls

VARIABLES
  call,          \* where each POST /charges is
  amount,        \* the amount it carries, and that of the row it inserts
  charge,        \* charges.status, or "absent" when no row exists
  readable,      \* the charges whose tuple to their order is written
  settling,      \* the step the Charge workflow of each charge is at
  chargeTries,   \* failed attempts of that step
  settledAt,     \* the charges the processor has settled
  refundCall,    \* the charge an operator's refund call has read as settled
  refund,        \* the step the Refund workflow of each charge is at
  refundTries,
  reversedAt     \* the charges the processor has reversed

callVars   == <<call, amount>>
chargeVars == <<readable, settling, chargeTries, settledAt>>
refundVars == <<refundCall, refund, refundTries, reversedAt>>
vars       == <<callVars, charge, chargeVars, refundVars>>

ChargeIds == Calls
CallSteps == {"unsent", "received", "missed", "inserted", "accepted", "refused"}
ChargeSteps == {"grant", "settle", "markSettled", "markFailed"}
RefundSteps == {"reverse", "markRefunded"}
Ends == {"completed", "failed"}

Exists(c) == charge[c] # "absent"

-----------------------------------------------------------------------------
(* POST /charges *)

Refuse(c) == call' = [call EXCEPT ![c] = "refused"]

\* The key and the amount are checked before anything is read.
ReceiveCharge(c, a) ==
  /\ call[c] = "unsent"
  /\ amount' = [amount EXCEPT ![c] = a]
  /\ call' = [call EXCEPT ![c] = IF a > 0 THEN "received" ELSE "refused"]
  /\ UNCHANGED <<charge, chargeVars, refundVars>>

Recorded(k) == {c \in ChargeIds : Exists(c) /\ KeyOf[c] = k}

\* A key that has a row is answered 202, and nothing is started for it.
LookupKey(c) ==
  /\ call[c] = "received"
  /\ \/ /\ Recorded(KeyOf[c]) # {}
        /\ call' = [call EXCEPT ![c] = "accepted"]
     \/ /\ Recorded(KeyOf[c]) = {}
        /\ call' = [call EXCEPT ![c] = "missed"]
     \/ Refuse(c)
  /\ UNCHANGED <<amount, charge, chargeVars, refundVars>>

\* Mutant of KeyUnused: the index is not unique.
NoUniqueIndex(c) == TRUE

\* The unique index on charges.idempotency_key.
KeyUnused(c) == Recorded(KeyOf[c]) = {}

\* The insert commits and is answered, commits unanswered, or does not commit.
InsertCharge(c) ==
  /\ call[c] = "missed"
  /\ \/ /\ KeyUnused(c)
        /\ charge' = [charge EXCEPT ![c] = "pending"]
        /\ call' = [call EXCEPT ![c] = "inserted"] \/ Refuse(c)
     \/ UNCHANGED charge /\ Refuse(c)
  /\ UNCHANGED <<amount, chargeVars, refundVars>>

\* ExecuteWorkflow: started and answered, started unanswered, or not started.
StartCharge(c) ==
  /\ call[c] = "inserted"
  /\ \/ /\ settling' = [settling EXCEPT ![c] = "grant"]
        /\ call' = [call EXCEPT ![c] = "accepted"] \/ Refuse(c)
     \/ UNCHANGED settling /\ Refuse(c)
  /\ UNCHANGED <<amount, charge, readable, chargeTries, settledAt, refundVars>>

-----------------------------------------------------------------------------
(* The Charge workflow *)

\* Mutants of OnError: every error is dropped, and a charge that could not be
\* marked settled is marked failed.
OnErrorIgnored == [grant |-> "settle", settle |-> "markSettled",
                   markSettled |-> "completed", markFailed |-> "failed"]

OnErrorCompensates == [grant |-> "failed", settle |-> "markFailed",
                       markSettled |-> "markFailed", markFailed |-> "failed"]

\* Where the report and the error of each step lead.
After == [grant |-> "settle", settle |-> "markSettled",
          markSettled |-> "completed", markFailed |-> "failed"]

OnError == [grant |-> "failed", settle |-> "markFailed",
            markSettled |-> "failed", markFailed |-> "failed"]

Proceed(c, step) ==
  /\ settling' = [settling EXCEPT ![c] = step]
  /\ chargeTries' = [chargeTries EXCEPT ![c] = 0]

\* Mutant of AttemptFailed: the policy has no MaximumAttempts.
RetriedForever(c, step) == UNCHANGED <<settling, chargeTries>>

AttemptFailed(c, step) ==
  IF chargeTries[c] + 1 < MaxAttempts
    THEN chargeTries' = [chargeTries EXCEPT ![c] = @ + 1] /\ UNCHANGED settling
    ELSE Proceed(c, OnError[step])

Worked(c, step) == Proceed(c, After[step]) \/ AttemptFailed(c, step)

GrantChargeAccess(c) ==
  /\ settling[c] = "grant"
  /\ \/ readable' = readable \union {c} /\ Worked(c, "grant")
     \/ UNCHANGED readable /\ AttemptFailed(c, "grant")
  /\ UNCHANGED <<callVars, charge, settledAt, refundVars>>

Settle(c) ==
  /\ settling[c] = "settle"
  /\ \/ settledAt' = settledAt \union {c} /\ Worked(c, "settle")
     \/ UNCHANGED settledAt /\ AttemptFailed(c, "settle")
  /\ UNCHANGED <<callVars, charge, readable, refundVars>>

\* update charges set status = ... where id = ..., whatever the status was
MarkChargeStatus(c, to) ==
  charge' = [charge EXCEPT ![c] = IF Exists(c) THEN to ELSE @]

MarkSettled(c) ==
  /\ settling[c] = "markSettled"
  /\ \/ MarkChargeStatus(c, "settled") /\ Worked(c, "markSettled")
     \/ UNCHANGED charge /\ AttemptFailed(c, "markSettled")
  /\ UNCHANGED <<callVars, readable, settledAt, refundVars>>

\* The error of this write is dropped; the workflow fails either way.
MarkFailed(c) ==
  /\ settling[c] = "markFailed"
  /\ \/ MarkChargeStatus(c, "failed") /\ Worked(c, "markFailed")
     \/ UNCHANGED charge /\ AttemptFailed(c, "markFailed")
  /\ UNCHANGED <<callVars, readable, settledAt, refundVars>>

-----------------------------------------------------------------------------
(* POST /charges/{id}/refund and the Refund workflow *)

\* Mutant of Refundable: a charge that has not settled can be refunded.
RefundableUnlessDone(c) == charge[c] \in {"pending", "settled"}

Refundable(c) == charge[c] = "settled"

\* The operator's call reads the row; a 404 and a 409 end it here.
CheckRefund(op, c) ==
  /\ refundCall[op] = NoCharge
  /\ Refundable(c)
  /\ refundCall' = [refundCall EXCEPT ![op] = c]
  /\ UNCHANGED <<callVars, charge, chargeVars, refund, refundTries, reversedAt>>

\* ExecuteWorkflow under refund-<id>.  A closed workflow is started again; a
\* running one is joined and a failed start is a 500, and neither changes
\* anything here.
StartRefund(op) ==
  LET c == refundCall[op] IN
  /\ c # NoCharge
  /\ \/ /\ refund[c] \notin RefundSteps
        /\ refund' = [refund EXCEPT ![c] = "reverse"]
        /\ refundTries' = [refundTries EXCEPT ![c] = 0]
     \/ UNCHANGED <<refund, refundTries>>
  /\ refundCall' = [refundCall EXCEPT ![op] = NoCharge]
  /\ UNCHANGED <<callVars, charge, chargeVars, reversedAt>>

\* Where the report and the error of each step lead.
AfterRefund == [reverse |-> "markRefunded", markRefunded |-> "completed"]

\* Mutant of OnRefundError: the error of the reversal is dropped.
OnRefundErrorIgnored == [reverse |-> "markRefunded", markRefunded |-> "failed"]

OnRefundError == [reverse |-> "failed", markRefunded |-> "failed"]

RefundProceed(c, step) ==
  /\ refund' = [refund EXCEPT ![c] = step]
  /\ refundTries' = [refundTries EXCEPT ![c] = 0]

RefundAttemptFailed(c, step) ==
  IF refundTries[c] + 1 < MaxAttempts
    THEN refundTries' = [refundTries EXCEPT ![c] = @ + 1] /\ UNCHANGED refund
    ELSE RefundProceed(c, OnRefundError[step])

RefundWorked(c, step) ==
  RefundProceed(c, AfterRefund[step]) \/ RefundAttemptFailed(c, step)

Reverse(c) ==
  /\ refund[c] = "reverse"
  /\ \/ reversedAt' = reversedAt \union {c} /\ RefundWorked(c, "reverse")
     \/ UNCHANGED reversedAt /\ RefundAttemptFailed(c, "reverse")
  /\ UNCHANGED <<callVars, charge, chargeVars, refundCall>>

MarkRefunded(c) ==
  /\ refund[c] = "markRefunded"
  /\ \/ MarkChargeStatus(c, "refunded") /\ RefundWorked(c, "markRefunded")
     \/ UNCHANGED charge /\ RefundAttemptFailed(c, "markRefunded")
  /\ UNCHANGED <<callVars, chargeVars, refundCall, reversedAt>>

-----------------------------------------------------------------------------
Init ==
  /\ call = [c \in Calls |-> "unsent"]
  /\ amount = [c \in Calls |-> 0]
  /\ charge = [c \in ChargeIds |-> "absent"]
  /\ readable = {}
  /\ settling = [c \in ChargeIds |-> "none"]
  /\ chargeTries = [c \in ChargeIds |-> 0]
  /\ settledAt = {}
  /\ refundCall = [op \in Operators |-> NoCharge]
  /\ refund = [c \in ChargeIds |-> "none"]
  /\ refundTries = [c \in ChargeIds |-> 0]
  /\ reversedAt = {}

HandlerStep(c) == LookupKey(c) \/ InsertCharge(c) \/ StartCharge(c)
ChargeStep(c) == GrantChargeAccess(c) \/ Settle(c) \/ MarkSettled(c) \/ MarkFailed(c)
RefundStep(c) == Reverse(c) \/ MarkRefunded(c)
RefundHandlerStep(op) == StartRefund(op) \/ \E c \in ChargeIds : CheckRefund(op, c)

\* Every step but the arrival of a call.
LocalStep ==
  \/ \E c \in Calls : HandlerStep(c) \/ ChargeStep(c) \/ RefundStep(c)
  \/ \E op \in Operators : RefundHandlerStep(op)

Next == LocalStep \/ \E c \in Calls, a \in Amounts : ReceiveCharge(c, a)

Fairness ==
  /\ \A c \in Calls : WF_vars(HandlerStep(c)) /\ WF_vars(ChargeStep(c))
  /\ \A c \in Calls : WF_vars(RefundStep(c))
  /\ \A op \in Operators : WF_vars(StartRefund(op))

Spec == Init /\ [][Next]_vars
FairSpec == Spec /\ Fairness

-----------------------------------------------------------------------------
(* Properties *)

TypeOK ==
  /\ call \in [Calls -> CallSteps]
  /\ amount \in [Calls -> Int]
  /\ charge \in [ChargeIds -> {"absent", "pending", "settled", "failed", "refunded"}]
  /\ readable \subseteq ChargeIds
  /\ settling \in [ChargeIds -> ChargeSteps \union Ends \union {"none"}]
  /\ chargeTries \in [ChargeIds -> 0 .. MaxAttempts - 1]
  /\ settledAt \subseteq ChargeIds
  /\ refundCall \in [Operators -> ChargeIds \union {NoCharge}]
  /\ refund \in [ChargeIds -> RefundSteps \union Ends \union {"none"}]
  /\ refundTries \in [ChargeIds -> 0 .. MaxAttempts - 1]
  /\ reversedAt \subseteq ChargeIds

\* ADR-0302: POST /charges is idempotent on its key.  However many calls carry
\* one key, and wherever each of them fails, the processor settles one charge
\* for it at most.
SettledOncePerKey ==
  \A c, d \in settledAt : KeyOf[c] = KeyOf[d] => c = d

\* The comment on the grant in Charge: a charge with an outcome is one the
\* buyer of its order can read.
ReadableOnceDecided ==
  \A c \in ChargeIds :
    charge[c] \in {"settled", "failed", "refunded"} => c \in readable

\* The row never claims money moved when it did not: a settled or refunded
\* charge was settled by the processor, and a refunded one reversed (PAY-014).
StatusBackedByProcessor ==
  \A c \in ChargeIds :
    /\ charge[c] \in {"settled", "refunded"} => c \in settledAt
    /\ charge[c] = "refunded" => c \in reversedAt

\* Money goes back only for a charge that took it and that was recorded as
\* settled, whatever the reads of the operators' calls have become since.
ReversedWasSettled ==
  \A c \in reversedAt : c \in settledAt /\ charge[c] \in {"settled", "refunded"}

\* The README of payment: a Charge workflow that completed marked the charge
\* settled; only a refund can have changed it.
CompletedIsSettled ==
  \A c \in ChargeIds :
    settling[c] = "completed" => charge[c] \in {"settled", "refunded"}

\* The outcome of the processor stands: no retry, error or refund turns a
\* failed charge into one that took money, or the other way round.
OutcomeStands ==
  [][\A c \in ChargeIds :
       /\ charge[c] = "failed" => charge'[c] = "failed"
       /\ charge[c] \in {"settled", "refunded"} =>
            charge'[c] \in {"settled", "refunded"}]_vars

\* A Charge workflow that was started and a refund that was started both end.
StartedWorkflowsEnd ==
  \A c \in ChargeIds :
    /\ settling[c] = "grant" ~> settling[c] \in Ends
    /\ refund[c] = "reverse" ~> refund[c] \in Ends

\* openapi.yaml of payment: POST /charges "Starts the Charge Temporal workflow".
\* A 202 for a key whose first call failed between its insert and its start
\* names a charge that nothing will ever settle.
AcceptedChargeEnds ==
  \A c \in Calls :
    call[c] = "accepted" ~>
      \E d \in Recorded(KeyOf[c]) : settling[d] \in Ends
=============================================================================
