------------------------ MODULE RecoveryCreditRefund ------------------------
(* Refund requests and reactivations of purchased recovery credits, as        *)
(* app/services/billing/recovery-credit-purchase-management.service.ts runs   *)
(* them: every call is a process that reads, asks the provider, opens a       *)
(* serializable transaction and writes with compare-and-set, while other      *)
(* calls and the background workers that reserve, spend and refund credits    *)
(* change the same rows between any two of its steps.                         *)
EXTENDS Integers, FiniteSets

CONSTANTS
    Purchases,        \* credit packs of one shop
    Foreign,          \* the id of a purchase this shop does not own
    Refundable,       \* purchases with provider evidence and a refundable amount
    RequestIds,       \* ids the browser gives to refund requests
    RefundCalls,      \* invocations of requestRefund
    ReactivateCalls,  \* invocations of reactivateRefund
    NoRefund,         \* stands for the absence of a refund
    Grant,            \* credits in a pack
    MaxRetries,       \* MAX_RETRIES
    MaxVersion,       \* bound: worker steps stop when the counter row is this old
    EmptyWithdrawn    \* may a withdrawn purchase be left without credits?

ASSUME GrantAssumption == Grant \in Nat \ {0}
ASSUME RetriesAssumption == MaxRetries \in Nat \ {0}
ASSUME BoundAssumption == MaxVersion \in Nat
ASSUME NamesAssumption ==
    /\ Foreign \notin Purchases
    /\ Refundable \subseteq Purchases
    /\ NoRefund \notin RefundCalls
    /\ RefundCalls \cap ReactivateCalls = {}
    /\ EmptyWithdrawn \in BOOLEAN
ASSUME FinitePurchases == IsFiniteSet(Purchases)

VARIABLES
    purchase,    \* RecoveryCreditPurchase rows
    refund,      \* RecoveryCreditRefund rows, named by the call that wrote them
    aggregate,   \* ShopEntitlementCounter row PURCHASED_RECOVERY_CREDITS
    pc,          \* the next step of each call
    target,      \* the purchase id each call was given
    requestId,   \* the request id each refund call was given
    attempt,     \* the attempt each call is in, from 0
    observed,    \* did the provider's answer match the purchase's context?
    snapshot,    \* what the call's open transaction has read
    outcome      \* what the call answered

rows == <<purchase, refund, aggregate>>
progress == <<pc, attempt, observed, snapshot, outcome>>
inputs == <<target, requestId>>
vars == <<rows, progress, inputs>>

-----------------------------------------------------------------------------
(* Rows.                                                                      *)

Calls == RefundCalls \cup ReactivateCalls

PurchaseStatus == {"REQUESTED", "ACTIVE", "WITHDRAWN", "COMPLETED", "REFUNDED"}
LIVE_REFUND_STATUSES == {"REQUESTED", "PROVIDER_ACTION_REQUIRED", "NEEDS_ATTENTION"}
RefundStatus == LIVE_REFUND_STATUSES \cup {"COMPLETED", "CANCELLED"}

PurchaseRow == [status : PurchaseStatus, current : 0..Grant,
                reserved : 0..Grant, version : Nat]

(* The purchase and the request key of a row are those of the call that wrote *)
(* it. providerActed stands for "providerReference, providerActionKind or     *)
(* providerConfirmedAt is set"; status "NONE" is a row not yet written.       *)
RefundRow == [status : RefundStatus \cup {"NONE"}, providerActed : BOOLEAN,
              version : Nat, available : 0..Grant]

AggregateRow == [reserved : Nat, refunding : Nat, version : Nat]

Available(row) ==
    IF row.current > row.reserved THEN row.current - row.reserved ELSE 0

LiveRefundsOf(p) ==
    {r \in RefundCalls : /\ refund[r].status \in LIVE_REFUND_STATUSES
                         /\ target[r] = p}

(* The row `include: { refunds: { take: 1 } }` returns.                       *)
LiveRefund(p) ==
    IF LiveRefundsOf(p) = {} THEN NoRefund ELSE CHOOSE r \in LiveRefundsOf(p) : TRUE

(* A transaction's snapshot: the purchase, its live refund with that row's    *)
(* version, and the shop's counter.                                           *)
Snapshot == [row : PurchaseRow, live : RefundCalls \cup {NoRefund},
             liveVersion : Nat, aggregate : AggregateRow]

NoSnapshot ==
    [row |-> [status |-> "REQUESTED", current |-> 0, reserved |-> 0, version |-> 0],
     live |-> NoRefund, liveVersion |-> 0,
     aggregate |-> [reserved |-> 0, refunding |-> 0, version |-> 0]]

SnapshotOf(p) ==
    [row |-> purchase[p], live |-> LiveRefund(p),
     liveVersion |-> IF LiveRefund(p) = NoRefund THEN 0
                     ELSE refund[LiveRefund(p)].version,
     aggregate |-> aggregate]

-----------------------------------------------------------------------------
(* Answers.                                                                   *)

Answers == {"none", "THROWN", "NOT_FOUND", "REQUESTED", "ALREADY_WITHDRAWN",
            "ALREADY_REFUNDED", "COMPLETED", "NOT_ACTIVE",
            "REFUND_NOT_CURRENT_PROVIDER_CONTEXT", "REFUND_NOT_AVAILABLE",
            "NOT_REFUNDABLE", "REACTIVATION_NOT_AVAILABLE",
            "COMPLETED_NO_CREDITS", "REACTIVATED"}

OutcomeForLiveRefund(r) ==
    IF refund[r].status = "REQUESTED" THEN "REQUESTED" ELSE "ALREADY_WITHDRAWN"

OutcomeForPurchase(p) ==
    IF LiveRefundsOf(p) # {} THEN OutcomeForLiveRefund(LiveRefund(p))
    ELSE IF purchase[p].status = "REFUNDED" THEN "ALREADY_REFUNDED"
    ELSE IF purchase[p].status = "COMPLETED" THEN "COMPLETED"
    ELSE "NOT_ACTIVE"

(* "none" lets the request go on. The missing evidence, the unknown amount    *)
(* and the zero amount each have a code in the source; they share one here.   *)
EarlyRefundOutcome(p) ==
    IF LiveRefundsOf(p) # {} \/ purchase[p].status # "ACTIVE" THEN OutcomeForPurchase(p)
    ELSE IF p \notin Refundable THEN "NOT_REFUNDABLE"
    ELSE IF Available(purchase[p]) < 1 THEN "REFUND_NOT_AVAILABLE"
    ELSE "none"

Return(c, answer) ==
    /\ pc' = [pc EXCEPT ![c] = "done"]
    /\ outcome' = [outcome EXCEPT ![c] = answer]
    /\ snapshot' = [snapshot EXCEPT ![c] = NoSnapshot]
    /\ UNCHANGED <<attempt, observed>>

-----------------------------------------------------------------------------
(* requestRefund.                                                             *)

(* The preflight read, outside any transaction.                               *)
Preflight(c) ==
    /\ pc[c] = "preflight"
    /\ UNCHANGED <<rows, inputs>>
    /\ \/ target[c] = Foreign /\ Return(c, "NOT_FOUND")
       \/ /\ target[c] # Foreign
          /\ EarlyRefundOutcome(target[c]) # "none"
          /\ Return(c, EarlyRefundOutcome(target[c]))
       \/ /\ target[c] # Foreign
          /\ EarlyRefundOutcome(target[c]) = "none"
          /\ pc' = [pc EXCEPT ![c] = "observe"]
          /\ UNCHANGED <<attempt, observed, snapshot, outcome>>

(* The provider is asked for its active subscription, outside the transaction *)
(* too: whether its answer will match is anyone's guess.                      *)
ObserveProvider(c) ==
    /\ pc[c] = "observe"
    /\ pc' = [pc EXCEPT ![c] = "begin"]
    /\ \E matches \in BOOLEAN : observed' = [observed EXCEPT ![c] = matches]
    /\ UNCHANGED <<rows, inputs, attempt, snapshot, outcome>>

(* The transaction reads the purchase again, and the counter.                 *)
BeginRefund(c) ==
    /\ pc[c] = "begin"
    /\ UNCHANGED <<rows, inputs>>
    /\ \/ /\ EarlyRefundOutcome(target[c]) # "none"
          /\ Return(c, EarlyRefundOutcome(target[c]))
       \/ /\ EarlyRefundOutcome(target[c]) = "none"
          /\ ~observed[c]
          /\ Return(c, "REFUND_NOT_CURRENT_PROVIDER_CONTEXT")
       \/ /\ EarlyRefundOutcome(target[c]) = "none"
          /\ observed[c]
          /\ snapshot' = [snapshot EXCEPT ![c] = SnapshotOf(target[c])]
          /\ pc' = [pc EXCEPT ![c] = "commit"]
          /\ UNCHANGED <<attempt, observed, outcome>>

(* The database's unique keys: one refund per request key, and one live       *)
(* refund per purchase.                                                       *)
RequestKeyTaken(c) ==
    \E r \in RefundCalls : /\ refund[r].status # "NONE"
                           /\ target[r] = target[c]
                           /\ requestId[r] = requestId[c]

UniqueConflict(c) == RequestKeyTaken(c) \/ LiveRefundsOf(target[c]) # {}

(* Slip: compare the status alone.                                            *)
PurchaseCasOnStatus(c, status) == purchase[target[c]].status = status

(* `updateMany({ where: ... version, currentAmount, reservedAmount })` finds  *)
(* its row only if nobody changed it since the snapshot.                      *)
PurchaseCas(c, status) ==
    LET now == purchase[target[c]]
        was == snapshot[c].row
    IN  /\ now.status = status
        /\ now.version = was.version
        /\ now.current = was.current
        /\ now.reserved = was.reserved

AggregateCas(c) ==
    /\ aggregate.version = snapshot[c].aggregate.version
    /\ aggregate.refunding = snapshot[c].aggregate.refunding
    /\ aggregate.reserved = snapshot[c].aggregate.reserved

SetPurchaseStatus(p, status) ==
    purchase' = [purchase EXCEPT ![p].status = status, ![p].version = @ + 1]

AddToRefunding(quantity) ==
    aggregate' = [aggregate EXCEPT !.refunding = @ + quantity, !.version = @ + 1]

(* The refund row, the withdrawal and the hold commit together.               *)
CommitRefund(c) ==
    /\ pc[c] = "commit"
    /\ ~UniqueConflict(c)
    /\ PurchaseCas(c, "ACTIVE")
    /\ AggregateCas(c)
    /\ refund' = [refund EXCEPT ![c] =
            [status |-> "REQUESTED", providerActed |-> FALSE, version |-> 0,
             available |-> Available(snapshot[c].row)]]
    /\ SetPurchaseStatus(target[c], "WITHDRAWN")
    /\ AddToRefunding(Available(snapshot[c].row))
    /\ Return(c, "REQUESTED")
    /\ UNCHANGED inputs

(* P2002: the row could not be written; the answer is looked up.              *)
RefundUniqueConflict(c) ==
    /\ pc[c] = "commit"
    /\ UniqueConflict(c)
    /\ pc' = [pc EXCEPT ![c] = "receipt"]
    /\ snapshot' = [snapshot EXCEPT ![c] = NoSnapshot]
    /\ UNCHANGED <<rows, inputs, attempt, observed, outcome>>

(* Slip: a known request key is taken to mean that its refund still stands.   *)
ReceiptTakenOnTrust(c) ==
    /\ pc[c] = "receipt"
    /\ UNCHANGED <<rows, inputs>>
    /\ \/ RequestKeyTaken(c) /\ Return(c, "REQUESTED")
       \/ /\ ~RequestKeyTaken(c)
          /\ pc' = [pc EXCEPT ![c] = "replay"]
          /\ UNCHANGED <<attempt, observed, snapshot, outcome>>

(* First by request key ...                                                   *)
ReadRefundReceipt(c) ==
    /\ pc[c] = "receipt"
    /\ UNCHANGED <<rows, inputs>>
    /\ \/ RequestKeyTaken(c) /\ Return(c, OutcomeForPurchase(target[c]))
       \/ /\ ~RequestKeyTaken(c)
          /\ pc' = [pc EXCEPT ![c] = "replay"]
          /\ UNCHANGED <<attempt, observed, snapshot, outcome>>

(* ... then by purchase; without a live refund the conflict is thrown.        *)
ReadRefundReplay(c) ==
    /\ pc[c] = "replay"
    /\ UNCHANGED <<rows, inputs>>
    /\ Return(c, IF LiveRefundsOf(target[c]) # {}
                 THEN OutcomeForPurchase(target[c]) ELSE "THROWN")

-----------------------------------------------------------------------------
(* reactivateRefund.                                                          *)

(* The transaction reads the purchase and its live refund; only a refund the  *)
(* provider has not started on can be taken back.                             *)
ReactivationAvailable(p) ==
    /\ purchase[p].status = "WITHDRAWN"
    /\ LiveRefundsOf(p) # {}
    /\ refund[LiveRefund(p)].status = "REQUESTED"
    /\ ~refund[LiveRefund(p)].providerActed

BeginReactivation(c) ==
    /\ pc[c] = "begin"
    /\ UNCHANGED <<rows, inputs>>
    /\ \/ target[c] = Foreign /\ Return(c, "NOT_FOUND")
       \/ /\ target[c] # Foreign
          /\ ~ReactivationAvailable(target[c])
          /\ Return(c, "REACTIVATION_NOT_AVAILABLE")
       \/ /\ target[c] # Foreign
          /\ ReactivationAvailable(target[c])
          /\ snapshot' = [snapshot EXCEPT ![c] = SnapshotOf(target[c])]
          /\ pc' = [pc EXCEPT ![c] = "commit"]
          /\ UNCHANGED <<attempt, observed, outcome>>

(* Slip: cancel the refund by its id.                                         *)
RefundCasOnId(c) == target[snapshot[c].live] = target[c]

RefundCas(c) ==
    LET r == snapshot[c].live
    IN  /\ target[r] = target[c]
        /\ refund[r].version = snapshot[c].liveVersion
        /\ refund[r].status = "REQUESTED"
        /\ ~refund[r].providerActed

CancelRefund(r) ==
    refund' = [refund EXCEPT ![r].status = "CANCELLED", ![r].version = @ + 1]

(* Slip: give back reserved credits too.                                      *)
WholeBalance(row) == row.current

(* What the reactivated purchase gets back from the hold.                     *)
HeldAvailable(row) == Available(row)

(* Nothing is left to give back: the purchase is complete.                    *)
CommitEmptyReactivation(c) ==
    /\ pc[c] = "commit"
    /\ snapshot[c].row.current = 0
    /\ snapshot[c].row.reserved = 0
    /\ RefundCas(c)
    /\ PurchaseCas(c, "WITHDRAWN")
    /\ CancelRefund(snapshot[c].live)
    /\ SetPurchaseStatus(target[c], "COMPLETED")
    /\ Return(c, "COMPLETED_NO_CREDITS")
    /\ UNCHANGED <<aggregate, inputs>>

(* The refund is cancelled, the purchase active and the hold released in one  *)
(* transaction; the counter is left alone when nothing is held.               *)
CommitReactivation(c) ==
    /\ pc[c] = "commit"
    /\ snapshot[c].row.current > 0
    /\ RefundCas(c)
    /\ PurchaseCas(c, "WITHDRAWN")
    /\ CancelRefund(snapshot[c].live)
    /\ SetPurchaseStatus(target[c], "ACTIVE")
    /\ IF HeldAvailable(snapshot[c].row) > 0
       THEN AggregateCas(c) /\ AddToRefunding(-HeldAvailable(snapshot[c].row))
       ELSE UNCHANGED aggregate
    /\ Return(c, "REACTIVATED")
    /\ UNCHANGED inputs

-----------------------------------------------------------------------------
(* Both calls: what can go wrong.                                             *)

AttemptsLeft(c) == attempt[c] + 1 < MaxRetries

(* Slip: the attempt is not counted.                                          *)
RetryUncounted(c) ==
    /\ pc[c] = "commit"
    /\ AttemptsLeft(c)
    /\ pc' = [pc EXCEPT ![c] = IF c \in RefundCalls THEN "preflight" ELSE "begin"]
    /\ observed' = [observed EXCEPT ![c] = FALSE]
    /\ snapshot' = [snapshot EXCEPT ![c] = NoSnapshot]
    /\ UNCHANGED <<rows, inputs, attempt, outcome>>

(* P2034: a compare-and-set found no row, or the database aborted the         *)
(* transaction. Everything it wrote is rolled back and the call starts over.  *)
RetryAfterConflict(c) ==
    /\ pc[c] = "commit"
    /\ AttemptsLeft(c)
    /\ attempt' = [attempt EXCEPT ![c] = @ + 1]
    /\ pc' = [pc EXCEPT ![c] = IF c \in RefundCalls THEN "preflight" ELSE "begin"]
    /\ observed' = [observed EXCEPT ![c] = FALSE]
    /\ snapshot' = [snapshot EXCEPT ![c] = NoSnapshot]
    /\ UNCHANGED <<rows, inputs, outcome>>

GiveUpAfterConflict(c) ==
    /\ pc[c] = "commit"
    /\ ~AttemptsLeft(c)
    /\ Return(c, "THROWN")
    /\ UNCHANGED <<rows, inputs>>

(* A read or the provider failed, the counter is missing, or the process      *)
(* died: no answer, and nothing written.                                      *)
Throw(c) ==
    /\ pc[c] # "done"
    /\ Return(c, "THROWN")
    /\ UNCHANGED <<rows, inputs>>

RefundStep(c) ==
    \/ Preflight(c)
    \/ ObserveProvider(c)
    \/ BeginRefund(c)
    \/ CommitRefund(c)
    \/ RefundUniqueConflict(c)
    \/ ReadRefundReceipt(c)
    \/ ReadRefundReplay(c)

ReactivateStep(c) ==
    \/ BeginReactivation(c)
    \/ CommitEmptyReactivation(c)
    \/ CommitReactivation(c)

Call(c) ==
    \/ c \in RefundCalls /\ RefundStep(c)
    \/ c \in ReactivateCalls /\ ReactivateStep(c)
    \/ RetryAfterConflict(c)
    \/ GiveUpAfterConflict(c)

-----------------------------------------------------------------------------
(* The background workers, which live in another repository: what they do to  *)
(* these rows is modelled from what this service expects to find. A credit    *)
(* released while its purchase is withdrawn joins the hold, since             *)
(* reactivation releases whatever is unreserved then. A held credit may be    *)
(* written off with its share of the hold, since reactivation finds purchases *)
(* with nothing held, or nothing left, and then leaves the counter alone.     *)

WorkerMayWrite == aggregate.version < MaxVersion

ActivatePurchase(p) ==
    /\ purchase[p].status = "REQUESTED"
    /\ purchase' = [purchase EXCEPT ![p].status = "ACTIVE", ![p].current = Grant,
                                    ![p].version = @ + 1]
    /\ UNCHANGED <<refund, aggregate, progress, inputs>>

ReserveCredit(p) ==
    /\ WorkerMayWrite
    /\ purchase[p].status = "ACTIVE"
    /\ purchase[p].reserved < purchase[p].current
    /\ purchase' = [purchase EXCEPT ![p].reserved = @ + 1, ![p].version = @ + 1]
    /\ aggregate' = [aggregate EXCEPT !.reserved = @ + 1, !.version = @ + 1]
    /\ UNCHANGED <<refund, progress, inputs>>

ReleaseCredit(p) ==
    /\ WorkerMayWrite
    /\ purchase[p].reserved > 0
    /\ aggregate.reserved > 0
    /\ purchase' = [purchase EXCEPT ![p].reserved = @ - 1, ![p].version = @ + 1]
    /\ aggregate' = [aggregate EXCEPT !.reserved = @ - 1, !.version = @ + 1,
            !.refunding = IF purchase[p].status = "WITHDRAWN" THEN @ + 1 ELSE @]
    /\ UNCHANGED <<refund, progress, inputs>>

(* Whether a withdrawn purchase may be left without credits is up to the      *)
(* database: the migrated constraint lifecycle_amounts forbids it.            *)
MayLoseCredit(p) ==
    purchase[p].status = "WITHDRAWN" => purchase[p].current > 1 \/ EmptyWithdrawn

(* A reserved credit is spent; an active purchase without credits is complete. *)
SpendCredit(p) ==
    /\ WorkerMayWrite
    /\ purchase[p].reserved > 0
    /\ aggregate.reserved > 0
    /\ MayLoseCredit(p)
    /\ purchase' = [purchase EXCEPT
            ![p].current = @ - 1, ![p].reserved = @ - 1, ![p].version = @ + 1,
            ![p].status = IF @ = "ACTIVE" /\ purchase[p].current = 1
                          THEN "COMPLETED" ELSE @]
    /\ aggregate' = [aggregate EXCEPT !.reserved = @ - 1, !.version = @ + 1]
    /\ UNCHANGED <<refund, progress, inputs>>

WriteOffCredit(p) ==
    /\ WorkerMayWrite
    /\ purchase[p].status = "WITHDRAWN"
    /\ purchase[p].reserved < purchase[p].current
    /\ MayLoseCredit(p)
    /\ purchase' = [purchase EXCEPT ![p].current = @ - 1, ![p].version = @ + 1]
    /\ AddToRefunding(-1)
    /\ UNCHANGED <<refund, progress, inputs>>

(* The refund worker takes a refund to the provider.                          *)
StartProviderAction(r) ==
    /\ refund[r].status = "REQUESTED"
    /\ ~refund[r].providerActed
    /\ \E status \in LIVE_REFUND_STATUSES :
          refund' = [refund EXCEPT ![r].providerActed = TRUE, ![r].version = @ + 1,
                                   ![r].status = status]
    /\ UNCHANGED <<purchase, aggregate, progress, inputs>>

CompleteRefund(r, p) ==
    /\ target[r] = p
    /\ refund[r].status \in LIVE_REFUND_STATUSES
    /\ refund[r].providerActed
    /\ purchase[p].status = "WITHDRAWN"
    /\ purchase[p].reserved = 0
    /\ refund' = [refund EXCEPT ![r].status = "COMPLETED", ![r].version = @ + 1]
    /\ purchase' = [purchase EXCEPT ![p].status = "REFUNDED", ![p].current = 0,
                                    ![p].version = @ + 1]
    /\ AddToRefunding(-purchase[p].current)
    /\ UNCHANGED <<progress, inputs>>

Worker ==
    \/ \E p \in Purchases : \/ ActivatePurchase(p)
                            \/ ReserveCredit(p)
                            \/ ReleaseCredit(p)
                            \/ SpendCredit(p)
                            \/ WriteOffCredit(p)
    \/ \E r \in RefundCalls : StartProviderAction(r)
    \/ \E r \in RefundCalls, p \in Purchases : CompleteRefund(r, p)

-----------------------------------------------------------------------------
Init ==
    /\ purchase = [p \in Purchases |->
            [status |-> "REQUESTED", current |-> 0, reserved |-> 0, version |-> 0]]
    /\ target \in [Calls -> Purchases \cup {Foreign}]
    /\ requestId \in [RefundCalls -> RequestIds]
    /\ refund = [r \in RefundCalls |->
            [status |-> "NONE", providerActed |-> FALSE, version |-> 0, available |-> 0]]
    /\ aggregate = [reserved |-> 0, refunding |-> 0, version |-> 0]
    /\ pc = [c \in Calls |-> IF c \in RefundCalls THEN "preflight" ELSE "begin"]
    /\ attempt = [c \in Calls |-> 0]
    /\ observed = [c \in Calls |-> FALSE]
    /\ snapshot = [c \in Calls |-> NoSnapshot]
    /\ outcome = [c \in Calls |-> "none"]

Next ==
    \/ \E c \in Calls : Call(c) \/ Throw(c)
    \/ Worker

(* A call that is running keeps running; nothing makes a call fail, or a      *)
(* worker act.                                                                *)
Fairness == \A c \in Calls : WF_vars(Call(c))

Spec == Init /\ [][Next]_vars /\ Fairness

-----------------------------------------------------------------------------
(* Properties.                                                                *)

(* Every row, counter and step is of its kind; the counter never drops below  *)
(* zero however holds, releases and refunds interleave.                       *)
RowsTypeOK ==
    /\ purchase \in [Purchases -> PurchaseRow]
    /\ refund \in [RefundCalls -> RefundRow]
    /\ aggregate \in AggregateRow

CallsTypeOK ==
    /\ pc \in [Calls -> {"preflight", "observe", "begin", "commit", "receipt",
                         "replay", "done"}]
    /\ target \in [Calls -> Purchases \cup {Foreign}]
    /\ requestId \in [RefundCalls -> RequestIds]
    /\ attempt \in [Calls -> 0..(MaxRetries - 1)]
    /\ observed \in [Calls -> BOOLEAN]
    /\ snapshot \in [Calls -> Snapshot]
    /\ outcome \in [Calls -> Answers]

TypeOK == RowsTypeOK /\ CallsTypeOK

(* The free credits of withdrawn purchases, one by one.                       *)
HeldCredits ==
    {credit \in Purchases \X (1..Grant) :
        /\ purchase[credit[1]].status = "WITHDRAWN"
        /\ purchase[credit[1]].reserved < credit[2]
        /\ credit[2] <= purchase[credit[1]].current}

(* The shop's refundingQuantity is exactly the number of free credits on its  *)
(* withdrawn purchases: no hold is lost, doubled or left behind by calls that *)
(* race each other, retry, or overlap the workers.                            *)
HoldsConserved == aggregate.refunding = Cardinality(HeldCredits)

(* A purchase is withdrawn exactly while one refund of it is live, and never  *)
(* has two: a double click, a retry or a reactivation racing the refund       *)
(* worker cannot leave a purchase withdrawn with nothing to settle it, or     *)
(* spendable while it is being refunded.                                      *)
LiveRefundIffWithdrawn ==
    \A p \in Purchases :
        /\ purchase[p].status = "WITHDRAWN" <=> LiveRefundsOf(p) # {}
        /\ \A r, s \in LiveRefundsOf(p) : r = s

(* What a new refund row records as available (the amount to pay back) is     *)
(* what is free in the purchase as it commits, although it was computed from  *)
(* an earlier read.                                                           *)
RefundRecordsCurrentBalance ==
    [][\A r \in RefundCalls :
          refund[r].status = "NONE" /\ refund'[r].status # "NONE" =>
              refund'[r].available = Available(purchase[target[r]])]_vars

(* Once the provider has been asked to pay a refund, no reactivation cancels  *)
(* it: the merchant never gets both the money and the credits.                *)
StartedRefundNotCancelled ==
    [][\A r \in RefundCalls :
          refund[r].providerActed /\ refund[r].status # "CANCELLED" =>
              refund'[r].status # "CANCELLED"]_vars

(* An answer is true when it is given: REQUESTED, whether the call wrote the  *)
(* refund or found another's after a unique conflict, means that the purchase *)
(* is withdrawn under a requested refund; REACTIVATED that it is spendable    *)
(* and no refund of it is live.                                               *)
AnswersTrue ==
    [][\A c \in Calls :
          outcome'[c] # outcome[c] =>
              /\ outcome'[c] = "REQUESTED" =>
                    /\ purchase'[target[c]].status = "WITHDRAWN"
                    /\ \E r \in RefundCalls : /\ target[r] = target[c]
                                               /\ refund'[r].status = "REQUESTED"
              /\ outcome'[c] = "REACTIVATED" =>
                    /\ purchase'[target[c]].status = "ACTIVE"
                    /\ \A r \in RefundCalls : target[r] = target[c] =>
                          refund'[r].status \notin LIVE_REFUND_STATUSES]_vars

(* Every call is answered, however often its transaction is aborted.          *)
EveryCallAnswers == <>(\A c \in Calls : pc[c] = "done")

(* The rows keep the promise CreditHold states, step by step.                 *)
Ledger == INSTANCE CreditHold WITH
    spendable <- [p \in Purchases |->
        IF purchase[p].status = "ACTIVE" THEN Available(purchase[p]) ELSE 0],
    held <- [p \in Purchases |->
        IF purchase[p].status = "WITHDRAWN" THEN Available(purchase[p]) ELSE 0],
    total <- aggregate.refunding

HoldLedger == Ledger!Spec

(* What holds of the rows at all times, between any two statements of the     *)
(* calls: no credit is lost or created by a hold, and it is held exactly as   *)
(* long as the one refund that may take it is alive.                          *)
RefundInv ==
  /\ TypeOK
  /\ HoldsConserved
  /\ LiveRefundIffWithdrawn

=============================================================================
