------------------------ MODULE RecoveryCreditProofs ------------------------
(* Proofs about recovery credits: their refund and reactivation, the         *)
(* requests by which they are bought, and the price lists they are bought at.*)
EXTENDS RecoveryCreditRefund, PurchaseRequest, UsageMeter, FiniteSetTheorems, SequenceTheorems,
        WellFoundedInduction, TLAPS

-----------------------------------------------------------------------------
(* Proofs about RecoveryCreditRefund, for any number of purchases, calls,    *)
(* retries and credits. The inductive invariant IndInv adds to the           *)
(* invariants TLC checks what ties a call's step to its inputs and to its    *)
(* snapshot.                                                                 *)

-----------------------------------------------------------------------------
(* Counting held credits: the free credits of one row are an interval, and   *)
(* those of all rows the disjoint union of their intervals.                   *)

(* The pairs <<p, i>> with lo < i <= hi are as many as the interval is long.   *)
LEMMA SliceCardinality ==
    ASSUME NEW p, NEW lo \in Nat, NEW hi \in Nat, lo <= hi
    PROVE  /\ IsFiniteSet({p} \X ((lo + 1)..hi))
           /\ Cardinality({p} \X ((lo + 1)..hi)) = hi - lo
<1> DEFINE first == lo + 1
           S == first..hi
<1>1. first \in Int /\ hi \in Int
  OBVIOUS
<1>2. IsFiniteSet(S) /\ Cardinality(S) = IF first > hi THEN 0 ELSE hi - first + 1
  <2> HIDE DEF first
  <2>. QED  BY <1>1, FS_Interval
<1>3. Cardinality(S) = hi - lo
  BY <1>2
<1>4. IsFiniteSet({p}) /\ Cardinality({p}) = 1
  BY FS_Singleton
<1> HIDE DEF S
<1>5. /\ IsFiniteSet({p} \X S)
      /\ Cardinality({p} \X S) = Cardinality({p}) * Cardinality(S)
  BY <1>2, <1>4, FS_Product
<1>6. Cardinality({p} \X S) = hi - lo
  BY <1>3, <1>4, <1>5
<1>. QED  BY <1>5, <1>6 DEF S

(* A disjoint union has as many elements as its parts together.               *)
LEMMA DisjointUnionCardinality ==
    ASSUME NEW S, NEW T, IsFiniteSet(S), IsFiniteSet(T), S \cap T = {}
    PROVE  /\ IsFiniteSet(S \cup T)
           /\ Cardinality(S \cup T) = Cardinality(S) + Cardinality(T)
<1>1. Cardinality(S \cap T) = 0
  BY FS_EmptySet
<1>2. Cardinality(S) \in Nat /\ Cardinality(T) \in Nat
  BY FS_CardinalityType
<1>3. /\ IsFiniteSet(S \cup T)
      /\ Cardinality(S \cup T) = Cardinality(S) + Cardinality(T) - Cardinality(S \cap T)
  BY FS_Union
<1>. QED  BY <1>1, <1>2, <1>3

(* HeldCredits, as a function of the purchase rows.                           *)
HeldIn(table) ==
    {credit \in Purchases \X (1..Grant) :
        /\ table[credit[1]].status = "WITHDRAWN"
        /\ table[credit[1]].reserved < credit[2]
        /\ credit[2] <= table[credit[1]].current}

(* How many of them belong to one row.                                        *)
HoldOf(held) == IF held.status = "WITHDRAWN" THEN held.current - held.reserved ELSE 0

(* Held credits are finitely many.                                            *)
LEMMA HeldInFinite ==
    ASSUME NEW table
    PROVE  IsFiniteSet(HeldIn(table)) /\ Cardinality(HeldIn(table)) \in Nat
<1>1. IsFiniteSet(1..Grant)
  BY GrantAssumption, FS_Interval
<1>2. IsFiniteSet(Purchases \X (1..Grant))
  BY <1>1, FinitePurchases, FS_Product
<1>3. HeldIn(table) \subseteq Purchases \X (1..Grant)
  BY DEF HeldIn
<1>. QED  BY <1>2, <1>3, FS_Subset, FS_CardinalityType

(* A change to one row changes their number by what that row's hold changes.  *)
LEMMA HeldInChange ==
    ASSUME NEW p \in Purchases,
           NEW old \in [Purchases -> PurchaseRow],
           NEW new \in [Purchases -> PurchaseRow],
           \A q \in Purchases \ {p} : new[q] = old[q],
           old[p].reserved <= old[p].current,
           new[p].reserved <= new[p].current
    PROVE  Cardinality(HeldIn(new)) =
               Cardinality(HeldIn(old)) - HoldOf(old[p]) + HoldOf(new[p])
<1> DEFINE Others == {credit \in HeldIn(old) : credit[1] # p}
           Slice(held) == IF held.status = "WITHDRAWN"
                         THEN {p} \X ((held.reserved + 1)..held.current) ELSE {}
<1>1. IsFiniteSet(Others) /\ Cardinality(Others) \in Nat
  BY HeldInFinite, FS_Subset, FS_CardinalityType
<1>2. ASSUME NEW any \in [Purchases -> PurchaseRow],
             \A q \in Purchases \ {p} : any[q] = old[q],
             any[p].reserved <= any[p].current
      PROVE  Cardinality(HeldIn(any)) = Cardinality(Others) + HoldOf(any[p])
  <2>1. any[p] \in PurchaseRow  OBVIOUS
  <2>2. /\ any[p].reserved \in Nat
        /\ any[p].current \in Nat
        /\ any[p].current <= Grant
        /\ Grant \in Nat
    BY <2>1, GrantAssumption DEF PurchaseRow
  <2>3. HeldIn(any) = Others \cup Slice(any[p])
    BY <1>2, <2>2 DEF HeldIn
  <2>4. Others \cap Slice(any[p]) = {}
    OBVIOUS
  <2>5. /\ IsFiniteSet(Slice(any[p]))
        /\ Cardinality(Slice(any[p])) = HoldOf(any[p])
    <3>1. CASE any[p].status = "WITHDRAWN"
      <4>1. /\ IsFiniteSet({p} \X ((any[p].reserved + 1)..any[p].current))
            /\ Cardinality({p} \X ((any[p].reserved + 1)..any[p].current))
                  = any[p].current - any[p].reserved
        BY <1>2, <2>2, SliceCardinality
      <4>. QED  BY <3>1, <4>1 DEF HoldOf
    <3>2. CASE any[p].status # "WITHDRAWN"
      BY <3>2, FS_EmptySet DEF HoldOf
    <3>. QED  BY <3>1, <3>2
  <2>. HIDE DEF Others, Slice
  <2>. QED  BY <1>1, <2>3, <2>4, <2>5, DisjointUnionCardinality
<1>3. Cardinality(HeldIn(new)) = Cardinality(Others) + HoldOf(new[p])
  BY <1>2
<1>4. Cardinality(HeldIn(old)) = Cardinality(Others) + HoldOf(old[p])
  BY <1>2
<1>5. HoldOf(old[p]) \in Int /\ HoldOf(new[p]) \in Int
  BY GrantAssumption DEF HoldOf, PurchaseRow
<1>. HIDE DEF Others
<1>. QED  BY <1>1, <1>3, <1>4, <1>5

-----------------------------------------------------------------------------
(* The inductive invariant.                                                   *)

(* No purchase has more reserved credits than credits.                        *)
ReservedWithinCurrent ==
    \A p \in Purchases : purchase[p].reserved <= purchase[p].current

(* A call past its first read is about a purchase of this shop, and a         *)
(* reactivation about to commit has found a live refund.                      *)
CallsOnTrack ==
    /\ \A c \in RefundCalls :
          pc[c] \in {"observe", "begin", "commit", "receipt", "replay"} =>
              target[c] \in Purchases
    /\ \A c \in ReactivateCalls :
          /\ pc[c] \in {"begin", "commit", "done"}
          /\ pc[c] = "commit" => /\ target[c] \in Purchases
                                /\ snapshot[c].live \in RefundCalls

IndInv ==
    /\ TypeOK
    /\ ReservedWithinCurrent
    /\ CallsOnTrack
    /\ LiveRefundIffWithdrawn
    /\ HoldsConserved

(* HoldsConserved counts HeldIn(purchase).                                    *)
LEMMA HeldCreditsIn ==
    HeldCredits = HeldIn(purchase) /\ HeldCredits' = HeldIn(purchase')
BY DEF HeldCredits, HeldIn

(* A row's free credits are what its hold would be.                           *)
LEMMA AvailableType ==
    ASSUME NEW held \in PurchaseRow
    PROVE  /\ Available(held) \in 0..Grant
           /\ held.reserved <= held.current => Available(held) = held.current - held.reserved
BY GrantAssumption DEF Available, PurchaseRow

(* LiveRefund picks a live refund whenever there is one.                      *)
LEMMA LiveRefundChosen ==
    ASSUME NEW p
    PROVE  /\ LiveRefundsOf(p) # {} => LiveRefund(p) \in LiveRefundsOf(p)
           /\ LiveRefundsOf(p) = {} => LiveRefund(p) = NoRefund
BY DEF LiveRefund

(* What a transaction reads is a well-formed snapshot.                        *)
LEMMA SnapshotOfType ==
    ASSUME TypeOK, NEW p \in Purchases
    PROVE  SnapshotOf(p) \in Snapshot
<1>1. LiveRefund(p) = NoRefund \/ LiveRefund(p) \in RefundCalls
  BY LiveRefundChosen DEF LiveRefundsOf
<1>2. purchase[p] \in PurchaseRow /\ aggregate \in AggregateRow
  BY DEF TypeOK, RowsTypeOK
<1>3. LiveRefund(p) \in RefundCalls => refund[LiveRefund(p)].version \in Nat
  BY DEF TypeOK, RowsTypeOK, RefundRow
<1>. QED  BY <1>1, <1>2, <1>3 DEF SnapshotOf, Snapshot

LEMMA NoSnapshotType == NoSnapshot \in Snapshot
BY GrantAssumption DEF NoSnapshot, Snapshot, PurchaseRow, PurchaseStatus, AggregateRow

LEMMA OutcomesAreAnswers ==
    ASSUME NEW p
    PROVE  /\ OutcomeForPurchase(p) \in Answers
           /\ EarlyRefundOutcome(p) \in Answers
BY DEF OutcomeForPurchase, OutcomeForLiveRefund, EarlyRefundOutcome, Answers

(* The initial states satisfy the invariant.                                  *)
LEMMA InitIndInv == Init => IndInv
<1> SUFFICES ASSUME Init PROVE IndInv
  OBVIOUS
<1>1. TypeOK
  <2>1. RowsTypeOK
    BY GrantAssumption DEF Init, RowsTypeOK, PurchaseRow, PurchaseStatus, RefundRow,
       RefundStatus, AggregateRow
  <2>2. CallsTypeOK
    BY NoSnapshotType, RetriesAssumption DEF Init, CallsTypeOK, Answers
  <2>. QED  BY <2>1, <2>2 DEF TypeOK
<1>2. ReservedWithinCurrent
  BY DEF Init, ReservedWithinCurrent
<1>3. CallsOnTrack
  BY NamesAssumption DEF Init, CallsOnTrack, Calls
<1>4. LiveRefundIffWithdrawn
  BY DEF Init, LiveRefundIffWithdrawn, LiveRefundsOf, LIVE_REFUND_STATUSES
<1>5. HoldsConserved
  <2>1. HeldCredits = {}
    BY DEF Init, HeldCredits
  <2>. QED  BY <2>1, FS_EmptySet DEF Init, HoldsConserved
<1>. QED  BY <1>1, <1>2, <1>3, <1>4, <1>5 DEF IndInv

-----------------------------------------------------------------------------
(* Steps that leave the rows alone.                                           *)

LEMMA QuietStep ==
    ASSUME IndInv, UNCHANGED <<rows, inputs>>, CallsTypeOK', CallsOnTrack'
    PROVE  IndInv'
<1>1. TypeOK'
  BY DEF IndInv, TypeOK, RowsTypeOK, rows
<1>2. ReservedWithinCurrent'
  BY DEF IndInv, ReservedWithinCurrent, rows
<1>3. LiveRefundIffWithdrawn'
  BY DEF IndInv, LiveRefundIffWithdrawn, LiveRefundsOf, rows, inputs
<1>4. HoldsConserved'
  BY DEF IndInv, HoldsConserved, HeldCredits, rows
<1>. QED  BY <1>1, <1>2, <1>3, <1>4 DEF IndInv

(* A call that answers keeps its state well formed.                           *)
LEMMA ReturnKeepsCalls ==
    ASSUME IndInv, NEW c \in Calls, NEW answer \in Answers,
           Return(c, answer), UNCHANGED inputs
    PROVE  CallsTypeOK' /\ CallsOnTrack'
<1>1. CallsTypeOK'
  BY NoSnapshotType DEF IndInv, TypeOK, CallsTypeOK, Return, inputs
<1>2. CallsOnTrack'
  BY NamesAssumption DEF IndInv, TypeOK, CallsTypeOK, CallsOnTrack, Return, inputs, Calls
<1>. QED  BY <1>1, <1>2

LEMMA ReturnQuietly ==
    ASSUME IndInv, NEW c \in Calls, NEW answer \in Answers,
           Return(c, answer), UNCHANGED <<rows, inputs>>
    PROVE  IndInv'
BY ReturnKeepsCalls, QuietStep

(* requestRefund's reads, and its answers that write nothing.                 *)
LEMMA RefundReads ==
    ASSUME IndInv, NEW c \in RefundCalls,
           \/ Preflight(c)
           \/ ObserveProvider(c)
           \/ BeginRefund(c)
           \/ RefundUniqueConflict(c)
           \/ ReadRefundReceipt(c)
           \/ ReadRefundReplay(c)
    PROVE  IndInv'
<1> USE DEF inputs
<1>0. c \in Calls /\ c \notin ReactivateCalls
  BY NamesAssumption DEF Calls
<1>1. CASE Preflight(c)
  <2>1. CASE target[c] = Foreign /\ Return(c, "NOT_FOUND")
    BY <1>0, <1>1, <2>1, ReturnQuietly DEF Preflight, Answers
  <2>2. CASE Return(c, EarlyRefundOutcome(target[c]))
    BY <1>0, <1>1, <2>2, ReturnQuietly, OutcomesAreAnswers DEF Preflight
  <2>3. CASE /\ target[c] # Foreign
             /\ pc' = [pc EXCEPT ![c] = "observe"]
             /\ UNCHANGED <<attempt, observed, snapshot, outcome>>
    <3>1. CallsTypeOK'
      BY <1>0, <1>1, <2>3 DEF Preflight, IndInv, TypeOK, CallsTypeOK
    <3>2. CallsOnTrack'
      BY <1>0, <1>1, <2>3 DEF Preflight, IndInv, TypeOK, CallsTypeOK, CallsOnTrack, Calls
    <3>. QED  BY <1>1, <3>1, <3>2, QuietStep DEF Preflight
  <2>. QED  BY <1>1, <2>1, <2>2, <2>3 DEF Preflight
<1>2. CASE ObserveProvider(c)
  <2>1. CallsTypeOK'
    BY <1>0, <1>2 DEF ObserveProvider, IndInv, TypeOK, CallsTypeOK
  <2>2. CallsOnTrack'
    BY <1>0, <1>2 DEF ObserveProvider, IndInv, TypeOK, CallsTypeOK, CallsOnTrack, Calls
  <2>. QED  BY <1>2, <2>1, <2>2, QuietStep DEF ObserveProvider
<1>3. CASE BeginRefund(c)
  <2>1. CASE Return(c, EarlyRefundOutcome(target[c]))
    BY <1>0, <1>3, <2>1, ReturnQuietly, OutcomesAreAnswers DEF BeginRefund
  <2>2. CASE Return(c, "REFUND_NOT_CURRENT_PROVIDER_CONTEXT")
    BY <1>0, <1>3, <2>2, ReturnQuietly DEF BeginRefund, Answers
  <2>3. CASE /\ snapshot' = [snapshot EXCEPT ![c] = SnapshotOf(target[c])]
             /\ pc' = [pc EXCEPT ![c] = "commit"]
             /\ UNCHANGED <<attempt, observed, outcome>>
    <3>1. SnapshotOf(target[c]) \in Snapshot
      BY <1>0, <1>3, SnapshotOfType DEF BeginRefund, IndInv, CallsOnTrack
    <3>2. CallsTypeOK'
      BY <1>0, <1>3, <2>3, <3>1 DEF BeginRefund, IndInv, TypeOK, CallsTypeOK
    <3>3. CallsOnTrack'
      BY <1>0, <1>3, <2>3 DEF BeginRefund, IndInv, TypeOK, CallsTypeOK, CallsOnTrack, Calls
    <3>. QED  BY <1>3, <3>2, <3>3, QuietStep DEF BeginRefund
  <2>. QED  BY <1>3, <2>1, <2>2, <2>3 DEF BeginRefund
<1>4. CASE RefundUniqueConflict(c)
  <2>1. CallsTypeOK'
    BY <1>0, <1>4, NoSnapshotType DEF RefundUniqueConflict, IndInv, TypeOK, CallsTypeOK
  <2>2. CallsOnTrack'
    BY <1>0, <1>4 DEF RefundUniqueConflict, IndInv, TypeOK, CallsTypeOK, CallsOnTrack, Calls
  <2>. QED  BY <1>4, <2>1, <2>2, QuietStep DEF RefundUniqueConflict
<1>5. CASE ReadRefundReceipt(c)
  <2>1. CASE Return(c, OutcomeForPurchase(target[c]))
    BY <1>0, <1>5, <2>1, ReturnQuietly, OutcomesAreAnswers DEF ReadRefundReceipt
  <2>2. CASE /\ pc' = [pc EXCEPT ![c] = "replay"]
             /\ UNCHANGED <<attempt, observed, snapshot, outcome>>
    <3>1. CallsTypeOK'
      BY <1>0, <1>5, <2>2 DEF ReadRefundReceipt, IndInv, TypeOK, CallsTypeOK
    <3>2. CallsOnTrack'
      BY <1>0, <1>5, <2>2 DEF ReadRefundReceipt, IndInv, TypeOK, CallsTypeOK, CallsOnTrack,
         Calls
    <3>. QED  BY <1>5, <3>1, <3>2, QuietStep DEF ReadRefundReceipt
  <2>. QED  BY <1>5, <2>1, <2>2 DEF ReadRefundReceipt
<1>6. CASE ReadRefundReplay(c)
  <2>1. "THROWN" \in Answers /\ OutcomeForPurchase(target[c]) \in Answers
    BY OutcomesAreAnswers DEF Answers
  <2>. QED  BY <1>0, <1>6, <2>1, ReturnQuietly DEF ReadRefundReplay
<1>. QED  BY <1>1, <1>2, <1>3, <1>4, <1>5, <1>6

(* reactivateRefund's read.                                                   *)
LEMMA ReactivationReads ==
    ASSUME IndInv, NEW c \in ReactivateCalls, BeginReactivation(c)
    PROVE  IndInv'
<1> USE DEF inputs
<1>0. c \in Calls /\ c \notin RefundCalls
  BY NamesAssumption DEF Calls
<1>1. CASE Return(c, "NOT_FOUND")
  BY <1>0, <1>1, ReturnQuietly DEF BeginReactivation, Answers
<1>2. CASE Return(c, "REACTIVATION_NOT_AVAILABLE")
  BY <1>0, <1>2, ReturnQuietly DEF BeginReactivation, Answers
<1>3. CASE /\ target[c] # Foreign
           /\ ReactivationAvailable(target[c])
           /\ snapshot' = [snapshot EXCEPT ![c] = SnapshotOf(target[c])]
           /\ pc' = [pc EXCEPT ![c] = "commit"]
           /\ UNCHANGED <<attempt, observed, outcome>>
  <2>1. target[c] \in Purchases
    BY <1>0, <1>3 DEF IndInv, TypeOK, CallsTypeOK
  <2>2. SnapshotOf(target[c]) \in Snapshot
    BY <2>1, SnapshotOfType DEF IndInv
  <2>3. SnapshotOf(target[c]).live \in RefundCalls
    BY <1>3, LiveRefundChosen DEF ReactivationAvailable, SnapshotOf, LiveRefundsOf
  <2>4. CallsTypeOK'
    BY <1>0, <1>3, <2>2 DEF BeginReactivation, IndInv, TypeOK, CallsTypeOK
  <2>5. CallsOnTrack'
    BY <1>0, <1>3, <2>1, <2>3
       DEF BeginReactivation, IndInv, TypeOK, CallsTypeOK, CallsOnTrack, Calls
  <2>. QED  BY <2>4, <2>5, QuietStep DEF BeginReactivation
<1>. QED  BY <1>1, <1>2, <1>3 DEF BeginReactivation

(* Aborted transactions and failures.                                         *)
LEMMA FailedAttempts ==
    ASSUME IndInv, NEW c \in Calls,
           RetryAfterConflict(c) \/ GiveUpAfterConflict(c) \/ Throw(c)
    PROVE  IndInv'
<1> USE DEF inputs
<1>1. CASE RetryAfterConflict(c)
  <2>1. attempt[c] + 1 \in 0..(MaxRetries - 1)
    BY <1>1, RetriesAssumption
       DEF RetryAfterConflict, AttemptsLeft, IndInv, TypeOK, CallsTypeOK
  <2>2. CallsTypeOK'
    BY <1>1, <2>1, NoSnapshotType DEF RetryAfterConflict, IndInv, TypeOK, CallsTypeOK
  <2>3. CallsOnTrack'
    BY <1>1, NamesAssumption
       DEF RetryAfterConflict, IndInv, TypeOK, CallsTypeOK, CallsOnTrack, Calls
  <2>. QED  BY <1>1, <2>2, <2>3, QuietStep DEF RetryAfterConflict
<1>2. CASE GiveUpAfterConflict(c) \/ Throw(c)
  BY <1>2, ReturnQuietly DEF GiveUpAfterConflict, Throw, Answers
<1>. QED  BY <1>1, <1>2

-----------------------------------------------------------------------------
(* Steps that write.                                                          *)

(* The counter follows the one row a step changes.                            *)
LEMMA HoldsFollow ==
    ASSUME IndInv, NEW p \in Purchases,
           purchase' \in [Purchases -> PurchaseRow],
           \A q \in Purchases \ {p} : purchase'[q] = purchase[q],
           purchase'[p].reserved <= purchase'[p].current,
           aggregate'.refunding =
               aggregate.refunding - HoldOf(purchase[p]) + HoldOf(purchase'[p])
    PROVE  HoldsConserved' /\ aggregate'.refunding \in Nat /\ ReservedWithinCurrent'
<1>1. /\ purchase \in [Purchases -> PurchaseRow]
      /\ purchase[p].reserved <= purchase[p].current
  BY DEF IndInv, TypeOK, RowsTypeOK, ReservedWithinCurrent
<1>2. Cardinality(HeldIn(purchase')) =
        Cardinality(HeldIn(purchase)) - HoldOf(purchase[p]) + HoldOf(purchase'[p])
  BY <1>1, HeldInChange
<1>3. aggregate.refunding = Cardinality(HeldIn(purchase))
  BY HeldCreditsIn DEF IndInv, HoldsConserved
<1>4. aggregate'.refunding = Cardinality(HeldIn(purchase'))
  BY <1>2, <1>3
<1>5. HoldsConserved'
  BY <1>4, HeldCreditsIn DEF HoldsConserved
<1>6. aggregate'.refunding \in Nat
  BY <1>4, HeldInFinite
<1>7. ReservedWithinCurrent'
  BY DEF IndInv, ReservedWithinCurrent
<1>. QED  BY <1>5, <1>6, <1>7

(* A change to the counter's refunding quantity is a change by that amount.   *)
LEMMA CounterChange ==
    ASSUME NEW counter \in AggregateRow, NEW quantity \in Int,
           NEW changed,
           changed = [counter EXCEPT !.refunding = @ + quantity, !.version = @ + 1]
    PROVE  /\ changed.refunding = counter.refunding + quantity
           /\ changed.refunding \in Nat => changed \in AggregateRow
<1>1. counter = [reserved |-> counter.reserved, refunding |-> counter.refunding,
                 version |-> counter.version]
  BY DEF AggregateRow
<1>2. /\ counter.reserved \in Nat
      /\ counter.refunding \in Nat
      /\ counter.version \in Nat
  BY DEF AggregateRow
<1>3. changed = [reserved |-> counter.reserved, refunding |-> counter.refunding + quantity,
                 version |-> counter.version + 1]
  BY <1>1
<1>. QED  BY <1>2, <1>3 DEF AggregateRow

(* Live refunds follow it too.                                                *)
LEMMA LiveRefundsFollow ==
    ASSUME IndInv, NEW p \in Purchases,
           \A q \in Purchases \ {p} :
               /\ purchase'[q].status = purchase[q].status
               /\ LiveRefundsOf(q)' = LiveRefundsOf(q),
           purchase'[p].status = "WITHDRAWN" <=> LiveRefundsOf(p)' # {},
           \A r, s \in LiveRefundsOf(p)' : r = s
    PROVE  LiveRefundIffWithdrawn'
<1>1. SUFFICES ASSUME NEW q \in Purchases
               PROVE  /\ purchase'[q].status = "WITHDRAWN" <=> LiveRefundsOf(q)' # {}
                      /\ \A r, s \in LiveRefundsOf(q)' : r = s
  BY DEF LiveRefundIffWithdrawn
<1>2. CASE q = p
  BY <1>2
<1>3. CASE q # p
  <2>1. /\ purchase[q].status = "WITHDRAWN" <=> LiveRefundsOf(q) # {}
        /\ \A r, s \in LiveRefundsOf(q) : r = s
    BY DEF IndInv, LiveRefundIffWithdrawn
  <2>2. purchase'[q].status = purchase[q].status /\ LiveRefundsOf(q)' = LiveRefundsOf(q)
    BY <1>3
  <2>. QED  BY <2>1, <2>2
<1>. QED  BY <1>2, <1>3

(* A refund commits: the purchase was active, so no refund of it was live.    *)
LEMMA CommitRefundStep ==
    ASSUME IndInv, NEW c \in RefundCalls, CommitRefund(c)
    PROVE  IndInv'
<1>0. PICK p \in Purchases : p = target[c]
  BY DEF CommitRefund, CommitEmptyReactivation, CommitReactivation, IndInv, CallsOnTrack
<1> DEFINE held == purchase[p]
<1>1. c \in Calls /\ p = target[c] /\ held \in PurchaseRow
  BY <1>0 DEF Calls, CommitRefund, IndInv, CallsOnTrack, TypeOK, RowsTypeOK
<1>2. held.reserved <= held.current
  BY <1>1 DEF IndInv, ReservedWithinCurrent
<1>3. /\ held.status = "ACTIVE"
      /\ snapshot[c].row.current = held.current
      /\ snapshot[c].row.reserved = held.reserved
  BY <1>0 DEF CommitRefund, PurchaseCas
<1>4. Available(snapshot[c].row) = held.current - held.reserved
  BY <1>1, <1>2, <1>3 DEF Available, PurchaseRow
<1>5. Available(snapshot[c].row) \in 0..Grant
  BY <1>1, <1>2, <1>4, GrantAssumption DEF PurchaseRow
<1>6. purchase' = [purchase EXCEPT ![p].status = "WITHDRAWN", ![p].version = @ + 1]
  BY <1>0 DEF CommitRefund, SetPurchaseStatus
<1>7. /\ purchase' \in [Purchases -> PurchaseRow]
      /\ purchase'[p].status = "WITHDRAWN"
      /\ purchase'[p].current = held.current
      /\ purchase'[p].reserved = held.reserved
      /\ \A q \in Purchases \ {p} : purchase'[q] = purchase[q]
  BY <1>1, <1>6 DEF IndInv, TypeOK, RowsTypeOK, PurchaseRow, PurchaseStatus
<1>8. /\ aggregate \in AggregateRow
      /\ aggregate' = [aggregate EXCEPT !.refunding = @ + Available(snapshot[c].row),
                                         !.version = @ + 1]
  BY DEF CommitRefund, AddToRefunding, IndInv, TypeOK, RowsTypeOK
<1>9. /\ HoldOf(held) = 0
      /\ HoldOf(purchase'[p]) = held.current - held.reserved
  BY <1>3, <1>7 DEF HoldOf
<1>10. aggregate'.refunding = aggregate.refunding - HoldOf(held) + HoldOf(purchase'[p])
  BY <1>4, <1>5, <1>8, <1>9 DEF AggregateRow
<1>11. HoldsConserved' /\ aggregate'.refunding \in Nat /\ ReservedWithinCurrent'
  BY <1>1, <1>2, <1>7, <1>10, HoldsFollow
<1>12. RowsTypeOK'
  <2>1. refund' \in [RefundCalls -> RefundRow]
    BY <1>5 DEF CommitRefund, IndInv, TypeOK, RowsTypeOK, RefundRow, RefundStatus,
       LIVE_REFUND_STATUSES
  <2>2. aggregate' \in AggregateRow
    <3>1. Available(snapshot[c].row) \in Int
      BY <1>5, GrantAssumption
    <3>. QED  BY <1>8, <1>11, <3>1, CounterChange
  <2>. QED  BY <1>7, <2>1, <2>2 DEF RowsTypeOK
<1>13. CallsTypeOK' /\ CallsOnTrack'
  BY <1>1, ReturnKeepsCalls DEF CommitRefund, Answers
<1>14. LiveRefundIffWithdrawn'
  <2>1. LiveRefundsOf(p) = {}
    BY <1>0 DEF CommitRefund, UniqueConflict
  <2>2. refund'[c].status = "REQUESTED" /\ \A r \in RefundCalls \ {c} : refund'[r] = refund[r]
    BY DEF CommitRefund, IndInv, TypeOK, RowsTypeOK
  <2>3. LiveRefundsOf(p)' = {c}
    BY <1>0, <2>1, <2>2 DEF CommitRefund, inputs, LiveRefundsOf, LIVE_REFUND_STATUSES
  <2>4. \A q \in Purchases \ {p} : LiveRefundsOf(q)' = LiveRefundsOf(q)
    BY <1>0, <2>2 DEF CommitRefund, inputs, LiveRefundsOf
  <2>. QED  BY <1>1, <1>7, <2>3, <2>4, LiveRefundsFollow
<1>. QED  BY <1>11, <1>12, <1>13, <1>14 DEF IndInv, TypeOK

(* Cancelling the only live refund of a purchase leaves it without one.       *)
LEMMA CancelledIsGone ==
    ASSUME IndInv, NEW r \in RefundCalls, NEW status \in {"CANCELLED", "COMPLETED"},
           refund[r].status \in LIVE_REFUND_STATUSES,
           NEW p \in Purchases, target[r] = p,
           refund' = [refund EXCEPT ![r].status = status, ![r].version = @ + 1],
           UNCHANGED target
    PROVE  /\ refund' \in [RefundCalls -> RefundRow]
           /\ LiveRefundsOf(p)' = {}
           /\ \A q \in Purchases \ {p} : LiveRefundsOf(q)' = LiveRefundsOf(q)
<1>1. refund \in [RefundCalls -> RefundRow]
  BY DEF IndInv, TypeOK, RowsTypeOK
<1>2. refund' \in [RefundCalls -> RefundRow]
  BY <1>1 DEF RefundRow, RefundStatus
<1>3. refund'[r].status = status /\ \A s \in RefundCalls \ {r} : refund'[s] = refund[s]
  BY <1>1 DEF RefundRow
<1>4. r \in LiveRefundsOf(p)
  BY DEF LiveRefundsOf
<1>5. \A s \in LiveRefundsOf(p) : s = r
  BY <1>4 DEF IndInv, LiveRefundIffWithdrawn
<1>6. LiveRefundsOf(p)' = {}
  BY <1>3, <1>5 DEF LiveRefundsOf, LIVE_REFUND_STATUSES
<1>7. \A q \in Purchases \ {p} : LiveRefundsOf(q)' = LiveRefundsOf(q)
  BY <1>3 DEF LiveRefundsOf
<1>. QED  BY <1>2, <1>6, <1>7

(* What the two ways a reactivation commits have in common.                   *)
LEMMA ReactivationCancels ==
    ASSUME IndInv, NEW c \in ReactivateCalls, pc[c] = "commit",
           NEW p \in Purchases, p = target[c],
           RefundCas(c), PurchaseCas(c, "WITHDRAWN"), CancelRefund(snapshot[c].live),
           UNCHANGED inputs
    PROVE  /\ c \in Calls
           /\ refund' \in [RefundCalls -> RefundRow]
           /\ LiveRefundsOf(p)' = {}
           /\ \A q \in Purchases \ {p} : LiveRefundsOf(q)' = LiveRefundsOf(q)
<1>1. snapshot[c].live \in RefundCalls /\ target[c] \in Purchases
  BY DEF IndInv, CallsOnTrack
<1>2. /\ target[snapshot[c].live] = target[c]
      /\ refund[snapshot[c].live].status \in LIVE_REFUND_STATUSES
  BY DEF RefundCas, LIVE_REFUND_STATUSES
<1>. QED  BY <1>1, <1>2, CancelledIsGone DEF CancelRefund, inputs, Calls

LEMMA CommitEmptyReactivationStep ==
    ASSUME IndInv, NEW c \in ReactivateCalls, CommitEmptyReactivation(c)
    PROVE  IndInv'
<1>0. PICK p \in Purchases : p = target[c]
  BY DEF CommitRefund, CommitEmptyReactivation, CommitReactivation, IndInv, CallsOnTrack
<1> DEFINE held == purchase[p]
<1>1. /\ c \in Calls
      /\ refund' \in [RefundCalls -> RefundRow]
      /\ LiveRefundsOf(p)' = {}
      /\ \A q \in Purchases \ {p} : LiveRefundsOf(q)' = LiveRefundsOf(q)
  BY <1>0, ReactivationCancels DEF CommitEmptyReactivation
<1>2. held \in PurchaseRow /\ held.current = 0 /\ held.reserved = 0
  BY <1>0 DEF IndInv, TypeOK, RowsTypeOK, CommitEmptyReactivation, PurchaseCas
<1>3. purchase' = [purchase EXCEPT ![p].status = "COMPLETED", ![p].version = @ + 1]
  BY <1>0 DEF CommitEmptyReactivation, SetPurchaseStatus
<1>4. /\ purchase' \in [Purchases -> PurchaseRow]
      /\ purchase'[p].status = "COMPLETED"
      /\ purchase'[p].current = held.current
      /\ purchase'[p].reserved = held.reserved
      /\ \A q \in Purchases \ {p} : purchase'[q] = purchase[q]
  BY <1>1, <1>3 DEF IndInv, TypeOK, RowsTypeOK, PurchaseRow, PurchaseStatus
<1>5. HoldOf(held) = 0 /\ HoldOf(purchase'[p]) = 0
  BY <1>2, <1>4 DEF HoldOf
<1>6. aggregate' = aggregate /\ aggregate.refunding \in Nat
  BY DEF CommitEmptyReactivation, IndInv, TypeOK, RowsTypeOK, AggregateRow
<1>7. HoldsConserved' /\ ReservedWithinCurrent'
  BY <1>1, <1>2, <1>4, <1>5, <1>6, HoldsFollow
<1>8. RowsTypeOK'
  BY <1>1, <1>4, <1>6 DEF IndInv, TypeOK, RowsTypeOK
<1>9. CallsTypeOK' /\ CallsOnTrack'
  BY <1>1, ReturnKeepsCalls DEF CommitEmptyReactivation, Answers
<1>10. LiveRefundIffWithdrawn'
  BY <1>1, <1>4, LiveRefundsFollow
<1>. QED  BY <1>7, <1>8, <1>9, <1>10 DEF IndInv, TypeOK

LEMMA CommitReactivationStep ==
    ASSUME IndInv, NEW c \in ReactivateCalls, CommitReactivation(c)
    PROVE  IndInv'
<1>0. PICK p \in Purchases : p = target[c]
  BY DEF CommitRefund, CommitEmptyReactivation, CommitReactivation, IndInv, CallsOnTrack
<1> DEFINE held == purchase[p]
           released == HeldAvailable(snapshot[c].row)
<1>1. /\ c \in Calls
      /\ refund' \in [RefundCalls -> RefundRow]
      /\ LiveRefundsOf(p)' = {}
      /\ \A q \in Purchases \ {p} : LiveRefundsOf(q)' = LiveRefundsOf(q)
  BY <1>0, ReactivationCancels DEF CommitReactivation
<1>2. /\ held \in PurchaseRow
      /\ held.status = "WITHDRAWN"
      /\ held.reserved <= held.current
      /\ snapshot[c].row.current = held.current
      /\ snapshot[c].row.reserved = held.reserved
  BY <1>0 DEF IndInv, TypeOK, RowsTypeOK, ReservedWithinCurrent, CommitReactivation,
     PurchaseCas
<1>3. released = held.current - held.reserved /\ released \in Nat
  BY <1>2 DEF HeldAvailable, Available, PurchaseRow
<1>4. purchase' = [purchase EXCEPT ![p].status = "ACTIVE", ![p].version = @ + 1]
  BY <1>0 DEF CommitReactivation, SetPurchaseStatus
<1>5. /\ purchase' \in [Purchases -> PurchaseRow]
      /\ purchase'[p].status = "ACTIVE"
      /\ purchase'[p].current = held.current
      /\ purchase'[p].reserved = held.reserved
      /\ \A q \in Purchases \ {p} : purchase'[q] = purchase[q]
  BY <1>1, <1>4 DEF IndInv, TypeOK, RowsTypeOK, PurchaseRow, PurchaseStatus
<1>6. HoldOf(held) = held.current - held.reserved /\ HoldOf(purchase'[p]) = 0
  BY <1>2, <1>5 DEF HoldOf
<1>7. aggregate \in AggregateRow
  BY DEF IndInv, TypeOK, RowsTypeOK
<1>8. /\ aggregate'.refunding = aggregate.refunding - released
      /\ aggregate'.refunding \in Nat => aggregate' \in AggregateRow
  <2> HIDE DEF released
  <2>1. CASE released > 0
    <3>1. aggregate' = [aggregate EXCEPT !.refunding = @ + (-released), !.version = @ + 1]
      BY <2>1 DEF CommitReactivation, AddToRefunding, released
    <3>2. -released \in Int
      BY <1>3
    <3>3. /\ aggregate'.refunding = aggregate.refunding + (-released)
          /\ aggregate'.refunding \in Nat => aggregate' \in AggregateRow
      BY <1>7, <3>1, <3>2, CounterChange
    <3>. QED  BY <1>3, <1>7, <3>3 DEF AggregateRow
  <2>2. CASE ~(released > 0)
    <3>1. aggregate' = aggregate
      BY <2>2 DEF CommitReactivation, released
    <3>. QED  BY <1>3, <1>7, <2>2, <3>1 DEF AggregateRow
  <2>. QED  BY <2>1, <2>2
<1>9. aggregate'.refunding = aggregate.refunding - HoldOf(held) + HoldOf(purchase'[p])
  BY <1>3, <1>6, <1>7, <1>8 DEF AggregateRow
<1>10. HoldsConserved' /\ aggregate'.refunding \in Nat /\ ReservedWithinCurrent'
  BY <1>1, <1>2, <1>5, <1>9, HoldsFollow
<1>11. RowsTypeOK'
  BY <1>1, <1>5, <1>8, <1>10 DEF RowsTypeOK
<1>12. CallsTypeOK' /\ CallsOnTrack'
  BY <1>1, ReturnKeepsCalls DEF CommitReactivation, Answers
<1>13. LiveRefundIffWithdrawn'
  BY <1>1, <1>5, LiveRefundsFollow
<1>. QED  BY <1>10, <1>11, <1>12, <1>13 DEF IndInv, TypeOK

-----------------------------------------------------------------------------
(* Steps of the workers.                                                      *)

LEMMA WorkersLeaveCalls ==
    ASSUME IndInv, UNCHANGED <<progress, inputs>>
    PROVE  CallsTypeOK' /\ CallsOnTrack'
BY DEF IndInv, TypeOK, CallsTypeOK, CallsOnTrack, progress, inputs

(* A worker that leaves every purchase's status, or changes none that is or   *)
(* becomes withdrawn, and no refund.                                          *)
LEMMA PurchaseWork ==
    ASSUME IndInv, NEW p \in Purchases,
           purchase' \in [Purchases -> PurchaseRow],
           \A q \in Purchases \ {p} : purchase'[q] = purchase[q],
           purchase'[p].reserved <= purchase'[p].current,
           purchase[p].status = "WITHDRAWN" <=> purchase'[p].status = "WITHDRAWN",
           aggregate'.refunding =
               aggregate.refunding - HoldOf(purchase[p]) + HoldOf(purchase'[p]),
           aggregate'.refunding \in Nat => aggregate' \in AggregateRow,
           UNCHANGED <<refund, progress, inputs>>
    PROVE  IndInv'
<1>1. HoldsConserved' /\ aggregate'.refunding \in Nat /\ ReservedWithinCurrent'
  BY HoldsFollow
<1>2. RowsTypeOK'
  BY <1>1 DEF IndInv, TypeOK, RowsTypeOK
<1>3. \A q \in Purchases : LiveRefundsOf(q)' = LiveRefundsOf(q)
  BY DEF LiveRefundsOf, inputs
<1>4. /\ purchase[p].status = "WITHDRAWN" <=> LiveRefundsOf(p) # {}
      /\ \A r, s \in LiveRefundsOf(p) : r = s
  BY DEF IndInv, LiveRefundIffWithdrawn
<1>5. LiveRefundIffWithdrawn'
  BY <1>3, <1>4, LiveRefundsFollow
<1>. QED  BY <1>1, <1>2, <1>5, WorkersLeaveCalls DEF IndInv, TypeOK

LEMMA PurchaseWorkers ==
    ASSUME IndInv, NEW p \in Purchases,
           \/ ActivatePurchase(p)
           \/ ReserveCredit(p)
           \/ ReleaseCredit(p)
           \/ SpendCredit(p)
           \/ WriteOffCredit(p)
    PROVE  IndInv'
<1>1. /\ purchase \in [Purchases -> PurchaseRow]
      /\ purchase[p] \in PurchaseRow
      /\ purchase[p].reserved <= purchase[p].current
      /\ aggregate \in AggregateRow
  BY DEF IndInv, TypeOK, RowsTypeOK, ReservedWithinCurrent
<1>2. /\ purchase[p].status \in PurchaseStatus
      /\ purchase[p].current \in 0..Grant
      /\ purchase[p].reserved \in 0..Grant
      /\ purchase[p].version \in Nat
      /\ Grant \in Nat
  BY <1>1, GrantAssumption DEF PurchaseRow
<1>3. /\ aggregate.reserved \in Nat
      /\ aggregate.refunding \in Nat
      /\ aggregate.version \in Nat
  BY <1>1 DEF AggregateRow
<1>4. CASE ActivatePurchase(p)
  <2>1. purchase' = [purchase EXCEPT ![p] =
            [status |-> "ACTIVE", current |-> Grant, reserved |-> purchase[p].reserved,
             version |-> purchase[p].version + 1]]
    BY <1>1, <1>4 DEF ActivatePurchase, PurchaseRow
  <2>2. /\ purchase' \in [Purchases -> PurchaseRow]
        /\ purchase'[p].reserved <= purchase'[p].current
        /\ HoldOf(purchase[p]) = 0
        /\ HoldOf(purchase'[p]) = 0
    BY <1>1, <1>2, <1>4, <2>1 DEF ActivatePurchase, PurchaseRow, PurchaseStatus, HoldOf
  <2>3. /\ purchase[p].status = "WITHDRAWN" <=> purchase'[p].status = "WITHDRAWN"
        /\ \A q \in Purchases \ {p} : purchase'[q] = purchase[q]
    BY <1>1, <1>4, <2>1 DEF ActivatePurchase
  <2>4. aggregate' = aggregate
    BY <1>4 DEF ActivatePurchase
  <2>5. /\ aggregate'.refunding = aggregate.refunding - HoldOf(purchase[p]) + HoldOf(purchase'[p])
        /\ aggregate' \in AggregateRow
    BY <1>1, <1>3, <2>2, <2>4
  <2>. QED  BY <1>4, <2>2, <2>3, <2>5, PurchaseWork DEF ActivatePurchase
<1>5. CASE ReserveCredit(p)
  <2>1. purchase' = [purchase EXCEPT ![p] =
            [status |-> "ACTIVE", current |-> purchase[p].current,
             reserved |-> purchase[p].reserved + 1, version |-> purchase[p].version + 1]]
    BY <1>1, <1>5 DEF ReserveCredit, PurchaseRow
  <2>2. /\ purchase' \in [Purchases -> PurchaseRow]
        /\ purchase'[p].reserved <= purchase'[p].current
        /\ HoldOf(purchase[p]) = 0
        /\ HoldOf(purchase'[p]) = 0
    BY <1>1, <1>2, <1>5, <2>1 DEF ReserveCredit, PurchaseRow, PurchaseStatus, HoldOf
  <2>3. aggregate' = [reserved |-> aggregate.reserved + 1,
                      refunding |-> aggregate.refunding,
                      version |-> aggregate.version + 1]
    BY <1>1, <1>5 DEF ReserveCredit, AggregateRow
  <2>4. /\ aggregate'.refunding = aggregate.refunding - HoldOf(purchase[p]) + HoldOf(purchase'[p])
        /\ aggregate' \in AggregateRow
    BY <1>3, <2>2, <2>3 DEF AggregateRow
  <2>5. /\ purchase[p].status = "WITHDRAWN" <=> purchase'[p].status = "WITHDRAWN"
        /\ \A q \in Purchases \ {p} : purchase'[q] = purchase[q]
    BY <1>1, <1>5, <2>1 DEF ReserveCredit
  <2>. QED  BY <1>5, <2>2, <2>4, <2>5, PurchaseWork DEF ReserveCredit
<1>6. CASE ReleaseCredit(p)
  <2>1. purchase' = [purchase EXCEPT ![p] =
            [status |-> purchase[p].status, current |-> purchase[p].current,
             reserved |-> purchase[p].reserved - 1, version |-> purchase[p].version + 1]]
    BY <1>1, <1>6 DEF ReleaseCredit, PurchaseRow
  <2>2. /\ purchase' \in [Purchases -> PurchaseRow]
        /\ purchase'[p].reserved <= purchase'[p].current
        /\ purchase'[p].status = purchase[p].status
        /\ HoldOf(purchase'[p]) =
              IF purchase[p].status = "WITHDRAWN" THEN HoldOf(purchase[p]) + 1
              ELSE HoldOf(purchase[p])
    BY <1>1, <1>2, <1>6, <2>1 DEF ReleaseCredit, PurchaseRow, PurchaseStatus, HoldOf
  <2>3. /\ aggregate'.refunding =
              IF purchase[p].status = "WITHDRAWN" THEN aggregate.refunding + 1
              ELSE aggregate.refunding
        /\ aggregate' \in AggregateRow
    <3>1. aggregate' = [reserved |-> aggregate.reserved - 1,
                        refunding |-> IF purchase[p].status = "WITHDRAWN"
                                      THEN aggregate.refunding + 1
                                      ELSE aggregate.refunding,
                        version |-> aggregate.version + 1]
      BY <1>1, <1>6 DEF ReleaseCredit, AggregateRow
    <3>2. aggregate.reserved > 0
      BY <1>6 DEF ReleaseCredit
    <3>. QED  BY <1>3, <3>1, <3>2 DEF AggregateRow
  <2>4. HoldOf(purchase[p]) \in Int
    BY <1>2 DEF HoldOf
  <2>5. aggregate'.refunding =
          aggregate.refunding - HoldOf(purchase[p]) + HoldOf(purchase'[p])
    BY <1>3, <2>2, <2>3, <2>4
  <2>. QED  BY <1>1, <1>6, <2>1, <2>2, <2>3, <2>5, PurchaseWork DEF ReleaseCredit
<1>7. CASE SpendCredit(p)
  <2> DEFINE status == IF purchase[p].status = "ACTIVE" /\ purchase[p].current = 1
                       THEN "COMPLETED" ELSE purchase[p].status
  <2>1. purchase' = [purchase EXCEPT ![p] =
            [status |-> status, current |-> purchase[p].current - 1,
             reserved |-> purchase[p].reserved - 1, version |-> purchase[p].version + 1]]
    BY <1>1, <1>7 DEF SpendCredit, PurchaseRow
  <2>2. /\ purchase' \in [Purchases -> PurchaseRow]
        /\ purchase'[p].reserved <= purchase'[p].current
        /\ purchase'[p].status = "WITHDRAWN" <=> purchase[p].status = "WITHDRAWN"
        /\ HoldOf(purchase'[p]) = HoldOf(purchase[p])
    BY <1>1, <1>2, <1>7, <2>1 DEF SpendCredit, PurchaseRow, PurchaseStatus, HoldOf
  <2>3. aggregate'.refunding = aggregate.refunding /\ aggregate' \in AggregateRow
    <3>1. aggregate' = [reserved |-> aggregate.reserved - 1,
                        refunding |-> aggregate.refunding,
                        version |-> aggregate.version + 1]
      BY <1>1, <1>7 DEF SpendCredit, AggregateRow
    <3>2. aggregate.reserved > 0
      BY <1>7 DEF SpendCredit
    <3>. QED  BY <1>3, <3>1, <3>2 DEF AggregateRow
  <2>4. HoldOf(purchase[p]) \in Int
    BY <1>2 DEF HoldOf
  <2>5. aggregate'.refunding =
          aggregate.refunding - HoldOf(purchase[p]) + HoldOf(purchase'[p])
    BY <1>3, <2>2, <2>3, <2>4
  <2>6. \A q \in Purchases \ {p} : purchase'[q] = purchase[q]
    BY <1>1, <2>1
  <2>. QED  BY <1>7, <2>2, <2>3, <2>5, <2>6, PurchaseWork DEF SpendCredit
<1>8. CASE WriteOffCredit(p)
  <2>1. purchase' = [purchase EXCEPT ![p] =
            [status |-> "WITHDRAWN", current |-> purchase[p].current - 1,
             reserved |-> purchase[p].reserved, version |-> purchase[p].version + 1]]
    BY <1>1, <1>8 DEF WriteOffCredit, PurchaseRow
  <2>2. /\ purchase' \in [Purchases -> PurchaseRow]
        /\ purchase'[p].reserved <= purchase'[p].current
        /\ HoldOf(purchase[p]) \in Int
        /\ HoldOf(purchase'[p]) = HoldOf(purchase[p]) - 1
    BY <1>1, <1>2, <1>8, <2>1 DEF WriteOffCredit, PurchaseRow, PurchaseStatus, HoldOf
  <2>3. /\ aggregate'.refunding = aggregate.refunding + (-1)
        /\ aggregate'.refunding \in Nat => aggregate' \in AggregateRow
    <3>1. -1 \in Int
      OBVIOUS
    <3>2. aggregate' = [aggregate EXCEPT !.refunding = @ + (-1), !.version = @ + 1]
      BY <1>8 DEF WriteOffCredit, AddToRefunding
    <3>. QED  BY <1>1, <3>1, <3>2, CounterChange
  <2>4. aggregate'.refunding =
          aggregate.refunding - HoldOf(purchase[p]) + HoldOf(purchase'[p])
    BY <1>3, <2>2, <2>3
  <2>5. /\ purchase[p].status = "WITHDRAWN" <=> purchase'[p].status = "WITHDRAWN"
        /\ \A q \in Purchases \ {p} : purchase'[q] = purchase[q]
    BY <1>1, <1>8, <2>1 DEF WriteOffCredit
  <2>. QED  BY <1>8, <2>2, <2>3, <2>4, <2>5, PurchaseWork DEF WriteOffCredit
<1>. QED  BY <1>4, <1>5, <1>6, <1>7, <1>8

(* Taking a refund to the provider keeps it live.                             *)
LEMMA StartProviderActionStep ==
    ASSUME IndInv, NEW r \in RefundCalls, StartProviderAction(r)
    PROVE  IndInv'
<1>1. PICK status \in LIVE_REFUND_STATUSES :
        refund' = [refund EXCEPT ![r].providerActed = TRUE, ![r].version = @ + 1,
                                 ![r].status = status]
  BY DEF StartProviderAction
<1>2. refund \in [RefundCalls -> RefundRow]
  BY DEF IndInv, TypeOK, RowsTypeOK
<1>3. /\ refund' \in [RefundCalls -> RefundRow]
      /\ refund'[r].status = status
      /\ \A s \in RefundCalls \ {r} : refund'[s] = refund[s]
  BY <1>1, <1>2 DEF RefundRow, RefundStatus
<1>4. refund[r].status \in LIVE_REFUND_STATUSES
  BY DEF StartProviderAction, LIVE_REFUND_STATUSES
<1>5. \A q \in Purchases : LiveRefundsOf(q)' = LiveRefundsOf(q)
  BY <1>3, <1>4 DEF LiveRefundsOf, StartProviderAction, inputs
<1>6. LiveRefundIffWithdrawn'
  <2>1. SUFFICES ASSUME NEW q \in Purchases
                 PROVE  /\ purchase'[q].status = "WITHDRAWN" <=> LiveRefundsOf(q)' # {}
                        /\ \A s, t \in LiveRefundsOf(q)' : s = t
    BY DEF LiveRefundIffWithdrawn
  <2>2. /\ purchase[q].status = "WITHDRAWN" <=> LiveRefundsOf(q) # {}
        /\ \A s, t \in LiveRefundsOf(q) : s = t
    BY DEF IndInv, LiveRefundIffWithdrawn
  <2>. QED  BY <1>5, <2>2 DEF StartProviderAction
<1>7. RowsTypeOK'
  BY <1>3 DEF IndInv, TypeOK, RowsTypeOK, StartProviderAction
<1>8. ReservedWithinCurrent' /\ HoldsConserved'
  BY DEF IndInv, ReservedWithinCurrent, HoldsConserved, HeldCredits, StartProviderAction
<1>. QED  BY <1>6, <1>7, <1>8, WorkersLeaveCalls DEF IndInv, TypeOK, StartProviderAction

(* A completed refund takes the hold of its purchase with it.                 *)
LEMMA CompleteRefundStep ==
    ASSUME IndInv, NEW r \in RefundCalls, NEW p \in Purchases, CompleteRefund(r, p)
    PROVE  IndInv'
<1> DEFINE held == purchase[p]
<1>1. /\ refund' \in [RefundCalls -> RefundRow]
      /\ LiveRefundsOf(p)' = {}
      /\ \A q \in Purchases \ {p} : LiveRefundsOf(q)' = LiveRefundsOf(q)
  BY CancelledIsGone DEF CompleteRefund, inputs
<1>2. /\ purchase \in [Purchases -> PurchaseRow]
      /\ held \in PurchaseRow
      /\ held.status = "WITHDRAWN"
      /\ held.reserved = 0
      /\ held.current \in 0..Grant
      /\ held.version \in Nat
      /\ Grant \in Nat
      /\ aggregate \in AggregateRow
  BY GrantAssumption DEF CompleteRefund, IndInv, TypeOK, RowsTypeOK, PurchaseRow
<1>3. purchase' = [purchase EXCEPT ![p] =
          [status |-> "REFUNDED", current |-> 0, reserved |-> held.reserved,
           version |-> held.version + 1]]
  BY <1>2 DEF CompleteRefund, PurchaseRow
<1>4. /\ purchase' \in [Purchases -> PurchaseRow]
      /\ purchase'[p].status = "REFUNDED"
      /\ purchase'[p].reserved <= purchase'[p].current
      /\ \A q \in Purchases \ {p} : purchase'[q] = purchase[q]
  BY <1>2, <1>3 DEF PurchaseRow, PurchaseStatus
<1>5. HoldOf(held) = held.current /\ HoldOf(purchase'[p]) = 0
  BY <1>2, <1>4 DEF HoldOf
<1>6. -held.current \in Int
  BY <1>2
<1>7. aggregate' = [aggregate EXCEPT !.refunding = @ + (-held.current), !.version = @ + 1]
  BY DEF CompleteRefund, AddToRefunding
<1>8. /\ aggregate'.refunding = aggregate.refunding + (-held.current)
      /\ aggregate'.refunding \in Nat => aggregate' \in AggregateRow
  BY <1>2, <1>6, <1>7, CounterChange
<1>9. aggregate'.refunding = aggregate.refunding - HoldOf(held) + HoldOf(purchase'[p])
  BY <1>2, <1>5, <1>8 DEF AggregateRow
<1>10. HoldsConserved' /\ aggregate'.refunding \in Nat /\ ReservedWithinCurrent'
  BY <1>4, <1>9, HoldsFollow
<1>11. RowsTypeOK'
  BY <1>1, <1>4, <1>8, <1>10 DEF RowsTypeOK
<1>12. LiveRefundIffWithdrawn'
  BY <1>1, <1>4, LiveRefundsFollow
<1>. QED  BY <1>10, <1>11, <1>12, WorkersLeaveCalls DEF IndInv, TypeOK, CompleteRefund

-----------------------------------------------------------------------------
(* Every step.                                                                *)

LEMMA NextIndInv == IndInv /\ [Next]_vars => IndInv'
<1> SUFFICES ASSUME IndInv, [Next]_vars PROVE IndInv'
  OBVIOUS
<1>1. CASE \E c \in Calls : Call(c) \/ Throw(c)
  <2>1. PICK c \in Calls : Call(c) \/ Throw(c)
    BY <1>1
  <2>2. CASE c \in RefundCalls /\ RefundStep(c)
    BY <2>2, RefundReads, CommitRefundStep DEF RefundStep
  <2>3. CASE c \in ReactivateCalls /\ ReactivateStep(c)
    BY <2>3, ReactivationReads, CommitEmptyReactivationStep, CommitReactivationStep
       DEF ReactivateStep
  <2>4. CASE RetryAfterConflict(c) \/ GiveUpAfterConflict(c) \/ Throw(c)
    BY <2>4, FailedAttempts
  <2>. QED  BY <2>1, <2>2, <2>3, <2>4 DEF Call
<1>2. CASE Worker
  <2>1. CASE \E p \in Purchases : \/ ActivatePurchase(p)
                                 \/ ReserveCredit(p)
                                 \/ ReleaseCredit(p)
                                 \/ SpendCredit(p)
                                 \/ WriteOffCredit(p)
    BY <2>1, PurchaseWorkers
  <2>2. CASE \E r \in RefundCalls : StartProviderAction(r)
    BY <2>2, StartProviderActionStep
  <2>3. CASE \E r \in RefundCalls, p \in Purchases : CompleteRefund(r, p)
    BY <2>3, CompleteRefundStep
  <2>. QED  BY <1>2, <2>1, <2>2, <2>3 DEF Worker
<1>3. CASE UNCHANGED vars
  <2>1. CallsTypeOK' /\ CallsOnTrack'
    BY <1>3, WorkersLeaveCalls DEF vars
  <2>. QED  BY <1>3, <2>1, QuietStep DEF vars
<1>. QED  BY <1>1, <1>2, <1>3 DEF Next

(* The invariant holds of every behaviour.                                    *)
THEOREM Invariance == Spec => []IndInv
BY InitIndInv, NextIndInv, PTL DEF Spec

(* Rows, the counter and calls keep their types; in particular the shop's     *)
(* refundingQuantity never becomes negative.                                  *)
THEOREM TypeCorrect == Spec => []TypeOK
<1>1. IndInv => TypeOK
  BY DEF IndInv
<1>. QED  BY <1>1, Invariance, PTL

(* The shop's refundingQuantity is the number of free credits on withdrawn    *)
(* purchases, for any number of calls, retries and purchases.                 *)
THEOREM HoldsAlwaysConserved == Spec => []HoldsConserved
<1>1. IndInv => HoldsConserved
  BY DEF IndInv
<1>. QED  BY <1>1, Invariance, PTL

(* A purchase is withdrawn exactly while one refund of it is live.            *)
THEOREM OneLiveRefundWhileWithdrawn == Spec => []LiveRefundIffWithdrawn
<1>1. IndInv => LiveRefundIffWithdrawn
  BY DEF IndInv
<1>. QED  BY <1>1, Invariance, PTL

-----------------------------------------------------------------------------
(* What a step may do to refunds.                                             *)

(* Refund rows change when a request commits, a reactivation cancels one that *)
(* nobody has started on, or the refund worker acts.                          *)
LEMMA RefundChanges ==
    ASSUME IndInv, [Next]_vars
    PROVE  \/ refund' = refund
           \/ \E c \in RefundCalls : CommitRefund(c)
           \/ \E c \in ReactivateCalls : /\ snapshot[c].live \in RefundCalls
                                         /\ RefundCas(c)
                                         /\ CancelRefund(snapshot[c].live)
           \/ \E r \in RefundCalls : StartProviderAction(r)
           \/ \E r \in RefundCalls, p \in Purchases : CompleteRefund(r, p)
<1>1. CASE \E c \in Calls : Call(c) \/ Throw(c)
  <2>1. PICK c \in Calls : Call(c) \/ Throw(c)
    BY <1>1
  <2>2. CASE c \in RefundCalls /\ RefundStep(c)
    BY <2>2 DEF RefundStep, Preflight, ObserveProvider, BeginRefund, RefundUniqueConflict,
       ReadRefundReceipt, ReadRefundReplay, rows
  <2>3. CASE c \in ReactivateCalls /\ ReactivateStep(c)
    BY <2>3 DEF ReactivateStep, BeginReactivation, CommitEmptyReactivation,
       CommitReactivation, rows, IndInv, CallsOnTrack
  <2>4. CASE RetryAfterConflict(c) \/ GiveUpAfterConflict(c) \/ Throw(c)
    BY <2>4 DEF RetryAfterConflict, GiveUpAfterConflict, Throw, rows
  <2>. QED  BY <2>1, <2>2, <2>3, <2>4 DEF Call
<1>2. CASE Worker
  BY <1>2 DEF Worker, ActivatePurchase, ReserveCredit, ReleaseCredit, SpendCredit,
     WriteOffCredit
<1>3. CASE UNCHANGED vars
  BY <1>3 DEF vars, rows
<1>. QED  BY <1>1, <1>2, <1>3 DEF Next

(* What each change leaves of a refund row.                                   *)
LEMMA RefundRowsKept ==
    ASSUME IndInv, NEW r \in RefundCalls
    PROVE  /\ \A c \in RefundCalls : CommitRefund(c) =>
                 /\ refund'[c].available = Available(snapshot[c].row)
                 /\ r # c => refund'[r] = refund[r]
                 /\ refund[c].status = "NONE"
           /\ \A s \in RefundCalls : CancelRefund(s) /\ r # s => refund'[r] = refund[r]
           /\ \A s \in RefundCalls : StartProviderAction(s) =>
                 /\ r # s => refund'[r] = refund[r]
                 /\ refund[s].status = "REQUESTED"
                 /\ refund'[s].status \in LIVE_REFUND_STATUSES
           /\ \A s \in RefundCalls, p \in Purchases : CompleteRefund(s, p) =>
                 /\ r # s => refund'[r] = refund[r]
                 /\ refund[s].status \in LIVE_REFUND_STATUSES
                 /\ refund'[s].status = "COMPLETED"
<1>1. refund \in [RefundCalls -> RefundRow]
  BY DEF IndInv, TypeOK, RowsTypeOK
<1>2. ASSUME NEW c \in RefundCalls, CommitRefund(c)
      PROVE  /\ refund'[c].available = Available(snapshot[c].row)
             /\ r # c => refund'[r] = refund[r]
             /\ refund[c].status = "NONE"
  <2>1. refund[c].status = "NONE"
    BY <1>2 DEF CommitRefund, UniqueConflict, RequestKeyTaken
  <2>. QED  BY <1>1, <1>2, <2>1 DEF CommitRefund
<1>3. ASSUME NEW s \in RefundCalls, CancelRefund(s), r # s
      PROVE  refund'[r] = refund[r]
  BY <1>1, <1>3 DEF CancelRefund
<1>4. ASSUME NEW s \in RefundCalls, StartProviderAction(s)
      PROVE  /\ r # s => refund'[r] = refund[r]
             /\ refund[s].status = "REQUESTED"
             /\ refund'[s].status \in LIVE_REFUND_STATUSES
  BY <1>1, <1>4 DEF StartProviderAction, RefundRow
<1>5. ASSUME NEW s \in RefundCalls, NEW p \in Purchases, CompleteRefund(s, p)
      PROVE  /\ r # s => refund'[r] = refund[r]
             /\ refund[s].status \in LIVE_REFUND_STATUSES
             /\ refund'[s].status = "COMPLETED"
  BY <1>1, <1>5 DEF CompleteRefund, RefundRow
<1>. QED  BY <1>2, <1>3, <1>4, <1>5

(* A refund row records the free credits of its purchase as they are when it  *)
(* is written, though computed from an earlier read.                          *)
THEOREM RefundsRecordTheBalance == Spec => RefundRecordsCurrentBalance
<1>1. ASSUME IndInv, [Next]_vars, NEW r \in RefundCalls,
             refund[r].status = "NONE", refund'[r].status # "NONE"
      PROVE  refund'[r].available = Available(purchase[target[r]])
  <2>1. CommitRefund(r)
    <3>1. \A c \in ReactivateCalls : RefundCas(c) => refund[snapshot[c].live].status = "REQUESTED"
      BY DEF RefundCas
    <3>. QED  BY <1>1, <3>1, RefundChanges, RefundRowsKept DEF LIVE_REFUND_STATUSES
  <2>2. Available(snapshot[r].row) = Available(purchase[target[r]])
    BY <2>1 DEF CommitRefund, PurchaseCas, Available
  <2>. QED  BY <1>1, <2>1, <2>2, RefundRowsKept
<1>2. IndInv /\ [Next]_vars =>
        [\A r \in RefundCalls : refund[r].status = "NONE" /\ refund'[r].status # "NONE" =>
              refund'[r].available = Available(purchase[target[r]])]_vars
  BY <1>1
<1>. QED  BY <1>2, Invariance, PTL DEF Spec, RefundRecordsCurrentBalance

(* A refund the provider was asked to pay is never cancelled.                 *)
THEOREM StartedRefundsStand == Spec => StartedRefundNotCancelled
<1>1. ASSUME IndInv, [Next]_vars, NEW r \in RefundCalls,
             refund[r].providerActed, refund[r].status # "CANCELLED"
      PROVE  refund'[r].status # "CANCELLED"
  <2>1. \A c \in ReactivateCalls : RefundCas(c) => ~refund[snapshot[c].live].providerActed
    BY DEF RefundCas
  <2>2. \A c \in RefundCalls : CommitRefund(c) => refund'[c].status = "REQUESTED"
    BY <1>1 DEF CommitRefund, IndInv, TypeOK, RowsTypeOK
  <2>. QED  BY <1>1, <2>1, <2>2, RefundChanges, RefundRowsKept DEF LIVE_REFUND_STATUSES
<1>2. IndInv /\ [Next]_vars =>
        [\A r \in RefundCalls : refund[r].providerActed /\ refund[r].status # "CANCELLED" =>
              refund'[r].status # "CANCELLED"]_vars
  BY <1>1
<1>. QED  BY <1>2, Invariance, PTL DEF Spec, StartedRefundNotCancelled
-----------------------------------------------------------------------------
(* What a call's answer says.                                                 *)

(* What AnswersTrue asks of a step that answers call c.                       *)
AnswerTrue(c) ==
    /\ outcome'[c] = "REQUESTED" =>
          /\ purchase'[target[c]].status = "WITHDRAWN"
          /\ \E r \in RefundCalls : /\ target[r] = target[c]
                                     /\ refund'[r].status = "REQUESTED"
    /\ outcome'[c] = "REACTIVATED" =>
          /\ purchase'[target[c]].status = "ACTIVE"
          /\ \A r \in RefundCalls : target[r] = target[c] =>
                refund'[r].status \notin LIVE_REFUND_STATUSES

(* OutcomeForPurchase speaks of a refund that is there.                       *)
LEMMA RequestedIsTrue ==
    ASSUME IndInv, NEW p \in Purchases,
           OutcomeForPurchase(p) = "REQUESTED" \/ EarlyRefundOutcome(p) = "REQUESTED"
    PROVE  /\ purchase[p].status = "WITHDRAWN"
           /\ \E r \in RefundCalls : target[r] = p /\ refund[r].status = "REQUESTED"
<1>1. OutcomeForPurchase(p) = "REQUESTED"
  BY DEF EarlyRefundOutcome
<1>2. LiveRefundsOf(p) # {} /\ refund[LiveRefund(p)].status = "REQUESTED"
  BY <1>1 DEF OutcomeForPurchase, OutcomeForLiveRefund
<1>3. LiveRefund(p) \in LiveRefundsOf(p)
  BY <1>2, LiveRefundChosen
<1>. QED  BY <1>2, <1>3 DEF IndInv, LiveRefundIffWithdrawn, LiveRefundsOf

(* None of them says that a purchase was reactivated.                         *)
LEMMA LookupsDoNotReactivate ==
    ASSUME NEW p
    PROVE  /\ OutcomeForPurchase(p) # "REACTIVATED"
           /\ EarlyRefundOutcome(p) # "REACTIVATED"
BY DEF OutcomeForPurchase, OutcomeForLiveRefund, EarlyRefundOutcome

LEMMA LookupAnswersTruly ==
    ASSUME IndInv, NEW c \in Calls, target[c] \in Purchases, UNCHANGED rows,
           NEW answer, Return(c, answer),
           \/ answer = OutcomeForPurchase(target[c])
           \/ answer = EarlyRefundOutcome(target[c])
           \/ answer \in Answers \ {"REQUESTED", "REACTIVATED"}
    PROVE  AnswerTrue(c)
<1>1. outcome'[c] = answer
  BY DEF Return, IndInv, TypeOK, CallsTypeOK
<1>2. answer # "REACTIVATED"
  BY LookupsDoNotReactivate
<1>3. answer = "REQUESTED" =>
        /\ purchase[target[c]].status = "WITHDRAWN"
        /\ \E r \in RefundCalls : /\ target[r] = target[c]
                                   /\ refund[r].status = "REQUESTED"
  BY RequestedIsTrue
<1>. QED  BY <1>1, <1>2, <1>3 DEF AnswerTrue, rows

(* An answer that promises nothing is true of any purchase.                   *)
LEMMA SilentAnswersTruly ==
    ASSUME IndInv, NEW c \in Calls,
           NEW answer, answer \notin {"REQUESTED", "REACTIVATED"}, Return(c, answer)
    PROVE  AnswerTrue(c)
<1>1. outcome'[c] = answer
  BY DEF Return, IndInv, TypeOK, CallsTypeOK
<1>. QED  BY <1>1 DEF AnswerTrue

LEMMA RefundStepAnswersTruly ==
    ASSUME IndInv, NEW c \in RefundCalls, RefundStep(c), outcome'[c] # outcome[c]
    PROVE  AnswerTrue(c)
<1>0. c \in Calls /\ (target[c] \in Purchases \/ target[c] = Foreign)
  BY DEF Calls, IndInv, TypeOK, CallsTypeOK
<1>1. CASE Preflight(c)
  <2>1. CASE Return(c, "NOT_FOUND")
    BY <1>0, <2>1, SilentAnswersTruly
  <2>2. CASE target[c] # Foreign /\ Return(c, EarlyRefundOutcome(target[c]))
    BY <1>0, <1>1, <2>2, LookupAnswersTruly DEF Preflight
  <2>. QED  BY <1>1, <2>1, <2>2 DEF Preflight
<1>2. CASE ObserveProvider(c)
  BY <1>2 DEF ObserveProvider
<1>3. CASE BeginRefund(c)
  <2>1. target[c] \in Purchases
    BY <1>3 DEF BeginRefund, IndInv, CallsOnTrack
  <2>2. CASE Return(c, "REFUND_NOT_CURRENT_PROVIDER_CONTEXT")
    BY <1>0, <2>2, SilentAnswersTruly
  <2>3. CASE Return(c, EarlyRefundOutcome(target[c]))
    BY <1>0, <1>3, <2>1, <2>3, LookupAnswersTruly DEF BeginRefund
  <2>. QED  BY <1>3, <2>2, <2>3 DEF BeginRefund
<1>4. CASE CommitRefund(c)
  <2>1. target[c] \in Purchases
    BY <1>4 DEF CommitRefund, IndInv, CallsOnTrack
  <2>2. purchase'[target[c]].status = "WITHDRAWN" /\ refund'[c].status = "REQUESTED"
    BY <1>4, <2>1
       DEF CommitRefund, SetPurchaseStatus, IndInv, TypeOK, RowsTypeOK, PurchaseRow
  <2>3. outcome'[c] = "REQUESTED"
    BY <1>0, <1>4 DEF CommitRefund, Return, IndInv, TypeOK, CallsTypeOK
  <2>. QED  BY <2>2, <2>3 DEF AnswerTrue
<1>5. CASE RefundUniqueConflict(c)
  BY <1>5 DEF RefundUniqueConflict
<1>6. CASE ReadRefundReceipt(c)
  <2>1. target[c] \in Purchases
    BY <1>6 DEF ReadRefundReceipt, IndInv, CallsOnTrack
  <2>2. CASE Return(c, OutcomeForPurchase(target[c]))
    BY <1>0, <1>6, <2>1, <2>2, LookupAnswersTruly DEF ReadRefundReceipt
  <2>. QED  BY <1>6, <2>2 DEF ReadRefundReceipt
<1>7. CASE ReadRefundReplay(c)
  <2>1. target[c] \in Purchases
    BY <1>7 DEF ReadRefundReplay, IndInv, CallsOnTrack
  <2>2. CASE Return(c, OutcomeForPurchase(target[c]))
    BY <1>0, <1>7, <2>1, <2>2, LookupAnswersTruly DEF ReadRefundReplay
  <2>3. CASE Return(c, "THROWN")
    BY <1>0, <2>3, SilentAnswersTruly
  <2>. QED  BY <1>7, <2>2, <2>3 DEF ReadRefundReplay
<1>. QED  BY <1>1, <1>2, <1>3, <1>4, <1>5, <1>6, <1>7 DEF RefundStep

LEMMA ReactivateStepAnswersTruly ==
    ASSUME IndInv, NEW c \in ReactivateCalls, ReactivateStep(c), outcome'[c] # outcome[c]
    PROVE  AnswerTrue(c)
<1>0. c \in Calls
  BY DEF Calls
<1>1. CASE BeginReactivation(c)
  <2>1. CASE Return(c, "NOT_FOUND") \/ Return(c, "REACTIVATION_NOT_AVAILABLE")
    BY <1>0, <2>1, SilentAnswersTruly
  <2>. QED  BY <1>1, <2>1 DEF BeginReactivation
<1>2. CASE CommitEmptyReactivation(c)
  <2>1. Return(c, "COMPLETED_NO_CREDITS")
    BY <1>2 DEF CommitEmptyReactivation
  <2>. QED  BY <1>0, <2>1, SilentAnswersTruly
<1>3. CASE CommitReactivation(c)
  <2>1. target[c] \in Purchases /\ snapshot[c].live \in RefundCalls
    BY <1>3 DEF CommitReactivation, IndInv, CallsOnTrack
  <2>0. PICK p \in Purchases : p = target[c]
    BY <2>1
  <2>2. LiveRefundsOf(p)' = {}
    BY <1>3, <2>1, <2>0, CancelledIsGone
       DEF CommitReactivation, RefundCas, CancelRefund, LIVE_REFUND_STATUSES, inputs
  <2>3. purchase'[target[c]].status = "ACTIVE"
    BY <1>3, <2>1
       DEF CommitReactivation, SetPurchaseStatus, IndInv, TypeOK, RowsTypeOK, PurchaseRow
  <2>4. outcome'[c] = "REACTIVATED" /\ target' = target
    BY <1>0, <1>3 DEF CommitReactivation, Return, IndInv, TypeOK, CallsTypeOK, inputs
  <2>5. \A r \in RefundCalls : target[r] = target[c] =>
              refund'[r].status \notin LIVE_REFUND_STATUSES
    BY <2>0, <2>2, <2>4 DEF LiveRefundsOf
  <2>. QED  BY <2>3, <2>4, <2>5 DEF AnswerTrue
<1>. QED  BY <1>1, <1>2, <1>3 DEF ReactivateStep

(* A step answers one call at most.                                           *)
LEMMA OtherCallsUnanswered ==
    ASSUME IndInv, NEW c \in Calls, Call(c) \/ Throw(c), NEW d \in Calls, d # c
    PROVE  outcome'[d] = outcome[d]
<1>1. \A answer : Return(c, answer) => outcome'[d] = outcome[d]
  BY DEF Return, IndInv, TypeOK, CallsTypeOK
<1>2. CASE c \in RefundCalls /\ RefundStep(c)
  BY <1>1, <1>2 DEF RefundStep, Preflight, ObserveProvider, BeginRefund, CommitRefund,
     RefundUniqueConflict, ReadRefundReceipt, ReadRefundReplay
<1>3. CASE c \in ReactivateCalls /\ ReactivateStep(c)
  BY <1>1, <1>3 DEF ReactivateStep, BeginReactivation, CommitEmptyReactivation,
     CommitReactivation
<1>4. CASE RetryAfterConflict(c) \/ GiveUpAfterConflict(c) \/ Throw(c)
  BY <1>1, <1>4 DEF RetryAfterConflict, GiveUpAfterConflict, Throw
<1>. QED  BY <1>2, <1>3, <1>4 DEF Call

(* Every answer is true of the rows as it is given, whoever else is running.  *)
THEOREM AnswersAlwaysTrue == Spec => AnswersTrue
<1>1. ASSUME IndInv, [Next]_vars, NEW c \in Calls, outcome'[c] # outcome[c]
      PROVE  AnswerTrue(c)
  <2>1. CASE \E d \in Calls : Call(d) \/ Throw(d)
    <3>1. Call(c) \/ Throw(c)
      BY <1>1, <2>1, OtherCallsUnanswered
    <3>2. CASE c \in RefundCalls /\ RefundStep(c)
      BY <1>1, <3>2, RefundStepAnswersTruly
    <3>3. CASE c \in ReactivateCalls /\ ReactivateStep(c)
      BY <1>1, <3>3, ReactivateStepAnswersTruly
    <3>4. CASE RetryAfterConflict(c)
      BY <1>1, <3>4 DEF RetryAfterConflict
    <3>5. CASE GiveUpAfterConflict(c) \/ Throw(c)
      BY <1>1, <3>5, SilentAnswersTruly DEF GiveUpAfterConflict, Throw
    <3>. QED  BY <3>1, <3>2, <3>3, <3>4, <3>5 DEF Call
  <2>2. CASE Worker
    BY <1>1, <2>2 DEF Worker, ActivatePurchase, ReserveCredit, ReleaseCredit, SpendCredit,
       WriteOffCredit, StartProviderAction, CompleteRefund, progress
  <2>3. CASE UNCHANGED vars
    BY <1>1, <2>3 DEF vars, progress
  <2>. QED  BY <1>1, <2>1, <2>2, <2>3 DEF Next
<1>2. IndInv /\ [Next]_vars => [\A c \in Calls : outcome'[c] # outcome[c] => AnswerTrue(c)]_vars
  BY <1>1
<1>3. IndInv /\ [Next]_vars =>
        [\A c \in Calls :
          outcome'[c] # outcome[c] =>
              /\ outcome'[c] = "REQUESTED" =>
                    /\ purchase'[target[c]].status = "WITHDRAWN"
                    /\ \E r \in RefundCalls : /\ target[r] = target[c]
                                               /\ refund'[r].status = "REQUESTED"
              /\ outcome'[c] = "REACTIVATED" =>
                    /\ purchase'[target[c]].status = "ACTIVE"
                    /\ \A r \in RefundCalls : target[r] = target[c] =>
                          refund'[r].status \notin LIVE_REFUND_STATUSES]_vars
  BY <1>2 DEF AnswerTrue
<1>. QED  BY <1>3, Invariance, PTL DEF Spec, AnswersTrue

(* All that a run checks at every state, together.                            *)
THEOREM RefundsHold == Spec => []RefundInv
<1>1. IndInv => RefundInv
  BY DEF IndInv, RefundInv
<1>. QED  BY <1>1, Invariance, PTL

-----------------------------------------------------------------------------
(* The rows implement CreditHold.                                             *)

(* What the mapping reads off a row.                                          *)
SpendableOf(held) == IF held.status = "ACTIVE" THEN Available(held) ELSE 0
HeldOf(held) == IF held.status = "WITHDRAWN" THEN Available(held) ELSE 0

LEMMA MappedRows ==
    ASSUME NEW held \in PurchaseRow, held.reserved <= held.current
    PROVE  /\ SpendableOf(held) \in 0..Grant /\ HeldOf(held) \in 0..Grant
           /\ held.status = "ACTIVE" => SpendableOf(held) = held.current - held.reserved /\ HeldOf(held) = 0
           /\ held.status = "WITHDRAWN" => HeldOf(held) = held.current - held.reserved /\ SpendableOf(held) = 0
           /\ held.status \notin {"ACTIVE", "WITHDRAWN"} => SpendableOf(held) = 0 /\ HeldOf(held) = 0
BY AvailableType, GrantAssumption DEF SpendableOf, HeldOf

(* A purchase that was not bought yet has no credits, and a refund about to   *)
(* commit has read some: Award and Hold move at least one credit.             *)
EmptyBeforeBought ==
    \A p \in Purchases : purchase[p].status = "REQUESTED" =>
        purchase[p].current = 0 /\ purchase[p].reserved = 0

RefundsReadCredits ==
    \A c \in RefundCalls : pc[c] = "commit" => Available(snapshot[c].row) >= 1

LedgerInv ==
    /\ IndInv
    /\ EmptyBeforeBought
    /\ RefundsReadCredits

(* Of the refund calls only the one that begins its transaction reads a row.  *)
LEMMA SnapshotsKept ==
    ASSUME IndInv, RefundsReadCredits, [Next]_vars
    PROVE  RefundsReadCredits'
<1>0. /\ pc \in [Calls -> {"preflight", "observe", "begin", "commit", "receipt", "replay", "done"}]
      /\ snapshot \in [Calls -> Snapshot] /\ RefundCalls \subseteq Calls
      /\ RefundCalls \cap ReactivateCalls = {}
  BY NamesAssumption DEF IndInv, TypeOK, CallsTypeOK, Calls
<1>1. ASSUME NEW c \in Calls, NEW answer, Return(c, answer) PROVE RefundsReadCredits'
  BY <1>0, <1>1 DEF Return, RefundsReadCredits
<1>2. ASSUME NEW c \in RefundCalls, BeginRefund(c) PROVE RefundsReadCredits'
  <2>1. CASE \E answer : Return(c, answer)
    BY <1>0, <1>1, <2>1
  <2>2. CASE /\ EarlyRefundOutcome(target[c]) = "none"
             /\ snapshot' = [snapshot EXCEPT ![c] = SnapshotOf(target[c])]
             /\ pc' = [pc EXCEPT ![c] = "commit"]
    <3>1. target[c] \in Purchases
      BY <1>2 DEF BeginRefund, IndInv, CallsOnTrack
    <3>2. purchase[target[c]] \in PurchaseRow
      BY <3>1 DEF IndInv, TypeOK, RowsTypeOK
    <3>3. ~(Available(purchase[target[c]]) < 1)
      BY <2>2 DEF EarlyRefundOutcome, OutcomeForPurchase, OutcomeForLiveRefund
    <3>4. Available(SnapshotOf(target[c]).row) >= 1
      BY <3>2, <3>3, AvailableType, GrantAssumption DEF SnapshotOf
    <3>. QED  BY <1>0, <2>2, <3>4 DEF RefundsReadCredits
  <2>. QED  BY <1>2, <2>1, <2>2 DEF BeginRefund
<1>3. ASSUME NEW c \in RefundCalls, Preflight(c) PROVE RefundsReadCredits'
  <2>1. CASE \E answer : Return(c, answer)
    BY <1>0, <1>1, <2>1
  <2>2. CASE pc' = [pc EXCEPT ![c] = "observe"] /\ UNCHANGED snapshot
    BY <1>0, <2>2 DEF RefundsReadCredits
  <2>. QED  BY <1>3, <2>1, <2>2 DEF Preflight
<1>4. ASSUME NEW c \in RefundCalls, ObserveProvider(c) \/ RefundUniqueConflict(c) \/ ReadRefundReceipt(c)
             \/ ReadRefundReplay(c) \/ CommitRefund(c)
      PROVE  RefundsReadCredits'
  <2>1. CASE \E answer : Return(c, answer)
    BY <1>0, <1>1, <2>1
  <2>2. CASE /\ \E step \in {"begin", "receipt", "replay"} : pc' = [pc EXCEPT ![c] = step]
             /\ \A d \in RefundCalls \ {c} : snapshot'[d] = snapshot[d]
    BY <1>0, <2>2 DEF RefundsReadCredits
  <2>. QED
    BY <1>0, <1>4, <2>1, <2>2
       DEF ObserveProvider, RefundUniqueConflict, ReadRefundReceipt, ReadRefundReplay, CommitRefund
<1>5. ASSUME NEW c \in ReactivateCalls, ReactivateStep(c) PROVE RefundsReadCredits'
  <2>1. c \in Calls /\ c \notin RefundCalls
    BY <1>0 DEF Calls
  <2>2. CASE \E answer : Return(c, answer)
    BY <1>1, <2>1, <2>2
  <2>3. CASE pc' = [pc EXCEPT ![c] = "commit"] /\ snapshot' = [snapshot EXCEPT ![c] = SnapshotOf(target[c])]
    BY <1>0, <2>1, <2>3 DEF RefundsReadCredits
  <2>. QED
    BY <1>5, <2>2, <2>3
       DEF ReactivateStep, BeginReactivation, CommitEmptyReactivation, CommitReactivation
<1>6. ASSUME NEW c \in Calls, RetryAfterConflict(c) \/ GiveUpAfterConflict(c) \/ Throw(c)
      PROVE  RefundsReadCredits'
  <2>1. CASE \E answer : Return(c, answer)
    BY <1>1, <2>1
  <2>2. CASE RetryAfterConflict(c)
    BY <1>0, <2>2 DEF RetryAfterConflict, RefundsReadCredits
  <2>. QED  BY <1>6, <2>1, <2>2 DEF GiveUpAfterConflict, Throw
<1>7. ASSUME Worker \/ UNCHANGED vars PROVE RefundsReadCredits'
  <2>1. UNCHANGED progress
    BY <1>7 DEF Worker, ActivatePurchase, ReserveCredit, ReleaseCredit, SpendCredit, WriteOffCredit,
       StartProviderAction, CompleteRefund, vars
  <2>. QED  BY <2>1 DEF RefundsReadCredits, progress
<1>. QED
  BY <1>2, <1>3, <1>4, <1>5, <1>6, <1>7 DEF Next, Call, RefundStep

Spendables == [p \in Purchases |-> SpendableOf(purchase[p])]
Helds == [p \in Purchases |-> HeldOf(purchase[p])]

(* A step that changes one row maps to the step of that purchase which moves  *)
(* its credits the same way.                                                  *)
LEMMA MappedStep ==
    ASSUME NEW p \in Purchases, NEW s, NEW h,
           Spendables' = [Spendables EXCEPT ![p] = s], Helds' = [Helds EXCEPT ![p] = h]
    PROVE  /\ /\ Spendables[p] = 0 /\ Helds[p] = 0 /\ s \in Nat \ {0} /\ h = 0
              /\ aggregate'.refunding = aggregate.refunding
              => Ledger!Award(p)
           /\ /\ Spendables[p] > 0 /\ Helds[p] = 0 /\ s = 0 /\ h = Spendables[p]
              /\ aggregate'.refunding = aggregate.refunding + Spendables[p]
              => Ledger!Hold(p)
           /\ /\ Spendables[p] = 0 /\ Helds[p] > 0 /\ s = Helds[p] /\ h = 0
              /\ aggregate'.refunding = aggregate.refunding - Helds[p]
              => Ledger!Unhold(p)
           /\ /\ Spendables[p] > 0 /\ s = Spendables[p] - 1 /\ h = Helds[p]
              /\ aggregate'.refunding = aggregate.refunding
              => Ledger!Take(p)
           /\ /\ Helds[p] = 0 /\ s = Spendables[p] + 1 /\ h = 0
              /\ aggregate'.refunding = aggregate.refunding
              => Ledger!GiveBackSpendable(p)
           /\ /\ Spendables[p] = 0 /\ s = 0 /\ h = Helds[p] + 1
              /\ aggregate'.refunding = aggregate.refunding + 1
              => Ledger!GiveBackHeld(p)
           /\ /\ Helds[p] > 0 /\ s = Spendables[p] /\ h = Helds[p] - 1
              /\ aggregate'.refunding = aggregate.refunding - 1
              => Ledger!WriteOff(p)
           /\ /\ Helds[p] > 0 /\ s = Spendables[p] /\ h = 0
              /\ aggregate'.refunding = aggregate.refunding - Helds[p]
              => Ledger!Settle(p)
           /\ /\ s = Spendables[p] /\ h = Helds[p]
              /\ aggregate'.refunding = aggregate.refunding
              => UNCHANGED Ledger!vars
<1> DEFINE S == [q \in Purchases |-> IF purchase[q].status = "ACTIVE" THEN Available(purchase[q]) ELSE 0]
           H == [q \in Purchases |-> IF purchase[q].status = "WITHDRAWN" THEN Available(purchase[q]) ELSE 0]
<1>1. S = Spendables /\ H = Helds
  BY DEF Spendables, Helds, SpendableOf, HeldOf
<1>2. S' = Spendables' /\ H' = Helds'
  BY DEF Spendables, Helds, SpendableOf, HeldOf
<1>3. S' = [S EXCEPT ![p] = s] /\ H' = [H EXCEPT ![p] = h]
  BY <1>1, <1>2
<1>4. S'[p] = s /\ H'[p] = h
  BY <1>3
<1>5. S = [S EXCEPT ![p] = S[p]] /\ H = [H EXCEPT ![p] = H[p]]
  OBVIOUS
<1>6. Spendables[p] = 0 /\ Helds[p] = 0 /\ s \in Nat \ {0} /\ h = 0
      /\ aggregate'.refunding = aggregate.refunding => Ledger!Award(p)
  BY <1>1, <1>3, <1>4, <1>5 DEF Ledger!Award
<1>7. Spendables[p] > 0 /\ Helds[p] = 0 /\ s = 0 /\ h = Spendables[p]
      /\ aggregate'.refunding = aggregate.refunding + Spendables[p] => Ledger!Hold(p)
  BY <1>1, <1>3 DEF Ledger!Hold
<1>8. Spendables[p] = 0 /\ Helds[p] > 0 /\ s = Helds[p] /\ h = 0
      /\ aggregate'.refunding = aggregate.refunding - Helds[p] => Ledger!Unhold(p)
  BY <1>1, <1>3 DEF Ledger!Unhold
<1>9. Spendables[p] > 0 /\ s = Spendables[p] - 1 /\ h = Helds[p]
      /\ aggregate'.refunding = aggregate.refunding => Ledger!Take(p)
  BY <1>1, <1>3, <1>5 DEF Ledger!Take
<1>10. Helds[p] = 0 /\ s = Spendables[p] + 1 /\ h = 0
       /\ aggregate'.refunding = aggregate.refunding => Ledger!GiveBackSpendable(p)
  BY <1>1, <1>3, <1>5 DEF Ledger!GiveBackSpendable
<1>11. Spendables[p] = 0 /\ s = 0 /\ h = Helds[p] + 1
       /\ aggregate'.refunding = aggregate.refunding + 1 => Ledger!GiveBackHeld(p)
  BY <1>1, <1>3, <1>5 DEF Ledger!GiveBackHeld
<1>12. Helds[p] > 0 /\ s = Spendables[p] /\ h = Helds[p] - 1
       /\ aggregate'.refunding = aggregate.refunding - 1 => Ledger!WriteOff(p)
  BY <1>1, <1>3, <1>5 DEF Ledger!WriteOff
<1>13. Helds[p] > 0 /\ s = Spendables[p] /\ h = 0
       /\ aggregate'.refunding = aggregate.refunding - Helds[p] => Ledger!Settle(p)
  BY <1>1, <1>3, <1>5 DEF Ledger!Settle
<1>14. s = Spendables[p] /\ h = Helds[p]
       /\ aggregate'.refunding = aggregate.refunding => UNCHANGED Ledger!vars
  BY <1>1, <1>3, <1>5 DEF Ledger!vars
<1>. QED  BY <1>6, <1>7, <1>8, <1>9, <1>10, <1>11, <1>12, <1>13, <1>14

(* The same, from the row that the step leaves.                               *)
LEMMA OneRowMapped ==
    ASSUME IndInv, IndInv', NEW p \in Purchases,
           \A q \in Purchases \ {p} : purchase'[q] = purchase[q]
    PROVE  /\ Spendables' = [Spendables EXCEPT ![p] = SpendableOf(purchase'[p])]
           /\ Helds' = [Helds EXCEPT ![p] = HeldOf(purchase'[p])]
           /\ Spendables[p] = SpendableOf(purchase[p]) /\ Helds[p] = HeldOf(purchase[p])
           /\ purchase[p] \in PurchaseRow /\ purchase[p].reserved <= purchase[p].current
           /\ purchase'[p] \in PurchaseRow /\ purchase'[p].reserved <= purchase'[p].current
BY DEF Spendables, Helds, IndInv, TypeOK, RowsTypeOK, ReservedWithinCurrent

(* Rows and their total unchanged: a stutter of the ledger.                   *)
LEMMA RowsUntouched ==
    ASSUME UNCHANGED <<purchase, aggregate>>
    PROVE  UNCHANGED Ledger!vars
BY DEF Ledger!vars, Available

(* A row that keeps its credits on their side: a stutter too.                 *)
LEMMA NothingMoves ==
    ASSUME IndInv, IndInv', NEW p \in Purchases,
           \A q \in Purchases \ {p} : purchase'[q] = purchase[q],
           SpendableOf(purchase'[p]) = SpendableOf(purchase[p]),
           HeldOf(purchase'[p]) = HeldOf(purchase[p]),
           aggregate'.refunding = aggregate.refunding
    PROVE  UNCHANGED Ledger!vars
BY OneRowMapped, MappedStep

(* The calls: a refund holds what it has read, a reactivation gives it back.  *)
LEMMA CallsMapped ==
    ASSUME LedgerInv, IndInv', NEW c \in Calls, Call(c) \/ Throw(c)
    PROVE  [Ledger!Next]_(Ledger!vars)
<1>0. RefundCalls \subseteq Calls /\ ReactivateCalls \subseteq Calls /\ IndInv
  BY DEF Calls, LedgerInv
<1>1. CASE c \in RefundCalls /\ CommitRefund(c)
  <2>1. PICK p \in Purchases : p = target[c]
    BY <1>1 DEF LedgerInv, IndInv, CallsOnTrack, CommitRefund
  <2>2. /\ purchase[p] \in PurchaseRow /\ purchase[p].reserved <= purchase[p].current
        /\ purchase \in [Purchases -> PurchaseRow] /\ aggregate \in AggregateRow
    BY <1>0 DEF IndInv, TypeOK, RowsTypeOK, ReservedWithinCurrent
  <2>3. purchase[p].status = "ACTIVE" /\ snapshot[c].row.current = purchase[p].current
        /\ snapshot[c].row.reserved = purchase[p].reserved
    BY <1>1, <2>1 DEF CommitRefund, PurchaseCas
  <2>4. Available(snapshot[c].row) = SpendableOf(purchase[p]) /\ SpendableOf(purchase[p]) >= 1
    BY <1>1, <2>3 DEF Available, SpendableOf, LedgerInv, RefundsReadCredits, CommitRefund
  <2>5. /\ purchase'[p].status = "WITHDRAWN" /\ purchase'[p].current = purchase[p].current
        /\ purchase'[p].reserved = purchase[p].reserved
        /\ \A q \in Purchases \ {p} : purchase'[q] = purchase[q]
    BY <1>1, <2>1, <2>2 DEF CommitRefund, SetPurchaseStatus, PurchaseRow
  <2>6. aggregate'.refunding = aggregate.refunding + SpendableOf(purchase[p])
    BY <1>1, <2>2, <2>4 DEF CommitRefund, AddToRefunding, AggregateRow
  <2>7. /\ HeldOf(purchase[p]) = 0 /\ SpendableOf(purchase'[p]) = 0
        /\ HeldOf(purchase'[p]) = SpendableOf(purchase[p]) /\ SpendableOf(purchase[p]) \in 0..Grant
    BY <1>0, <2>2, <2>3, <2>5, MappedRows, OneRowMapped DEF Available, HeldOf, SpendableOf
  <2>8. Ledger!Hold(p)
    BY <1>0, <2>4, <2>5, <2>6, <2>7, OneRowMapped, MappedStep, GrantAssumption
  <2>. QED  BY <2>8 DEF Ledger!Next
<1>2. CASE c \in ReactivateCalls /\ CommitEmptyReactivation(c)
  <2>1. PICK p \in Purchases : p = target[c]
    BY <1>2 DEF LedgerInv, IndInv, CallsOnTrack, CommitEmptyReactivation
  <2>2. purchase \in [Purchases -> PurchaseRow]
    BY <1>0 DEF IndInv, TypeOK, RowsTypeOK
  <2>3. /\ purchase[p].status = "WITHDRAWN" /\ purchase[p].current = 0 /\ purchase[p].reserved = 0
        /\ purchase'[p].status = "COMPLETED" /\ UNCHANGED aggregate
        /\ \A q \in Purchases \ {p} : purchase'[q] = purchase[q]
    BY <1>2, <2>1, <2>2 DEF CommitEmptyReactivation, PurchaseCas, SetPurchaseStatus, PurchaseRow
  <2>4. /\ HeldOf(purchase[p]) = 0 /\ SpendableOf(purchase[p]) = 0
        /\ HeldOf(purchase'[p]) = 0 /\ SpendableOf(purchase'[p]) = 0
    BY <2>3 DEF HeldOf, SpendableOf, Available
  <2>5. UNCHANGED Ledger!vars
    BY <1>0, <2>3, <2>4, NothingMoves
  <2>. QED  BY <2>5
<1>3. CASE c \in ReactivateCalls /\ CommitReactivation(c)
  <2>1. PICK p \in Purchases : p = target[c]
    BY <1>3 DEF LedgerInv, IndInv, CallsOnTrack, CommitReactivation
  <2>2. /\ purchase[p] \in PurchaseRow /\ purchase[p].reserved <= purchase[p].current
        /\ purchase \in [Purchases -> PurchaseRow] /\ aggregate \in AggregateRow
    BY <1>0 DEF IndInv, TypeOK, RowsTypeOK, ReservedWithinCurrent
  <2>3. purchase[p].status = "WITHDRAWN" /\ snapshot[c].row.current = purchase[p].current
        /\ snapshot[c].row.reserved = purchase[p].reserved
    BY <1>3, <2>1 DEF CommitReactivation, PurchaseCas
  <2>4. HeldAvailable(snapshot[c].row) = HeldOf(purchase[p])
    BY <2>3 DEF HeldAvailable, Available, HeldOf
  <2>5. /\ purchase'[p].status = "ACTIVE" /\ purchase'[p].current = purchase[p].current
        /\ purchase'[p].reserved = purchase[p].reserved
        /\ \A q \in Purchases \ {p} : purchase'[q] = purchase[q]
    BY <1>3, <2>1, <2>2 DEF CommitReactivation, SetPurchaseStatus, PurchaseRow
  <2>6. /\ HeldOf(purchase[p]) \in 0..Grant /\ SpendableOf(purchase[p]) = 0
        /\ HeldOf(purchase'[p]) = 0 /\ SpendableOf(purchase'[p]) = HeldOf(purchase[p])
    BY <1>0, <2>2, <2>3, <2>5, MappedRows, OneRowMapped DEF Available, HeldOf, SpendableOf
  <2>7. CASE HeldOf(purchase[p]) > 0
    <3>1. aggregate' = [aggregate EXCEPT !.refunding = @ + (-HeldAvailable(snapshot[c].row)), !.version = @ + 1]
      BY <1>3, <2>4, <2>7 DEF CommitReactivation, AddToRefunding
    <3>2. aggregate'.refunding = aggregate.refunding - HeldOf(purchase[p])
      BY <2>2, <2>4, <2>6, <3>1, GrantAssumption DEF AggregateRow
    <3>3. Ledger!Unhold(p)
      BY <1>0, <2>5, <2>6, <2>7, <3>2, OneRowMapped, MappedStep
    <3>. QED  BY <3>3 DEF Ledger!Next
  <2>8. CASE HeldOf(purchase[p]) = 0
    <3>1. UNCHANGED aggregate
      BY <1>3, <2>4, <2>8 DEF CommitReactivation
    <3>2. UNCHANGED Ledger!vars
      BY <1>0, <2>5, <2>6, <2>8, <3>1, NothingMoves
    <3>. QED  BY <3>2
  <2>. QED  BY <2>6, <2>7, <2>8, GrantAssumption
<1>4. CASE UNCHANGED <<purchase, aggregate>>
  BY <1>4, RowsUntouched
<1>. QED
  BY <1>1, <1>2, <1>3, <1>4
     DEF Call, Throw, RefundStep, ReactivateStep, Preflight, ObserveProvider, BeginRefund,
         RefundUniqueConflict, ReadRefundReceipt, ReadRefundReplay, BeginReactivation,
         RetryAfterConflict, GiveUpAfterConflict, rows

(* The workers: each moves the credits of one purchase, or none.              *)
LEMMA WorkersMapped ==
    ASSUME LedgerInv, IndInv', Worker
    PROVE  [Ledger!Next]_(Ledger!vars)
<1>0. /\ IndInv /\ Grant \in Nat \ {0} /\ purchase \in [Purchases -> PurchaseRow]
      /\ aggregate \in AggregateRow
  BY GrantAssumption DEF LedgerInv, IndInv, TypeOK, RowsTypeOK
<1>1. \A p \in Purchases : /\ purchase[p] \in PurchaseRow /\ purchase[p].reserved <= purchase[p].current
                           /\ purchase[p].current \in 0..Grant /\ purchase[p].reserved \in 0..Grant
  BY <1>0 DEF IndInv, ReservedWithinCurrent, PurchaseRow
<1>2. ASSUME NEW p \in Purchases, ActivatePurchase(p) PROVE Ledger!Next
  <2>1. /\ purchase[p].status = "REQUESTED" /\ purchase[p].reserved = 0
        /\ purchase'[p].status = "ACTIVE" /\ purchase'[p].current = Grant /\ purchase'[p].reserved = 0
        /\ \A q \in Purchases \ {p} : purchase'[q] = purchase[q]
        /\ aggregate'.refunding = aggregate.refunding
    BY <1>0, <1>2 DEF ActivatePurchase, LedgerInv, EmptyBeforeBought, PurchaseRow
  <2>2. /\ SpendableOf(purchase[p]) = 0 /\ HeldOf(purchase[p]) = 0
        /\ SpendableOf(purchase'[p]) = Grant /\ HeldOf(purchase'[p]) = 0
    BY <1>0, <2>1 DEF SpendableOf, HeldOf, Available
  <2>3. Ledger!Award(p)
    BY <1>0, <2>1, <2>2, OneRowMapped, MappedStep
  <2>. QED  BY <2>3 DEF Ledger!Next
<1>3. ASSUME NEW p \in Purchases, ReserveCredit(p) PROVE Ledger!Next
  <2>1. /\ purchase[p].status = "ACTIVE" /\ purchase[p].reserved < purchase[p].current
        /\ purchase'[p].status = "ACTIVE" /\ purchase'[p].current = purchase[p].current
        /\ purchase'[p].reserved = purchase[p].reserved + 1
        /\ \A q \in Purchases \ {p} : purchase'[q] = purchase[q]
        /\ aggregate'.refunding = aggregate.refunding
    BY <1>0, <1>3 DEF ReserveCredit, PurchaseRow, AggregateRow
  <2>2. /\ SpendableOf(purchase[p]) = purchase[p].current - purchase[p].reserved
        /\ SpendableOf(purchase'[p]) = purchase[p].current - purchase[p].reserved - 1
        /\ HeldOf(purchase[p]) = 0 /\ HeldOf(purchase'[p]) = 0
    BY <1>0, <1>1, <2>1 DEF SpendableOf, HeldOf, Available
  <2>3. SpendableOf(purchase[p]) > 0 /\ SpendableOf(purchase'[p]) = SpendableOf(purchase[p]) - 1
    BY <1>0, <1>1, <2>1, <2>2
  <2>4. Ledger!Take(p)
    BY <1>0, <2>1, <2>2, <2>3, OneRowMapped, MappedStep
  <2>. QED  BY <2>4 DEF Ledger!Next
<1>4. ASSUME NEW p \in Purchases, ReleaseCredit(p) PROVE [Ledger!Next]_(Ledger!vars)
  <2>1. /\ purchase[p].reserved > 0
        /\ purchase'[p].status = purchase[p].status /\ purchase'[p].current = purchase[p].current
        /\ purchase'[p].reserved = purchase[p].reserved - 1
        /\ \A q \in Purchases \ {p} : purchase'[q] = purchase[q]
        /\ aggregate'.refunding = IF purchase[p].status = "WITHDRAWN" THEN aggregate.refunding + 1
                                  ELSE aggregate.refunding
    BY <1>0, <1>4 DEF ReleaseCredit, PurchaseRow, AggregateRow
  <2>2. Available(purchase'[p]) = Available(purchase[p]) + 1
    BY <1>0, <1>1, <2>1 DEF Available
  <2>3. CASE purchase[p].status = "ACTIVE"
    <3>1. /\ SpendableOf(purchase'[p]) = SpendableOf(purchase[p]) + 1
          /\ HeldOf(purchase[p]) = 0 /\ HeldOf(purchase'[p]) = 0
      BY <2>1, <2>2, <2>3 DEF SpendableOf, HeldOf
    <3>2. Ledger!GiveBackSpendable(p)
      BY <1>0, <2>1, <2>3, <3>1, OneRowMapped, MappedStep
    <3>. QED  BY <3>2 DEF Ledger!Next
  <2>4. CASE purchase[p].status = "WITHDRAWN"
    <3>1. /\ HeldOf(purchase'[p]) = HeldOf(purchase[p]) + 1
          /\ SpendableOf(purchase[p]) = 0 /\ SpendableOf(purchase'[p]) = 0
      BY <2>1, <2>2, <2>4 DEF SpendableOf, HeldOf
    <3>2. Ledger!GiveBackHeld(p)
      BY <1>0, <2>1, <2>4, <3>1, OneRowMapped, MappedStep
    <3>. QED  BY <3>2 DEF Ledger!Next
  <2>5. CASE purchase[p].status \notin {"ACTIVE", "WITHDRAWN"}
    <3>1. /\ HeldOf(purchase'[p]) = 0 /\ HeldOf(purchase[p]) = 0
          /\ SpendableOf(purchase[p]) = 0 /\ SpendableOf(purchase'[p]) = 0
      BY <2>1, <2>5 DEF SpendableOf, HeldOf
    <3>2. UNCHANGED Ledger!vars
      BY <1>0, <2>1, <2>5, <3>1, NothingMoves
    <3>. QED  BY <3>2
  <2>. QED  BY <2>3, <2>4, <2>5
<1>5. ASSUME NEW p \in Purchases, SpendCredit(p) PROVE [Ledger!Next]_(Ledger!vars)
  <2>1. /\ purchase[p].reserved > 0
        /\ purchase'[p].current = purchase[p].current - 1
        /\ purchase'[p].reserved = purchase[p].reserved - 1
        /\ \/ purchase'[p].status = purchase[p].status
           \/ purchase[p].status = "ACTIVE" /\ purchase[p].current = 1 /\ purchase'[p].status = "COMPLETED"
        /\ \A q \in Purchases \ {p} : purchase'[q] = purchase[q]
        /\ aggregate'.refunding = aggregate.refunding
    BY <1>0, <1>5 DEF SpendCredit, PurchaseRow, AggregateRow
  <2>2. Available(purchase'[p]) = Available(purchase[p])
        /\ (purchase[p].current = 1 => Available(purchase[p]) = 0)
    BY <1>0, <1>1, <2>1 DEF Available
  <2>3. SpendableOf(purchase'[p]) = SpendableOf(purchase[p]) /\ HeldOf(purchase'[p]) = HeldOf(purchase[p])
    BY <2>1, <2>2 DEF SpendableOf, HeldOf
  <2>4. UNCHANGED Ledger!vars
    BY <1>0, <2>1, <2>3, NothingMoves
  <2>. QED  BY <2>4
<1>6. ASSUME NEW p \in Purchases, WriteOffCredit(p) PROVE Ledger!Next
  <2>1. /\ purchase[p].status = "WITHDRAWN" /\ purchase[p].reserved < purchase[p].current
        /\ purchase'[p].status = "WITHDRAWN" /\ purchase'[p].current = purchase[p].current - 1
        /\ purchase'[p].reserved = purchase[p].reserved
        /\ \A q \in Purchases \ {p} : purchase'[q] = purchase[q]
    BY <1>0, <1>6 DEF WriteOffCredit, PurchaseRow
  <2>2. aggregate'.refunding = aggregate.refunding - 1
    <3>1. aggregate' = [aggregate EXCEPT !.refunding = @ + (-1), !.version = @ + 1]
      BY <1>6 DEF WriteOffCredit, AddToRefunding
    <3>. QED  BY <1>0, <3>1 DEF AggregateRow
  <2>3. /\ HeldOf(purchase[p]) = purchase[p].current - purchase[p].reserved
        /\ HeldOf(purchase'[p]) = purchase[p].current - purchase[p].reserved - 1
        /\ SpendableOf(purchase[p]) = 0 /\ SpendableOf(purchase'[p]) = 0
    BY <1>0, <1>1, <2>1 DEF SpendableOf, HeldOf, Available
  <2>4. HeldOf(purchase[p]) > 0 /\ HeldOf(purchase'[p]) = HeldOf(purchase[p]) - 1
    BY <1>0, <1>1, <2>1, <2>3
  <2>5. Ledger!WriteOff(p)
    BY <1>0, <2>1, <2>2, <2>3, <2>4, OneRowMapped, MappedStep
  <2>. QED  BY <2>5 DEF Ledger!Next
<1>7. ASSUME NEW r \in RefundCalls, StartProviderAction(r) PROVE UNCHANGED Ledger!vars
  BY <1>7, RowsUntouched DEF StartProviderAction
<1>8. ASSUME NEW r \in RefundCalls, NEW p \in Purchases, CompleteRefund(r, p)
      PROVE  [Ledger!Next]_(Ledger!vars)
  <2>1. /\ purchase[p].status = "WITHDRAWN" /\ purchase[p].reserved = 0
        /\ purchase'[p].status = "REFUNDED"
        /\ \A q \in Purchases \ {p} : purchase'[q] = purchase[q]
    BY <1>0, <1>8 DEF CompleteRefund, PurchaseRow
  <2>2. aggregate'.refunding = aggregate.refunding - purchase[p].current
    <3>1. aggregate' = [aggregate EXCEPT !.refunding = @ + (-purchase[p].current), !.version = @ + 1]
      BY <1>8 DEF CompleteRefund, AddToRefunding
    <3>. QED  BY <1>0, <1>1, <3>1 DEF AggregateRow
  <2>3. /\ HeldOf(purchase[p]) = purchase[p].current /\ HeldOf(purchase'[p]) = 0
        /\ SpendableOf(purchase[p]) = 0 /\ SpendableOf(purchase'[p]) = 0
    BY <1>0, <1>1, <2>1 DEF SpendableOf, HeldOf, Available
  <2>4. CASE purchase[p].current > 0
    <3>1. Ledger!Settle(p)
      BY <1>0, <2>1, <2>2, <2>3, <2>4, OneRowMapped, MappedStep
    <3>. QED  BY <3>1 DEF Ledger!Next
  <2>5. CASE purchase[p].current = 0
    <3>1. aggregate'.refunding = aggregate.refunding
      BY <1>0, <2>2, <2>5 DEF AggregateRow
    <3>2. UNCHANGED Ledger!vars
      BY <1>0, <2>1, <2>3, <2>5, <3>1, NothingMoves
    <3>. QED  BY <3>2
  <2>. QED  BY <1>0, <1>1, <2>4, <2>5
<1>. QED  BY <1>2, <1>3, <1>4, <1>5, <1>6, <1>7, <1>8 DEF Worker

(* Nobody but the worker that activates a purchase moves it out of REQUESTED. *)
LEMMA EmptyKept ==
    ASSUME LedgerInv, IndInv', [Next]_vars
    PROVE  EmptyBeforeBought'
<1>0. purchase \in [Purchases -> PurchaseRow] /\ IndInv /\ EmptyBeforeBought
  BY DEF LedgerInv, IndInv, TypeOK, RowsTypeOK
<1>1. ASSUME \A p \in Purchases : purchase'[p].status = "REQUESTED" => purchase'[p] = purchase[p]
      PROVE  EmptyBeforeBought'
  BY <1>0, <1>1 DEF EmptyBeforeBought
<1>2. ASSUME NEW p \in Purchases, NEW status \in PurchaseStatus \ {"REQUESTED"},
             SetPurchaseStatus(p, status)
      PROVE  EmptyBeforeBought'
  BY <1>0, <1>1, <1>2 DEF SetPurchaseStatus, PurchaseRow
<1>3. ASSUME NEW c \in Calls, Call(c) \/ Throw(c) PROVE EmptyBeforeBought'
  <2>1. CASE UNCHANGED rows
    BY <1>1, <2>1 DEF rows
  <2>2. CASE \/ c \in RefundCalls /\ CommitRefund(c)
             \/ c \in ReactivateCalls /\ (CommitEmptyReactivation(c) \/ CommitReactivation(c))
    <3>1. target[c] \in Purchases
      BY <1>0, <2>2 DEF IndInv, CallsOnTrack, CommitRefund, CommitEmptyReactivation, CommitReactivation
    <3>. QED
      BY <1>2, <2>2, <3>1 DEF CommitRefund, CommitEmptyReactivation, CommitReactivation, PurchaseStatus
  <2>. QED
    BY <1>3, <2>1, <2>2
       DEF Call, Throw, RefundStep, ReactivateStep, Preflight, ObserveProvider, BeginRefund,
           RefundUniqueConflict, ReadRefundReceipt, ReadRefundReplay, BeginReactivation,
           RetryAfterConflict, GiveUpAfterConflict
<1>4. ASSUME NEW p \in Purchases,
             ReserveCredit(p) \/ WriteOffCredit(p) \/ ActivatePurchase(p)
      PROVE  EmptyBeforeBought'
  BY <1>0, <1>1, <1>4 DEF ReserveCredit, WriteOffCredit, ActivatePurchase, PurchaseRow
<1>5. ASSUME NEW p \in Purchases, ReleaseCredit(p) \/ SpendCredit(p) PROVE EmptyBeforeBought'
  <2>1. purchase[p].status # "REQUESTED"
    BY <1>0, <1>5 DEF EmptyBeforeBought, ReleaseCredit, SpendCredit
  <2>. QED  BY <1>0, <1>1, <1>5, <2>1 DEF ReleaseCredit, SpendCredit, PurchaseRow
<1>6. ASSUME NEW r \in RefundCalls, NEW p \in Purchases, CompleteRefund(r, p) PROVE EmptyBeforeBought'
  BY <1>0, <1>1, <1>6 DEF CompleteRefund, PurchaseRow
<1>7. ASSUME (\E r \in RefundCalls : StartProviderAction(r)) \/ UNCHANGED vars PROVE EmptyBeforeBought'
  BY <1>1, <1>7 DEF StartProviderAction, vars, rows
<1>. QED  BY <1>3, <1>4, <1>5, <1>6, <1>7 DEF Next, Worker

(* Refunds and reactivations implement the credit hold: credits change sides  *)
(* all together, and the shop's total moves in the same step.                 *)
THEOREM RefundsImplementHold == Spec => HoldLedger
<1>1. Init => LedgerInv
  <2> SUFFICES ASSUME Init PROVE LedgerInv
    OBVIOUS
  <2>1. \A p \in Purchases : purchase[p].current = 0 /\ purchase[p].reserved = 0
    BY DEF Init
  <2>2. \A c \in RefundCalls : pc[c] = "preflight"
    BY DEF Init, Calls
  <2>. QED  BY <2>1, <2>2, InitIndInv DEF LedgerInv, EmptyBeforeBought, RefundsReadCredits
<1>2. LedgerInv /\ [Next]_vars => LedgerInv' /\ [Ledger!Next]_(Ledger!vars)
  <2> SUFFICES ASSUME LedgerInv, [Next]_vars PROVE LedgerInv' /\ [Ledger!Next]_(Ledger!vars)
    OBVIOUS
  <2>1. IndInv'
    BY NextIndInv DEF LedgerInv
  <2>2. LedgerInv'
    BY <2>1, SnapshotsKept, EmptyKept DEF LedgerInv
  <2>3. [Ledger!Next]_(Ledger!vars)
    <3>1. CASE UNCHANGED vars
      BY <3>1, RowsUntouched DEF vars, rows
    <3>. QED  BY <2>1, <3>1, CallsMapped, WorkersMapped DEF Next
  <2>. QED  BY <2>2, <2>3
<1>3. Init => Ledger!Init
  BY DEF Init, Ledger!Init, Available
<1>. QED  BY <1>1, <1>2, <1>3, PTL DEF Spec, HoldLedger, Ledger!Spec

-----------------------------------------------------------------------------
(* Proofs about PurchaseRequest, for any number of requests, ids, offers,    *)
(* plans, catalogue entries, cycles and moves.  A request carries what it has*)
(* read to its transaction, which compares it only with the row and the      *)
(* clock; so the invariant says what a second look is worth later on: while  *)
(* the subscription has not moved the plan and the cycle stand, and the meter*)
(* has gone forward at most, and only by packs counted since.                *)

Steps == {"idle", "receipt", "context", "observe", "catalogue", "revalidate", "reread", "commit"}

Readings == [plan : Plans, cycle : Cycles, used : Nat \cup {NoReading}, metered : BOOLEAN]

Looks == [moves : 0..MaxMoves, packs : SUBSET Ids]

Requests ==
  [at : Steps \ {"idle"}, id : Ids, offer : Offers, period : Cycles, plan : Plans,
   seen : Readings, entry : Versions, look : Looks]

Subscriptions ==
  [plan : Plans, cycle : Cycles, frozen : BOOLEAN, metered : BOOLEAN,
   used : [Offers -> Nat \cup {NoReading}], moves : 0..MaxMoves]

WorldOK ==
  /\ now \in 0..MaxTime
  /\ shopify \in Subscriptions
  /\ row \in [plan : Plans, cycle : Cycles, live : BOOLEAN]
  /\ catalogue \in [Offers -> Versions]

PackOK(p) ==
  /\ p \in [id : Ids, offer : Offers, plan : Plans, cycle : Cycles, context : {p.context}, before : Nat,
            credits : {p.credits}, event : {p.event}, quote : 1..MaxSafe,
            status : {"REQUESTED", "ACTIVE"}, reported : BOOLEAN, look : Looks]
  /\ [credits |-> p.credits, event |-> p.event] \in Versions
  /\ p.context = [plan |-> p.plan, cycle |-> p.cycle]

(* Two packs share neither an id nor, while they wait, an offer.              *)
PacksOK ==
  /\ \A p \in purchases : PackOK(p)
  /\ \A p, q \in purchases : p.id = q.id => p = q
  /\ \A p, q \in purchases :
       p.offer = q.offer /\ p.status = "REQUESTED" /\ q.status = "REQUESTED" => p = q

(* Where a pack is on the meter that has not moved since: it is not counted   *)
(* before the meter has shown the unit after its own.                         *)
OnMeter(p) ==
  /\ p.look.moves <= shopify.moves
  /\ p.look.moves = shopify.moves =>
       /\ p.before <= shopify.used[p.offer]
       /\ p.reported => p.before + Parts <= shopify.used[p.offer]

(* The packs counted at a look come a whole unit before what it has seen.     *)
InTurn(offer, look, before) ==
  /\ look.packs \subseteq Counted(offer)
  /\ \A q \in purchases : q.id \in look.packs /\ q.look.moves = look.moves => q.before + Parts <= before

MeterOK == \A p \in purchases : OnMeter(p) /\ InTurn(p.offer, p.look, p.before)

(* What a second look is worth once time has passed.                          *)
Worth(call) ==
  /\ call.look.moves <= shopify.moves
  /\ InTurn(call.offer, call.look, call.seen.used)
  /\ call.look.moves = shopify.moves =>
       /\ call.seen.plan = shopify.plan /\ call.seen.cycle = shopify.cycle
       /\ call.seen.used <= shopify.used[call.offer]
       /\ call.look.packs = Counted(call.offer) => call.seen.used = shopify.used[call.offer]

CallOK(call) ==
  \/ call = Idle
  \/ /\ call \in Requests
     /\ call.at \in {"revalidate", "reread", "commit"} => call.seen.used \in Nat
     /\ call.at \in {"reread", "commit"} => Worth(call)

CallsOK == DOMAIN calls = Callers /\ \A c \in Callers : CallOK(calls[c])

IInv == WorldOK /\ PacksOK /\ MeterOK /\ CallsOK

-----------------------------------------------------------------------------
(* A quote is a safe positive amount, or none.                                *)
LEMMA QuoteTyped ==
  ASSUME NEW e, NEW before
  PROVE  Quote(e, before) = NoAmount \/ Quote(e, before) \in 1..MaxSafe
BY DEF Quote

LEMMA IdleIsIdle == \A call \in Requests : call # Idle
<1> SUFFICES ASSUME NEW call \in Requests, call = Idle PROVE FALSE
  OBVIOUS
<1>1. call.at = "idle"
  BY DEF Idle
<1>2. call.at # "idle"
  BY DEF Requests
<1> QED  BY <1>1, <1>2

(* A plan, a cycle and an entry exist to begin with.                          *)
LEMMA NothingRead == NoEvidence \in Readings
<1>1. (CHOOSE p \in Plans : TRUE) \in Plans
  BY SomethingIsSold
<1>2. (CHOOSE k \in Cycles : TRUE) \in Cycles
  BY ClockAssumption
<1> QED  BY <1>1, <1>2 DEF NoEvidence, Readings

LEMMA RequestTyped ==
  ASSUME NEW id \in Ids, NEW offer \in Offers
  PROVE  Request(id, offer) \in Requests /\ Request(id, offer).at = "receipt"
<1>1. (CHOOSE v \in Versions : TRUE) \in Versions
  BY SomethingIsSold
<1>2. NoEvidence.cycle \in Cycles /\ NoEvidence.plan \in Plans
  BY NothingRead DEF Readings
<1>3. NoLook \in Looks
  BY ClockAssumption DEF NoLook, Looks
<1> QED  BY <1>1, <1>2, <1>3, NothingRead DEF Request, Requests, Steps

LEMMA InitialIInv == PackInit => IInv
<1> SUFFICES ASSUME PackInit PROVE IInv
  OBVIOUS
<1>1. PICK plan \in Plans, cycle \in Cycles :
        /\ shopify = [plan |-> plan, cycle |-> cycle, frozen |-> FALSE, metered |-> TRUE,
                      used |-> [o \in Offers |-> 0], moves |-> 0]
        /\ row = [plan |-> plan, cycle |-> cycle, live |-> TRUE]
  BY DEF PackInit
<1>2. 0 \in 0..MaxMoves /\ now \in 0..MaxTime
  BY ClockAssumption DEF PackInit
<1>3. [o \in Offers |-> 0] \in [Offers -> Nat \cup {NoReading}]
  OBVIOUS
<1>4. WorldOK
  BY <1>1, <1>2, <1>3 DEF PackInit, WorldOK, Subscriptions
<1>5. PacksOK /\ MeterOK
  BY DEF PackInit, PacksOK, MeterOK
<1>6. CallsOK
  BY DEF PackInit, CallsOK, CallOK
<1> QED  BY <1>4, <1>5, <1>6 DEF IInv

-----------------------------------------------------------------------------
(* A step that only moves one request on.                                     *)
LEMMA CallsKept ==
  ASSUME IInv, NEW c \in Callers, NEW next, CallOK(next), Goes(c, next),
         UNCHANGED <<now, shopify, row, catalogue, purchases>>
  PROVE  IInv'
<1>1. DOMAIN calls' = Callers /\ \A d \in Callers : calls'[d] = IF d = c THEN next ELSE calls[d]
  BY DEF Goes, IInv, CallsOK
<1>2. \A d \in Callers : CallOK(calls'[d])
  BY <1>1 DEF IInv, CallsOK
<1>3. CallsOK'
  BY <1>1, <1>2 DEF CallsOK, CallOK, Worth, InTurn, Counted
<1>4. WorldOK' /\ PacksOK'
  BY DEF IInv, WorldOK, PacksOK, PackOK
<1>5. MeterOK'
  BY DEF IInv, MeterOK, OnMeter, InTurn, Counted
<1> QED  BY <1>3, <1>4, <1>5 DEF IInv

LEMMA EndsKept ==
  ASSUME IInv, NEW c \in Callers, Ends(c), UNCHANGED <<now, shopify, row, catalogue, purchases>>
  PROVE  IInv'
<1>1. CallOK(Idle) /\ Goes(c, Idle)
  BY DEF CallOK, Ends
<1> QED  BY <1>1, CallsKept

(* A request that is not idle is a request.                                   *)
LEMMA Running ==
  ASSUME IInv, NEW c \in Callers, NEW step \in Steps \ {"idle"}, At(c, step)
  PROVE  /\ calls[c] \in Requests
         /\ step \in {"revalidate", "reread", "commit"} => calls[c].seen.used \in Nat
         /\ step \in {"reread", "commit"} => Worth(calls[c])
<1>1. calls[c] # Idle /\ calls[c].at = step
  BY DEF At, Idle, Steps
<1> QED  BY <1>1 DEF IInv, CallsOK, CallOK

LEMMA EvidenceTyped ==
  ASSUME WorldOK, NEW offer \in Offers
  PROVE  Evidence(offer) \in Readings
<1>1. /\ shopify.used[offer] \in Nat \cup {NoReading} /\ shopify.cycle \in Cycles
      /\ shopify.plan \in Plans /\ shopify.metered \in BOOLEAN
  BY DEF WorldOK, Subscriptions
<1> QED  BY <1>1 DEF Evidence, Readings

(* A second look, as it is taken, is worth what it shows.                     *)
LEMMA LookTyped ==
  ASSUME IInv, NEW offer \in Offers
  PROVE  LET look == [moves |-> shopify.moves, packs |-> Counted(offer)]
         IN look \in Looks /\ InTurn(offer, look, shopify.used[offer])
<1> DEFINE look == [moves |-> shopify.moves, packs |-> Counted(offer)]
<1>1. \A p \in purchases : p.id \in Ids
  BY DEF IInv, PacksOK, PackOK
<1>2. look \in Looks
  BY <1>1 DEF Counted, Looks, IInv, WorldOK, Subscriptions
<1>3. ASSUME NEW q \in purchases, q.id \in Counted(offer), q.look.moves = shopify.moves
      PROVE  q.before + Parts <= shopify.used[offer]
  <2>1. PICK r \in purchases : r.id = q.id /\ r.offer = offer /\ r.reported
    BY <1>3 DEF Counted
  <2>2. r = q
    BY <2>1 DEF IInv, PacksOK
  <2> QED  BY <1>3, <2>1, <2>2 DEF IInv, MeterOK, OnMeter
<1> QED  BY <1>2, <1>3 DEF InTurn

(* The entry read last has the credits of the first one, so they are one.     *)
LEMMA EntriesMerge ==
  ASSUME NEW first \in Versions, NEW last \in Versions, first.credits = last.credits
  PROVE  [first EXCEPT !.event = last.event] = last
<1>1. first = [credits |-> first.credits, event |-> first.event]
  BY EntriesAreEntries
<1>2. last = [credits |-> last.credits, event |-> last.event]
  BY EntriesAreEntries
<1> QED  BY <1>1, <1>2

LEMMA RevalidateKeeps ==
  ASSUME IInv, NEW c \in Callers, Revalidate(c)
  PROVE  IInv'
<1> DEFINE call == calls[c]
           look == [moves |-> shopify.moves, packs |-> Counted(call.offer)]
           next == [call EXCEPT !.at = "reread", !.look = look]
<1>1. call \in Requests /\ call.seen.used \in Nat
  BY Running DEF Revalidate, Steps
<1>2. call.offer \in Offers
  BY <1>1 DEF Requests
<1>3. look \in Looks /\ InTurn(call.offer, look, shopify.used[call.offer])
  BY <1>2, LookTyped
<1>4. look.moves = shopify.moves /\ look.packs = Counted(call.offer)
  OBVIOUS
<1> HIDE DEF look
<1>5. /\ next \in Requests /\ next.at = "reread" /\ next.offer = call.offer
      /\ next.seen = call.seen /\ next.look = look
  BY <1>1, <1>3 DEF Requests, Steps
<1>6. Ends(c) \/ (Goes(c, next) /\ call.seen = Evidence(call.offer))
  BY DEF Revalidate, sameRecoveryCreditProviderEvidence, look
<1> HIDE DEF next, call
<1>7. CASE Ends(c)
  BY <1>7, EndsKept DEF Revalidate
<1>8. CASE Goes(c, next) /\ call.seen = Evidence(call.offer)
  <2>1. /\ call.seen.plan = shopify.plan /\ call.seen.cycle = shopify.cycle
        /\ call.seen.used = shopify.used[call.offer]
    BY <1>8 DEF Evidence
  <2>2. shopify.moves \in Int
    BY DEF IInv, WorldOK, Subscriptions
  <2>3. next.seen.used <= shopify.used[next.offer]
    BY <1>1, <1>5, <2>1
  <2>4. Worth(next)
    BY <1>3, <1>4, <1>5, <2>1, <2>2, <2>3 DEF Worth
  <2>5. CallOK(next)
    BY <1>1, <1>5, <2>4 DEF CallOK
  <2> QED  BY <1>8, <2>5, CallsKept DEF Revalidate
<1> QED  BY <1>6, <1>7, <1>8

LEMMA RereadKeeps ==
  ASSUME IInv, NEW c \in Callers, Reread(c)
  PROVE  IInv'
<1>1. calls[c] \in Requests /\ calls[c].seen.used \in Nat /\ Worth(calls[c])
  BY Running DEF Reread, Steps
<1> DEFINE current == readMerchantPricingPlan(calls[c].offer)
           next == [calls[c] EXCEPT !.at = "commit", !.entry.event = current.event]
<1>2. current \in Versions
  BY <1>1 DEF Requests, readMerchantPricingPlan, IInv, WorldOK
<1> HIDE DEF current
<1>3. CASE current.credits = calls[c].entry.credits
  <2>1. [calls[c].entry EXCEPT !.event = current.event] = current
    BY <1>1, <1>2, <1>3, EntriesMerge DEF Requests
  <2>2. next = [calls[c] EXCEPT !.at = "commit", !.entry = current]
    BY <2>1
  <2>3. /\ next \in Requests /\ next.offer = calls[c].offer /\ next.seen = calls[c].seen
        /\ next.look = calls[c].look
    BY <1>1, <1>2, <2>2 DEF Requests, Steps
  <2> HIDE DEF next
  <2>4. Worth(next)
    BY <1>1, <2>3 DEF Worth
  <2>5. CallOK(next)
    BY <1>1, <2>3, <2>4 DEF CallOK
  <2>6. Goes(c, next)
    BY <1>3 DEF Reread, next, current
  <2> QED  BY <2>5, <2>6, CallsKept DEF Reread
<1>4. CASE current.credits # calls[c].entry.credits
  BY <1>4, EndsKept DEF Reread, current
<1> QED  BY <1>3, <1>4

LEMMA StepsKeep ==
  ASSUME IInv, NEW c \in Callers,
         \/ \E id \in Ids, o \in Offers : Submit(c, id, o)
         \/ ReadReceipt(c) \/ ReadContext(c) \/ Observe(c) \/ ReadCatalogue(c) \/ Fail(c)
  PROVE  IInv'
<1>1. CASE \E id \in Ids, o \in Offers : Submit(c, id, o)
  <2>1. PICK id \in Ids, o \in Offers : Submit(c, id, o)
    BY <1>1
  <2>2. CallOK(Request(id, o))
    BY RequestTyped DEF CallOK
  <2> QED  BY <2>1, <2>2, CallsKept DEF Submit
<1>2. CASE ReadReceipt(c)
  <2>1. calls[c] \in Requests
    BY <1>2, Running DEF ReadReceipt, Steps
  <2> DEFINE next == [calls[c] EXCEPT !.at = "context"]
  <2>2. next \in Requests /\ next.at = "context"
    BY <2>1 DEF Requests, Steps
  <2> HIDE DEF next
  <2>3. CallOK(next)
    BY <2>2 DEF CallOK
  <2>4. Ends(c) \/ Goes(c, next)
    BY <1>2 DEF ReadReceipt, next
  <2> QED  BY <1>2, <2>3, <2>4, CallsKept, EndsKept DEF ReadReceipt
<1>3. CASE ReadContext(c)
  <2>1. calls[c] \in Requests
    BY <1>3, Running DEF ReadContext, Steps
  <2>2. row.cycle \in Cycles /\ row.plan \in Plans
    BY DEF IInv, WorldOK
  <2> DEFINE next == [calls[c] EXCEPT !.at = "observe", !.period = row.cycle, !.plan = row.plan]
  <2>3. next \in Requests /\ next.at = "observe"
    BY <2>1, <2>2 DEF Requests, Steps
  <2> HIDE DEF next
  <2>4. CallOK(next)
    BY <2>3 DEF CallOK
  <2>5. Ends(c) \/ Goes(c, next)
    BY <1>3 DEF ReadContext, next
  <2> QED  BY <1>3, <2>4, <2>5, CallsKept, EndsKept DEF ReadContext
<1>4. CASE Observe(c)
  <2>1. calls[c] \in Requests
    BY <1>4, Running DEF Observe, Steps
  <2> DEFINE e == Evidence(calls[c].offer)
             next == [calls[c] EXCEPT !.at = "catalogue", !.seen = e]
  <2>2. e \in Readings
    BY <2>1, EvidenceTyped DEF Requests, IInv
  <2> HIDE DEF e
  <2>3. next \in Requests /\ next.at = "catalogue"
    BY <2>1, <2>2 DEF Requests, Steps
  <2> HIDE DEF next
  <2>4. CallOK(next)
    BY <2>3 DEF CallOK
  <2>5. Ends(c) \/ Goes(c, next)
    BY <1>4 DEF Observe, next, e
  <2> QED  BY <1>4, <2>4, <2>5, CallsKept, EndsKept DEF Observe
<1>5. CASE ReadCatalogue(c)
  <2>1. calls[c] \in Requests
    BY <1>5, Running DEF ReadCatalogue, Steps
  <2> DEFINE entry == readMerchantPricingPlan(calls[c].offer)
             next == [calls[c] EXCEPT !.at = "revalidate", !.entry = entry]
  <2>2. entry \in Versions
    BY <2>1 DEF Requests, readMerchantPricingPlan, IInv, WorldOK
  <2> HIDE DEF entry
  <2>3. next \in Requests /\ next.at = "revalidate" /\ next.seen = calls[c].seen
    BY <2>1, <2>2 DEF Requests, Steps
  <2> HIDE DEF next
  <2>4. Ends(c) \/ (Goes(c, next) /\ calls[c].seen.used # NoReading)
    BY <1>5 DEF ReadCatalogue, next, entry
  <2>5. ASSUME calls[c].seen.used # NoReading PROVE CallOK(next)
    <3>1. calls[c].seen.used \in Nat
      BY <2>1, <2>5 DEF Requests, Readings
    <3> QED  BY <2>3, <3>1 DEF CallOK
  <2> QED  BY <1>5, <2>4, <2>5, CallsKept, EndsKept DEF ReadCatalogue
<1>6. CASE Fail(c)
  BY <1>6, EndsKept DEF Fail
<1> QED  BY <1>1, <1>2, <1>3, <1>4, <1>5, <1>6

-----------------------------------------------------------------------------
(* What the transaction writes, and what it knows of the present.             *)
LEMMA CommitWrites ==
  ASSUME IInv, NEW c \in Callers, At(c, "commit"), StillBuyable(calls[c]),
         Purchase(calls[c]).quote # NoAmount
  PROVE  LET p == Purchase(calls[c])
         IN /\ PackOK(p) /\ p.status = "REQUESTED" /\ p.reported = FALSE
            /\ p.id = calls[c].id /\ p.offer = calls[c].offer
            /\ p.before = calls[c].seen.used /\ p.look = calls[c].look
            /\ Phase(p.cycle) = "ACTIVE" /\ p.quote = Quote(p.event, p.before)
            /\ p.plan = calls[c].seen.plan /\ p.cycle = calls[c].seen.cycle
<1> DEFINE call == calls[c]
           p == Purchase(call)
<1>1. call \in Requests /\ call.seen.used \in Nat
  BY Running DEF Steps
<1>2. Phase(call.seen.cycle) = "ACTIVE" /\ row.plan = call.seen.plan /\ row.cycle = call.seen.cycle
  BY DEF StillBuyable
<1>3. /\ p.id = call.id /\ p.offer = call.offer /\ p.plan = row.plan /\ p.cycle = row.cycle
      /\ p.context = [plan |-> call.seen.plan, cycle |-> call.seen.cycle]
      /\ p.before = call.seen.used /\ p.credits = call.entry.credits /\ p.event = call.entry.event
      /\ p.quote = Quote(call.entry.event, call.seen.used)
      /\ p.status = "REQUESTED" /\ p.reported = FALSE /\ p.look = call.look
  BY DEF Purchase
<1>4. p.quote \in 1..MaxSafe
  BY <1>3, QuoteTyped
<1>5. p \in [id : {p.id}, offer : {p.offer}, plan : {p.plan}, cycle : {p.cycle}, context : {p.context},
             before : {p.before}, credits : {p.credits}, event : {p.event}, quote : {p.quote},
             status : {p.status}, reported : {p.reported}, look : {p.look}]
  BY DEF Purchase
<1>6. [credits |-> p.credits, event |-> p.event] = call.entry
  BY <1>1, <1>3, EntriesAreEntries DEF Requests
<1>7. call.entry \in Versions /\ call.id \in Ids /\ call.offer \in Offers /\ call.look \in Looks
  BY <1>1 DEF Requests
<1>8. row.plan \in Plans /\ row.cycle \in Cycles
  BY DEF IInv, WorldOK
<1>9. p.context = [plan |-> p.plan, cycle |-> p.cycle]
  BY <1>2, <1>3
<1> HIDE DEF p, call
<1>10. PackOK(p)
  BY <1>1, <1>3, <1>4, <1>5, <1>6, <1>7, <1>8, <1>9 DEF PackOK
<1> QED  BY <1>2, <1>3, <1>10 DEF p, call

LEMMA CommitKeeps ==
  ASSUME IInv, NEW c \in Callers, Commit(c)
  PROVE  IInv'
<1> DEFINE p == Purchase(calls[c])
<1>1. CASE purchases' = purchases
  BY <1>1, EndsKept DEF Commit
<1>2. CASE purchases' = purchases \cup {p} /\ ~Bought(calls[c].id)
           /\ StillBuyable(calls[c]) /\ p.quote # NoAmount
  <2>1. /\ PackOK(p) /\ p.id = calls[c].id /\ p.offer = calls[c].offer /\ p.reported = FALSE
        /\ p.before = calls[c].seen.used /\ p.look = calls[c].look
    BY <1>2, CommitWrites DEF Commit
  <2>2. \A q \in purchases : q.id # p.id
    BY <1>2, <2>1 DEF Bought
  <2>3. \A q \in purchases : ~(q.offer = p.offer /\ q.status = "REQUESTED")
    BY <1>2, <2>1 DEF StillBuyable, Unresolved
  <2>4. Worth(calls[c])
    BY Running DEF Commit, Steps
  <2> HIDE DEF p
  <2>5. PacksOK'
    <3>1. \A q \in purchases' : PackOK(q)
      BY <1>2, <2>1 DEF IInv, PacksOK
    <3>2. \A q, r \in purchases' : q.id = r.id => q = r
      BY <1>2, <2>2 DEF IInv, PacksOK
    <3>3. \A q, r \in purchases' :
            q.offer = r.offer /\ q.status = "REQUESTED" /\ r.status = "REQUESTED" => q = r
      BY <1>2, <2>3 DEF IInv, PacksOK
    <3> QED  BY <3>1, <3>2, <3>3 DEF PacksOK, PackOK
  <2>6. \A o : Counted(o)' = Counted(o)
    BY <1>2, <2>1 DEF Counted
  <2>7. \A o : p.id \notin Counted(o)
    BY <2>2 DEF Counted
  <2>8. ASSUME NEW o, NEW look, NEW before, InTurn(o, look, before)
        PROVE  InTurn(o, look, before)'
    <3>1. look.packs \subseteq Counted(o)
      BY <2>8 DEF InTurn
    <3>2. p.id \notin look.packs
      BY <2>7, <3>1
    <3> QED  BY <1>2, <2>6, <2>8, <3>1, <3>2 DEF InTurn
  <2>9. UNCHANGED <<now, shopify, row, catalogue>>
    BY DEF Commit
  <2>10. MeterOK'
    <3>1. OnMeter(p) /\ InTurn(p.offer, p.look, p.before)
      BY <2>1, <2>4 DEF Worth, OnMeter
    <3>2. \A q \in purchases' : OnMeter(q) /\ InTurn(q.offer, q.look, q.before)
      BY <1>2, <3>1 DEF IInv, MeterOK
    <3>3. \A q \in purchases' : OnMeter(q)'
      BY <2>9, <3>2 DEF OnMeter
    <3>4. \A q \in purchases' : InTurn(q.offer, q.look, q.before)'
      <4>1. TAKE q \in purchases'
      <4>2. InTurn(q.offer, q.look, q.before)
        BY <3>2
      <4> QED  BY <1>2, <2>6, <2>7, <4>2 DEF InTurn
    <3> QED  BY <3>3, <3>4 DEF MeterOK, OnMeter, InTurn
  <2>11. DOMAIN calls' = Callers /\ \A d \in Callers : calls'[d] = IF d = c THEN Idle ELSE calls[d]
    BY DEF Commit, Ends, Goes, IInv, CallsOK
  <2>12. CallsOK'
    <3>1. SUFFICES ASSUME NEW d \in Callers, d # c PROVE CallOK(calls[d])'
      BY <2>11 DEF CallsOK, CallOK
    <3> DEFINE call == calls[d]
    <3>2. CallOK(call) /\ call' = call
      BY <2>11, <3>1 DEF IInv, CallsOK
    <3> HIDE DEF call
    <3>3. ASSUME Worth(call) PROVE Worth(call)'
      <4>1. InTurn(call.offer, call.look, call.seen.used)
        BY <3>3 DEF Worth
      <4>2. InTurn(call.offer, call.look, call.seen.used)'
        <5>1. InTurn(call.offer, call.look, call.seen.used) => call.look.packs \subseteq Counted(call.offer)
          BY DEF InTurn
        <5>2. p.id \notin call.look.packs
          BY <2>7, <4>1, <5>1
        <5> QED  BY <1>2, <2>6, <3>2, <4>1, <5>2 DEF InTurn
      <4> QED  BY <2>6, <2>9, <3>2, <3>3, <4>2 DEF Worth
    <3>4. CallOK(call)'
      BY <3>2, <3>3 DEF CallOK
    <3> QED  BY <3>4 DEF call
  <2>13. WorldOK'
    BY <2>9 DEF IInv, WorldOK
  <2> QED  BY <2>5, <2>10, <2>12, <2>13 DEF IInv
<1> QED  BY <1>1, <1>2 DEF Commit

-----------------------------------------------------------------------------
(* The worker rewrites one pack, which keeps its id, offer, reading and look. *)
LEMMA PackReplaced ==
  ASSUME PacksOK, NEW p \in purchases, NEW new, PackOK(new),
         new.id = p.id, new.offer = p.offer, new.status = "REQUESTED" => p.status = "REQUESTED",
         purchases' = (purchases \ {p}) \cup {new}
  PROVE  PacksOK'
<1>1. \A q \in purchases' : PackOK(q)
  BY DEF PacksOK
<1>2. \A q, r \in purchases' : q.id = r.id => q = r
  BY DEF PacksOK
<1>3. \A q, r \in purchases' :
        q.offer = r.offer /\ q.status = "REQUESTED" /\ r.status = "REQUESTED" => q = r
  BY DEF PacksOK
<1> QED  BY <1>1, <1>2, <1>3 DEF PacksOK, PackOK

LEMMA PackFields ==
  ASSUME NEW p, PackOK(p)
  PROVE  /\ LET new == [p EXCEPT !.reported = TRUE]
            IN /\ PackOK(new) /\ new.id = p.id /\ new.offer = p.offer /\ new.status = p.status
               /\ new.before = p.before /\ new.look = p.look /\ new.reported = TRUE
         /\ LET new == [p EXCEPT !.status = "ACTIVE"]
            IN /\ PackOK(new) /\ new.id = p.id /\ new.offer = p.offer /\ new.status = "ACTIVE"
               /\ new.before = p.before /\ new.look = p.look /\ new.reported = p.reported
BY DEF PackOK

(* What was in turn stays so.                                                 *)
LEMMA TurnKept ==
  ASSUME NEW p \in purchases, NEW new,
         new.id = p.id, new.offer = p.offer, new.before = p.before, new.look = p.look,
         p.reported => new.reported,
         purchases' = (purchases \ {p}) \cup {new},
         NEW o, NEW look, NEW before, InTurn(o, look, before)
  PROVE  /\ Counted(o) \subseteq Counted(o)'
         /\ look.packs \subseteq Counted(o)'
         /\ \A q \in purchases' :
              q.id \in look.packs /\ q.look.moves = look.moves => q.before + Parts <= before
<1>1. Counted(o) \subseteq Counted(o)'
  <2>1. SUFFICES ASSUME NEW r \in purchases, r.offer = o, r.reported PROVE r.id \in Counted(o)'
    BY DEF Counted
  <2>2. CASE r = p
    BY <2>1, <2>2 DEF Counted
  <2>3. CASE r # p
    BY <2>1, <2>3 DEF Counted
  <2> QED  BY <2>2, <2>3
<1> QED  BY <1>1 DEF InTurn

LEMMA ReportKeeps ==
  ASSUME IInv, Report
  PROVE  IInv'
<1>1. PICK p \in purchases :
        /\ ~p.reported
        /\ purchases' = (purchases \ {p}) \cup {[p EXCEPT !.reported = TRUE]}
        /\ shopify' = [shopify EXCEPT !.used[p.offer] = IF @ = NoReading THEN @ ELSE @ + Parts]
        /\ UNCHANGED <<now, row, catalogue, calls>>
  BY DEF Report
<1> DEFINE new == [p EXCEPT !.reported = TRUE]
           reading == IF shopify.used[p.offer] = NoReading THEN NoReading ELSE shopify.used[p.offer] + Parts
           shown == [shopify.used EXCEPT ![p.offer] = reading]
<1>2. /\ PackOK(p) /\ PackOK(new) /\ new.id = p.id /\ new.offer = p.offer /\ new.status = p.status
      /\ new.before = p.before /\ new.look = p.look /\ new.reported = TRUE
  BY PackFields DEF IInv, PacksOK
<1>3. shopify' = [shopify EXCEPT !.used = shown]
  BY <1>1
<1>4. p.offer \in Offers /\ p.before \in Nat
  BY <1>2 DEF PackOK
<1>5. shopify \in Subscriptions /\ shopify.used \in [Offers -> Nat \cup {NoReading}]
  BY DEF IInv, WorldOK, Subscriptions
<1>6. /\ reading \in Nat \cup {NoReading} /\ shopify.used[p.offer] <= reading
      /\ shopify.used[p.offer] # NoReading => reading = shopify.used[p.offer] + Parts
  BY <1>4, <1>5, PricingAssumption DEF NoReading
<1> HIDE DEF new, reading
<1>7. /\ shown \in [Offers -> Nat \cup {NoReading}]
      /\ \A o \in Offers : shown[o] = IF o = p.offer THEN reading ELSE shopify.used[o]
  BY <1>4, <1>5, <1>6
<1> HIDE DEF shown
<1>8. /\ shopify' \in Subscriptions /\ shopify'.used = shown /\ shopify'.moves = shopify.moves
      /\ shopify'.cycle = shopify.cycle /\ shopify'.plan = shopify.plan
  BY <1>3, <1>5, <1>7 DEF Subscriptions
<1>9. purchases' = (purchases \ {p}) \cup {new}
  BY <1>1 DEF new
<1>10. PacksOK'
  BY <1>2, <1>9, PackReplaced DEF IInv
<1>11. p.id \in Counted(p.offer)' /\ p.id \notin Counted(p.offer)
  <2>1. p.id \in Counted(p.offer)'
    BY <1>2, <1>9 DEF Counted
  <2>2. p.id \notin Counted(p.offer)
    BY <1>1 DEF Counted, IInv, PacksOK
  <2> QED  BY <2>1, <2>2
<1>12. ASSUME NEW o, NEW look, NEW before, InTurn(o, look, before)
       PROVE  /\ Counted(o) \subseteq Counted(o)'
              /\ look.packs \subseteq Counted(o)'
              /\ \A q \in purchases' :
                   q.id \in look.packs /\ q.look.moves = look.moves => q.before + Parts <= before
  BY <1>2, <1>9, <1>12, TurnKept
<1>13. \A o \in Offers : shopify.used[o] <= shopify'.used[o] /\ shopify.used[o] \in Int /\ shopify'.used[o] \in Int
  BY <1>5, <1>6, <1>7, <1>8 DEF NoReading
<1>14. MeterOK'
  <2>1. SUFFICES ASSUME NEW q \in purchases' PROVE OnMeter(q)' /\ InTurn(q.offer, q.look, q.before)'
    BY DEF MeterOK, OnMeter, InTurn
  <2>2. PICK old \in purchases : /\ old.id = q.id /\ old.offer = q.offer /\ old.before = q.before
                                 /\ old.look = q.look /\ (q = old \/ (q = new /\ old = p))
    BY <1>2, <1>9
  <2>3. OnMeter(old) /\ InTurn(q.offer, q.look, q.before)
    BY <2>2 DEF IInv, MeterOK
  <2>4. InTurn(q.offer, q.look, q.before)'
    BY <1>12, <2>3 DEF InTurn
  <2>5. q.offer \in Offers /\ q.before \in Nat /\ PackOK(old)
    BY <2>2 DEF IInv, PacksOK, PackOK
  <2>6. OnMeter(q)'
    <3>1. CASE q = old
      <4>1. SUFFICES ASSUME q.look.moves = shopify.moves
                     PROVE  /\ q.before <= shopify'.used[q.offer]
                            /\ q.reported => q.before + Parts <= shopify'.used[q.offer]
        BY <1>8, <2>3, <3>1 DEF OnMeter
      <4>2. /\ q.before <= shopify.used[q.offer]
            /\ q.reported => q.before + Parts <= shopify.used[q.offer]
        BY <2>3, <3>1, <4>1 DEF OnMeter
      <4> QED  BY <1>13, <2>5, <4>2, PricingAssumption
    <3>2. CASE q = new /\ old = p
      <4>1. SUFFICES ASSUME q.look.moves = shopify.moves
                     PROVE  q.before <= shopify'.used[q.offer] /\ q.before + Parts <= shopify'.used[q.offer]
        BY <1>8, <2>2, <2>3, <3>2 DEF OnMeter
      <4>2. q.offer = p.offer /\ q.before <= shopify.used[p.offer] /\ q.before \in Nat
        BY <2>2, <2>3, <2>5, <3>2, <4>1 DEF OnMeter
      <4>3. shopify.used[p.offer] # NoReading /\ shopify.used[p.offer] \in Nat
        BY <1>4, <1>5, <4>2 DEF NoReading
      <4>4. shopify'.used[p.offer] = shopify.used[p.offer] + Parts
        BY <1>4, <1>6, <1>7, <1>8, <4>3
      <4> QED  BY <4>2, <4>3, <4>4, PricingAssumption
    <3> QED  BY <2>2, <3>1, <3>2
  <2> QED  BY <2>4, <2>6
<1>15. CallsOK'
  <2>1. SUFFICES ASSUME NEW c \in Callers, calls[c] # Idle
                 PROVE  CallOK(calls[c])'
    BY <1>1 DEF IInv, CallsOK, CallOK
  <2> DEFINE call == calls[c]
  <2>2. CallOK(call) /\ call \in Requests /\ call' = call
    BY <1>1, <2>1 DEF IInv, CallsOK, CallOK
  <2>3. call.offer \in Offers /\ call.seen.used \in Nat \cup {NoReading}
    BY <2>2 DEF Requests, Readings
  <2> HIDE DEF call
  <2>4. ASSUME Worth(call) PROVE Worth(call)'
    <3>1. InTurn(call.offer, call.look, call.seen.used)
      BY <2>4 DEF Worth
    <3>2. InTurn(call.offer, call.look, call.seen.used)'
      BY <1>12, <2>2, <3>1 DEF InTurn
    <3>3. call.look.packs \subseteq Counted(call.offer)
      BY <3>1 DEF InTurn
    <3>4. Counted(call.offer) \subseteq Counted(call.offer)'
      BY <1>12, <2>2, <3>1
    <3>5. SUFFICES ASSUME call.look.moves = shopify.moves
                   PROVE  /\ call.seen.plan = shopify'.plan /\ call.seen.cycle = shopify'.cycle
                          /\ call.seen.used <= shopify'.used[call.offer]
                          /\ call.look.packs = Counted(call.offer)'
                             => call.seen.used = shopify'.used[call.offer]
      BY <1>8, <2>2, <2>4, <3>2 DEF Worth
    <3>6. call.seen.used <= shopify.used[call.offer]
      BY <2>4, <3>5 DEF Worth
    <3>7. call.seen.used <= shopify'.used[call.offer]
      BY <1>13, <2>3, <3>6 DEF NoReading
    <3>8. ASSUME call.look.packs = Counted(call.offer)'
          PROVE  call.seen.used = shopify'.used[call.offer]
      <4>1. call.offer # p.offer
        <5>1. SUFFICES ASSUME call.offer = p.offer PROVE FALSE
          OBVIOUS
        <5>2. Counted(call.offer)' = Counted(p.offer)'
          BY <1>11, <2>2, <5>1 DEF Counted
        <5>3. p.id \in Counted(call.offer)
          BY <1>11, <3>3, <3>8, <5>2
        <5> QED  BY <1>11, <5>1, <5>3
      <4>2. shopify'.used[call.offer] = shopify.used[call.offer]
        BY <1>7, <1>8, <2>3, <4>1
      <4>3. call.look.packs = Counted(call.offer)
        BY <3>3, <3>8, <3>4
      <4> QED  BY <2>4, <3>5, <4>2, <4>3 DEF Worth
    <3> QED  BY <1>8, <2>4, <3>5, <3>7, <3>8 DEF Worth
  <2>5. CallOK(call)'
    BY <2>2, <2>4 DEF CallOK
  <2> QED  BY <2>5 DEF call
<1>16. WorldOK'
  BY <1>1, <1>8 DEF IInv, WorldOK
<1> QED  BY <1>10, <1>14, <1>15, <1>16 DEF IInv

LEMMA ResolveKeeps ==
  ASSUME IInv, Resolve
  PROVE  IInv'
<1>1. PICK p \in purchases :
        /\ p.status = "REQUESTED"
        /\ purchases' = (purchases \ {p}) \cup {[p EXCEPT !.status = "ACTIVE"]}
        /\ UNCHANGED <<now, shopify, row, catalogue, calls>>
  BY DEF Resolve
<1> DEFINE new == [p EXCEPT !.status = "ACTIVE"]
<1>2. /\ PackOK(new) /\ new.id = p.id /\ new.offer = p.offer /\ new.status = "ACTIVE"
      /\ new.before = p.before /\ new.look = p.look /\ new.reported = p.reported
  BY PackFields DEF IInv, PacksOK
<1>3. purchases' = (purchases \ {p}) \cup {new}
  BY <1>1
<1> HIDE DEF new
<1>4. PacksOK'
  BY <1>1, <1>2, <1>3, PackReplaced DEF IInv
<1>5. \A o : Counted(o)' = Counted(o)
  <2>1. TAKE o
  <2>2. Counted(o)' \subseteq Counted(o)
    BY <1>2, <1>3 DEF Counted
  <2>3. Counted(o) \subseteq Counted(o)'
    <3>1. SUFFICES ASSUME NEW r \in purchases, r.offer = o, r.reported PROVE r.id \in Counted(o)'
      BY DEF Counted
    <3>2. CASE r = p
      BY <1>2, <1>3, <3>1, <3>2 DEF Counted
    <3>3. CASE r # p
      BY <1>3, <3>1, <3>3 DEF Counted
    <3> QED  BY <3>2, <3>3
  <2> QED  BY <2>2, <2>3
<1>6. ASSUME NEW o, NEW look, NEW before, InTurn(o, look, before)
      PROVE  /\ look.packs \subseteq Counted(o)'
             /\ \A q \in purchases' :
                  q.id \in look.packs /\ q.look.moves = look.moves => q.before + Parts <= before
  BY <1>2, <1>3, <1>6, TurnKept
<1>7. MeterOK'
  <2>1. SUFFICES ASSUME NEW q \in purchases' PROVE OnMeter(q)' /\ InTurn(q.offer, q.look, q.before)'
    BY DEF MeterOK, OnMeter, InTurn
  <2>2. PICK old \in purchases : /\ old.id = q.id /\ old.offer = q.offer /\ old.before = q.before
                                 /\ old.look = q.look /\ old.reported = q.reported
    BY <1>2, <1>3
  <2>3. OnMeter(old) /\ InTurn(q.offer, q.look, q.before)
    BY <2>2 DEF IInv, MeterOK
  <2>4. InTurn(q.offer, q.look, q.before)'
    BY <1>6, <2>3 DEF InTurn
  <2>5. OnMeter(q)'
    BY <1>1, <2>2, <2>3 DEF OnMeter
  <2> QED  BY <2>4, <2>5
<1>8. CallsOK'
  <2>1. SUFFICES ASSUME NEW c \in Callers, calls[c] # Idle
                 PROVE  CallOK(calls[c])'
    BY <1>1 DEF IInv, CallsOK, CallOK
  <2> DEFINE call == calls[c]
  <2>2. CallOK(call) /\ call' = call /\ shopify' = shopify
    BY <1>1 DEF IInv, CallsOK
  <2> HIDE DEF call
  <2>3. ASSUME Worth(call) PROVE Worth(call)'
    <3>1. InTurn(call.offer, call.look, call.seen.used)
      BY <2>3 DEF Worth
    <3>2. InTurn(call.offer, call.look, call.seen.used)'
      BY <1>6, <2>2, <3>1 DEF InTurn
    <3> QED  BY <1>5, <2>2, <2>3, <3>2 DEF Worth
  <2>4. CallOK(call)'
    BY <2>2, <2>3 DEF CallOK
  <2> QED  BY <2>4 DEF call
<1>9. WorldOK'
  BY <1>1 DEF IInv, WorldOK
<1> QED  BY <1>4, <1>7, <1>8, <1>9 DEF IInv

(* After a move of the subscription no look is of the present.                *)
LEMMA MoveKeeps ==
  ASSUME IInv, Move
  PROVE  IInv'
<1>1. PICK plan \in Plans, cycle \in Cycles, reading \in {0, NoReading}, metered \in BOOLEAN :
        shopify' = [shopify EXCEPT !.plan = plan, !.cycle = cycle, !.metered = metered,
                                   !.used = [o \in Offers |-> reading], !.moves = @ + 1]
  BY DEF Move
<1>2. shopify \in Subscriptions /\ shopify.moves \in 0..MaxMoves /\ shopify.moves < MaxMoves
  BY DEF Move, IInv, WorldOK, Subscriptions
<1>3. shopify.moves + 1 \in 0..MaxMoves
  BY <1>2, ClockAssumption
<1>4. [o \in Offers |-> reading] \in [Offers -> Nat \cup {NoReading}]
  OBVIOUS
<1>5. shopify' \in Subscriptions /\ shopify'.moves = shopify.moves + 1
  BY <1>1, <1>2, <1>3, <1>4 DEF Subscriptions
<1>6. UNCHANGED <<now, row, catalogue, purchases, calls>>
  BY DEF Move
<1>7. WorldOK' /\ PacksOK'
  BY <1>5, <1>6 DEF IInv, WorldOK, PacksOK, PackOK
<1>8. MeterOK'
  <2>1. \A p \in purchases : p.look \in Looks
    BY DEF IInv, PacksOK, PackOK
  <2>2. \A p \in purchases : p.look.moves <= shopify.moves
    BY DEF IInv, MeterOK, OnMeter
  <2>3. \A p \in purchases : p.look.moves \in Int /\ p.look.moves <= shopify.moves
    BY <2>1, <2>2, ClockAssumption DEF Looks
  <2>4. \A p \in purchases : p.look.moves <= shopify'.moves /\ p.look.moves # shopify'.moves
    BY <1>2, <1>5, <2>3
  <2> QED  BY <1>6, <2>4 DEF IInv, MeterOK, OnMeter, InTurn, Counted
<1>9. CallsOK'
  <2>1. SUFFICES ASSUME NEW c \in Callers, calls[c] # Idle
                 PROVE  CallOK(calls[c])'
    BY <1>6 DEF IInv, CallsOK, CallOK
  <2> DEFINE call == calls[c]
  <2>2. CallOK(call) /\ call \in Requests /\ call' = call
    BY <1>6, <2>1 DEF IInv, CallsOK, CallOK
  <2>3. call.look.moves \in Int
    BY <2>2 DEF Requests, Looks
  <2> HIDE DEF call
  <2>4. ASSUME Worth(call) PROVE Worth(call)'
    <3>1. call.look.moves <= shopify'.moves /\ call.look.moves # shopify'.moves
      BY <1>2, <1>5, <2>3, <2>4 DEF Worth
    <3> QED  BY <1>6, <2>2, <2>4, <3>1 DEF Worth, InTurn, Counted
  <2>5. CallOK(call)'
    BY <2>2, <2>4 DEF CallOK
  <2> QED  BY <2>5 DEF call
<1> QED  BY <1>7, <1>8, <1>9 DEF IInv

(* The row, the clock, a freeze and the catalogue leave the looks alone.      *)
LEMMA WorldKeeps ==
  ASSUME IInv, Sync \/ Tick \/ Freeze \/ Edit
  PROVE  IInv'
<1>1. /\ UNCHANGED <<purchases, calls>>
      /\ shopify'.plan = shopify.plan /\ shopify'.cycle = shopify.cycle
      /\ shopify'.used = shopify.used /\ shopify'.moves = shopify.moves
  BY DEF Sync, Tick, Freeze, Edit, IInv, WorldOK, Subscriptions
<1>2. WorldOK'
  <2>1. CASE Sync
    <3>1. shopify.plan \in Plans /\ shopify.cycle \in Cycles /\ shopify.metered \in BOOLEAN /\ shopify.frozen \in BOOLEAN
      BY DEF IInv, WorldOK, Subscriptions
    <3> DEFINE live == /\ ~shopify.frozen
                       /\ shopify.plan \in Metered => OwnHandle[shopify.plan] # NoHandle /\ shopify.metered
    <3>2. live \in BOOLEAN
      OBVIOUS
    <3>3. \/ row' = [plan |-> shopify.plan, cycle |-> shopify.cycle, live |-> live]
          \/ row' = [row EXCEPT !.live = FALSE]
      BY <2>1 DEF Sync
    <3> HIDE DEF live
    <3>4. row \in [plan : Plans, cycle : Cycles, live : BOOLEAN]
      BY DEF IInv, WorldOK
    <3>5. row' \in [plan : Plans, cycle : Cycles, live : BOOLEAN]
      <4>1. CASE row' = [plan |-> shopify.plan, cycle |-> shopify.cycle, live |-> live]
        BY <3>1, <3>2, <4>1, Zenon
      <4>2. CASE row' = [row EXCEPT !.live = FALSE]
        BY <3>4, <4>2
      <4> QED  BY <3>3, <4>1, <4>2
    <3> QED  BY <2>1, <3>5 DEF Sync, IInv, WorldOK
  <2>2. CASE Tick
    BY <2>2, ClockAssumption DEF Tick, IInv, WorldOK
  <2>3. CASE Freeze
    BY <2>3 DEF Freeze, IInv, WorldOK, Subscriptions
  <2>4. CASE Edit
    BY <2>4 DEF Edit, IInv, WorldOK
  <2> QED  BY <2>1, <2>2, <2>3, <2>4
<1>3. PacksOK'
  BY <1>1 DEF IInv, PacksOK, PackOK
<1>4. MeterOK'
  BY <1>1 DEF IInv, MeterOK, OnMeter, InTurn, Counted
<1>5. CallsOK'
  BY <1>1 DEF IInv, CallsOK, CallOK, Worth, InTurn, Counted
<1> QED  BY <1>2, <1>3, <1>4, <1>5 DEF IInv

LEMMA NextKeepsIInv == IInv /\ [PackNext]_packVars => IInv'
<1> SUFFICES ASSUME IInv, [PackNext]_packVars PROVE IInv'
  OBVIOUS
<1>1. CASE \E c \in Callers : Step(c)
  BY <1>1, StepsKeep, RevalidateKeeps, RereadKeeps, CommitKeeps, Zenon DEF Step
<1>2. CASE Report
  BY <1>2, ReportKeeps
<1>3. CASE Resolve
  BY <1>3, ResolveKeeps
<1>4. CASE Move
  BY <1>4, MoveKeeps
<1>5. CASE Sync \/ Tick \/ Freeze \/ Edit
  BY <1>5, WorldKeeps
<1>6. CASE UNCHANGED packVars
  <2>1. WorldOK' /\ PacksOK'
    BY <1>6 DEF packVars, IInv, WorldOK, PacksOK, PackOK
  <2>2. MeterOK' /\ CallsOK'
    BY <1>6 DEF packVars, IInv, MeterOK, OnMeter, InTurn, Counted, CallsOK, CallOK, Worth
  <2> QED  BY <2>1, <2>2 DEF IInv
<1> QED  BY <1>1, <1>2, <1>3, <1>4, <1>5, <1>6, Zenon DEF PackNext

(* The inductive invariant: what the second look of every request is worth,   *)
(* however long its transaction takes and whatever moves meanwhile            *)
(* (requestRecoveryCreditPack).                                               *)
THEOREM InvariantHolds == PackSpec => []IInv
<1> QED  BY InitialIInv, NextKeepsIInv, PTL DEF PackSpec

-----------------------------------------------------------------------------
(* A set whose elements are all one has one at most.                          *)
LEMMA AtMostOne ==
  ASSUME NEW S, \A x, y \in S : x = y
  PROVE  Cardinality(S) <= 1
<1>1. CASE S = {}
  BY <1>1, FS_EmptySet
<1>2. CASE S # {}
  <2>1. PICK x : S = {x}
    BY <1>2
  <2> QED  BY <2>1, FS_Singleton
<1> QED  BY <1>1, <1>2

LEMMA InvariantImplies == IInv => PurchaseInv
<1> SUFFICES ASSUME IInv PROVE PurchaseInv
  OBVIOUS
<1>1. PackTypeOK
  <2>1. \A p \in purchases : p.id \in Ids /\ p.offer \in Offers /\ p.quote \in 1..MaxSafe
    BY DEF IInv, PacksOK, PackOK
  <2>2. \A c \in Callers : calls[c].at \in Steps
    BY DEF IInv, CallsOK, CallOK, Idle, Requests, Steps
  <2>3. Nat \cup {NoReading} \subseteq Int
    BY DEF NoReading
  <2>4. shopify \in [plan : Plans, cycle : Cycles, frozen : BOOLEAN, metered : BOOLEAN,
                     used : [Offers -> Int], moves : 0..MaxMoves]
    BY <2>3 DEF IInv, WorldOK, Subscriptions
  <2> QED  BY <2>1, <2>2, <2>4 DEF IInv, WorldOK, PacksOK, PackTypeOK, Steps
<1>2. OneUnresolved
  <2>1. \A o \in Offers : \A p, q \in Unresolved(o) : p = q
    BY DEF IInv, PacksOK, Unresolved
  <2> QED  BY <2>1, AtMostOne DEF OneUnresolved
<1>3. TakenTogether
  BY DEF IInv, PacksOK, PackOK, TakenTogether
<1>4. PacksInTurn
  BY DEF IInv, MeterOK, InTurn, PacksInTurn
<1>5. OfferedIsBuyable
  <2> SUFFICES ASSUME NEW o \in Offers, Offered(o),
                      ~shopify.frozen, shopify.plan = row.plan, shopify.used[o] # NoReading,
                      OwnMeterApart(shopify.plan, o, shopify.metered)
               PROVE  StillBuyable(AtOnce(o)) /\ Purchase(AtOnce(o)).quote = QuotedPackPrice(o)
    BY DEF OfferedIsBuyable
  <2> DEFINE call == AtOnce(o)
  <2>1. /\ call.offer = o /\ call.period = row.cycle /\ call.entry = catalogue[o]
        /\ call.seen = Evidence(o)
    BY DEF Request, AtOnce
  <2>2. /\ call.seen.plan = shopify.plan /\ call.seen.cycle = shopify.cycle
        /\ call.seen.used = shopify.used[o] /\ call.seen.metered = shopify.metered
    BY <2>1 DEF Evidence
  <2> HIDE DEF call
  <2>3. StillBuyable(call)
    BY <2>1, <2>2 DEF StillBuyable, Offered, PurchaseEligible, hasMatchingBillingCycle
  <2>4. Purchase(call).quote = Quote(catalogue[o].event, shopify.used[o])
    BY <2>1, <2>2 DEF Purchase
  <2>5. catalogue[o].event.mode = "FIXED" =>
          Quote(catalogue[o].event, shopify.used[o]) = Quote(catalogue[o].event, 0)
    BY DEF Quote
  <2>6. QuotedPackPrice(o) = Quote(catalogue[o].event, shopify.used[o])
    BY <2>5 DEF QuotedPackPrice
  <2> QED  BY <2>3, <2>4, <2>6 DEF call
<1> QED  BY <1>1, <1>2, <1>3, <1>4, <1>5 DEF PurchaseInv

(* At most one pack of an offer waits for Shopify, its terms stood together,  *)
(* packs of requests that did not overlap are charged for different units,    *)
(* and what the page prices can be bought, but for what the page does not     *)
(* look at (requestRecoveryCreditPack, projectMerchantBillingState).          *)
THEOREM PurchasesHold == PackSpec => []PurchaseInv
<1> QED  BY InvariantHolds, InvariantImplies, PTL

(* Only the transaction adds a pack; the worker rewrites packs of an id that  *)
(* exists.                                                                    *)
LEMMA NewPacks ==
  ASSUME IInv, [PackNext]_packVars, NEW p \in purchases', ~Bought(p.id)
  PROVE  /\ Phase(p.cycle) = "ACTIVE" /\ p.quote = Quote(p.event, p.before)
         /\ p.look.moves = shopify.moves =>
              /\ p.cycle = shopify.cycle /\ p.plan = shopify.plan
              /\ p.before \in 0..shopify.used[p.offer]
              /\ p.look.packs = Counted(p.offer) => p.before = shopify.used[p.offer]
<1>1. p \notin purchases
  BY DEF Bought
<1>2. ASSUME Report \/ Resolve PROVE FALSE
  <2>1. PICK old \in purchases : p = [old EXCEPT !.reported = TRUE] \/ p = [old EXCEPT !.status = "ACTIVE"]
    BY <1>1, <1>2 DEF Report, Resolve
  <2>2. PackOK(old)
    BY DEF IInv, PacksOK
  <2>3. p.id = old.id
    BY <2>1, <2>2, PackFields
  <2> QED  BY <2>3 DEF Bought
<1>3. PICK c \in Callers : Commit(c)
  <2>1. purchases' # purchases
    BY <1>1
  <2>2. \E c \in Callers : Step(c)
    BY <1>2, <2>1 DEF PackNext, packVars, Sync, Tick, Move, Freeze, Edit
  <2>3. PICK c \in Callers : Step(c)
    BY <2>2
  <2>4. Commit(c)
    BY <2>1, <2>3 DEF Step, Submit, ReadReceipt, ReadContext, Observe, ReadCatalogue, Revalidate, Reread, Fail
  <2> QED  BY <2>4
<1>4. /\ p = Purchase(calls[c]) /\ At(c, "commit")
      /\ StillBuyable(calls[c]) /\ Purchase(calls[c]).quote # NoAmount
  BY <1>1, <1>3 DEF Commit
<1>5. /\ PackOK(p) /\ p.offer = calls[c].offer
      /\ p.before = calls[c].seen.used /\ p.look = calls[c].look
      /\ Phase(p.cycle) = "ACTIVE" /\ p.quote = Quote(p.event, p.before)
      /\ p.plan = calls[c].seen.plan /\ p.cycle = calls[c].seen.cycle
  BY <1>4, CommitWrites
<1>6. Worth(calls[c])
  BY <1>4, Running DEF Steps
<1>7. p.before \in Nat /\ p.offer \in Offers
  BY <1>5 DEF PackOK
<1>8. shopify.used[p.offer] \in Int
  BY <1>7 DEF IInv, WorldOK, Subscriptions, NoReading
<1>9. ASSUME p.look.moves = shopify.moves
      PROVE  /\ p.cycle = shopify.cycle /\ p.plan = shopify.plan
             /\ p.before \in 0..shopify.used[p.offer]
             /\ p.look.packs = Counted(p.offer) => p.before = shopify.used[p.offer]
  <2>1. /\ p.cycle = shopify.cycle /\ p.plan = shopify.plan /\ p.before <= shopify.used[p.offer]
        /\ p.look.packs = Counted(p.offer) => p.before = shopify.used[p.offer]
    BY <1>5, <1>6, <1>9 DEF Worth
  <2> QED  BY <1>7, <1>8, <2>1
<1> QED  BY <1>5, <1>9

(* A pack is bought before its cycle drains, under the plan and the cycle     *)
(* that Shopify has and from a quantity its meter has shown, unless the       *)
(* subscription moved after the second look (201-217, 270-293).               *)
THEOREM AlwaysBoughtInItsCycle == PackSpec => BoughtInItsCycle
<1> DEFINE A == \A p \in purchases' : ~Bought(p.id) =>
                  /\ Phase(p.cycle) = "ACTIVE"
                  /\ \/ p.look.moves # shopify.moves
                     \/ p.cycle = shopify.cycle /\ p.plan = shopify.plan
                        /\ p.before \in 0..shopify.used[p.offer]
<1>1. IInv /\ [PackNext]_packVars => [A]_packVars
  BY NewPacks
<1> HIDE DEF A
<1>2. PackSpec => [][A]_packVars
  BY <1>1, InvariantHolds, PTL DEF PackSpec
<1> QED  BY <1>2 DEF A, BoughtInItsCycle

(* The quote is the price of the very unit that the pack adds to the meter,   *)
(* whatever was bought before, unless a pack of the offer was counted or the  *)
(* subscription moved after the second look (recordOneTimeChargeIntent).      *)
THEOREM QuoteAlwaysCurrent == PackSpec => QuoteIsCurrent
<1> DEFINE A == \A p \in purchases' :
                  ~Bought(p.id) /\ p.look = [moves |-> shopify.moves, packs |-> Counted(p.offer)]
                  => p.quote = Quote(p.event, shopify.used[p.offer])
<1>1. IInv /\ [PackNext]_packVars => [A]_packVars
  <2> SUFFICES ASSUME IInv, [PackNext]_packVars, NEW p \in purchases', ~Bought(p.id),
                      p.look = [moves |-> shopify.moves, packs |-> Counted(p.offer)]
               PROVE  p.quote = Quote(p.event, shopify.used[p.offer])
    OBVIOUS
  <2>1. p.look.moves = shopify.moves /\ p.look.packs = Counted(p.offer)
    OBVIOUS
  <2>2. p.quote = Quote(p.event, p.before) /\ p.before = shopify.used[p.offer]
    BY <2>1, NewPacks
  <2> QED  BY <2>2
<1> HIDE DEF A
<1>2. PackSpec => [][A]_packVars
  BY <1>1, InvariantHolds, PTL DEF PackSpec
<1> QED  BY <1>2 DEF A, QuoteIsCurrent

-----------------------------------------------------------------------------
(* Proofs about UsageMeter, for every price list, any number of parts of a   *)
(* unit and any reading at which a merchant starts. What a loop over tiers   *)
(* and a sum over parts compute is shown by induction over numbers, which    *)
(* rests on a set of numbers having a least one.                             *)

(* The least number of a set, and induction in the form of sets.              *)
LEMMA LeastNumber ==
  ASSUME NEW S \in SUBSET Nat, S # {}
  PROVE  \E m \in S : \A k \in S : m <= k
<1>1. PICK n \in S : TRUE
  OBVIOUS
<1> DEFINE Order == StrictSubsetOrdering(1..n)
           Initial == {1..m : m \in {k \in S : k <= n}}
<1>2. IsWellFoundedOn(Order, FiniteSubsetsOf(1..n))
  BY FS_Interval, FS_StrictSubsetOrderingWellFounded
<1>3. \A m \in {k \in S : k <= n} : 1..m \in FiniteSubsetsOf(1..n)
  BY FS_Interval DEF FiniteSubsetsOf
<1>4. Initial \subseteq FiniteSubsetsOf(1..n) /\ Initial # {}
  BY <1>1, <1>3
<1>5. \E x \in Initial : \A y \in Initial : <<y, x>> \notin Order
  <2> HIDE DEF Initial, Order
  <2> QED  BY <1>2, <1>4, WFMin
<1>6. PICK m \in {k \in S : k <= n} : \A k \in {j \in S : j <= n} : <<1..k, 1..m>> \notin Order
  BY <1>5
<1>7. ASSUME NEW k \in S, k < m
      PROVE  FALSE
  <2>1. k <= n
    BY <1>7
  <2>2. 1..k \in SUBSET (1..n) /\ 1..m \in SUBSET (1..n) /\ 1..k \subseteq 1..m
    BY <1>7
  <2>3. m \in 1..m /\ m \notin 1..k
    BY <1>7
  <2>4. <<1..k, 1..m>> \in Order
    BY <2>2, <2>3 DEF StrictSubsetOrdering
  <2> QED  BY <2>1, <2>4, <1>6
<1> QED  BY <1>7

LEMMA EveryNumber ==
  ASSUME NEW S, 0 \in S, \A n \in Nat : n \in S => n + 1 \in S
  PROVE  Nat \subseteq S
<1> SUFFICES ASSUME Nat \ S # {} PROVE FALSE
  OBVIOUS
<1>1. PICK m \in Nat \ S : \A k \in Nat \ S : m <= k
  BY LeastNumber
<1>2. m # 0
  BY <1>1
<1>3. m - 1 \in Nat /\ m - 1 \in S
  BY <1>1, <1>2
<1>4. (m - 1) + 1 \in S
  BY <1>3
<1> QED  BY <1>1, <1>4

(* A function that is defined by what it is at 0 and by a step.               *)
Begins(g, n, S, base, step) ==
  /\ g \in [0..n -> S]
  /\ g[0] = base
  /\ \A k \in 0..(n - 1) : g[k + 1] = step[k][g[k]]

Follows(f, S, base, step) ==
  f \in [Nat -> S] /\ f[0] = base /\ \A n \in Nat : f[n + 1] = step[n][f[n]]

LEMMA BeginningsGrow ==
  ASSUME NEW S, NEW base \in S, NEW step \in [Nat -> [S -> S]], NEW n \in Nat, NEW g, Begins(g, n, S, base, step)
  PROVE  \E h : Begins(h, n + 1, S, base, step)
<1> DEFINE h == [k \in 0..(n + 1) |-> IF k = n + 1 THEN step[n][g[n]] ELSE g[k]]
<1>1. g[n] \in S /\ step[n][g[n]] \in S
  BY DEF Begins
<1>2. h \in [0..(n + 1) -> S] /\ h[0] = base
  BY <1>1 DEF Begins
<1>3. ASSUME NEW k \in 0..n
      PROVE  h[k + 1] = step[k][h[k]]
  <2>1. k + 1 \in 0..(n + 1) /\ h[k] = g[k]
    OBVIOUS
  <2>2. CASE k = n
    <3>1. h[k + 1] = step[n][g[n]]
      BY <2>1, <2>2
    <3> QED  BY <2>1, <2>2, <3>1
  <2>3. CASE k # n
    <3>1. h[k + 1] = g[k + 1] /\ k \in 0..(n - 1)
      BY <2>1, <2>3
    <3>2. g[k + 1] = step[k][g[k]]
      BY <3>1 DEF Begins
    <3> QED  BY <2>1, <3>1, <3>2
  <2> QED  BY <2>2, <2>3
<1> HIDE DEF h
<1>4. (n + 1) - 1 = n
  OBVIOUS
<1> QED  BY <1>2, <1>3, <1>4 DEF Begins

LEMMA BeginningsAgree ==
  ASSUME NEW S, NEW base, NEW step, NEW m \in Nat, NEW n \in Nat, m <= n,
         NEW g, NEW h, Begins(g, m, S, base, step), Begins(h, n, S, base, step)
  PROVE  \A k \in 0..m : g[k] = h[k]
<1> DEFINE E == {k \in Nat : k <= m => g[k] = h[k]}
<1>1. 0 \in E
  BY DEF Begins
<1>2. ASSUME NEW k \in Nat, k \in E
      PROVE  k + 1 \in E
  <2>1. CASE k + 1 <= m
    <3>1. k \in 0..(m - 1) /\ k \in 0..(n - 1) /\ g[k] = h[k]
      BY <1>2, <2>1
    <3>2. g[k + 1] = h[k + 1]
      BY <3>1 DEF Begins
    <3> QED  BY <3>2
  <2> QED  BY <2>1
<1>3. Nat \subseteq E
  <2> HIDE DEF E
  <2> QED  BY <1>1, <1>2, EveryNumber
<1> QED  BY <1>3

LEMMA StepByStep ==
  ASSUME NEW S, NEW base \in S, NEW step \in [Nat -> [S -> S]]
  PROVE  \E f : Follows(f, S, base, step)
<1> DEFINE G == {n \in Nat : \E g : Begins(g, n, S, base, step)}
           b(n) == CHOOSE g : Begins(g, n, S, base, step)
           f == [n \in Nat |-> b(n)[n]]
<1>1. Nat \subseteq G
  <2>1. 0 \in G
    <3>1. Begins([k \in 0..0 |-> base], 0, S, base, step)
      BY DEF Begins
    <3> QED  BY <3>1
  <2>2. \A n \in Nat : n \in G => n + 1 \in G
    BY BeginningsGrow
  <2> HIDE DEF G
  <2> QED  BY <2>1, <2>2, EveryNumber
<1>2. \A n \in Nat : Begins(b(n), n, S, base, step)
  BY <1>1
<1> HIDE DEF b
<1>3. f \in [Nat -> S]
  BY <1>2 DEF Begins
<1>4. f[0] = base
  BY <1>2 DEF Begins
<1>5. ASSUME NEW n \in Nat
      PROVE  f[n + 1] = step[n][f[n]]
  <2>1. Begins(b(n), n, S, base, step) /\ Begins(b(n + 1), n + 1, S, base, step)
    BY <1>2
  <2>2. b(n)[n] = b(n + 1)[n]
    <3>1. n + 1 \in Nat /\ n <= n + 1 /\ n \in 0..n
      OBVIOUS
    <3>2. \A g, h : Begins(g, n, S, base, step) /\ Begins(h, n + 1, S, base, step) => \A k \in 0..n : g[k] = h[k]
      BY <3>1, BeginningsAgree
    <3>3. \A k \in 0..n : b(n)[k] = b(n + 1)[k]
      BY <2>1, <3>2
    <3> QED  BY <3>1, <3>3
  <2>3. n \in 0..((n + 1) - 1)
    OBVIOUS
  <2>4. b(n + 1)[n + 1] = step[n][b(n + 1)[n]]
    BY <2>1, <2>3 DEF Begins
  <2> QED  BY <2>2, <2>4
<1> HIDE DEF f
<1> QED  BY <1>3, <1>4, <1>5 DEF Follows

-----------------------------------------------------------------------------
(* The reference: which tier prices a part, and what a part adds.             *)
LEMMA EventShape ==
  ASSUME NEW e \in Events
  PROVE  /\ e.mode \in {"FIXED", "GRADUATED", "VOLUME"} /\ e.fixed \in Nat
         /\ DOMAIN e.tiers = 1..Len(e.tiers) /\ Len(e.tiers) \in Nat
         /\ \A i \in DOMAIN e.tiers :
              e.tiers[i].upTo \in Nat /\ e.tiers[i].unit \in Nat /\ e.tiers[i].flat \in Nat
<1>1. e \in [mode : Tiered \cup {"FIXED"}, fixed : Nat, tiers : Seq([upTo : Nat, unit : Nat, flat : Nat])]
  BY EventsAreEvents
<1>2. e.tiers \in Seq([upTo : Nat, unit : Nat, flat : Nat])
  BY <1>1
<1>3. e.mode \in {"FIXED", "GRADUATED", "VOLUME"} /\ e.fixed \in Nat
  BY <1>1 DEF Tiered
<1>4. DOMAIN e.tiers = 1..Len(e.tiers) /\ Len(e.tiers) \in Nat
  BY <1>2
<1>5. \A i \in 1..Len(e.tiers) : e.tiers[i] \in [upTo : Nat, unit : Nat, flat : Nat]
  BY <1>2, ElementOfSeq
<1>6. ASSUME NEW i \in DOMAIN e.tiers
      PROVE  e.tiers[i].upTo \in Nat /\ e.tiers[i].unit \in Nat /\ e.tiers[i].flat \in Nat
  BY <1>4, <1>5
<1> QED  BY <1>2, <1>3, <1>4, <1>6

LEMMA TierIsFirst ==
  ASSUME NEW e \in Events, NEW part \in Nat, Reached(e, part)
  PROVE  /\ TierOf(e, part) \in DOMAIN e.tiers
         /\ Within(part, e.tiers[TierOf(e, part)])
         /\ \A j \in DOMAIN e.tiers : Within(part, e.tiers[j]) => TierOf(e, part) <= j
<1> DEFINE F == {i \in DOMAIN e.tiers : Within(part, e.tiers[i])}
<1>1. F \in SUBSET Nat /\ F # {}
  BY EventShape DEF Reached
<1>2. PICK m \in F : \A k \in F : m <= k
  <2> HIDE DEF F
  <2> QED  BY <1>1, LeastNumber
<1>3. /\ Within(part, e.tiers[m])
      /\ \A j \in 1..(m - 1) : ~Within(part, e.tiers[j])
  BY <1>2, EventShape
<1>4. \E i \in DOMAIN e.tiers : /\ Within(part, e.tiers[i])
                                    /\ \A j \in 1..(i - 1) : ~Within(part, e.tiers[j])
  BY <1>2, <1>3
<1>5. /\ TierOf(e, part) \in DOMAIN e.tiers
      /\ Within(part, e.tiers[TierOf(e, part)])
      /\ \A j \in 1..(TierOf(e, part) - 1) : ~Within(part, e.tiers[j])
  BY <1>4 DEF TierOf
<1>6. ASSUME NEW j \in DOMAIN e.tiers, Within(part, e.tiers[j]), TierOf(e, part) > j
      PROVE  FALSE
  <2>1. j \in 1..(TierOf(e, part) - 1)
    BY <1>5, <1>6, EventShape
  <2> QED  BY <2>1, <1>5, <1>6
<1>7. \A j \in DOMAIN e.tiers : j \in Nat
  BY EventShape
<1> QED  BY <1>5, <1>6, <1>7

LEMMA TierIs ==
  ASSUME NEW e \in Events, NEW part \in Nat, NEW i \in DOMAIN e.tiers, Within(part, e.tiers[i]),
         \A j \in 1..(i - 1) : ~Within(part, e.tiers[j])
  PROVE  Reached(e, part) /\ TierOf(e, part) = i
<1>1. Reached(e, part)
  BY DEF Reached
<1>2. TierOf(e, part) <= i /\ ~ TierOf(e, part) \in 1..(i - 1)
  BY <1>1, TierIsFirst
<1> QED  BY <1>1, <1>2, TierIsFirst, EventShape

LEMMA ReachedBelow ==
  ASSUME NEW e \in Events, NEW m \in Nat, NEW n \in Nat, m <= n, Reached(e, n)
  PROVE  Reached(e, m)
BY EventShape, PricingAssumption DEF Reached, Within, NoLimit

LEMMA AddedIsNat ==
  ASSUME NEW e \in Events, NEW part \in Nat
  PROVE  Added(e, part) \in Nat
<1>1. CASE Reached(e, part)
  <2>1. /\ e.tiers[TierOf(e, part)].unit \in Nat
        /\ e.tiers[TierOf(e, part)].flat * Parts \in Nat
    BY <1>1, TierIsFirst, EventShape, PricingAssumption
  <2> QED  BY <2>1 DEF Added
<1>2. CASE ~Reached(e, part)
  BY <1>2 DEF Added
<1> QED  BY <1>1, <1>2

LEMMA SumOfSteps ==
  ASSUME NEW a \in [Nat -> Nat]
  PROVE  \E f \in [Nat -> Nat] : f[0] = 0 /\ \A n \in Nat : f[n + 1] = f[n] + a[n + 1]
<1> DEFINE step == [n \in Nat |-> [x \in Nat |-> x + a[n + 1]]]
<1>1. step \in [Nat -> [Nat -> Nat]]
  OBVIOUS
<1>2. 0 \in Nat
  OBVIOUS
<1>3. PICK f : Follows(f, Nat, 0, step)
  <2> HIDE DEF step
  <2> QED  BY <1>1, <1>2, StepByStep
<1>4. f \in [Nat -> Nat] /\ f[0] = 0 /\ \A n \in Nat : f[n + 1] = step[n][f[n]]
  <2> HIDE DEF step
  <2> QED  BY <1>3 DEF Follows
<1>5. \A n \in Nat : step[n][f[n]] = f[n] + a[n + 1]
  BY <1>4
<1> HIDE DEF step
<1> QED  BY <1>4, <1>5

LEMMA SumAddsUp ==
  ASSUME NEW e \in Events
  PROVE  /\ Sum(e) \in [Nat -> Nat]
         /\ Sum(e)[0] = 0
         /\ \A n \in Nat : Sum(e)[n + 1] = Sum(e)[n] + Added(e, n + 1)
<1> DEFINE a == [n \in Nat |-> Added(e, n)]
<1>1. a \in [Nat -> Nat]
  BY AddedIsNat
<1>2. PICK f \in [Nat -> Nat] : f[0] = 0 /\ \A n \in Nat : f[n + 1] = f[n] + a[n + 1]
  <2> HIDE DEF a
  <2> QED  BY <1>1, SumOfSteps
<1>3. ASSUME NEW n \in Nat
      PROVE  f[n + 1] = f[n] + Added(e, n + 1)
  <2>1. n + 1 \in Nat
    OBVIOUS
  <2>2. a[n + 1] = Added(e, n + 1)
    BY <2>1
  <2> QED  BY <1>2, <2>2
<1>4. f = [n \in Nat |-> IF n = 0 THEN 0 ELSE f[n - 1] + Added(e, n)]
  <2>1. ASSUME NEW n \in Nat
        PROVE  f[n] = IF n = 0 THEN 0 ELSE f[n - 1] + Added(e, n)
    <3>1. CASE n = 0
      BY <1>2, <3>1
    <3>2. CASE n # 0
      <4>1. n - 1 \in Nat /\ (n - 1) + 1 = n
        BY <3>2
      <4> QED  BY <3>2, <4>1, <1>3
    <3> QED  BY <3>1, <3>2
  <2>2. f = [n \in Nat |-> f[n]]
    OBVIOUS
  <2> QED  BY <2>1, <2>2
<1>5. Sum(e) = [n \in Nat |-> IF n = 0 THEN 0 ELSE Sum(e)[n - 1] + Added(e, n)]
  BY <1>4 DEF Sum
<1>6. Sum(e)[0] = 0 /\ \A n \in Nat : Sum(e)[n + 1] = Sum(e)[n] + Added(e, n + 1)
  BY <1>5
<1>7. \A n \in Nat : Sum(e)[n] \in Nat
  <2> DEFINE E == {n \in Nat : Sum(e)[n] \in Nat}
  <2>1. 0 \in E /\ \A n \in Nat : n \in E => n + 1 \in E
    BY <1>6, AddedIsNat
  <2>2. Nat \subseteq E
    <3> HIDE DEF E
    <3> QED  BY <2>1, EveryNumber
  <2> QED  BY <2>2
<1> QED  BY <1>5, <1>6, <1>7

LEMMA SumGrows ==
  ASSUME NEW e \in Events, NEW m \in Nat, NEW n \in Nat, m <= n
  PROVE  Sum(e)[m] <= Sum(e)[n]
<1> DEFINE E == {k \in Nat : Sum(e)[m] <= Sum(e)[m + k]}
<1>1. 0 \in E
  BY SumAddsUp
<1>2. ASSUME NEW k \in Nat, k \in E
      PROVE  k + 1 \in E
  <2>1. Sum(e)[m + (k + 1)] = Sum(e)[m + k] + Added(e, m + k + 1)
    <3>1. m + k \in Nat /\ m + (k + 1) = (m + k) + 1
      OBVIOUS
    <3> QED  BY <3>1, SumAddsUp
  <2>2. Sum(e)[m] \in Nat /\ Sum(e)[m + k] \in Nat /\ Added(e, m + k + 1) \in Nat
    BY SumAddsUp, AddedIsNat
  <2> QED  BY <1>2, <2>1, <2>2
<1>3. Nat \subseteq E
  <2> HIDE DEF E
  <2> QED  BY <1>1, <1>2, EveryNumber
<1>4. n - m \in E /\ m + (n - m) = n
  BY <1>3
<1> QED  BY <1>4

(* Parts in one tier: its flat amount once, and its price for each.           *)
LEMMA SumWithinTier ==
  ASSUME NEW e \in Events, NEW b \in Nat, NEW n \in Nat \ {0}, NEW i \in DOMAIN e.tiers,
         \A p \in (b + 1)..(b + n) : Reached(e, p) /\ TierOf(e, p) = i,
         b = 0 \/ TierOf(e, b) # i
  PROVE  Sum(e)[b + n] = Sum(e)[b] + e.tiers[i].flat * Parts + e.tiers[i].unit * n
<1> DEFINE tier == e.tiers[i]
           E == {k \in Nat : k + 1 <= n => Sum(e)[b + k + 1] = Sum(e)[b] + tier.flat * Parts + tier.unit * (k + 1)}
<1>1. tier.unit \in Nat /\ tier.flat * Parts \in Nat
  BY EventShape, PricingAssumption
<1>2. \A k \in Nat : Sum(e)[b + k] \in Nat /\ Sum(e)[b + k + 1] = Sum(e)[b + k] + Added(e, b + k + 1)
  BY SumAddsUp
<1>3. 0 \in E
  <2>1. b + 1 \in (b + 1)..(b + n)
    OBVIOUS
  <2>2. Reached(e, b + 1) /\ TierOf(e, b + 1) = i
    BY <2>1
  <2>3. Enters(e, b + 1)
    BY <2>2 DEF Enters
  <2>4. Added(e, b + 1) = tier.unit + tier.flat * Parts
    BY <2>2, <2>3 DEF Added
  <2>5. Sum(e)[b + 0 + 1] = Sum(e)[b] + Added(e, b + 1)
    BY SumAddsUp
  <2>6. tier.unit * (0 + 1) = tier.unit
    BY <1>1
  <2> QED  BY <1>1, <2>4, <2>5, <2>6, SumAddsUp
<1>4. ASSUME NEW k \in Nat, k \in E
      PROVE  k + 1 \in E
  <2> SUFFICES ASSUME (k + 1) + 1 <= n
               PROVE  Sum(e)[b + (k + 1) + 1] = Sum(e)[b] + tier.flat * Parts + tier.unit * ((k + 1) + 1)
    OBVIOUS
  <2>1. b + k + 1 \in (b + 1)..(b + n) /\ b + k + 2 \in (b + 1)..(b + n)
    OBVIOUS
  <2>2. Reached(e, b + k + 2) /\ TierOf(e, b + k + 2) = i /\ TierOf(e, b + k + 1) = i
    BY <2>1
  <2>3. (b + k + 2) - 1 = b + k + 1 /\ b + k + 2 # 1
    OBVIOUS
  <2>4. Added(e, b + k + 2) = tier.unit
    BY <2>2, <2>3, <1>1 DEF Added, Enters
  <2>5. Sum(e)[b + (k + 1) + 1] = Sum(e)[b + k + 1] + Added(e, b + k + 2)
    <3>1. b + (k + 1) + 1 = b + k + 2 /\ b + (k + 1) = b + k + 1
      OBVIOUS
    <3> QED  BY <3>1, <1>2
  <2>6. Sum(e)[b + k + 1] = Sum(e)[b] + tier.flat * Parts + tier.unit * (k + 1)
    BY <1>4
  <2>7. tier.unit * ((k + 1) + 1) = tier.unit * (k + 1) + tier.unit
    BY <1>1
  <2>8. tier.unit * (k + 1) \in Nat
    BY <1>1
  <2> QED  BY <1>1, <2>4, <2>5, <2>6, <2>7, <2>8, SumAddsUp
<1>5. Nat \subseteq E
  <2> HIDE DEF E
  <2> QED  BY <1>3, <1>4, EveryNumber
<1>6. n - 1 \in Nat /\ b + (n - 1) + 1 = b + n /\ (n - 1) + 1 = n
  OBVIOUS
<1>7. n - 1 \in E
  BY <1>5, <1>6
<1> QED  BY <1>6, <1>7

-----------------------------------------------------------------------------
(* The loop over the tiers.                                                   *)
Carried == [ok : BOOLEAN, cost : Int, remaining : Int, below : Int]

LEMMA MinOfTwo ==
  ASSUME NEW a \in Int, NEW b \in Int
  PROVE  Min({a, b}) = IF a <= b THEN a ELSE b
<1>1. \E x \in {a, b} : \A y \in {a, b} : x <= y
  OBVIOUS
<1>2. Min({a, b}) \in {a, b} /\ \A y \in {a, b} : Min({a, b}) <= y
  BY <1>1 DEF Min
<1>3. Min({a, b}) = a \/ Min({a, b}) = b
  BY <1>2
<1>4. Min({a, b}) <= a /\ Min({a, b}) <= b
  BY <1>2
<1> QED  BY <1>3, <1>4

(* What one tier does: it takes all that remains, or all that it has room for. *)
LEMMA TakenIs ==
  ASSUME NEW e \in Events, NEW i \in DOMAIN e.tiers, NEW run \in Carried, run.ok, run.remaining > 0
  PROVE  LET tier == e.tiers[i]
             room == tier.upTo * Parts - run.below
             all  == tier.upTo = NoLimit \/ run.remaining <= room
             units == IF all THEN run.remaining ELSE room
             cost == run.cost + tier.flat * Parts + tier.unit * units
         IN /\ Taken(run, tier).ok => tier.upTo = NoLimit \/ room > 0
            /\ (tier.upTo = NoLimit \/ room > 0) /\ Safe(cost) => Taken(run, tier).ok
            /\ Taken(run, tier).cost = cost
            /\ Taken(run, tier).remaining = run.remaining - units
            /\ Taken(run, tier).below = IF tier.upTo = NoLimit THEN run.below ELSE tier.upTo * Parts
            /\ Taken(run, tier) \in Carried
<1> DEFINE tier == e.tiers[i]
           room == tier.upTo * Parts - run.below
           capacity == IF tier.upTo = NoLimit THEN run.remaining ELSE room
           units == IF tier.upTo = NoLimit \/ run.remaining <= room THEN run.remaining ELSE room
           cost == run.cost + tier.flat * Parts + tier.unit * units
<1>1. tier.upTo \in Nat /\ tier.unit \in Nat /\ tier.flat \in Nat /\ Parts \in Nat
  BY EventShape, PricingAssumption
<1>2. run.cost \in Int /\ run.remaining \in Int /\ run.below \in Int
  BY DEF Carried
<1>3. room \in Int /\ units \in Int /\ cost \in Int
  <2>1. tier.upTo * Parts \in Int /\ tier.flat * Parts \in Int
    BY <1>1
  <2>2. room \in Int
    BY <2>1, <1>2
  <2>3. units \in Int
    BY <2>2, <1>2
  <2>4. tier.unit * units \in Int
    BY <2>3, <1>1
  <2> QED  BY <2>1, <2>2, <2>3, <2>4, <1>2
<1>4. Min({run.remaining, capacity}) = units
  <2>1. capacity \in Int
    BY <1>2, <1>3
  <2>2. Min({run.remaining, capacity}) = IF run.remaining <= capacity THEN run.remaining ELSE capacity
    BY <2>1, <1>2, MinOfTwo
  <2> QED  BY <2>2, <1>2
<1>5. Taken(run, tier) = [ok |-> capacity > 0 /\ Safe(cost), cost |-> cost, remaining |-> run.remaining - units,
                          below |-> IF tier.upTo = NoLimit THEN run.below ELSE tier.upTo * Parts]
  <2> HIDE DEF cost
  <2>1. run.remaining # 0
    BY <1>2
  <2>2. cost = run.cost + tier.flat * Parts + tier.unit * Min({run.remaining, capacity})
    BY <1>4 DEF cost
  <2> QED  BY <1>4, <2>1, <2>2 DEF Taken
<1>6. tier.upTo * Parts \in Int
  BY <1>1
<1>7. (capacity > 0) = (tier.upTo = NoLimit \/ room > 0)
  BY <1>2, <1>3
<1>8. (capacity > 0 /\ Safe(cost)) \in BOOLEAN
  OBVIOUS
<1> HIDE DEF cost, units, room, tier
<1>9. Taken(run, tier) \in Carried
  BY <1>2, <1>3, <1>5, <1>6, <1>8 DEF Carried
<1>10. /\ Taken(run, tier).ok => tier.upTo = NoLimit \/ room > 0
       /\ (tier.upTo = NoLimit \/ room > 0) /\ Safe(cost) => Taken(run, tier).ok
  <2> DEFINE good == capacity > 0 /\ Safe(cost)
  <2>1. Taken(run, tier).ok = good
    <3> HIDE DEF good
    <3> QED  BY <1>5 DEF good
  <2> QED  BY <1>7, <2>1
<1> QED  BY <1>5, <1>9, <1>10 DEF cost, units, room, tier

(* The loop's definition, as a recursion that has a solution.                 *)
LEMMA RunsAre ==
  ASSUME NEW e \in Events, NEW quantity \in Nat
  PROVE  LET run == Runs(e.tiers, quantity)
         IN /\ run[0] = Start(quantity)
            /\ \A i \in DOMAIN e.tiers : run[i] = Taken(run[i - 1], e.tiers[i])
            /\ \A i \in 0..Len(e.tiers) : run[i] \in Carried
<1> DEFINE n == Len(e.tiers)
           step == [k \in Nat |-> [r \in Carried |->
                      IF k + 1 \in 1..n THEN Taken(r, e.tiers[k + 1]) ELSE r]]
<1>1. ASSUME NEW r \in Carried, NEW i \in DOMAIN e.tiers
      PROVE  Taken(r, e.tiers[i]) \in Carried
  <2>1. CASE r.remaining = 0 \/ ~r.ok
    BY <2>1 DEF Taken
  <2>2. CASE r.remaining # 0 /\ r.ok
    <3> DEFINE tier == e.tiers[i]
               capacity == IF tier.upTo = NoLimit THEN r.remaining ELSE tier.upTo * Parts - r.below
               units == Min({r.remaining, capacity})
               cost == r.cost + tier.flat * Parts + tier.unit * units
    <3>1. tier.upTo * Parts \in Int /\ tier.flat * Parts \in Int /\ tier.unit \in Int
      BY EventShape, PricingAssumption
    <3>2. r.cost \in Int /\ r.remaining \in Int /\ r.below \in Int
      BY DEF Carried
    <3>3. capacity \in Int
      BY <3>1, <3>2
    <3>4. units \in Int
      BY <3>2, <3>3, MinOfTwo
    <3>5. cost \in Int
      <4> HIDE DEF units
      <4>1. tier.unit * units \in Int
        BY <3>1, <3>4
      <4> QED  BY <4>1, <3>1, <3>2
    <3>6. Taken(r, tier) = [ok |-> capacity > 0 /\ Safe(cost), cost |-> cost, remaining |-> r.remaining - units,
                            below |-> IF tier.upTo = NoLimit THEN r.below ELSE tier.upTo * Parts]
      BY <2>2 DEF Taken
    <3> HIDE DEF units, cost, capacity, tier
    <3> QED  BY <3>1, <3>2, <3>4, <3>5, <3>6 DEF Carried, tier
  <2> QED  BY <2>1, <2>2
<1>2. step \in [Nat -> [Carried -> Carried]]
  BY <1>1, EventShape
<1>3. Start(quantity) \in Carried
  BY DEF Start, Carried
<1>4. PICK f : Follows(f, Carried, Start(quantity), step)
  <2> HIDE DEF step
  <2> QED  BY <1>2, <1>3, StepByStep
<1>5. f \in [Nat -> Carried] /\ f[0] = Start(quantity) /\ \A k \in Nat : f[k + 1] = step[k][f[k]]
  <2> HIDE DEF step
  <2> QED  BY <1>4 DEF Follows
<1>6. ASSUME NEW i \in 1..n
      PROVE  f[i] = Taken(f[i - 1], e.tiers[i])
  <2>1. i - 1 \in Nat /\ (i - 1) + 1 = i /\ f[i - 1] \in Carried
    BY <1>5, EventShape
  <2>2. step[i - 1][f[i - 1]] = Taken(f[i - 1], e.tiers[i])
    BY <2>1
  <2> QED  BY <1>5, <2>1, <2>2
<1> DEFINE g == [i \in 0..n |-> f[i]]
<1> HIDE DEF step
<1>7. g = [i \in 0..n |-> IF i = 0 THEN Start(quantity) ELSE Taken(g[i - 1], e.tiers[i])]
  <2>1. ASSUME NEW i \in 0..n
        PROVE  f[i] = IF i = 0 THEN Start(quantity) ELSE Taken(g[i - 1], e.tiers[i])
    <3>1. CASE i = 0
      BY <3>1, <1>5
    <3>2. CASE i # 0
      <4>1. i \in 1..n /\ i - 1 \in 0..n
        BY <3>2, EventShape
      <4> QED  BY <3>2, <4>1, <1>6
    <3> QED  BY <3>1, <3>2
  <2> QED  BY <2>1
<1> DEFINE run == Runs(e.tiers, quantity)
<1>8. run = [i \in 0..n |-> IF i = 0 THEN Start(quantity) ELSE Taken(run[i - 1], e.tiers[i])]
  BY <1>7 DEF Runs
<1> HIDE DEF run
<1>9. run[0] = Start(quantity) /\ \A i \in 1..n : run[i] = Taken(run[i - 1], e.tiers[i])
  <2>1. 0 \in 0..n /\ \A i \in 1..n : i \in 0..n /\ i # 0
    BY EventShape
  <2> HIDE DEF n
  <2> QED  BY <1>8, <2>1
<1>10. \A i \in 0..n : run[i] \in Carried
  <2> DEFINE E == {i \in Nat : i <= n => run[i] \in Carried}
  <2>1. 0 \in E
    BY <1>3, <1>9
  <2>2. ASSUME NEW i \in Nat, i \in E
        PROVE  i + 1 \in E
    <3>1. CASE i + 1 <= n
      <4>1. i + 1 \in 1..n /\ (i + 1) - 1 = i /\ run[i] \in Carried
        BY <2>2, <3>1, EventShape
      <4>2. i + 1 \in DOMAIN e.tiers
        BY <4>1, EventShape
      <4>3. run[i + 1] \in Carried
        BY <4>1, <4>2, <1>1, <1>9
      <4> QED  BY <4>3
    <3> QED  BY <3>1
  <2>3. Nat \subseteq E
    <3> HIDE DEF E
    <3> QED  BY <2>1, <2>2, EveryNumber
  <2> QED  BY <2>3, EventShape
<1> QED  BY <1>9, <1>10, EventShape DEF run

(* After i tiers the loop has priced all parts, or those that these tiers     *)
(* reach, each as the reference does.                                         *)
Priced(e, run, q) == run.remaining = 0 /\ Reached(e, q) /\ run.cost = Sum(e)[q]

Pricing(e, run, i, q) ==
  /\ run.remaining \in 1..q
  /\ run.below = q - run.remaining
  /\ run.cost = Sum(e)[run.below]
  /\ \A p \in Nat : p > run.below => \A j \in 1..i : ~Within(p, e.tiers[j])
  /\ run.below = 0 \/ TierOf(e, run.below) <= i

LEMMA TierPrices ==
  ASSUME NEW e \in Events, NEW q \in Nat, NEW i \in DOMAIN e.tiers, NEW run \in Carried,
         run.ok, Pricing(e, run, i - 1, q), e.tiers[i].upTo = NoLimit \/ e.tiers[i].upTo * Parts > run.below
  PROVE  LET next == Taken(run, e.tiers[i])
         IN Priced(e, next, q) \/ Pricing(e, next, i, q)
<1> DEFINE tier == e.tiers[i]
           next == Taken(run, tier)
           b == run.below
           room == tier.upTo * Parts - b
           all == tier.upTo = NoLimit \/ run.remaining <= room
           units == IF all THEN run.remaining ELSE room
<1>1. /\ next.cost = run.cost + tier.flat * Parts + tier.unit * units
      /\ next.remaining = run.remaining - units
      /\ next.below = IF tier.upTo = NoLimit THEN b ELSE tier.upTo * Parts
  <2>1. run.remaining > 0
    BY DEF Pricing
  <2> HIDE DEF next
  <2>2. /\ Taken(run, tier).cost = run.cost + tier.flat * Parts + tier.unit * units
        /\ Taken(run, tier).remaining = run.remaining - units
        /\ Taken(run, tier).below = IF tier.upTo = NoLimit THEN b ELSE tier.upTo * Parts
    BY <2>1, TakenIs
  <2> QED  BY <2>2 DEF next
<1>2. /\ run.remaining \in Nat \ {0} /\ b \in Nat /\ b + run.remaining = q /\ run.cost = Sum(e)[b]
      /\ i \in Nat \ {0}
  BY EventShape DEF Pricing
<1>3. tier.upTo * Parts \in Nat
  BY EventShape, PricingAssumption
<1>4. units \in Nat \ {0} /\ units <= run.remaining
  BY <1>2, <1>3
<1>5. ASSUME NEW p \in (b + 1)..(b + units)
      PROVE  Reached(e, p) /\ TierOf(e, p) = i
  <2>1. p \in Nat /\ p > b
    BY <1>2, <1>4
  <2>2. Within(p, tier)
    <3>1. CASE tier.upTo = NoLimit
      BY <3>1 DEF Within
    <3>2. CASE tier.upTo # NoLimit
      <4>1. units <= room
        BY <3>2, <1>2, <1>3
      <4>2. p <= tier.upTo * Parts
        BY <4>1, <1>2, <1>3, <1>4
      <4> QED  BY <4>2 DEF Within
    <3> QED  BY <3>1, <3>2
  <2>3. \A j \in 1..(i - 1) : ~Within(p, e.tiers[j])
    BY <2>1 DEF Pricing
  <2> QED  BY <2>1, <2>2, <2>3, TierIs
<1>6. b = 0 \/ TierOf(e, b) # i
  <2>1. CASE TierOf(e, b) = i /\ TierOf(e, b) <= i - 1
    BY <2>1, <1>2
  <2> QED  BY <2>1 DEF Pricing
<1>7. next.cost = Sum(e)[b + units]
  <2> HIDE DEF units
  <2>1. Sum(e)[b + units] = Sum(e)[b] + e.tiers[i].flat * Parts + e.tiers[i].unit * units
    BY <1>2, <1>4, <1>5, <1>6, SumWithinTier
  <2> QED  BY <1>1, <1>2, <2>1
<1>8. b + units \in (b + 1)..(b + units)
  BY <1>2, <1>4
<1>9. Reached(e, b + units) /\ TierOf(e, b + units) = i
  BY <1>5, <1>8
<1> HIDE DEF next
<1>10. CASE all
  <2>1. b + units = q /\ next.remaining = 0
    BY <1>1, <1>2, <1>10
  <2>2. next.cost = Sum(e)[q] /\ Reached(e, q)
    <3> HIDE DEF units
    <3> QED  BY <1>7, <1>9, <2>1
  <2> QED  BY <2>1, <2>2 DEF Priced, next
<1>11. CASE ~all
  <2>1. units = room /\ room < run.remaining /\ next.below = tier.upTo * Parts /\ b + units = next.below
    BY <1>1, <1>2, <1>3, <1>11
  <2>2. next.remaining \in 1..q /\ next.below = q - next.remaining
    BY <1>1, <1>2, <1>3, <1>4, <2>1
  <2>3. next.cost = Sum(e)[next.below] /\ TierOf(e, next.below) <= i
    <3>1. i <= i
      BY <1>2
    <3> HIDE DEF units
    <3> QED  BY <1>7, <1>9, <2>1, <3>1
  <2>4. ASSUME NEW p \in Nat, p > next.below, NEW j \in 1..i
        PROVE  ~Within(p, e.tiers[j])
    <3>1. p > b
      BY <1>2, <1>4, <2>1, <2>4
    <3>2. CASE j = i
      BY <1>11, <1>3, <2>1, <2>4, <3>2 DEF Within
    <3>3. CASE j # i
      <4>1. j \in 1..(i - 1)
        BY <1>2, <3>3
      <4> QED  BY <3>1, <4>1 DEF Pricing
    <3> QED  BY <3>2, <3>3
  <2> QED  BY <2>2, <2>3, <2>4 DEF Pricing, next
<1> QED  BY <1>10, <1>11

(* What the code quotes for a graduated price list is what the parts cost.    *)
LEMMA LoopPrices ==
  ASSUME NEW e \in Events, NEW q \in Nat \ {0}
  PROVE  \A i \in 0..Len(e.tiers) :
           LET run == Runs(e.tiers, q)[i]
           IN run.ok => Priced(e, run, q) \/ Pricing(e, run, i, q)
<1> DEFINE n == Len(e.tiers)
           run == Runs(e.tiers, q)
           Holds(i) == run[i].ok => Priced(e, run[i], q) \/ Pricing(e, run[i], i, q)
           E == {i \in Nat : i <= n => Holds(i)}
<1>1. /\ run[0] = Start(q)
      /\ \A i \in DOMAIN e.tiers : run[i] = Taken(run[i - 1], e.tiers[i])
      /\ \A i \in 0..n : run[i] \in Carried
  BY RunsAre
<1> HIDE DEF run
<1>2. 0 \in E
  <2>1. Pricing(e, Start(q), 0, q)
    BY SumAddsUp DEF Pricing, Start
  <2> QED  BY <1>1, <2>1
<1>3. ASSUME NEW i \in Nat, i \in E
      PROVE  i + 1 \in E
  <2> SUFFICES ASSUME i + 1 <= n, run[i + 1].ok PROVE Priced(e, run[i + 1], q) \/ Pricing(e, run[i + 1], i + 1, q)
    OBVIOUS
  <2>1. i + 1 \in DOMAIN e.tiers /\ (i + 1) - 1 = i /\ i \in 0..n
    BY EventShape
  <2>2. run[i + 1] = Taken(run[i], e.tiers[i + 1]) /\ run[i] \in Carried
    BY <1>1, <2>1
  <2>3. CASE run[i].remaining = 0
    <3>1. run[i + 1] = run[i]
      BY <2>2, <2>3 DEF Taken
    <3>2. ~Pricing(e, run[i], i, q)
      BY <2>3 DEF Pricing
    <3> QED  BY <1>3, <2>1, <3>1, <3>2
  <2>4. CASE run[i].remaining # 0
    <3>1. run[i].ok
      <4>1. CASE ~run[i].ok
        BY <2>2, <4>1 DEF Taken
      <4> QED  BY <4>1
    <3>2. Pricing(e, run[i], i, q)
      BY <1>3, <2>1, <2>4, <3>1 DEF Priced
    <3>3. run[i].remaining > 0
      BY <3>2 DEF Pricing
    <3>4. e.tiers[i + 1].upTo = NoLimit \/ e.tiers[i + 1].upTo * Parts > run[i].below
      <4>1. e.tiers[i + 1].upTo = NoLimit \/ e.tiers[i + 1].upTo * Parts - run[i].below > 0
        BY <2>1, <2>2, <3>1, <3>3, TakenIs
      <4>2. e.tiers[i + 1].upTo * Parts \in Int /\ run[i].below \in Int
        BY <2>1, <2>2, EventShape, PricingAssumption DEF Carried
      <4> QED  BY <4>1, <4>2
    <3> QED  BY <2>1, <2>2, <3>1, <3>2, <3>4, TierPrices
  <2> QED  BY <2>3, <2>4
<1>4. Nat \subseteq E
  <2> HIDE DEF E
  <2> QED  BY <1>2, <1>3, EveryNumber
<1>5. \A i \in 0..n : Holds(i)
  BY <1>4, EventShape
<1> QED  BY <1>5 DEF run

-----------------------------------------------------------------------------
(* Whole prices.                                                              *)
LEMMA SafeCostIs ==
  ASSUME NEW amount, Safe(amount)
  PROVE  SafeCost(amount) \in 0..MaxSafe /\ SafeCost(amount) * Parts = amount
<1>1. amount \in 0..(MaxSafe * Parts) /\ amount % Parts = 0 /\ MaxSafe * Parts \in Nat
  BY PricingAssumption DEF Safe
<1>2. amount = Parts * (amount \div Parts) + (amount % Parts) /\ amount \div Parts \in Int
  BY <1>1, PricingAssumption
<1> DEFINE units == amount \div Parts
<1>3. SafeCost(amount) = units
  BY DEF SafeCost
<1>4. units \in Int /\ amount = Parts * units
  BY <1>1, <1>2, PricingAssumption
<1> HIDE DEF units
<1>5. units >= 0
  BY <1>1, <1>4, PricingAssumption
<1>6. units <= MaxSafe
  BY <1>1, <1>4, PricingAssumption
<1>7. units * Parts = Parts * units
  BY <1>4, PricingAssumption
<1> QED  BY <1>3, <1>4, <1>5, <1>6, <1>7, PricingAssumption

LEMMA Products ==
  ASSUME NEW x \in Int, NEW y \in Int, NEW z \in Int
  PROVE  x * (y * z) = (x * y) * z /\ x * z + y * z = (x + y) * z /\ x * z - y * z = (x - y) * z
OBVIOUS

LEMMA WholeStaysWhole ==
  ASSUME NEW a \in Nat, NEW k \in Nat, a % Parts = 0
  PROVE  (a + k * Parts) % Parts = 0
<1>1. a = Parts * (a \div Parts) + (a % Parts) /\ a \div Parts \in Nat
  BY PricingAssumption
<1> DEFINE units == a \div Parts
<1>2. units \in Nat /\ a = Parts * units
  BY <1>1, PricingAssumption
<1> HIDE DEF units
<1>3. a + k * Parts = (units + k) * Parts
  BY <1>2, PricingAssumption
<1>4. ((units + k) * Parts) % Parts = 0
  <2>1. units + k \in Nat
    BY <1>2
  <2>2. \A m \in Nat : (m * Parts) % Parts = 0
    BY PricingAssumption
  <2> QED  BY <2>1, <2>2
<1> QED  BY <1>3, <1>4

LEMMA GraduatedPrices ==
  ASSUME NEW e \in Events, NEW q \in Nat \ {0}, Graduated(e.tiers, q) # NoAmount
  PROVE  /\ Graduated(e.tiers, q) \in 0..MaxSafe
         /\ Graduated(e.tiers, q) * Parts = Sum(e)[q]
         /\ Reached(e, q)
<1> DEFINE last == Runs(e.tiers, q)[Len(e.tiers)]
<1>1. last.ok /\ last.remaining = 0 /\ Graduated(e.tiers, q) = SafeCost(last.cost)
  BY DEF Graduated
<1>2. Len(e.tiers) \in 0..Len(e.tiers)
  BY EventShape
<1>3. Priced(e, last, q)
  <2>1. Priced(e, last, q) \/ Pricing(e, last, Len(e.tiers), q)
    BY <1>1, <1>2, LoopPrices
  <2> QED  BY <1>1, <2>1 DEF Pricing
<1>4. Safe(last.cost)
  BY <1>1 DEF SafeCost
<1> QED  BY <1>1, <1>3, <1>4, SafeCostIs DEF Priced

LEMMA VolumePrices ==
  ASSUME NEW e \in Events, e.mode = "VOLUME", NEW q \in Nat \ {0}
  PROVE  /\ Volume(e.tiers, q) # NoAmount => Reached(e, q)
         /\ Reached(e, q) => Volume(e.tiers, q) = SafeCost(Owed(e, q))
<1> DEFINE fitting == {i \in DOMAIN e.tiers : Within(q, e.tiers[i])}
<1>1. (fitting # {}) = Reached(e, q)
  BY DEF Reached
<1>2. ASSUME Reached(e, q)
      PROVE  Min(fitting) = TierOf(e, q)
  <2>1. TierOf(e, q) \in fitting /\ \A j \in fitting : TierOf(e, q) <= j
    BY <1>2, TierIsFirst
  <2>2. fitting \in SUBSET Nat
    BY EventShape
  <2> HIDE DEF fitting
  <2>3. Min(fitting) \in fitting /\ \A j \in fitting : Min(fitting) <= j
    BY <2>1 DEF Min
  <2>4. Min(fitting) \in Nat /\ TierOf(e, q) \in Nat /\ Min(fitting) <= TierOf(e, q) /\ TierOf(e, q) <= Min(fitting)
    BY <2>1, <2>2, <2>3
  <2> QED  BY <2>4
<1>3. Volume(e.tiers, q) = IF fitting = {} THEN NoAmount
                           ELSE SafeCost(e.tiers[Min(fitting)].flat * Parts + e.tiers[Min(fitting)].unit * q)
  BY DEF Volume
<1>4. Owed(e, q) = e.tiers[TierOf(e, q)].flat * Parts + e.tiers[TierOf(e, q)].unit * q
  BY DEF Owed
<1> HIDE DEF fitting
<1> QED  BY <1>1, <1>2, <1>3, <1>4

(* A valid price list reaches every quantity, and the loop runs through it.   *)
LEMMA ValidTiers ==
  ASSUME NEW e \in Events, e.mode # "FIXED", ValidEvent(e)
  PROVE  /\ Len(e.tiers) >= 1 /\ e.tiers[Len(e.tiers)].upTo = NoLimit
         /\ \A i \in 1..(Len(e.tiers) - 1) : e.tiers[i].upTo > IF i = 1 THEN 0 ELSE e.tiers[i - 1].upTo
<1> DEFINE bounds == [i \in DOMAIN e.tiers |-> e.tiers[i].upTo]
           n == Len(e.tiers)
<1>1. e.mode \in Tiered
  BY EventShape DEF Tiered
<1>2. /\ n \in 1..6 /\ bounds[n] = NoLimit
      /\ \A i \in 1..(n - 1) : bounds[i] > IF i = 1 THEN 0 ELSE bounds[i - 1]
  BY <1>1 DEF ValidEvent
<1>3. \A i \in 1..n : bounds[i] = e.tiers[i].upTo
  BY EventShape
<1> HIDE DEF bounds
<1>4. ASSUME NEW i \in 1..(n - 1)
      PROVE  e.tiers[i].upTo > IF i = 1 THEN 0 ELSE e.tiers[i - 1].upTo
  <2>1. i \in 1..n /\ (i # 1 => i - 1 \in 1..n)
    BY <1>2
  <2> QED  BY <1>2, <1>3, <2>1
<1>5. n >= 1 /\ n \in 1..n
  <2> HIDE DEF n
  <2>1. n \in 1..6
    BY <1>2
  <2> QED  BY <2>1
<1>6. e.tiers[n].upTo = NoLimit
  BY <1>2, <1>3, <1>5
<1> QED  BY <1>4, <1>5, <1>6

LEMMA ValidReaches ==
  ASSUME NEW e \in Events, e.mode # "FIXED", ValidEvent(e), NEW q \in Nat
  PROVE  Reached(e, q)
BY ValidTiers, EventShape DEF Reached, Within

LEMMA ValidRuns ==
  ASSUME NEW e \in Events, e.mode # "FIXED", ValidEvent(e), NEW q \in Nat \ {0}, Safe(Sum(e)[q])
  PROVE  LET last == Runs(e.tiers, q)[Len(e.tiers)]
         IN last.ok /\ last.remaining = 0 /\ last.cost = Sum(e)[q]
<1> DEFINE n == Len(e.tiers)
           run == Runs(e.tiers, q)
           Bound(i) == IF i = 0 THEN 0 ELSE e.tiers[i].upTo
           Holds(i) == /\ run[i].ok
                       /\ \/ Priced(e, run[i], q)
                          \/ /\ Pricing(e, run[i], i, q)
                             /\ i < n /\ run[i].below = Bound(i) * Parts /\ run[i].cost % Parts = 0
           E == {i \in Nat : i <= n => Holds(i)}
<1>1. /\ run[0] = Start(q)
      /\ \A i \in DOMAIN e.tiers : run[i] = Taken(run[i - 1], e.tiers[i])
      /\ \A i \in 0..n : run[i] \in Carried
  BY RunsAre
<1>2. n \in Nat \ {0} /\ DOMAIN e.tiers = 1..n
  BY EventShape, ValidTiers
<1>3. Sum(e)[q] \in 0..(MaxSafe * Parts) /\ MaxSafe * Parts \in Nat
  BY PricingAssumption DEF Safe
<1> HIDE DEF run
<1>4. 0 \in E
  <2>1. Pricing(e, Start(q), 0, q)
    BY SumAddsUp DEF Pricing, Start
  <2>2. Start(q).ok /\ Start(q).below = 0 /\ Start(q).cost = 0
    BY DEF Start
  <2>3. 0 % Parts = 0 /\ 0 * Parts = 0
    BY PricingAssumption
  <2> QED  BY <1>1, <1>2, <2>1, <2>2, <2>3
<1>5. ASSUME NEW i \in Nat, i \in E
      PROVE  i + 1 \in E
  <2> SUFFICES ASSUME i + 1 <= n PROVE Holds(i + 1)
    OBVIOUS
  <2> DEFINE tier == e.tiers[i + 1]
             next == run[i + 1]
  <2>1. i + 1 \in DOMAIN e.tiers /\ (i + 1) - 1 = i /\ i \in 0..n
    BY <1>2
  <2>2. next = Taken(run[i], tier) /\ run[i] \in Carried
    BY <1>1, <2>1
  <2>3. CASE Priced(e, run[i], q)
    <3>1. next = run[i]
      BY <2>2, <2>3 DEF Taken, Priced
    <3> QED  BY <1>5, <2>1, <2>3, <3>1
  <2>4. CASE ~Priced(e, run[i], q)
    <3>1. /\ run[i].ok /\ Pricing(e, run[i], i, q)
          /\ run[i].below = Bound(i) * Parts /\ run[i].cost % Parts = 0
      BY <1>5, <2>1, <2>4
    <3>2. run[i].remaining > 0
      BY <3>1 DEF Pricing
    <3>3. /\ Bound(i) \in Nat /\ tier.upTo \in Nat /\ tier.unit \in Nat /\ tier.flat \in Nat
          /\ tier.upTo * Parts \in Nat /\ Bound(i) * Parts \in Nat
      <4>1. Bound(i) \in Nat
        BY <1>2, <2>1, EventShape
      <4> QED  BY <2>1, <4>1, EventShape, PricingAssumption
    <3>4. tier.upTo = NoLimit \/ tier.upTo > Bound(i)
      <4>1. CASE i + 1 = n
        BY <4>1, ValidTiers
      <4>2. CASE i + 1 # n
        <5>1. i + 1 \in 1..(n - 1) /\ (i + 1 = 1) = (i = 0)
          BY <1>2, <4>2
        <5> QED  BY <2>1, <5>1, ValidTiers
      <4> QED  BY <4>1, <4>2
    <3>5. tier.upTo = NoLimit \/ tier.upTo * Parts > Bound(i) * Parts
      <4> HIDE DEF Bound, tier
      <4> QED  BY <3>3, <3>4, PricingAssumption
    <3>6. tier.upTo = NoLimit \/ tier.upTo * Parts > run[i].below
      BY <3>1, <3>5
    <3>7. Priced(e, next, q) \/ Pricing(e, next, i + 1, q)
      BY <2>1, <2>2, <3>1, <3>6, TierPrices
    <3> DEFINE room == tier.upTo * Parts - run[i].below
               all == tier.upTo = NoLimit \/ run[i].remaining <= room
               units == IF all THEN run[i].remaining ELSE room
               cost == run[i].cost + tier.flat * Parts + tier.unit * units
    <3>8. /\ (tier.upTo = NoLimit \/ room > 0) /\ Safe(cost) => next.ok
          /\ next.cost = cost /\ next.remaining = run[i].remaining - units
          /\ next.below = IF tier.upTo = NoLimit THEN run[i].below ELSE tier.upTo * Parts
      BY <2>1, <2>2, <3>1, <3>2, TakenIs
    <3>9. tier.upTo = NoLimit \/ room > 0
      <4>1. run[i].below \in Nat
        BY <3>1, <3>3
      <4> QED  BY <3>3, <3>6, <4>1
    <3>10. CASE Priced(e, next, q)
      <4>1. Safe(cost)
        <5> HIDE DEF cost
        <5> QED  BY <3>8, <3>10 DEF Priced
      <4> HIDE DEF cost, next
      <4> QED  BY <3>8, <3>9, <3>10, <4>1 DEF next
    <3>11. CASE ~Priced(e, next, q)
      <4>1. Pricing(e, next, i + 1, q)
        BY <3>7, <3>11
      <4>2. next.remaining \in 1..q /\ next.below = q - next.remaining /\ next.cost = Sum(e)[next.below]
        BY <4>1 DEF Pricing
      <4>3. ~all
        <5>1. run[i].remaining \in Int
          BY <2>2 DEF Carried
        <5>2. next.remaining # 0
          BY <4>2
        <5> HIDE DEF next
        <5> QED  BY <3>8, <5>1, <5>2
      <4>4. /\ next.below = (tier.upTo - Bound(i)) * Parts + run[i].below
            /\ cost = run[i].cost + tier.flat * Parts + tier.unit * ((tier.upTo - Bound(i)) * Parts)
        <5>1. (tier.upTo - Bound(i)) * Parts = tier.upTo * Parts - Bound(i) * Parts
          <6> HIDE DEF Bound, tier
          <6> QED  BY <3>3, PricingAssumption
        <5> HIDE DEF Bound, next
        <5> QED  BY <3>1, <3>3, <3>8, <4>3, <5>1
      <4>5. i + 1 < n
        <5>1. CASE i + 1 = n
          BY <4>3, <5>1, ValidTiers
        <5> QED  BY <5>1, <1>2
      <4>6. cost % Parts = 0
        <5> DEFINE k == tier.flat + tier.unit * (tier.upTo - Bound(i))
        <5>1. tier.upTo - Bound(i) \in Nat
          BY <3>3, <3>4, <4>3
        <5> DEFINE more == tier.upTo - Bound(i)
        <5> HIDE DEF more
        <5>2. more \in Nat /\ tier.unit * more \in Nat /\ tier.flat * Parts \in Nat /\ tier.unit * (more * Parts) \in Nat
          <6>1. more \in Nat
            BY <5>1 DEF more
          <6> HIDE DEF tier
          <6>2. more * Parts \in Nat
            BY <6>1, PricingAssumption
          <6>3. tier.unit \in Nat /\ tier.flat \in Nat
            BY <3>3
          <6>4. tier.unit * more \in Nat
            BY <6>1, <6>3
          <6>5. tier.unit * (more * Parts) \in Nat
            BY <6>2, <6>3
          <6>6. tier.flat * Parts \in Nat
            BY <6>3, PricingAssumption
          <6> QED  BY <6>1, <6>4, <6>5, <6>6
        <5>3. /\ tier.unit * (more * Parts) = (tier.unit * more) * Parts
              /\ tier.flat * Parts + (tier.unit * more) * Parts = (tier.flat + tier.unit * more) * Parts
          <6>1. tier.unit \in Int /\ tier.flat \in Int /\ more \in Int /\ Parts \in Int /\ tier.unit * more \in Int
            <7> HIDE DEF tier
            <7>1. tier.unit * more \in Int
              BY <5>2
            <7> QED  BY <3>3, <5>2, <7>1, PricingAssumption
          <6> HIDE DEF tier
          <6> QED  BY <6>1, Products
        <5>5. run[i].cost \in Nat
          <6>1. run[i].cost = Sum(e)[run[i].below] /\ run[i].below \in Nat
            <7> HIDE DEF Bound
            <7> QED  BY <3>1, <3>3 DEF Pricing
          <6> QED  BY <6>1, SumAddsUp
        <5>6. k \in Nat /\ k = tier.flat + tier.unit * more
          <6>1. tier.flat + tier.unit * more \in Nat
            <7> HIDE DEF tier
            <7> QED  BY <3>3, <5>2
          <6> QED  BY <6>1 DEF more
        <5>7. cost = run[i].cost + tier.flat * Parts + tier.unit * (more * Parts)
          BY <4>4 DEF more
        <5>8. cost = run[i].cost + k * Parts
          <6> HIDE DEF k, cost, tier
          <6>1. tier.flat * Parts + tier.unit * (more * Parts) = k * Parts
            BY <5>3, <5>6
          <6> QED  BY <5>2, <5>5, <5>7, <6>1
        <5> HIDE DEF k, cost
        <5> QED  BY <3>1, <5>5, <5>6, <5>8, WholeStaysWhole
      <4>7. Safe(cost)
        <5>1. next.below \in Nat /\ next.below <= q
          BY <4>2
        <5>2. Sum(e)[next.below] <= Sum(e)[q] /\ Sum(e)[next.below] \in Nat
          BY <5>1, SumGrows, SumAddsUp
        <5>3. cost = Sum(e)[next.below]
          BY <3>8, <4>2
        <5> HIDE DEF cost
        <5> QED  BY <1>3, <4>6, <5>2, <5>3 DEF Safe
      <4>8. next.ok
        <5> HIDE DEF cost
        <5> QED  BY <3>8, <3>9, <4>7
      <4>9. next.below = Bound(i + 1) * Parts
        BY <2>1, <3>8, <4>3
      <4>10. next.cost % Parts = 0
        <5> HIDE DEF cost
        <5> QED  BY <3>8, <4>6
      <4> QED  BY <4>1, <4>5, <4>8, <4>9, <4>10
    <3> QED  BY <3>10, <3>11
  <2> QED  BY <2>3, <2>4
<1>6. Nat \subseteq E
  <2> HIDE DEF E
  <2> QED  BY <1>4, <1>5, EveryNumber
<1>7. Holds(n)
  BY <1>2, <1>6
<1>8. run[n].ok /\ Priced(e, run[n], q)
  BY <1>2, <1>7
<1> QED  BY <1>8 DEF run, Priced

-----------------------------------------------------------------------------
(* The price of a quantity, whatever the kind of price list.                  *)
LEMMA PriceIsOwed ==
  ASSUME NEW e \in Events, e.mode # "FIXED", NEW q \in Nat, PricingCost(e, q) # NoAmount
  PROVE  /\ PricingCost(e, q) \in 0..MaxSafe
         /\ Owed(e, q) = PricingCost(e, q) * Parts
         /\ q # 0 => Reached(e, q)
<1>1. CASE q = 0
  <2>1. PricingCost(e, q) = 0 /\ Owed(e, q) = 0
    BY <1>1, SumAddsUp DEF PricingCost, Owed
  <2> QED  BY <1>1, <2>1, PricingAssumption
<1>2. CASE q # 0 /\ e.mode = "VOLUME"
  <2>1. PricingCost(e, q) = Volume(e.tiers, q)
    BY <1>2 DEF PricingCost
  <2>2. Reached(e, q) /\ Volume(e.tiers, q) = SafeCost(Owed(e, q))
    BY <1>2, <2>1, VolumePrices
  <2>3. Safe(Owed(e, q))
    BY <2>1, <2>2 DEF SafeCost
  <2> QED  BY <2>1, <2>2, <2>3, SafeCostIs
<1>3. CASE q # 0 /\ e.mode # "VOLUME"
  <2>1. PricingCost(e, q) = Graduated(e.tiers, q)
    BY <1>3 DEF PricingCost
  <2>2. Owed(e, q) = Sum(e)[q]
    BY <1>3 DEF Owed
  <2> QED  BY <1>3, <2>1, <2>2, GraduatedPrices
<1> QED  BY <1>1, <1>2, <1>3

LEMMA ValidIsPriced ==
  ASSUME NEW e \in Events, e.mode # "FIXED", ValidEvent(e), NEW q \in Nat, Safe(Owed(e, q))
  PROVE  PricingCost(e, q) # NoAmount
<1>1. e.tiers # <<>>
  BY ValidTiers
<1>2. \A amount : Safe(amount) => SafeCost(amount) # NoAmount
  BY SafeCostIs, PricingAssumption DEF NoAmount
<1>3. CASE q = 0
  BY <1>3 DEF PricingCost, NoAmount
<1>4. CASE q # 0 /\ e.mode = "VOLUME"
  <2>1. Volume(e.tiers, q) = SafeCost(Owed(e, q))
    BY <1>4, ValidReaches, VolumePrices
  <2> QED  BY <1>1, <1>2, <1>4, <2>1 DEF PricingCost
<1>5. CASE q # 0 /\ e.mode # "VOLUME"
  <2>1. Owed(e, q) = Sum(e)[q]
    BY <1>5 DEF Owed
  <2>2. Graduated(e.tiers, q) = SafeCost(Sum(e)[q])
    BY <1>5, <2>1, ValidRuns DEF Graduated
  <2> QED  BY <1>1, <1>2, <1>5, <2>1, <2>2 DEF PricingCost
<1> QED  BY <1>3, <1>4, <1>5

LEMMA OwedIsWhole ==
  ASSUME NEW e \in Events, NEW q \in Nat, q # 0 => Reached(e, q)
  PROVE  Owed(e, q) \in Nat
<1>1. Sum(e)[q] \in Nat
  BY SumAddsUp
<1>2. CASE q # 0
  <2> DEFINE tier == e.tiers[TierOf(e, q)]
  <2>1. tier.flat \in Nat /\ tier.unit \in Nat
    BY <1>2, TierIsFirst, EventShape
  <2>2. tier.flat * Parts + tier.unit * q \in Nat
    <3> HIDE DEF tier
    <3> QED  BY <2>1, PricingAssumption
  <2> QED  BY <1>1, <2>2 DEF Owed
<1> QED  BY <1>1, <1>2 DEF Owed

(* A quote is the difference of what two quantities cost.                     *)
LEMMA QuoteIs ==
  ASSUME NEW e \in Events, NEW before \in Nat, Quote(e, before) # NoAmount
  PROVE  /\ Quote(e, before) \in 1..MaxSafe
         /\ e.mode = "FIXED" => Quote(e, before) = e.fixed
         /\ e.mode # "FIXED" => /\ Reached(e, before + Parts)
                                /\ Quote(e, before) * Parts = Owed(e, before + Parts) - Owed(e, before)
<1> DEFINE from == PricingCost(e, before)
           to == PricingCost(e, before + Parts)
           price == IF e.mode = "FIXED" THEN e.fixed ELSE to - from
<1>1. price \in 1..MaxSafe /\ Quote(e, before) = price
  BY DEF Quote
<1>2. ASSUME e.mode # "FIXED"
      PROVE  /\ Reached(e, before + Parts)
             /\ price * Parts = Owed(e, before + Parts) - Owed(e, before)
  <2>1. from # NoAmount /\ to # NoAmount
    BY <1>2 DEF Quote
  <2>2. before + Parts \in Nat \ {0}
    BY PricingAssumption
  <2>3. /\ from \in 0..MaxSafe /\ to \in 0..MaxSafe /\ Reached(e, before + Parts)
        /\ Owed(e, before) = from * Parts /\ Owed(e, before + Parts) = to * Parts
    BY <1>2, <2>1, <2>2, PriceIsOwed
  <2> HIDE DEF from, to
  <2>4. from \in Int /\ to \in Int /\ Parts \in Int
    BY <2>3, PricingAssumption
  <2>5. (to - from) * Parts = to * Parts - from * Parts
    BY <2>4, Products
  <2> QED  BY <1>2, <2>3, <2>5
<1> HIDE DEF price
<1>3. e.mode = "FIXED" => price = e.fixed
  BY DEF price
<1> QED  BY <1>1, <1>2, <1>3

(* A price that a valid list asks for is quoted.                              *)
LEMMA ValidQuoted ==
  ASSUME NEW e \in Events, ValidEvent(e), NEW before \in Nat
  PROVE  LET fixed == e.mode = "FIXED"
             price == IF fixed THEN e.fixed * Parts ELSE Owed(e, before + Parts) - Owed(e, before)
             safe  == fixed \/ (Safe(Owed(e, before)) /\ Safe(Owed(e, before + Parts)))
         IN /\ fixed \/ Reached(e, before + Parts)
            /\ price > 0 /\ Safe(price) /\ safe => Quote(e, before) * Parts = price
<1>1. CASE e.mode = "FIXED"
  <2> SUFFICES ASSUME e.fixed * Parts > 0, Safe(e.fixed * Parts)
               PROVE  Quote(e, before) * Parts = e.fixed * Parts
    BY <1>1
  <2>1. e.fixed \in Nat /\ e.fixed * Parts <= MaxSafe * Parts
    BY EventShape, PricingAssumption DEF Safe
  <2> DEFINE fixed == e.fixed
  <2>2. fixed \in 1..MaxSafe
    <3>1. fixed \in Nat /\ fixed * Parts > 0 /\ fixed * Parts <= MaxSafe * Parts
      BY <2>1
    <3> HIDE DEF fixed
    <3>2. fixed # 0
      BY <3>1, PricingAssumption
    <3>3. fixed <= MaxSafe
      <4>1. CASE fixed > MaxSafe
        <5>1. (fixed - MaxSafe) * Parts >= Parts
          BY <3>1, <4>1, PricingAssumption
        <5>2. fixed * Parts - MaxSafe * Parts = (fixed - MaxSafe) * Parts
          BY <3>1, Products, PricingAssumption
        <5> QED  BY <3>1, <5>1, <5>2, PricingAssumption
      <4> QED  BY <3>1, <4>1, PricingAssumption
    <3> QED  BY <3>1, <3>2, <3>3, PricingAssumption
  <2>3. Quote(e, before) = e.fixed
    BY <1>1, <2>2 DEF Quote
  <2> QED  BY <2>3
<1>2. CASE e.mode # "FIXED"
  <2>1. before + Parts \in Nat
    BY PricingAssumption
  <2>2. Reached(e, before + Parts)
    BY <1>2, <2>1, ValidReaches
  <2> DEFINE price == Owed(e, before + Parts) - Owed(e, before)
  <2>3. ASSUME price > 0, Safe(price), Safe(Owed(e, before)), Safe(Owed(e, before + Parts))
        PROVE  Quote(e, before) * Parts = price
    <3> DEFINE from == PricingCost(e, before)
               to == PricingCost(e, before + Parts)
    <3>1. from # NoAmount /\ to # NoAmount
      BY <1>2, <2>1, <2>3, ValidIsPriced
    <3>2. /\ from \in 0..MaxSafe /\ to \in 0..MaxSafe
          /\ Owed(e, before) = from * Parts /\ Owed(e, before + Parts) = to * Parts
      BY <1>2, <2>1, <3>1, PriceIsOwed
    <3>3. Quote(e, before) = IF to - from \notin 1..MaxSafe THEN NoAmount ELSE to - from
      BY <1>2, <3>1 DEF Quote
    <3>4. to * Parts - from * Parts > 0
      BY <2>3, <3>2
    <3> HIDE DEF from, to
    <3>5. from \in Int /\ to \in Int /\ Parts \in Int
      BY <3>2, PricingAssumption
    <3>6. (to - from) * Parts = to * Parts - from * Parts
      BY <3>5, Products
    <3>7. to - from > 0
      BY <3>4, <3>5, <3>6, PricingAssumption
    <3>8. to - from \in 1..MaxSafe
      BY <3>2, <3>7, PricingAssumption
    <3> QED  BY <3>2, <3>3, <3>6, <3>8
  <2> QED  BY <1>2, <2>2, <2>3
<1> QED  BY <1>1, <1>2

-----------------------------------------------------------------------------
MeterIInv ==
  /\ event \in Events
  /\ bought \in 0..MaxUnits
  /\ used - bought * Parts \in 0..Parts
  /\ used \in Nat
  /\ paid \in Nat
  /\ PaidIsOwed

LEMMA MeterBegins == MeterInit => MeterIInv
<1> SUFFICES ASSUME MeterInit PROVE MeterIInv
  OBVIOUS
<1>1. used \in 0..Parts /\ 0 * Parts = 0 /\ used - 0 = used
  BY PricingAssumption DEF MeterInit
<1>2. event \in Events /\ bought = 0 /\ paid = 0
  BY DEF MeterInit
<1>3. event.fixed \in Nat
  BY <1>2, EventShape
<1>4. PaidIsOwed
  BY <1>2, <1>3 DEF PaidIsOwed
<1> QED  BY <1>1, <1>2, <1>4, UnitsAssumption, PricingAssumption DEF MeterIInv

LEMMA MeterKeeps == MeterIInv /\ [Buy]_meter => MeterIInv'
<1> SUFFICES ASSUME MeterIInv, [Buy]_meter PROVE MeterIInv'
  OBVIOUS
<1>1. CASE UNCHANGED meter
  BY <1>1 DEF meter, MeterIInv, PaidIsOwed, First
<1>2. CASE Buy
  <2> DEFINE quote == Quote(event, used)
  <2>1. /\ event' = event /\ used' = used + Parts /\ bought' = bought + 1 /\ paid' = paid + quote
        /\ bought < MaxUnits /\ quote # NoAmount
    BY <1>2 DEF Buy
  <2>2. /\ event \in Events /\ bought \in Nat /\ used \in Nat /\ paid \in Nat
        /\ bought \in 0..MaxUnits /\ First \in 0..Parts
    BY UnitsAssumption DEF MeterIInv, First
  <2>3. /\ quote \in 1..MaxSafe
        /\ event.mode = "FIXED" => quote = event.fixed
        /\ event.mode # "FIXED" => /\ Reached(event, used + Parts)
                                   /\ quote * Parts = Owed(event, used + Parts) - Owed(event, used)
    BY <2>1, <2>2, QuoteIs
  <2> HIDE DEF quote
  <2>4. First' = First
    <3>1. (bought + 1) * Parts = bought * Parts + Parts /\ bought * Parts \in Nat
      BY <2>2, PricingAssumption
    <3> QED  BY <2>1, <2>2, <3>1, PricingAssumption DEF First
  <2>5. PaidIsOwed'
    <3>1. CASE event.mode = "FIXED"
      <4>1. paid = event.fixed * bought
        BY <3>1 DEF MeterIInv, PaidIsOwed
      <4>2. event.fixed \in Nat /\ event.fixed * (bought + 1) = event.fixed * bought + event.fixed
        BY <2>2, EventShape
      <4> QED  BY <2>1, <2>3, <3>1, <4>1, <4>2 DEF PaidIsOwed
    <3>2. CASE event.mode # "FIXED"
      <4>1. used + Parts \in Nat /\ used <= used + Parts
        BY <2>2, PricingAssumption
      <4>2. Reached(event, used)
        BY <2>2, <2>3, <3>2, <4>1, ReachedBelow
      <4>3. First \in Nat /\ First <= used
        BY <2>2, PricingAssumption DEF First
      <4>4. Reached(event, First)
        BY <2>2, <4>2, <4>3, ReachedBelow
      <4>5. Owed(event, used) \in Nat /\ Owed(event, used + Parts) \in Nat /\ Owed(event, First) \in Nat
        BY <2>2, <2>3, <3>2, <4>1, <4>2, <4>3, <4>4, OwedIsWhole
      <4>6. paid * Parts = Owed(event, used) - Owed(event, First)
        <5>1. CASE bought = 0 /\ paid = 0
          BY <2>2, <4>5, <5>1, PricingAssumption DEF First
        <5> QED  BY <3>2, <5>1 DEF MeterIInv, PaidIsOwed
      <4>7. (paid + quote) * Parts = paid * Parts + quote * Parts
        BY <2>2, <2>3, Products, PricingAssumption
      <4>8. paid' * Parts = Owed(event, used + Parts) - Owed(event, First)
        BY <2>1, <2>3, <3>2, <4>5, <4>6, <4>7
      <4> QED  BY <2>1, <2>3, <2>4, <3>2, <4>8 DEF PaidIsOwed
    <3> QED  BY <3>1, <3>2
  <2>6. (used - bought * Parts)' \in 0..Parts
    BY <2>2, <2>4 DEF First
  <2>7. event' \in Events /\ bought' \in 0..MaxUnits /\ used' \in Nat /\ paid' \in Nat
    BY <2>1, <2>2, <2>3, UnitsAssumption, PricingAssumption
  <2> QED  BY <2>5, <2>6, <2>7 DEF MeterIInv
<1> QED  BY <1>1, <1>2

(* Whatever the price list, the parts of a unit and the reading at which a    *)
(* merchant starts: what the quotes of single units add up to is what the     *)
(* list asks for the whole, and a valid list is never refused a quote that is *)
(* a safe price (pricingCostMinor, calculateShopifyUsageEventQuoteMinor).     *)
THEOREM MeterAlwaysHolds == MeterSpec => []MeterInv
<1>1. MeterIInv => MeterInv
  <2> SUFFICES ASSUME MeterIInv PROVE MeterInv
    OBVIOUS
  <2>1. event \in Events /\ used \in Nat /\ bought \in 0..MaxUnits /\ paid \in Nat /\ used - bought * Parts \in 0..Parts
    BY DEF MeterIInv
  <2>2. used <= (MaxUnits + 1) * Parts
    <3>1. bought \in Nat /\ MaxUnits - bought \in Nat
      BY <2>1, UnitsAssumption
    <3>2. (MaxUnits - bought) * Parts \in Nat /\ MaxUnits * Parts - bought * Parts = (MaxUnits - bought) * Parts
      BY <2>1, <3>1, Products, UnitsAssumption, PricingAssumption
    <3>3. (MaxUnits + 1) * Parts = MaxUnits * Parts + Parts /\ MaxUnits * Parts \in Nat /\ bought * Parts \in Nat
      BY <3>1, UnitsAssumption, PricingAssumption
    <3> QED  BY <2>1, <3>2, <3>3, PricingAssumption
  <2>3. (MaxUnits + 1) * Parts \in Nat
    BY UnitsAssumption, PricingAssumption
  <2>4. MeterTypeOK
    BY <2>1, <2>2, <2>3 DEF MeterTypeOK
  <2>5. ValidIsQuoted
    BY <2>1, ValidQuoted DEF ValidIsQuoted
  <2> QED  BY <2>4, <2>5 DEF MeterInv, MeterIInv
<1> QED  BY <1>1, MeterBegins, MeterKeeps, PTL DEF MeterSpec
=============================================================================
