--------------------- MODULE SubscriptionLifecycleProofs ---------------------
(* Proofs about SubscriptionLifecycle and the operators of BillingOperations, *)
(* for any number of requests, plans, moves at Shopify and cycles, with the   *)
(* worker at any time.  Everything a request does after it has asked Shopify  *)
(* it does from a snapshot, so the invariant says what a snapshot that is no  *)
(* longer true still is: a subscription the shop has had, read no later than  *)
(* now and, while the fence holds, no earlier than what the row has recorded. *)
EXTENDS SubscriptionLifecycle, FiniteSetTheorems, TLAPS

Subs ==
  {NoSub} \cup [handle : Handles, ref : 1..MaxMoves, cycle : 0..MaxCycles, cancel : BOOLEAN,
                pending : Handles \cup {None}]

PeriodRows == [handle : Handles \cup {None}, mapped : BOOLEAN, granted : BOOLEAN, counter : BOOLEAN]

Pends == [handle : Handles \cup {None}, mapped : BOOLEAN, at : Times]

Statuses == {"NO_CONTRACT", "ACTIVE", "SYNC_ERROR", "UNMAPPED"}

SubscriptionRows ==
  [status : Statuses, plan : Plans \cup {None}, observed : Handles \cup {None}, ref : 0..MaxMoves,
   period : 0..MaxCycles, cycle : 0..MaxCycles, pend : Pends, next : Times, seen : Nat]

Steps == {"idle", "verify", "prepare", "return", "read", "project", "notify", "schedule", "check",
          "complete", "done"}

CallStates ==
  [at : Steps, plan : Handles \cup {None}, snap : Subs, ver : Nat, fresh : BOOLEAN, initial : BOOLEAN,
   token : BOOLEAN, told : 0..MaxMoves, got : {"none", "active", "error"}]

(* Each reference that ended, and the one that is live, took a move.          *)
ProviderOK ==
  /\ provider \in Subs
  /\ past \in [moves : 0..MaxMoves, cycles : 0..MaxCycles, held : SUBSET Handles, ended : SUBSET (0..MaxMoves)]
  /\ IsFiniteSet(past.ended)
  /\ Cardinality(past.ended) + (IF provider = NoSub THEN 0 ELSE 1) <= past.moves
  /\ provider # NoSub => provider.handle \in past.held

RowFits(r) ==
  /\ r \in SubscriptionRows /\ r.seen <= past.moves
  /\ r.status = "NO_CONTRACT" => r.plan = None /\ r.period = 0
  /\ r.status = "ACTIVE" => r.plan # None /\ r.ref # NoRef
  /\ r.status = "NO_CONTRACT" /\ r.pend.handle # None => r.next # None

PeriodFits(r, ps) ==
  r.status = "ACTIVE" /\ r.period # 0 =>
    ps[r.period].mapped /\ ps[r.period].handle = r.plan /\ ps[r.period].counter = (r.plan \in Paid)

RowsOK == RowFits(row) /\ periods \in [Cycles -> PeriodRows] /\ PeriodFits(row, periods)

(* A snapshot is of a subscription the shop has had, and a return that is     *)
(* still fresh has read it after the row's last projection.                   *)
HoldsWell(call) ==
  /\ call.ver <= past.moves
  /\ call.told # NoRef => call.at = "notify"
  /\ call.snap # NoSub => call.snap.handle \in past.held

CallOK(call) ==
  /\ HoldsWell(call)
  /\ call.fresh /\ call.at \in {"prepare", "return"} => row.seen <= call.ver

(* The key of a switch names its plan, so that two requests with one key are  *)
(* for one plan; what is confirmed was held.                                  *)
Shape(op) == op \in [kind : {op.kind}, key : {op.key}, plan : {op.plan}, ref : {op.ref}, state : {op.state}]

Held(op) == op.kind = "CANCEL" \/ op.plan \in past.held

OperationOK(op) ==
  /\ Shape(op)
  /\ op.kind = "PLAN_SWITCH" => op.plan = op.key[2]
  /\ op.state = "CONFIRMED" => Held(op)

IInv ==
  /\ ProviderOK /\ RowsOK
  /\ \A op \in operations : OperationOK(op)
  /\ calls \in [Calls -> CallStates]
  /\ \A c \in Calls : CallOK(calls[c])

(* What a step makes of the operations: none is lost, and none unconfirmed.   *)
Follows(ops, new) ==
  \A op \in ops : \E n \in new :
    /\ n.kind = op.kind /\ n.key = op.key
    /\ op.ref # NoRef => n.ref = op.ref
    /\ op.state = "CONFIRMED" => n.state = "CONFIRMED"

-----------------------------------------------------------------------------
(* The operators of BillingOperations.                                        *)
LEMMA Stays == \A ops : Follows(ops, ops)
BY DEF Follows

LEMMA ConfirmedFields ==
  ASSUME NEW op, Shape(op), NEW ref
  PROVE  LET new == Confirmed(op, ref) IN
         /\ Shape(new) /\ new.kind = op.kind /\ new.key = op.key /\ new.plan = op.plan
         /\ new.ref = (IF ref = NoRef THEN op.ref ELSE ref) /\ new.state = "CONFIRMED"
<1> DEFINE new == Confirmed(op, ref)
           r == IF ref = NoRef THEN op.ref ELSE ref
<1>1. new = [op EXCEPT !.state = "CONFIRMED", !.ref = r]
  BY DEF Confirmed
<1> HIDE DEF new, r
<1>2. new \in [kind : {op.kind}, key : {op.key}, plan : {op.plan}, ref : {r}, state : {"CONFIRMED"}]
  BY <1>1 DEF Shape
<1>3. new.kind = op.kind /\ new.key = op.key /\ new.plan = op.plan /\ new.ref = r /\ new.state = "CONFIRMED"
  BY <1>2
<1>4. Shape(new)
  BY <1>2, <1>3 DEF Shape
<1> QED  BY <1>3, <1>4 DEF new, r

LEMMA ConfirmedOK ==
  ASSUME NEW op, OperationOK(op), Held(op), NEW ref
  PROVE  OperationOK(Confirmed(op, ref))
BY ConfirmedFields DEF OperationOK, Held

(* What is settled keeps its reference: it had none, or the observed one.     *)
LEMMA SettledFollows ==
  ASSUME NEW mine, NEW ref, \A op \in mine : OperationOK(op) /\ Held(op)
  PROVE  /\ Follows(mine, Settled(mine, ref))
         /\ \A op \in Settled(mine, ref) : OperationOK(op)
<1> DEFINE open == {op \in mine : op.state \in Open}
           done(r) == IF ref = NoRef THEN {} ELSE {op \in mine : op.state = "CONFIRMED" /\ op.ref = r}
           exact == IF ref = NoRef THEN open ELSE {op \in open : op.ref = ref}
           unresolved == {op \in open : op.ref = NoRef}
           match == IF Cardinality(exact) = 1 THEN exact
                    ELSE IF /\ exact = {} /\ Cardinality(unresolved) = 1
                            /\ done(NoRef) = {} /\ done(ref) = {} THEN unresolved ELSE {}
           enrich == IF ref # NoRef /\ Cardinality(done(NoRef)) = 1 /\ done(ref) = {} /\ open = {}
                     THEN done(NoRef) ELSE {}
           chosen == match \cup enrich
<1>1. Settled(mine, ref) = (mine \ chosen) \cup {Confirmed(op, ref) : op \in chosen}
  BY DEF Settled
<1>2. \A op \in chosen : op \in mine /\ (ref = NoRef \/ op.ref \in {NoRef, ref})
  OBVIOUS
<1> HIDE DEF chosen
<1>3. ASSUME NEW op \in mine
      PROVE  \E n \in Settled(mine, ref) :
               /\ n.kind = op.kind /\ n.key = op.key
               /\ op.ref # NoRef => n.ref = op.ref
               /\ op.state = "CONFIRMED" => n.state = "CONFIRMED"
  <2>1. CASE op \in chosen
    <3>1. Confirmed(op, ref) \in Settled(mine, ref)
      BY <1>1, <2>1
    <3>2. /\ Confirmed(op, ref).kind = op.kind /\ Confirmed(op, ref).key = op.key
          /\ Confirmed(op, ref).ref = (IF ref = NoRef THEN op.ref ELSE ref)
          /\ Confirmed(op, ref).state = "CONFIRMED"
      BY ConfirmedFields DEF OperationOK
    <3> QED  BY <1>2, <2>1, <3>1, <3>2
  <2>2. CASE op \notin chosen
    BY <1>1, <2>2
  <2> QED  BY <2>1, <2>2
<1>4. \A op \in Settled(mine, ref) : OperationOK(op)
  BY <1>1, <1>2, ConfirmedOK
<1> QED  BY <1>3, <1>4 DEF Follows

LEMMA ActiveFollows ==
  ASSUME NEW ops, \A op \in ops : OperationOK(op), NEW plan \in past.held, NEW ref, NEW cancel
  PROVE  /\ Follows(ops, ReconciledActive(ops, plan, ref, cancel))
         /\ \A op \in ReconciledActive(ops, plan, ref, cancel) : OperationOK(op)
<1> DEFINE create == {op \in ops : op.kind = "SUBSCRIPTION_CREATE" /\ op.plan = plan}
           switch == {op \in ops : op.kind = "PLAN_SWITCH" /\ op.plan = plan}
           ends == IF cancel THEN {op \in ops : op.kind = "CANCEL"} ELSE {}
           new == ReconciledActive(ops, plan, ref, cancel)
<1>1. new = (ops \ (create \cup switch \cup ends)) \cup Settled(create, ref) \cup Settled(switch, ref)
              \cup Settled(ends, ref)
  BY DEF ReconciledActive
<1>2. /\ \A op \in create : OperationOK(op) /\ Held(op)
      /\ \A op \in switch : OperationOK(op) /\ Held(op)
      /\ \A op \in ends : OperationOK(op) /\ Held(op)
  BY DEF Held
<1> HIDE DEF create, switch, ends, new
<1>3. /\ Follows(create, Settled(create, ref)) /\ \A op \in Settled(create, ref) : OperationOK(op)
      /\ Follows(switch, Settled(switch, ref)) /\ \A op \in Settled(switch, ref) : OperationOK(op)
      /\ Follows(ends, Settled(ends, ref)) /\ \A op \in Settled(ends, ref) : OperationOK(op)
  BY <1>2, SettledFollows
<1>4. \A op \in new : OperationOK(op)
  BY <1>1, <1>3
<1>5. Follows(ops, new)
  <2>1. Follows(ops \ (create \cup switch \cup ends), new)
    BY <1>1 DEF Follows
  <2>2. Follows(create, new) /\ Follows(switch, new) /\ Follows(ends, new)
    BY <1>1, <1>3 DEF Follows
  <2> QED  BY <2>1, <2>2 DEF Follows
<1> QED  BY <1>4, <1>5 DEF new

LEMMA NoneFollows ==
  ASSUME NEW ops, \A op \in ops : OperationOK(op)
  PROVE  Follows(ops, ReconciledNone(ops)) /\ \A op \in ReconciledNone(ops) : OperationOK(op)
<1> DEFINE open == {op \in ops : op.kind = "CANCEL" /\ op.state \in Open}
<1>1. \/ ReconciledNone(ops) = ops
      \/ ReconciledNone(ops) = (ops \ open) \cup {Confirmed(op, NoRef) : op \in open}
  BY DEF ReconciledNone
<1>2. CASE ReconciledNone(ops) = ops
  BY <1>2, Stays
<1>3. CASE ReconciledNone(ops) = (ops \ open) \cup {Confirmed(op, NoRef) : op \in open}
  <2>1. \A op \in open : op \in ops /\ Held(op)
    BY DEF Held
  <2> HIDE DEF open
  <2>2. \A op \in ReconciledNone(ops) : OperationOK(op)
    BY <1>3, <2>1, ConfirmedOK
  <2>3. \A op \in open : /\ Confirmed(op, NoRef).kind = op.kind /\ Confirmed(op, NoRef).key = op.key
                         /\ Confirmed(op, NoRef).ref = op.ref /\ Confirmed(op, NoRef).state = "CONFIRMED"
    BY <2>1, ConfirmedFields DEF OperationOK
  <2>4. Follows(ops \ open, ReconciledNone(ops)) /\ Follows(open, ReconciledNone(ops))
    BY <1>3, <2>3 DEF Follows
  <2> QED  BY <2>2, <2>4 DEF Follows
<1> QED  BY <1>1, <1>2, <1>3

(* A request brings the rows of its own key forward, and adds one otherwise.  *)
LEMMA EnsuredFollows ==
  ASSUME NEW ops, \A op \in ops : OperationOK(op), NEW new, OperationOK(new), ~Conflicts(ops, new),
         \A op \in OfKind(ops, new.kind, new.key) : new.state = "CONFIRMED" => Held(op)
  PROVE  Follows(ops, Ensured(ops, new)) /\ \A op \in Ensured(ops, new) : OperationOK(op)
<1> DEFINE old == OfKind(ops, new.kind, new.key)
           Forward(op) == [op EXCEPT !.ref = IF @ = NoRef THEN new.ref ELSE @,
                                     !.state = IF @ = "INITIATING" THEN new.state ELSE @]
           Advanced(op) == IF new.state = "CONFIRMED" THEN Confirmed(op, new.ref) ELSE Forward(op)
<1>1. \/ Ensured(ops, new) = ops \cup {new}
      \/ Ensured(ops, new) = (ops \ old) \cup {Advanced(op) : op \in old}
  BY DEF Ensured
<1>2. CASE Ensured(ops, new) = ops \cup {new}
  BY <1>2 DEF Follows
<1>3. CASE Ensured(ops, new) = (ops \ old) \cup {Advanced(op) : op \in old}
  <2>1. ASSUME NEW op \in old
        PROVE  /\ OperationOK(Advanced(op)) /\ Advanced(op).kind = op.kind /\ Advanced(op).key = op.key
               /\ op.ref # NoRef => Advanced(op).ref = op.ref
               /\ op.state = "CONFIRMED" => Advanced(op).state = "CONFIRMED"
    <3>1. /\ op \in ops /\ OperationOK(op) /\ op.kind = new.kind /\ op.key = new.key
          /\ new.ref # NoRef /\ op.ref # NoRef => op.ref = new.ref
          /\ new.state = "CONFIRMED" => Held(op)
      BY DEF OfKind, Conflicts
    <3>2. CASE new.state = "CONFIRMED"
      <4>1. /\ Confirmed(op, new.ref).kind = op.kind /\ Confirmed(op, new.ref).key = op.key
            /\ Confirmed(op, new.ref).ref = (IF new.ref = NoRef THEN op.ref ELSE new.ref)
            /\ Confirmed(op, new.ref).state = "CONFIRMED" /\ OperationOK(Confirmed(op, new.ref))
        BY <3>1, <3>2, ConfirmedFields, ConfirmedOK DEF OperationOK
      <4> QED  BY <3>1, <3>2, <4>1
    <3>3. CASE new.state # "CONFIRMED"
      <4> DEFINE n == Forward(op)
                 r == IF op.ref = NoRef THEN new.ref ELSE op.ref
                 s == IF op.state = "INITIATING" THEN new.state ELSE op.state
      <4>0. n = [op EXCEPT !.ref = r, !.state = s] /\ Shape(op)
        BY <3>1 DEF OperationOK
      <4> HIDE DEF n, r, s
      <4>1. n \in [kind : {op.kind}, key : {op.key}, plan : {op.plan}, ref : {r}, state : {s}]
        BY <4>0 DEF Shape
      <4>2. n.kind = op.kind /\ n.key = op.key /\ n.plan = op.plan /\ n.ref = r /\ n.state = s
        BY <4>1
      <4>3. Shape(n)
        BY <4>1, <4>2 DEF Shape
      <4>4. /\ Shape(n) /\ n.kind = op.kind /\ n.key = op.key /\ n.plan = op.plan
            /\ n.state = (IF op.state = "INITIATING" THEN new.state ELSE op.state)
            /\ n.ref = (IF op.ref = NoRef THEN new.ref ELSE op.ref)
        BY <4>2, <4>3 DEF r, s
      <4>5. OperationOK(n)
        BY <3>1, <3>3, <4>4 DEF OperationOK, Held
      <4> QED  BY <3>3, <4>4, <4>5 DEF n
    <3> QED  BY <3>2, <3>3
  <2> HIDE DEF Advanced, old
  <2>2. \A op \in Ensured(ops, new) : OperationOK(op)
    BY <1>3, <2>1
  <2>3. Follows(ops \ old, Ensured(ops, new)) /\ Follows(old \cap ops, Ensured(ops, new))
    BY <1>3, <2>1 DEF Follows
  <2> QED  BY <2>2, <2>3 DEF Follows
<1> QED  BY <1>1, <1>2, <1>3

-----------------------------------------------------------------------------
(* Names and snapshots.                                                       *)
LEMMA NamesDiffer ==
  /\ Plans \subseteq Handles /\ None \notin Handles /\ None \notin Plans /\ Odd \notin Plans
  /\ Free \notin Paid /\ Paid \subseteq Plans /\ Free \in Plans
  /\ Calls \subseteq Times /\ None \in Times
  /\ "drain" \in Times /\ "retry" \in Times /\ "effective" \in Times
  /\ None \notin Calls /\ None # "drain" /\ None # "retry" /\ None # "effective"
BY PlansDiffer, TimesDiffer DEF Plans, Handles, Times

LEMMA SnapshotFields ==
  ASSUME NEW s \in Subs
  PROVE  /\ s.handle \in Handles \cup {None} /\ s.ref \in 0..MaxMoves /\ s.cycle \in 0..MaxCycles
         /\ s.pending \in Handles \cup {None}
         /\ s # NoSub => s.handle \in Handles /\ s.ref # NoRef
         /\ s = NoSub => s.handle = None /\ s.pending = None /\ s.ref = NoRef /\ s.cycle = 0
<1>1. 0 \in 0..MaxMoves /\ 0 \in 0..MaxCycles /\ 1..MaxMoves \subseteq 0..MaxMoves
  BY BoundsAssumption
<1>2. CASE s = NoSub
  BY <1>1, <1>2 DEF NoSub, NoRef
<1>3. CASE s # NoSub
  <2>1. s \in [handle : Handles, ref : 1..MaxMoves, cycle : 0..MaxCycles, cancel : BOOLEAN,
               pending : Handles \cup {None}]
    BY <1>3 DEF Subs
  <2>2. s.ref \in 1..MaxMoves /\ s.ref # 0
    BY <2>1, BoundsAssumption
  <2> QED  BY <1>1, <1>3, <2>1, <2>2 DEF NoRef
<1> QED  BY <1>2, <1>3

(* The period that a projection grants credits in is the plan's own.          *)
LEMMA PeriodForFits ==
  ASSUME periods \in [Cycles -> PeriodRows], NEW k \in Cycles, NEW h \in Handles
  PROVE  LET p == PeriodFor(k, h) IN
         /\ p.ok \in BOOLEAN /\ p.period \in PeriodRows
         /\ p.ok => p.period.mapped /\ p.period.handle = h /\ p.period.counter = (h \in Paid)
<1> DEFINE mine == [handle |-> h, mapped |-> TRUE, granted |-> h \in Paid, counter |-> h \in Paid]
<1>1. mine \in PeriodRows /\ mine.mapped /\ mine.handle = h /\ mine.counter = (h \in Paid)
  BY DEF PeriodRows
<1>2. periods[k] \in PeriodRows
  OBVIOUS
<1>3. \/ PeriodFor(k, h) = [ok |-> TRUE, period |-> mine]
      \/ PeriodFor(k, h) = [ok |-> FALSE, period |-> periods[k]]
  BY DEF PeriodFor
<1> DEFINE p == PeriodFor(k, h)
<1> HIDE DEF mine, p
<1>4. CASE p = [ok |-> TRUE, period |-> mine]
  <2>1. p.ok = TRUE /\ p.period = mine
    BY <1>4
  <2> QED  BY <1>1, <2>1 DEF p
<1>5. CASE p = [ok |-> FALSE, period |-> periods[k]]
  <2>1. p.ok = FALSE /\ p.period = periods[k]
    BY <1>5
  <2> QED  BY <1>2, <2>1 DEF p
<1> QED  BY <1>3, <1>4, <1>5 DEF p

LEMMA PeriodAsideTyped ==
  ASSUME periods \in [Cycles -> PeriodRows], NEW k \in Cycles, NEW h \in Handles, NEW mapped \in BOOLEAN
  PROVE  PeriodAside(k, h, mapped) \in PeriodRows
BY DEF PeriodAside, PeriodRows

LEMMA NoRowsTyped ==
  /\ NoPend \in Pends /\ NoPeriod \in PeriodRows /\ NoSub \in Subs
  /\ NoPend.handle = None
BY NamesDiffer DEF NoPend, Pends, NoPeriod, PeriodRows, Subs

(* A projection gives the row of the snapshot, with its own plan's period.    *)
LEMMA ProjectionGood ==
  ASSUME ProviderOK, periods \in [Cycles -> PeriodRows], \A op \in operations : OperationOK(op),
         NEW r \in SubscriptionRows, NEW s \in Subs, s # NoSub, s.handle \in past.held,
         NEW ver \in Nat, ver <= past.moves, NEW verdict \in Verdicts(s.handle)
  PROVE  LET p == Projection(r, s, ver, verdict) IN
         /\ RowFits(p.row) /\ p.periods \in [Cycles -> PeriodRows] /\ PeriodFits(p.row, p.periods)
         /\ Follows(operations, p.operations) /\ \A op \in p.operations : OperationOK(op)
         /\ p.row.status # "NO_CONTRACT"
<1> DEFINE plan == IF verdict \in {"ready", "meterless"} THEN s.handle ELSE None
           status == CASE verdict = "unmapped" -> "UNMAPPED" [] verdict = "ready" -> "ACTIVE" [] OTHER -> "SYNC_ERROR"
           keep == KeepsIntent(r)
           k == IF keep /\ plan \in Paid THEN 0 ELSE s.cycle
           mapped == IF k # 0 /\ status = "ACTIVE" THEN PeriodFor(k, s.handle) ELSE [ok |-> TRUE, period |-> NoPeriod]
           period == IF status = "ACTIVE" THEN mapped.period ELSE PeriodAside(k, s.handle, plan # None)
           pend == IF keep THEN r.pend ELSE IF s.pending = None THEN NoPend
                   ELSE [handle |-> s.pending, mapped |-> s.pending # Odd, at |-> "effective"]
           next == IF keep THEN r.next ELSE IF plan # Free \/ ~TopUp THEN None
                   ELSE IF s.cycle # 0 THEN "drain" ELSE "retry"
           new == [status |-> IF mapped.ok THEN status ELSE "SYNC_ERROR",
                   plan |-> IF mapped.ok THEN plan ELSE r.plan, observed |-> s.handle, ref |-> s.ref,
                   period |-> IF mapped.ok THEN k ELSE r.period, cycle |-> IF mapped.ok THEN s.cycle ELSE r.cycle,
                   pend |-> pend, next |-> next, seen |-> ver]
           ps == IF k = 0 THEN periods ELSE [periods EXCEPT ![k] = period]
           ops == IF mapped.ok /\ status = "ACTIVE" THEN ReconciledActive(operations, s.handle, s.ref, s.cancel)
                  ELSE operations
<1>1. Projection(r, s, ver, verdict) = [row |-> new, periods |-> ps, operations |-> ops]
  BY DEF Projection
<1>2. /\ s.handle \in Handles /\ s.ref \in 0..MaxMoves /\ s.ref # NoRef /\ s.cycle \in 0..MaxCycles
      /\ s.pending \in Handles \cup {None}
  BY SnapshotFields
<1>3. /\ verdict \in {"ready", "meterless"} => s.handle \in Plans
      /\ verdict \in {"ready", "meterless", "inactive", "unmapped"}
  BY <1>2, NamesDiffer DEF Verdicts, Handles
<1>4. /\ plan \in Plans \cup {None} /\ status \in Statuses /\ status # "NO_CONTRACT"
      /\ status = "ACTIVE" => plan = s.handle /\ plan \in Plans
  BY <1>3 DEF Statuses
<1>5. k \in 0..MaxCycles /\ (k # 0 => k \in Cycles)
  BY <1>2, BoundsAssumption DEF Cycles
<1> HIDE DEF plan, status, k, keep
<1>6. /\ mapped.ok \in BOOLEAN /\ (k # 0 /\ status = "ACTIVE" => mapped.period \in PeriodRows)
      /\ k # 0 /\ status = "ACTIVE" /\ mapped.ok =>
           mapped.period.mapped /\ mapped.period.handle = s.handle /\ mapped.period.counter = (s.handle \in Paid)
      /\ ~mapped.ok => status = "ACTIVE"
  <2>1. CASE k # 0 /\ status = "ACTIVE"
    BY <1>2, <1>5, <2>1, PeriodForFits
  <2>2. CASE ~(k # 0 /\ status = "ACTIVE")
    BY <2>2
  <2> QED  BY <2>1, <2>2
<1> HIDE DEF mapped
<1>7. k # 0 => period \in PeriodRows
  BY <1>2, <1>5, <1>6, PeriodAsideTyped
<1>8. k # 0 /\ status = "ACTIVE" => period = mapped.period
  OBVIOUS
<1> HIDE DEF period
<1>9. ps \in [Cycles -> PeriodRows] /\ (k # 0 => ps[k] = period)
  BY <1>5, <1>7
<1>10. pend \in Pends
  <2>1. r.pend \in Pends
    BY DEF SubscriptionRows
  <2>2. s.pending # None => [handle |-> s.pending, mapped |-> s.pending # Odd, at |-> "effective"] \in Pends
    BY <1>2, NamesDiffer DEF Pends
  <2> QED  BY <2>1, <2>2, NoRowsTyped
<1>11. next \in Times
  BY NamesDiffer DEF SubscriptionRows
<1> HIDE DEF pend, next, ps
<1>12. new \in SubscriptionRows
  <2>1. /\ r.plan \in Plans \cup {None} /\ r.period \in 0..MaxCycles /\ r.cycle \in 0..MaxCycles
    BY DEF SubscriptionRows
  <2>2. (IF mapped.ok THEN status ELSE "SYNC_ERROR") \in Statuses
    BY <1>4 DEF Statuses
  <2>3. s.handle \in Handles \cup {None}
    BY <1>2
  <2> QED  BY <1>2, <1>4, <1>5, <1>10, <1>11, <2>1, <2>2, <2>3 DEF SubscriptionRows
<1>13. /\ new.status = (IF mapped.ok THEN status ELSE "SYNC_ERROR")
       /\ new.plan = (IF mapped.ok THEN plan ELSE r.plan) /\ new.ref = s.ref
       /\ new.period = (IF mapped.ok THEN k ELSE r.period) /\ new.seen = ver
  OBVIOUS
<1> HIDE DEF new
<1>14. new.status # "NO_CONTRACT" /\ (new.status = "ACTIVE" => mapped.ok /\ status = "ACTIVE")
  BY <1>4, <1>13
<1>15. RowFits(new)
  BY <1>2, <1>4, <1>12, <1>13, <1>14, NamesDiffer DEF RowFits
<1>16. PeriodFits(new, ps)
  BY <1>4, <1>6, <1>8, <1>9, <1>13, <1>14 DEF PeriodFits
<1>17. Follows(operations, ops) /\ \A op \in ops : OperationOK(op)
  BY ActiveFollows, Stays
<1> HIDE DEF ops
<1> QED  BY <1>1, <1>9, <1>14, <1>15, <1>16, <1>17

-----------------------------------------------------------------------------
(* A request goes on without a write of the subscription row.                 *)
LEMMA CallGoes ==
  ASSUME IInv, NEW c \in Calls, NEW new \in CallStates, Goes(c, new), CallOK(new),
         UNCHANGED <<provider, past, row, periods>>,
         Follows(operations, operations'), (\A op \in operations : OperationOK(op))'
  PROVE  IInv' /\ Follows(operations, operations')
<1>1. calls' \in [Calls -> CallStates] /\ \A d \in Calls : calls'[d] = IF d = c THEN new ELSE calls[d]
  BY DEF IInv, Goes
<1>2. (\A d \in Calls : CallOK(calls[d]))'
  <2> SUFFICES ASSUME NEW d \in Calls PROVE CallOK(calls[d])'
    OBVIOUS
  <2>1. PICK p \in CallStates : p = calls'[d] /\ CallOK(p)
    BY <1>1 DEF IInv
  <2> QED  BY <2>1 DEF CallOK, HoldsWell
<1>3. ProviderOK'
  BY DEF IInv, ProviderOK, Subs
<1>4. RowsOK'
  BY DEF IInv, RowsOK, RowFits, PeriodFits
<1> QED  BY <1>1, <1>2, <1>3, <1>4 DEF IInv

LEMMA SameOperations ==
  ASSUME IInv, operations' = operations, past' = past
  PROVE  Follows(operations, operations') /\ (\A op \in operations : OperationOK(op))'
BY Stays DEF IInv, OperationOK, Shape, Held

(* A request writes the row: every other fence read before is stale.          *)
LEMMA RowWritten ==
  ASSUME IInv, NEW c \in Calls, NEW new \in CallStates, NEW r, Writes(c, new, r), HoldsWell(new),
         new.at \notin {"prepare", "return"},
         UNCHANGED <<provider, past>>, RowFits(r), periods' \in [Cycles -> PeriodRows], PeriodFits(r, periods'),
         Follows(operations, operations'), (\A op \in operations : OperationOK(op))'
  PROVE  IInv' /\ Follows(operations, operations')
<1>1. row' = r /\ calls' = Stale(c, new)
  BY DEF Writes
<1>2. \A d \in Calls : calls'[d] = IF d = c THEN new ELSE [calls[d] EXCEPT !.fresh = FALSE]
  BY <1>1 DEF Stale
<1>3. \A p \in CallStates : [p EXCEPT !.fresh = FALSE] \in CallStates
  BY DEF CallStates
<1>4. calls' \in [Calls -> CallStates]
  BY <1>1, <1>3 DEF Stale, IInv
<1>5. (\A d \in Calls : CallOK(calls[d]))'
  <2> SUFFICES ASSUME NEW d \in Calls PROVE CallOK(calls[d])'
    OBVIOUS
  <2>1. CASE d = c
    <3>1. calls'[d] = new
      BY <1>2, <2>1
    <3> QED  BY <3>1 DEF CallOK, HoldsWell
  <2>2. CASE d # c
    <3>1. calls[d] \in CallStates /\ CallOK(calls[d]) /\ calls'[d] = [calls[d] EXCEPT !.fresh = FALSE]
      BY <1>2, <2>2 DEF IInv
    <3>2. /\ calls'[d].fresh = FALSE /\ calls'[d].ver = calls[d].ver /\ calls'[d].told = calls[d].told
          /\ calls'[d].at = calls[d].at /\ calls'[d].snap = calls[d].snap
      BY <3>1 DEF CallStates
    <3> QED  BY <3>1, <3>2 DEF CallOK, HoldsWell
  <2> QED  BY <2>1, <2>2
<1>6. ProviderOK'
  BY DEF IInv, ProviderOK, Subs
<1>7. RowsOK'
  BY <1>1 DEF RowsOK, RowFits, PeriodFits
<1> QED  BY <1>4, <1>5, <1>6, <1>7 DEF IInv

-----------------------------------------------------------------------------
(* What a request holds once it is over, and after its sync.                  *)
LEMMA IdleOK ==
  /\ Idle \in CallStates
  /\ \A call : Done(call) \in CallStates /\ Done(call).at = "done" /\ (IInv => HoldsWell(Done(call)))
<1>1. 0 \in 0..MaxMoves /\ 0 \in Nat /\ "idle" \in Steps /\ "done" \in Steps
  BY BoundsAssumption DEF Steps
<1>2. Idle \in CallStates
  BY <1>1, NoRowsTyped DEF Idle, CallStates, NoRef
<1>3. \A call : Done(call) \in CallStates
  BY <1>1, <1>2 DEF Done, CallStates
<1>4. ASSUME IInv, NEW call PROVE HoldsWell(Done(call))
  <2>1. /\ Done(call).ver = 0 /\ Done(call).told = NoRef /\ Done(call).snap = NoSub
    BY DEF Done, Idle
  <2>2. past.moves \in 0..MaxMoves
    BY <1>4 DEF IInv, ProviderOK
  <2> QED  BY <2>1, <2>2, BoundsAssumption DEF HoldsWell
<1>5. \A call : Done(call).at = "done"
  BY DEF Done, Idle
<1> QED  BY <1>2, <1>3, <1>4, <1>5

LEMMA AfterOK ==
  ASSUME NEW call \in CallStates, HoldsWell(call), NEW got \in {"none", "active", "error"}
  PROVE  /\ After(call, got) \in CallStates /\ HoldsWell(After(call, got))
         /\ After(call, got).at \notin {"prepare", "return"}
<1> DEFINE at == IF call.at = "notify" THEN call.at ELSE IF call.plan = None THEN "done" ELSE "check"
           new == [call EXCEPT !.at = at, !.got = got]
<1>1. After(call, got) = new
  BY DEF After
<1>2. at \in {"notify", "done", "check"} /\ at \in Steps /\ (call.at = "notify" => at = "notify")
  BY DEF Steps
<1> HIDE DEF at
<1>3. new \in CallStates
  BY <1>2 DEF CallStates
<1>4. new.at = at /\ new.ver = call.ver /\ new.told = call.told /\ new.snap = call.snap
  BY DEF CallStates
<1> HIDE DEF new
<1>5. HoldsWell(new)
  BY <1>2, <1>4 DEF HoldsWell
<1> QED  BY <1>1, <1>2, <1>3, <1>4, <1>5

(* A request moves to another step with what it holds.                        *)
LEMMA StepOn ==
  ASSUME IInv, NEW c \in Calls, NEW at \in Steps \ {"prepare", "return"}, calls[c].at # "notify"
  PROVE  [calls[c] EXCEPT !.at = at] \in CallStates /\ CallOK([calls[c] EXCEPT !.at = at])
<1> DEFINE new == [calls[c] EXCEPT !.at = at]
<1>1. calls[c] \in CallStates /\ CallOK(calls[c])
  BY DEF IInv
<1>2. new \in CallStates
  BY <1>1 DEF CallStates
<1>3. new.at = at /\ new.ver = calls[c].ver /\ new.told = calls[c].told /\ new.snap = calls[c].snap
  BY <1>1 DEF CallStates
<1> HIDE DEF new
<1>4. CallOK(new)
  BY <1>1, <1>3 DEF CallOK, HoldsWell
<1> QED  BY <1>2, <1>4 DEF new

LEMMA Finished ==
  ASSUME IInv, NEW c \in Calls, Goes(c, Done(calls[c])), UNCHANGED <<provider, past, row, periods, operations>>
  PROVE  IInv' /\ Follows(operations, operations')
<1>1. CallOK(Done(calls[c])) /\ Done(calls[c]) \in CallStates
  BY IdleOK DEF CallOK
<1> QED  BY <1>1, SameOperations, CallGoes

(* Only the next reconciliation of the row moves.                             *)
LEMMA NextMoves ==
  ASSUME IInv, NEW at \in Times \ {None}
  PROVE  RowFits([row EXCEPT !.next = at]) /\ PeriodFits([row EXCEPT !.next = at], periods)
<1> DEFINE r == [row EXCEPT !.next = at]
<1>1. row \in SubscriptionRows /\ RowFits(row) /\ PeriodFits(row, periods)
  BY DEF IInv, RowsOK, RowFits
<1>2. r \in SubscriptionRows
  BY <1>1 DEF SubscriptionRows
<1>3. /\ r.status = row.status /\ r.plan = row.plan /\ r.ref = row.ref /\ r.period = row.period
      /\ r.seen = row.seen /\ r.pend = row.pend /\ r.next = at
  BY <1>1 DEF SubscriptionRows
<1> HIDE DEF r
<1> QED  BY <1>1, <1>2, <1>3 DEF RowFits, PeriodFits, r

LEMMA NextWritten ==
  ASSUME IInv, NEW c \in Calls, NEW at \in Times \ {None}, Writes(c, Done(calls[c]), [row EXCEPT !.next = at]),
         UNCHANGED <<provider, past, periods, operations>>
  PROVE  IInv' /\ Follows(operations, operations')
<1> DEFINE r == [row EXCEPT !.next = at]
<1>1. RowFits(r) /\ PeriodFits(r, periods) /\ periods \in [Cycles -> PeriodRows]
  BY NextMoves DEF IInv, RowsOK
<1> HIDE DEF r
<1>2. Writes(c, Done(calls[c]), r)
  BY DEF r
<1> QED  BY <1>1, <1>2, IdleOK, SameOperations, RowWritten

-----------------------------------------------------------------------------
(* The callback.                                                              *)
LEMMA StartKeeps ==
  ASSUME IInv, NEW c \in Calls, NEW plan \in Handles, Start(c, plan)
  PROVE  IInv' /\ Follows(operations, operations')
<1> DEFINE initial == Initial(row)
           new == [Idle EXCEPT !.at = "verify", !.plan = plan, !.fresh = TRUE, !.initial = initial]
<1>1. Goes(c, new) /\ UNCHANGED <<provider, past, row, periods, operations>>
  BY DEF Start
<1>2. initial \in BOOLEAN
  BY DEF Initial
<1> HIDE DEF initial
<1>3. new \in CallStates
  BY <1>2, IdleOK DEF CallStates, Steps
<1>4. new.at = "verify" /\ new.ver = 0 /\ new.told = NoRef /\ new.snap = NoSub
  BY DEF Idle
<1>5. past.moves \in Nat
  BY BoundsAssumption DEF IInv, ProviderOK
<1> HIDE DEF new
<1>6. CallOK(new)
  BY <1>4, <1>5 DEF CallOK, HoldsWell
<1> QED  BY <1>1, <1>3, <1>6, SameOperations, CallGoes

(* The answer is read after the fence: it is no older than the row's.         *)
LEMMA VerifyKeeps ==
  ASSUME IInv, NEW c \in Calls, Verify(c)
  PROVE  IInv' /\ Follows(operations, operations')
<1> DEFINE at == IF Confirms(provider, calls[c].plan) THEN "prepare" ELSE "return"
           new == [calls[c] EXCEPT !.at = at, !.snap = provider, !.ver = past.moves]
<1>1. /\ Goes(c, new) /\ UNCHANGED <<provider, past, row, periods, operations>>
      /\ calls[c].at = "verify"
  BY DEF Verify
<1>2. calls[c] \in CallStates /\ CallOK(calls[c]) /\ provider \in Subs /\ past.moves \in Nat
  BY BoundsAssumption DEF IInv, ProviderOK
<1>3. at \in Steps /\ at # "notify"
  BY DEF Steps
<1> HIDE DEF at
<1>4. new \in CallStates
  BY <1>2, <1>3 DEF CallStates
<1>5. new.at = at /\ new.ver = past.moves /\ new.told = calls[c].told /\ new.snap = provider
  BY <1>2 DEF CallStates
<1> HIDE DEF new
<1>6. CallOK(new)
  BY <1>1, <1>2, <1>5 DEF CallOK, HoldsWell, IInv, ProviderOK, RowsOK, RowFits
<1> QED  BY <1>1, <1>4, <1>6, SameOperations, CallGoes

LEMMA VerifyFailsKeeps ==
  ASSUME IInv, NEW c \in Calls, VerifyFails(c)
  PROVE  IInv' /\ Follows(operations, operations')
<1>1. /\ \/ Writes(c, Done(c), [row EXCEPT !.next = "retry"])
         \/ Goes(c, Done(c)) /\ UNCHANGED row
      /\ UNCHANGED <<provider, past, periods, operations>>
  BY DEF VerifyFails
<1>2. Done(c) = Done(calls[c])
  BY DEF Done
<1> QED  BY <1>1, <1>2, NextWritten, Finished, NamesDiffer

(* The operation a return asks for, if any.                                   *)
LEMMA HostedChangeOK ==
  ASSUME IInv, NEW wanted, NEW prev, NEW ref, NEW result, NEW cancel, NEW boundary,
         result = "current" /\ wanted \in Plans => wanted \in past.held,
         NEW op \in HostedChange(wanted, prev, ref, result, cancel, boundary)
  PROVE  /\ OperationOK(op)
         /\ \A old \in OfKind(operations, op.kind, op.key) : op.state = "CONFIRMED" => Held(old)
<1> DEFINE ended == [kind |-> "CANCEL", key |-> <<prev, boundary>>, plan |-> None, ref |-> ref, state |-> "CONFIRMED"]
           switched == [kind |-> "PLAN_SWITCH", key |-> <<prev, wanted, boundary>>, plan |-> wanted, ref |-> ref,
                        state |-> IF result = "current" THEN "CONFIRMED" ELSE "AWAITING_CONFIRMATION"]
<1>1. wanted \in Plans /\ (op = ended \/ op = switched)
  BY DEF HostedChange
<1>2. CASE op = ended
  <2>1. op.kind = "CANCEL" /\ op.state = "CONFIRMED" /\ Shape(op)
    BY <1>2 DEF Shape
  <2> QED  BY <2>1 DEF OperationOK, Held, OfKind
<1>3. CASE op = switched
  <2>1. /\ op.kind = "PLAN_SWITCH" /\ op.key = <<prev, wanted, boundary>> /\ op.plan = wanted /\ Shape(op)
        /\ op.state = "CONFIRMED" => result = "current"
    BY <1>3 DEF Shape
  <2>2. op.key[2] = wanted
    BY <2>1
  <2>3. OperationOK(op)
    BY <1>1, <2>1, <2>2 DEF OperationOK, Held
  <2>4. \A old \in OfKind(operations, op.kind, op.key) : old.plan = wanted
    BY <2>1, <2>2 DEF OfKind, IInv, OperationOK
  <2> QED  BY <1>1, <2>1, <2>3, <2>4 DEF Held
<1> QED  BY <1>1, <1>2, <1>3

LEMMA HostedReturnKeeps ==
  ASSUME IInv, NEW c \in Calls, HostedReturn(c)
  PROVE  IInv' /\ Follows(operations, operations')
<1> DEFINE call == calls[c]
           s == call.snap
           result == CASE s = NoSub -> "no_active" [] s.handle = call.plan -> "current"
                       [] s.handle # call.plan /\ s.pending = call.plan -> "pending" [] OTHER -> "mismatch"
           boundary == IF s = NoSub THEN <<row.cycle, FALSE>> ELSE <<s.cycle, s.pending # None>>
           change == HostedChange(call.plan, row.observed, row.ref, result, s.cancel, boundary)
           pend == IF s.pending = None THEN NoPend
                   ELSE [handle |-> s.pending, mapped |-> s.pending # Odd, at |-> "effective"]
           next == IF result = "pending" THEN "effective" ELSE c
           r == [row EXCEPT !.observed = s.handle, !.cycle = s.cycle, !.seen = call.ver, !.pend = pend, !.next = next]
<1>1. /\ call.at = "return" /\ UNCHANGED <<provider, past, periods>>
      /\ \/ Goes(c, Done(c)) /\ UNCHANGED <<row, operations>>
         \/ /\ \A op \in change : ~Conflicts(operations, op)
            /\ operations' = (IF change = {} THEN operations ELSE Ensured(operations, CHOOSE op \in change : TRUE))
            /\ \/ Writes(c, Done(c), [row EXCEPT !.next = c])
               \/ Goes(c, Done(c)) /\ UNCHANGED row
               \/ Writes(c, Done(c), r)
  BY DEF HostedReturn
<1>2. call \in CallStates /\ CallOK(call) /\ Done(c) = Done(calls[c])
  BY DEF IInv, Done
<1>3. s \in Subs /\ call.ver \in Nat
  BY <1>2 DEF CallStates
<1>4. result = "current" /\ call.plan \in Plans => call.plan \in past.held
  BY <1>2, <1>3, SnapshotFields, NamesDiffer DEF CallOK, HoldsWell
<1>5. CASE Goes(c, Done(c)) /\ UNCHANGED <<row, operations>>
  BY <1>1, <1>2, <1>5, Finished
<1>6. ASSUME \A op \in change : ~Conflicts(operations, op),
             operations' = (IF change = {} THEN operations ELSE Ensured(operations, CHOOSE op \in change : TRUE))
      PROVE  Follows(operations, operations') /\ (\A op \in operations : OperationOK(op))'
  <2> HIDE DEF change
  <2>1. CASE change = {}
    BY <1>1, <1>6, <2>1, SameOperations
  <2>2. CASE change # {}
    <3> DEFINE op == CHOOSE op \in change : TRUE
    <3>1. op \in change
      BY <2>2
    <3> HIDE DEF op
    <3>2. OperationOK(op) /\ \A old \in OfKind(operations, op.kind, op.key) : op.state = "CONFIRMED" => Held(old)
      <4> HIDE DEF result, boundary
      <4> QED  BY <1>4, <3>1, HostedChangeOK DEF change
    <3>3. operations' = Ensured(operations, op)
      BY <1>6, <2>2 DEF op
    <3>4. Follows(operations, operations') /\ \A o \in operations' : OperationOK(o)
      BY <1>6, <3>1, <3>2, <3>3, EnsuredFollows DEF IInv
    <3> QED  BY <1>1, <3>4 DEF OperationOK, Shape, Held
  <2> QED  BY <2>1, <2>2
<1>7. Done(c) \in CallStates /\ CallOK(Done(c)) /\ HoldsWell(Done(c)) /\ Done(c).at \notin {"prepare", "return"}
  BY IdleOK DEF CallOK
<1>8. next \in Times /\ next # None
  BY NamesDiffer
<1>9. pend \in Pends
  BY <1>3, SnapshotFields, NamesDiffer, NoRowsTyped DEF Pends
<1>10. periods' \in [Cycles -> PeriodRows] /\ row \in SubscriptionRows /\ RowFits(row) /\ PeriodFits(row, periods)
  BY <1>1 DEF IInv, RowsOK, RowFits
<1> HIDE DEF next, pend, result, boundary, change
<1>11. RowFits(r) /\ PeriodFits(r, periods)
  <2>1. s.handle \in Handles \cup {None} /\ s.cycle \in 0..MaxCycles
    BY <1>3, SnapshotFields
  <2>2. r \in SubscriptionRows
    BY <1>3, <1>8, <1>9, <1>10, <2>1 DEF SubscriptionRows
  <2>3. /\ r.status = row.status /\ r.plan = row.plan /\ r.ref = row.ref /\ r.period = row.period
        /\ r.seen = call.ver /\ r.next = next
    BY <1>10 DEF SubscriptionRows
  <2> HIDE DEF r
  <2> QED  BY <1>2, <1>8, <1>10, <2>2, <2>3 DEF RowFits, PeriodFits, CallOK, HoldsWell
<1>12. LET n == [row EXCEPT !.next = c] IN RowFits(n) /\ PeriodFits(n, periods)
  BY NextMoves, NamesDiffer
<1> HIDE DEF r
<1>13. ASSUME NEW n, RowFits(n), PeriodFits(n, periods), Writes(c, Done(c), n),
              Follows(operations, operations') /\ (\A op \in operations : OperationOK(op))'
       PROVE  IInv' /\ Follows(operations, operations')
  BY <1>1, <1>7, <1>10, <1>13, RowWritten
<1>14. CASE Goes(c, Done(c)) /\ UNCHANGED row /\ Follows(operations, operations') /\ (\A op \in operations : OperationOK(op))'
  BY <1>1, <1>7, <1>14, CallGoes
<1> QED  BY <1>1, <1>5, <1>6, <1>11, <1>12, <1>13, <1>14

LEMMA PrepareKeeps ==
  ASSUME IInv, NEW c \in Calls, Prepare(c)
  PROVE  IInv' /\ Follows(operations, operations')
<1> DEFINE call == calls[c]
           fits == freshInitialProjection(call)
           plan == call.plan
           token == [call EXCEPT !.at = "read", !.token = TRUE]
           pend == [handle |-> plan, mapped |-> TRUE, at |-> c]
           r == [row EXCEPT !.pend = pend, !.next = c]
           at == IF fits THEN "read" ELSE "return"
           to == IF fits THEN None ELSE plan
           new == [call EXCEPT !.at = at, !.plan = to]
<1>1. /\ call.at = "prepare" /\ UNCHANGED <<provider, past, periods>>
      /\ \/ /\ Writes(c, token, r)
            /\ operations' = operations \/ operations' = Ensured(operations, InitialPaidIntent(plan))
         \/ Goes(c, [call EXCEPT !.at = "read"]) /\ UNCHANGED <<row, operations>>
         \/ Goes(c, new) /\ UNCHANGED <<row, operations>>
  BY DEF Prepare
<1>2. call \in CallStates /\ CallOK(call) /\ plan \in Handles \cup {None}
  BY DEF IInv, CallStates
<1>3. row \in SubscriptionRows /\ RowFits(row) /\ PeriodFits(row, periods) /\ periods \in [Cycles -> PeriodRows]
  BY DEF IInv, RowsOK, RowFits
<1>4. CASE /\ Writes(c, token, r)
           /\ operations' = operations \/ operations' = Ensured(operations, InitialPaidIntent(plan))
  <2>1. pend \in Pends
    BY <1>2, NamesDiffer DEF Pends
  <2>2. r \in SubscriptionRows
    BY <1>3, <2>1, NamesDiffer DEF SubscriptionRows
  <2>3. /\ r.status = row.status /\ r.plan = row.plan /\ r.ref = row.ref /\ r.period = row.period
        /\ r.seen = row.seen /\ r.next = c
    BY <1>3 DEF SubscriptionRows
  <2>4. token \in CallStates /\ token.at = "read"
    BY <1>2 DEF CallStates, Steps
  <2>5. token.ver = call.ver /\ token.told = call.told /\ token.snap = call.snap
    BY <1>2 DEF CallStates
  <2> HIDE DEF r, token, pend
  <2>6. RowFits(r) /\ PeriodFits(r, periods)
    BY <1>3, <2>2, <2>3, NamesDiffer DEF RowFits, PeriodFits
  <2>7. HoldsWell(token)
    BY <1>1, <1>2, <2>5 DEF CallOK, HoldsWell
  <2>8. Follows(operations, operations') /\ (\A op \in operations : OperationOK(op))'
    <3>1. CASE operations' = operations
      BY <1>1, <3>1, SameOperations
    <3>2. CASE operations' = Ensured(operations, InitialPaidIntent(plan))
      <4> DEFINE op == InitialPaidIntent(plan)
      <4>1. op.kind = "SUBSCRIPTION_CREATE" /\ op.state = "INITIATING" /\ op.ref = NoRef /\ Shape(op)
        BY DEF InitialPaidIntent, Shape
      <4> HIDE DEF op
      <4>2. OperationOK(op) /\ ~Conflicts(operations, op)
        BY <4>1 DEF OperationOK, Conflicts
      <4>3. Follows(operations, operations') /\ \A o \in operations' : OperationOK(o)
        BY <3>2, <4>1, <4>2, EnsuredFollows DEF IInv, op
      <4> QED  BY <1>1, <4>3 DEF OperationOK, Shape, Held
    <3> QED  BY <1>4, <3>1, <3>2
  <2> QED  BY <1>1, <1>3, <1>4, <2>4, <2>6, <2>7, <2>8, RowWritten
<1>5. CASE Goes(c, [call EXCEPT !.at = "read"]) /\ UNCHANGED <<row, operations>>
  <2>1. "read" \in Steps \ {"prepare", "return"}
    BY DEF Steps
  <2> QED  BY <1>1, <1>5, <2>1, StepOn, SameOperations, CallGoes
<1>6. CASE Goes(c, new) /\ UNCHANGED <<row, operations>>
  <2>1. at \in Steps /\ at # "notify" /\ to \in Handles \cup {None}
    BY <1>2 DEF Steps
  <2> HIDE DEF at, to
  <2>2. new \in CallStates
    BY <1>2, <2>1 DEF CallStates
  <2>3. /\ new.at = at /\ new.ver = call.ver /\ new.told = call.told /\ new.snap = call.snap
        /\ new.fresh = call.fresh
    BY <1>2 DEF CallStates
  <2> HIDE DEF new
  <2>4. CallOK(new)
    BY <1>1, <1>2, <2>3 DEF CallOK, HoldsWell
  <2> QED  BY <1>1, <1>6, <2>2, <2>4, SameOperations, CallGoes
<1> QED  BY <1>1, <1>4, <1>5, <1>6

LEMMA ResumeKeeps ==
  ASSUME IInv, NEW c \in Calls, Resume(c)
  PROVE  IInv' /\ Follows(operations, operations')
<1> DEFINE new == [Idle EXCEPT !.at = "read"]
<1>1. Goes(c, new) /\ UNCHANGED <<provider, past, row, periods, operations>>
  BY DEF Resume
<1>2. new \in CallStates
  BY IdleOK DEF CallStates, Steps
<1>3. new.at = "read" /\ new.ver = 0 /\ new.told = NoRef /\ new.snap = NoSub /\ past.moves \in Nat
  BY BoundsAssumption DEF Idle, IInv, ProviderOK
<1> HIDE DEF new
<1>4. CallOK(new)
  BY <1>3 DEF CallOK, HoldsWell
<1> QED  BY <1>1, <1>2, <1>4, SameOperations, CallGoes

-----------------------------------------------------------------------------
(* syncSubscription.                                                          *)
LEMMA ReadKeeps ==
  ASSUME IInv, NEW c \in Calls, Read(c)
  PROVE  IInv' /\ Follows(operations, operations')
<1> DEFINE new == [calls[c] EXCEPT !.at = "project", !.snap = provider, !.ver = past.moves]
<1>1. Goes(c, new) /\ UNCHANGED <<provider, past, row, periods, operations>> /\ calls[c].at = "read"
  BY DEF Read
<1>2. calls[c] \in CallStates /\ CallOK(calls[c]) /\ provider \in Subs /\ past.moves \in Nat
  BY BoundsAssumption DEF IInv, ProviderOK
<1>3. new \in CallStates
  BY <1>2 DEF CallStates, Steps
<1>4. new.at = "project" /\ new.ver = past.moves /\ new.told = calls[c].told /\ new.snap = provider
  BY <1>2 DEF CallStates
<1> HIDE DEF new
<1>5. CallOK(new)
  BY <1>1, <1>2, <1>4 DEF CallOK, HoldsWell, IInv, ProviderOK
<1> QED  BY <1>1, <1>3, <1>5, SameOperations, CallGoes

LEMMA ReadFailsKeeps ==
  ASSUME IInv, NEW c \in Calls, ReadFails(c)
  PROVE  IInv' /\ Follows(operations, operations')
<1>1. /\ \/ Goes(c, Done(c))
         \/ Goes(c, [calls[c] EXCEPT !.at = "schedule"])
      /\ UNCHANGED <<provider, past, row, periods, operations>> /\ calls[c].at = "read"
  BY DEF ReadFails
<1>2. Done(c) = Done(calls[c]) /\ "schedule" \in Steps \ {"prepare", "return"}
  BY DEF Done, Steps
<1> QED  BY <1>1, <1>2, Finished, StepOn, SameOperations, CallGoes

LEMMA SupersededKeeps ==
  ASSUME IInv, NEW c \in Calls, Superseded(c)
  PROVE  IInv' /\ Follows(operations, operations')
<1>1. Goes(c, After(calls[c], "none")) /\ UNCHANGED <<provider, past, row, periods, operations>>
  BY DEF Superseded
<1>2. calls[c] \in CallStates /\ HoldsWell(calls[c])
  BY DEF IInv, CallOK
<1>3. After(calls[c], "none") \in CallStates /\ CallOK(After(calls[c], "none"))
  BY <1>2, AfterOK DEF CallOK
<1> QED  BY <1>1, <1>3, SameOperations, CallGoes

(* The row of a shop without a contract keeps a choice only with its date.    *)
LEMMA NoContractFits ==
  ASSUME IInv, NEW ver \in Nat, ver <= past.moves
  PROVE  NoContract(ver) \in SubscriptionRows /\ RowFits(NoContract(ver)) /\ PeriodFits(NoContract(ver), periods)
<1> DEFINE keep == KeepsIntent(row)
           pend == IF keep THEN row.pend ELSE NoPend
           next == IF keep THEN row.next ELSE None
           bare == [status |-> "NO_CONTRACT", plan |-> None, observed |-> None, ref |-> NoRef, period |-> 0,
                    cycle |-> 0, pend |-> pend, next |-> next, seen |-> ver]
<1>1. bare = NoContract(ver)
  BY DEF NoContract
<1>2. keep => row.next # None
  BY DEF KeepsIntent
<1>3. row \in SubscriptionRows
  BY DEF IInv, RowsOK, RowFits
<1>4. pend \in Pends /\ next \in Times /\ (pend.handle # None => next # None)
  BY <1>2, <1>3, NoRowsTyped, NamesDiffer DEF SubscriptionRows
<1> HIDE DEF pend, next, keep
<1>5. 0 \in 0..MaxMoves /\ 0 \in 0..MaxCycles /\ "NO_CONTRACT" \in Statuses /\ NoRef = 0
  BY BoundsAssumption DEF Statuses, NoRef
<1>6. bare \in SubscriptionRows
  BY <1>4, <1>5 DEF SubscriptionRows
<1>8. /\ bare.status = "NO_CONTRACT" /\ bare.plan = None /\ bare.period = 0 /\ bare.pend = pend
      /\ bare.next = next /\ bare.seen = ver
  OBVIOUS
<1> HIDE DEF bare
<1>10. RowFits(bare) /\ PeriodFits(bare, periods)
  BY <1>4, <1>6, <1>8 DEF RowFits, PeriodFits
<1> QED  BY <1>1, <1>6, <1>10

LEMMA ProjectNoneKeeps ==
  ASSUME IInv, NEW c \in Calls, ProjectNone(c)
  PROVE  IInv' /\ Follows(operations, operations')
<1> DEFINE told == IF row.status = "ACTIVE" THEN row.ref ELSE NoRef
           notify == [calls[c] EXCEPT !.at = "notify", !.told = told]
           call == IF told = NoRef THEN calls[c] ELSE notify
<1>1. /\ Writes(c, After(call, "none"), NoContract(calls[c].ver))
      /\ operations' = ReconciledNone(operations) /\ UNCHANGED <<provider, past, periods>>
  BY DEF ProjectNone
<1>2. calls[c] \in CallStates /\ HoldsWell(calls[c]) /\ periods \in [Cycles -> PeriodRows]
  BY DEF IInv, CallOK, RowsOK
<1>3. calls[c].ver \in Nat /\ calls[c].ver <= past.moves
  BY <1>2 DEF CallStates, HoldsWell
<1>4. told \in 0..MaxMoves
  BY BoundsAssumption DEF IInv, RowsOK, RowFits, SubscriptionRows, NoRef
<1> HIDE DEF told
<1>5. notify \in CallStates /\ HoldsWell(notify)
  <2>1. notify \in CallStates
    BY <1>2, <1>4 DEF CallStates, Steps
  <2>2. /\ notify.at = "notify" /\ notify.ver = calls[c].ver /\ notify.snap = calls[c].snap
    BY <1>2 DEF CallStates
  <2> HIDE DEF notify
  <2> QED  BY <1>2, <2>1, <2>2 DEF HoldsWell
<1> HIDE DEF notify
<1>6. call \in CallStates /\ HoldsWell(call)
  BY <1>2, <1>5
<1> HIDE DEF call
<1>7. /\ After(call, "none") \in CallStates /\ HoldsWell(After(call, "none"))
      /\ After(call, "none").at \notin {"prepare", "return"}
  BY <1>6, AfterOK
<1>8. Follows(operations, operations') /\ \A op \in operations' : OperationOK(op)
  BY <1>1, NoneFollows DEF IInv
<1>9. (\A op \in operations : OperationOK(op))'
  BY <1>1, <1>8 DEF OperationOK, Shape, Held
<1> DEFINE ver == calls[c].ver
           r == NoContract(ver)
<1> HIDE DEF ver
<1>10. RowFits(r) /\ PeriodFits(r, periods)
  BY <1>3, NoContractFits DEF ver
<1> HIDE DEF r
<1>11. Writes(c, After(call, "none"), r)
  BY <1>1 DEF r, ver
<1>12. periods' \in [Cycles -> PeriodRows] /\ PeriodFits(r, periods')
  BY <1>1, <1>2, <1>10
<1> QED  BY <1>1, <1>7, <1>8, <1>9, <1>10, <1>11, <1>12, RowWritten

(* The first paid plan: its row, its period and its operation, or an error.   *)
LEMMA FinalizePaidKeeps ==
  ASSUME IInv, NEW c \in Calls, FinalizePaid(c)
  PROVE  IInv' /\ Follows(operations, operations')
<1> DEFINE s == calls[c].snap
           mine == [handle |-> s.handle, mapped |-> TRUE, granted |-> TRUE, counter |-> TRUE]
           active == [status |-> "ACTIVE", plan |-> s.handle, observed |-> s.handle, ref |-> s.ref,
                      period |-> s.cycle, cycle |-> s.cycle, pend |-> NoPend, next |-> "drain",
                      seen |-> calls[c].ver]
           error == [row EXCEPT !.status = "SYNC_ERROR", !.plan = None, !.period = 0, !.cycle = 0, !.next = None]
<1>1. /\ FirstPaid(c) /\ UNCHANGED <<provider, past>>
      /\ \/ /\ s.cycle # 0 /\ periods' = [periods EXCEPT ![s.cycle] = mine]
            /\ Writes(c, After(calls[c], "active"), active)
            /\ operations' = ReconciledActive(operations, s.handle, s.ref, s.cancel)
         \/ Writes(c, After(calls[c], "error"), error) /\ UNCHANGED <<periods, operations>>
  BY DEF FinalizePaid
<1>2. /\ calls[c] \in CallStates /\ HoldsWell(calls[c]) /\ s \in Subs
      /\ periods \in [Cycles -> PeriodRows] /\ row \in SubscriptionRows /\ RowFits(row)
  BY DEF IInv, CallOK, CallStates, RowsOK, RowFits
<1>3. calls[c].ver \in Nat /\ calls[c].ver <= past.moves /\ past.moves \in Nat
  BY <1>2, BoundsAssumption DEF CallStates, HoldsWell, IInv, ProviderOK
<1>4. s.handle \in Paid /\ s.handle # None /\ s # NoSub
  BY <1>1, <1>2, SnapshotFields, NamesDiffer DEF FirstPaid
<1>5. \A got \in {"active", "error"} :
        /\ After(calls[c], got) \in CallStates /\ HoldsWell(After(calls[c], got))
        /\ After(calls[c], got).at \notin {"prepare", "return"}
  BY <1>2, AfterOK
<1>6. s.ref \in 0..MaxMoves /\ s.ref # NoRef /\ s.cycle \in 0..MaxCycles /\ s.handle \in past.held
  BY <1>2, <1>4, SnapshotFields DEF HoldsWell
<1>7. CASE /\ s.cycle # 0 /\ periods' = [periods EXCEPT ![s.cycle] = mine]
           /\ Writes(c, After(calls[c], "active"), active)
           /\ operations' = ReconciledActive(operations, s.handle, s.ref, s.cancel)
  <2>1. mine \in PeriodRows /\ mine.mapped /\ mine.handle = s.handle /\ mine.counter = TRUE
    BY <1>4, NamesDiffer DEF PeriodRows
  <2>2. s.cycle \in Cycles
    BY <1>6, <1>7, BoundsAssumption DEF Cycles
  <2> HIDE DEF mine
  <2>3. periods' \in [Cycles -> PeriodRows] /\ periods'[s.cycle] = mine
    BY <1>2, <1>7, <2>1, <2>2
  <2>4. s.handle \in Handles \cup {None} /\ s.handle \in Plans \cup {None}
    BY <1>4, NamesDiffer
  <2>5. active \in SubscriptionRows
    BY <1>3, <1>6, <2>4, NoRowsTyped, NamesDiffer DEF SubscriptionRows, Statuses
  <2>6. /\ active.status = "ACTIVE" /\ active.plan = s.handle /\ active.ref = s.ref /\ active.period = s.cycle
        /\ active.seen = calls[c].ver
    OBVIOUS
  <2> HIDE DEF active
  <2>7. RowFits(active) /\ PeriodFits(active, periods')
    BY <1>3, <1>4, <1>6, <2>1, <2>3, <2>5, <2>6 DEF RowFits, PeriodFits
  <2>8. Follows(operations, operations') /\ \A op \in operations' : OperationOK(op)
    BY <1>6, <1>7, ActiveFollows DEF IInv
  <2>9. (\A op \in operations : OperationOK(op))'
    BY <1>1, <2>8 DEF OperationOK, Shape, Held
  <2>10. Writes(c, After(calls[c], "active"), active)
    BY <1>7
  <2> QED  BY <1>1, <1>5, <2>3, <2>7, <2>8, <2>9, <2>10, RowWritten
<1>8. CASE Writes(c, After(calls[c], "error"), error) /\ UNCHANGED <<periods, operations>>
  <2>1. 0 \in 0..MaxCycles /\ "SYNC_ERROR" \in Statuses
    BY BoundsAssumption DEF Statuses
  <2>2. error \in SubscriptionRows
    BY <1>2, <2>1, NamesDiffer DEF SubscriptionRows
  <2>3. error.status = "SYNC_ERROR" /\ error.seen = row.seen
    BY <1>2 DEF SubscriptionRows
  <2> HIDE DEF error
  <2>4. RowFits(error) /\ PeriodFits(error, periods)
    BY <1>2, <2>2, <2>3 DEF RowFits, PeriodFits
  <2>5. Writes(c, After(calls[c], "error"), error)
    BY <1>8
  <2> QED  BY <1>1, <1>2, <1>5, <1>8, <2>4, <2>5, SameOperations, RowWritten
<1> QED  BY <1>1, <1>7, <1>8

LEMMA ProjectKeeps ==
  ASSUME IInv, NEW c \in Calls, Project(c)
  PROVE  IInv' /\ Follows(operations, operations')
<1> DEFINE s == calls[c].snap
<1>1. PICK verdict \in Verdicts(s.handle) :
        LET p == Projection(row, s, calls[c].ver, verdict)
        IN /\ periods' = p.periods /\ operations' = p.operations
           /\ Writes(c, After(calls[c], IF p.row.status = "ACTIVE" THEN "none" ELSE "error"), p.row)
  BY DEF Project
<1> DEFINE p == Projection(row, s, calls[c].ver, verdict)
           got == IF p.row.status = "ACTIVE" THEN "none" ELSE "error"
<1>2. s # NoSub /\ UNCHANGED <<provider, past>>
  BY DEF Project
<1>3. /\ calls[c] \in CallStates /\ HoldsWell(calls[c]) /\ s \in Subs /\ row \in SubscriptionRows
      /\ periods \in [Cycles -> PeriodRows] /\ ProviderOK /\ \A op \in operations : OperationOK(op)
  BY DEF IInv, CallOK, CallStates, RowsOK, RowFits
<1>4. calls[c].ver \in Nat /\ calls[c].ver <= past.moves /\ s.handle \in past.held
  BY <1>2, <1>3 DEF CallStates, HoldsWell
<1>5. /\ RowFits(p.row) /\ p.periods \in [Cycles -> PeriodRows] /\ PeriodFits(p.row, p.periods)
      /\ Follows(operations, p.operations) /\ \A op \in p.operations : OperationOK(op)
  BY <1>2, <1>3, <1>4, ProjectionGood
<1>6. periods' = p.periods /\ operations' = p.operations /\ Writes(c, After(calls[c], got), p.row)
  BY <1>1
<1>7. got \in {"none", "active", "error"}
  OBVIOUS
<1> HIDE DEF p, got
<1>8. /\ After(calls[c], got) \in CallStates /\ HoldsWell(After(calls[c], got))
      /\ After(calls[c], got).at \notin {"prepare", "return"}
  BY <1>3, <1>7, AfterOK
<1>9. (\A op \in operations : OperationOK(op))'
  BY <1>2, <1>5, <1>6 DEF OperationOK, Shape, Held
<1> QED  BY <1>2, <1>5, <1>6, <1>8, <1>9, RowWritten

LEMMA NotifyKeeps ==
  ASSUME IInv, NEW c \in Calls, Notify(c)
  PROVE  IInv' /\ Follows(operations, operations')
<1> DEFINE new == [calls[c] EXCEPT !.at = "project", !.told = NoRef]
<1>1. Goes(c, After(new, "none")) /\ UNCHANGED <<provider, past, row, periods, operations>>
  BY DEF Notify
<1>2. calls[c] \in CallStates /\ HoldsWell(calls[c])
  BY DEF IInv, CallOK
<1>3. "project" \in Steps /\ NoRef \in 0..MaxMoves
  BY BoundsAssumption DEF Steps, NoRef
<1>4. new \in CallStates
  BY <1>2, <1>3 DEF CallStates
<1>5. new.told = NoRef /\ new.ver = calls[c].ver /\ new.snap = calls[c].snap
  BY <1>2 DEF CallStates
<1> HIDE DEF new
<1>6. HoldsWell(new)
  BY <1>2, <1>5 DEF HoldsWell
<1>7. After(new, "none") \in CallStates /\ CallOK(After(new, "none"))
  BY <1>4, <1>6, AfterOK DEF CallOK
<1> QED  BY <1>1, <1>7, SameOperations, CallGoes

-----------------------------------------------------------------------------
(* The end of the callback.                                                   *)
LEMMA CheckKeeps ==
  ASSUME IInv, NEW c \in Calls, Check(c)
  PROVE  IInv' /\ Follows(operations, operations')
<1>1. /\ \/ Goes(c, Done(c))
         \/ Goes(c, [calls[c] EXCEPT !.at = "schedule"])
         \/ Goes(c, [calls[c] EXCEPT !.at = "complete"])
      /\ UNCHANGED <<provider, past, row, periods, operations>> /\ calls[c].at = "check"
  BY DEF Check
<1>2. /\ Done(c) = Done(calls[c])
      /\ "schedule" \in Steps \ {"prepare", "return"} /\ "complete" \in Steps \ {"prepare", "return"}
  BY DEF Done, Steps
<1> QED  BY <1>1, <1>2, Finished, StepOn, SameOperations, CallGoes

LEMMA CompleteKeeps ==
  ASSUME IInv, NEW c \in Calls, Complete(c)
  PROVE  IInv' /\ Follows(operations, operations')
<1> DEFINE next == IF ~TopUp THEN None ELSE IF row.cycle # 0 THEN "drain" ELSE "retry"
           r == [row EXCEPT !.pend = NoPend, !.next = next]
<1>1. /\ \/ Goes(c, Done(c)) /\ UNCHANGED row
         \/ Writes(c, Done(c), r)
      /\ UNCHANGED <<provider, past, periods, operations>>
  BY DEF Complete
<1>2. row \in SubscriptionRows /\ RowFits(row) /\ PeriodFits(row, periods) /\ periods \in [Cycles -> PeriodRows]
  BY DEF IInv, RowsOK, RowFits
<1>3. next \in Times
  BY NamesDiffer
<1> HIDE DEF next
<1>4. r \in SubscriptionRows
  BY <1>2, <1>3, NoRowsTyped DEF SubscriptionRows
<1>5. /\ r.status = row.status /\ r.plan = row.plan /\ r.ref = row.ref /\ r.period = row.period
      /\ r.seen = row.seen /\ r.pend = NoPend
  BY <1>2 DEF SubscriptionRows
<1> HIDE DEF r
<1>6. RowFits(r) /\ PeriodFits(r, periods)
  BY <1>2, <1>4, <1>5, NoRowsTyped DEF RowFits, PeriodFits
<1>7. CASE Goes(c, Done(c)) /\ UNCHANGED row
  <2>1. Done(c) = Done(calls[c])
    BY DEF Done
  <2> QED  BY <1>1, <1>7, <2>1, Finished
<1>8. CASE Writes(c, Done(c), r)
  BY <1>1, <1>2, <1>6, <1>8, IdleOK, SameOperations, RowWritten
<1> QED  BY <1>1, <1>7, <1>8

LEMMA ScheduleKeeps ==
  ASSUME IInv, NEW c \in Calls, Schedule(c)
  PROVE  IInv' /\ Follows(operations, operations')
<1>1. /\ \/ Writes(c, Done(c), [row EXCEPT !.next = "retry"])
         \/ Goes(c, Done(c)) /\ UNCHANGED row
      /\ UNCHANGED <<provider, past, periods, operations>>
  BY DEF Schedule
<1>2. Done(c) = Done(calls[c])
  BY DEF Done
<1> QED  BY <1>1, <1>2, NextWritten, Finished, NamesDiffer

LEMMA CrashKeeps ==
  ASSUME IInv, NEW c \in Calls, Crash(c)
  PROVE  IInv' /\ Follows(operations, operations')
<1>1. Goes(c, Done(calls[c])) /\ UNCHANGED <<provider, past, row, periods, operations>>
  BY DEF Crash, Done
<1> QED  BY <1>1, Finished

-----------------------------------------------------------------------------
(* The subscription at Shopify, and the worker.                               *)
LEMMA EndedGrows ==
  ASSUME ProviderOK, NEW new \in Subs, new = NoSub \/ provider = NoSub \/ new.ref = provider.ref,
         NEW ended, ended = IF provider.ref \in {NoRef, new.ref} THEN past.ended ELSE past.ended \cup {provider.ref}
  PROVE  /\ IsFiniteSet(ended) /\ ended \in SUBSET (0..MaxMoves)
         /\ Cardinality(ended) + (IF new = NoSub THEN 0 ELSE 1) <= past.moves + 1
<1>1. /\ IsFiniteSet(past.ended) /\ past.ended \in SUBSET (0..MaxMoves) /\ past.moves \in Nat
      /\ Cardinality(past.ended) \in Nat
  BY BoundsAssumption, FS_CardinalityType DEF ProviderOK
<1>2. /\ provider.ref \in 0..MaxMoves /\ (provider = NoSub <=> provider.ref = NoRef)
      /\ new = NoSub <=> new.ref = NoRef
  BY SnapshotFields DEF ProviderOK
<1>3. CASE provider.ref \in {NoRef, new.ref}
  <2>1. ended = past.ended
    BY <1>3
  <2>2. new # NoSub \/ provider = NoSub
    BY <1>2, <1>3
  <2> QED  BY <1>1, <2>1 DEF ProviderOK
<1>4. CASE provider.ref \notin {NoRef, new.ref}
  <2>1. ended = past.ended \cup {provider.ref} /\ provider # NoSub /\ new = NoSub
    BY <1>2, <1>4
  <2>2. /\ IsFiniteSet(ended)
        /\ Cardinality(ended) = Cardinality(past.ended) \/ Cardinality(ended) = Cardinality(past.ended) + 1
    <3> DEFINE S == past.ended
               x == provider.ref
    <3>1. IsFiniteSet(S) /\ ended = S \cup {x}
      BY <1>1, <2>1
    <3> HIDE DEF S, x
    <3>2. /\ IsFiniteSet(S \cup {x})
          /\ Cardinality(S \cup {x}) = IF x \in S THEN Cardinality(S) ELSE Cardinality(S) + 1
      BY <3>1, FS_AddElement
    <3> QED  BY <3>1, <3>2 DEF S
  <2> QED  BY <1>1, <1>2, <2>1, <2>2 DEF ProviderOK
<1> QED  BY <1>3, <1>4

(* A move makes nothing untrue that was observed before it.                   *)
LEMMA MovedKeeps ==
  ASSUME IInv, NEW new \in Subs, Moved(new), new = NoSub \/ provider = NoSub \/ new.ref = provider.ref
  PROVE  IInv' /\ Follows(operations, operations')
<1> DEFINE cycles == IF new.cycle > past.cycles THEN new.cycle ELSE past.cycles
           held == past.held \cup ({new.handle} \ {None})
           ended == IF provider.ref \in {NoRef, new.ref} THEN past.ended ELSE past.ended \cup {provider.ref}
           moved == [past EXCEPT !.moves = past.moves + 1, !.cycles = cycles, !.held = held, !.ended = ended]
<1>1. /\ past.moves < MaxMoves /\ provider' = new /\ past' = moved
      /\ UNCHANGED <<row, periods, operations, calls>>
  BY DEF Moved
<1>2. ProviderOK /\ past.moves \in 0..MaxMoves /\ past.cycles \in 0..MaxCycles /\ past.held \in SUBSET Handles
  BY DEF IInv, ProviderOK
<1>3. new.cycle \in 0..MaxCycles /\ new.handle \in Handles \cup {None} /\ (new # NoSub => new.handle \in Handles)
  BY SnapshotFields
<1>4. /\ IsFiniteSet(ended) /\ ended \in SUBSET (0..MaxMoves)
      /\ Cardinality(ended) + (IF new = NoSub THEN 0 ELSE 1) <= past.moves + 1
  BY <1>2, EndedGrows
<1>5. cycles \in 0..MaxCycles /\ held \in SUBSET Handles /\ past.moves + 1 \in 0..MaxMoves
  BY <1>1, <1>2, <1>3, BoundsAssumption
<1>6. past.held \subseteq held /\ (new # NoSub => new.handle \in held)
  BY <1>3, NamesDiffer
<1> HIDE DEF cycles, held, ended
<1>7. moved \in [moves : 0..MaxMoves, cycles : 0..MaxCycles, held : SUBSET Handles, ended : SUBSET (0..MaxMoves)]
  BY <1>2, <1>4, <1>5 DEF ProviderOK
<1>8. moved.moves = past.moves + 1 /\ moved.held = held /\ moved.ended = ended
  BY <1>2 DEF ProviderOK
<1> HIDE DEF moved
<1>9. ProviderOK'
  BY <1>1, <1>4, <1>6, <1>7, <1>8 DEF ProviderOK, Subs
<1>10. past'.moves \in Nat /\ past.moves <= past'.moves /\ past.held \subseteq past'.held /\ past.moves \in Nat
  BY <1>1, <1>2, <1>6, <1>8, BoundsAssumption
<1>11. RowsOK'
  <2>1. row \in SubscriptionRows /\ row.seen \in Nat
    BY DEF IInv, RowsOK, RowFits, SubscriptionRows
  <2> QED  BY <1>1, <1>10, <2>1 DEF IInv, RowsOK, RowFits, PeriodFits
<1>12. (\A op \in operations : OperationOK(op))'
  BY <1>1, <1>10 DEF IInv, OperationOK, Shape, Held
<1>13. (\A c \in Calls : CallOK(calls[c]))'
  <2> SUFFICES ASSUME NEW c \in Calls PROVE CallOK(calls[c])'
    OBVIOUS
  <2>1. calls[c] \in CallStates /\ CallOK(calls[c]) /\ calls[c].ver \in Nat
    BY DEF IInv, CallStates
  <2> QED  BY <1>1, <1>10, <2>1 DEF CallOK, HoldsWell
<1> QED  BY <1>1, <1>9, <1>11, <1>12, <1>13, Stays DEF IInv

LEMMA MerchantMovesKeeps ==
  ASSUME IInv, MerchantMoves
  PROVE  IInv' /\ Follows(operations, operations')
<1> DEFINE Live == [handle : Handles, ref : 1..MaxMoves, cycle : 0..MaxCycles, cancel : BOOLEAN,
                    pending : Handles \cup {None}]
<1>1. /\ ProviderOK /\ past.moves \in 0..MaxMoves /\ past.cycles \in 0..MaxCycles
      /\ Cardinality(past.ended) \in Nat /\ provider \in Subs
  BY FS_CardinalityType DEF IInv, ProviderOK
<1>2. NewCycle \subseteq 0..MaxCycles
  BY <1>1, BoundsAssumption DEF NewCycle
<1>3. NoSub \in Subs /\ Live \subseteq Subs
  BY DEF Subs
<1>4. ASSUME provider = NoSub, NEW h \in Handles, NEW k \in NewCycle \cup {0},
             Moved([NoSub EXCEPT !.handle = h, !.ref = Cardinality(past.ended) + 1, !.cycle = k])
      PROVE  IInv' /\ Follows(operations, operations')
  <2> DEFINE ref == Cardinality(past.ended) + 1
             new == [NoSub EXCEPT !.handle = h, !.ref = ref, !.cycle = k]
  <2>1. k \in 0..MaxCycles
    BY <1>2, BoundsAssumption
  <2>2. ref \in 1..MaxMoves
    BY <1>1, <1>4, BoundsAssumption DEF Moved, ProviderOK
  <2> HIDE DEF ref
  <2>3. new \in Live
    BY <2>1, <2>2 DEF NoSub
  <2>4. Moved(new)
    BY <1>4 DEF ref
  <2> HIDE DEF new
  <2> QED  BY <1>3, <1>4, <2>3, <2>4, MovedKeeps
<1>5. ASSUME provider # NoSub,
             \/ \E h \in Handles, k \in NewCycle \cup {provider.cycle} :
                  Moved([provider EXCEPT !.handle = h, !.cycle = k, !.pending = None])
             \/ \E h \in Handles : Moved([provider EXCEPT !.pending = h])
             \/ Moved([provider EXCEPT !.cancel = TRUE])
      PROVE  IInv' /\ Follows(operations, operations')
  <2>1. provider \in Live
    BY <1>1, <1>5 DEF Subs
  <2>2. ASSUME NEW h \in Handles, NEW k \in NewCycle \cup {provider.cycle},
               Moved([provider EXCEPT !.handle = h, !.cycle = k, !.pending = None])
        PROVE  IInv' /\ Follows(operations, operations')
    <3> DEFINE new == [provider EXCEPT !.handle = h, !.cycle = k, !.pending = None]
    <3>1. k \in 0..MaxCycles
      BY <1>2, <2>1
    <3>2. new \in Live /\ new.ref = provider.ref
      BY <2>1, <3>1
    <3>3. Moved(new)
      BY <2>2
    <3> HIDE DEF new
    <3> QED  BY <1>3, <3>2, <3>3, MovedKeeps
  <2>3. ASSUME NEW h \in Handles, Moved([provider EXCEPT !.pending = h])
        PROVE  IInv' /\ Follows(operations, operations')
    <3> DEFINE new == [provider EXCEPT !.pending = h]
    <3>1. new \in Live /\ new.ref = provider.ref
      BY <2>1
    <3>2. Moved(new)
      BY <2>3
    <3> HIDE DEF new
    <3> QED  BY <1>3, <3>1, <3>2, MovedKeeps
  <2>4. CASE Moved([provider EXCEPT !.cancel = TRUE])
    <3> DEFINE new == [provider EXCEPT !.cancel = TRUE]
    <3>1. new \in Live /\ new.ref = provider.ref
      BY <2>1
    <3>2. Moved(new)
      BY <2>4
    <3> HIDE DEF new
    <3> QED  BY <1>3, <3>1, <3>2, MovedKeeps
  <2> QED  BY <1>5, <2>2, <2>3, <2>4
<1>6. CASE Moved(NoSub)
  BY <1>3, <1>6, MovedKeeps
<1> QED  BY <1>4, <1>5, <1>6 DEF MerchantMoves

(* The worker projects what Shopify shows now, and no fence outlives it.      *)
LEMMA WorkerKeeps ==
  ASSUME IInv, WorkerReconciles
  PROVE  IInv' /\ Follows(operations, operations')
<1>1. /\ ProviderOK /\ past.moves \in Nat /\ provider \in Subs /\ RowFits(row) /\ row \in SubscriptionRows
      /\ periods \in [Cycles -> PeriodRows] /\ \A op \in operations : OperationOK(op)
  BY BoundsAssumption DEF IInv, ProviderOK, RowsOK, RowFits
<1>2. UNCHANGED <<provider, past>> /\ calls' = [d \in Calls |-> [calls[d] EXCEPT !.fresh = FALSE]]
  BY DEF WorkerReconciles
<1>3. /\ RowFits(row') /\ periods' \in [Cycles -> PeriodRows] /\ PeriodFits(row', periods')
      /\ Follows(operations, operations') /\ \A op \in operations' : OperationOK(op)
  <2>1. CASE /\ row' = [NoContract(past.moves) EXCEPT !.pend = NoPend, !.next = None]
             /\ UNCHANGED <<periods, operations>>
    <3> DEFINE ver == past.moves
               bare == NoContract(ver)
    <3>1. bare \in SubscriptionRows /\ RowFits(bare)
      <4> HIDE DEF ver
      <4> QED  BY <1>1, NoContractFits DEF ver
    <3>2. bare.status = "NO_CONTRACT" /\ bare.plan = None /\ bare.period = 0 /\ bare.seen = ver
      BY DEF NoContract
    <3>3. row' = [bare EXCEPT !.pend = NoPend, !.next = None]
      BY <2>1
    <3> HIDE DEF bare
    <3>4. row' \in SubscriptionRows
      BY <3>1, <3>3, NoRowsTyped, NamesDiffer DEF SubscriptionRows
    <3>5. /\ row'.status = "NO_CONTRACT" /\ row'.plan = None /\ row'.period = 0
          /\ row'.pend = NoPend /\ row'.seen = ver
      BY <3>1, <3>2, <3>3 DEF SubscriptionRows
    <3>6. RowFits(row') /\ PeriodFits(row', periods')
      BY <1>1, <3>4, <3>5, NoRowsTyped DEF RowFits, PeriodFits
    <3> QED  BY <1>1, <2>1, <3>6, Stays
  <2>2. CASE /\ provider # NoSub
             /\ LET p == Projection([row EXCEPT !.pend = NoPend, !.next = None], provider, past.moves,
                                    IF provider.handle = Odd THEN "unmapped" ELSE "ready")
                IN row' = p.row /\ periods' = p.periods /\ operations' = p.operations
    <3> DEFINE r == [row EXCEPT !.pend = NoPend, !.next = None]
               verdict == IF provider.handle = Odd THEN "unmapped" ELSE "ready"
               ver == past.moves
               p == Projection(r, provider, ver, verdict)
    <3>1. row' = p.row /\ periods' = p.periods /\ operations' = p.operations
      BY <2>2
    <3>2. r \in SubscriptionRows
      BY <1>1, NoRowsTyped, NamesDiffer DEF SubscriptionRows
    <3>3. verdict \in Verdicts(provider.handle)
      BY DEF Verdicts
    <3>4. provider.handle \in past.held /\ ver \in Nat /\ ver <= past.moves
      BY <1>1, <2>2 DEF ProviderOK
    <3> HIDE DEF r, verdict, ver
    <3>5. /\ RowFits(p.row) /\ p.periods \in [Cycles -> PeriodRows] /\ PeriodFits(p.row, p.periods)
          /\ Follows(operations, p.operations) /\ \A op \in p.operations : OperationOK(op)
      BY <1>1, <2>2, <3>2, <3>3, <3>4, ProjectionGood
    <3> HIDE DEF p
    <3> QED  BY <3>1, <3>5
  <2> QED  BY <2>1, <2>2 DEF WorkerReconciles
<1>4. (\A op \in operations : OperationOK(op))'
  BY <1>2, <1>3 DEF OperationOK, Shape, Held
<1>5. RowsOK'
  BY <1>2, <1>3 DEF RowsOK, RowFits, PeriodFits
<1>6. calls' \in [Calls -> CallStates]
  <2>1. \A p \in CallStates : [p EXCEPT !.fresh = FALSE] \in CallStates
    BY DEF CallStates
  <2> QED  BY <1>2, <2>1 DEF IInv
<1>7. (\A c \in Calls : CallOK(calls[c]))'
  <2> SUFFICES ASSUME NEW c \in Calls PROVE CallOK(calls[c])'
    OBVIOUS
  <2>1. calls[c] \in CallStates /\ CallOK(calls[c]) /\ calls'[c] = [calls[c] EXCEPT !.fresh = FALSE]
    BY <1>2 DEF IInv
  <2>2. /\ calls'[c].fresh = FALSE /\ calls'[c].ver = calls[c].ver /\ calls'[c].told = calls[c].told
        /\ calls'[c].at = calls[c].at /\ calls'[c].snap = calls[c].snap
    BY <2>1 DEF CallStates
  <2> QED  BY <1>2, <2>1, <2>2 DEF CallOK, HoldsWell
<1>8. ProviderOK'
  BY <1>1, <1>2 DEF ProviderOK, Subs
<1> QED  BY <1>3, <1>4, <1>5, <1>6, <1>7, <1>8 DEF IInv

-----------------------------------------------------------------------------
(* The inductive invariant.                                                   *)
LEMMA InitHolds == Init => IInv
<1> SUFFICES ASSUME Init PROVE IInv
  OBVIOUS
<1>1. 0 \in 0..MaxMoves /\ 0 \in 0..MaxCycles /\ 0 \in Nat /\ 0 <= 0 /\ NoRef = 0 /\ "NO_CONTRACT" \in Statuses
  BY BoundsAssumption DEF NoRef, Statuses
<1>2. ProviderOK
  <2>1. past = [moves |-> 0, cycles |-> 0, held |-> {}, ended |-> {}] /\ provider = NoSub
    BY DEF Init
  <2>2. past \in [moves : 0..MaxMoves, cycles : 0..MaxCycles, held : SUBSET Handles, ended : SUBSET (0..MaxMoves)]
    BY <1>1, <2>1
  <2>3. past.moves = 0 /\ past.ended = {}
    BY <2>1
  <2> QED  BY <2>1, <2>2, <2>3, NoRowsTyped, FS_EmptySet DEF ProviderOK
<1>3. RowsOK
  <2>1. row = [status |-> "NO_CONTRACT", plan |-> None, observed |-> None, ref |-> NoRef, period |-> 0, cycle |-> 0,
               pend |-> NoPend, next |-> None, seen |-> 0]
    BY DEF Init
  <2>2. row \in SubscriptionRows
    BY <1>1, <2>1, NoRowsTyped, NamesDiffer DEF SubscriptionRows
  <2>3. /\ row.status = "NO_CONTRACT" /\ row.plan = None /\ row.period = 0 /\ row.pend = NoPend /\ row.seen = 0
    BY <2>1
  <2>4. past.moves = 0 /\ periods \in [Cycles -> PeriodRows]
    BY NoRowsTyped DEF Init
  <2> QED  BY <1>1, <2>2, <2>3, <2>4, NoRowsTyped DEF RowsOK, RowFits, PeriodFits
<1>4. operations = {} /\ calls \in [Calls -> CallStates] /\ \A c \in Calls : calls[c] = Idle
  BY IdleOK DEF Init
<1>5. CallOK(Idle)
  <2>1. Idle.at = "idle" /\ Idle.ver = 0 /\ Idle.told = NoRef /\ Idle.snap = NoSub
    BY DEF Idle
  <2>2. past.moves = 0
    BY DEF Init
  <2> QED  BY <1>1, <2>1, <2>2 DEF CallOK, HoldsWell
<1> QED  BY <1>2, <1>3, <1>4, <1>5 DEF IInv

LEMMA NextKeeps == IInv /\ [Next]_vars => IInv' /\ Follows(operations, operations')
<1> SUFFICES ASSUME IInv, [Next]_vars PROVE IInv' /\ Follows(operations, operations')
  OBVIOUS
<1>1. CASE UNCHANGED vars
  <2>1. UNCHANGED <<provider, past, row, periods, operations, calls>>
    BY <1>1 DEF vars
  <2>2. ProviderOK'
    BY <2>1 DEF IInv, ProviderOK, Subs
  <2>3. RowsOK'
    BY <2>1 DEF IInv, RowsOK, RowFits, PeriodFits
  <2>4. (\A c \in Calls : CallOK(calls[c]))'
    BY <2>1 DEF IInv, CallOK, HoldsWell
  <2> QED  BY <2>1, <2>2, <2>3, <2>4, SameOperations DEF IInv
<1>2. ASSUME NEW c \in Calls, Request(c) PROVE IInv' /\ Follows(operations, operations')
  BY <1>2, StartKeeps, VerifyKeeps, VerifyFailsKeeps, HostedReturnKeeps, PrepareKeeps, ResumeKeeps, ReadKeeps,
     ReadFailsKeeps, SupersededKeeps, ProjectNoneKeeps, FinalizePaidKeeps, ProjectKeeps, NotifyKeeps, CheckKeeps,
     CompleteKeeps, ScheduleKeeps, CrashKeeps DEF Request
<1>3. CASE MerchantMoves
  BY <1>3, MerchantMovesKeeps
<1>4. CASE WorkerReconciles
  BY <1>4, WorkerKeeps
<1> QED  BY <1>1, <1>2, <1>3, <1>4 DEF Next, Ended

(* Any step of any request, of the worker or at Shopify keeps the invariant.  *)
THEOREM InvariantHolds == Spec => []IInv
BY InitHolds, NextKeeps, PTL DEF Spec

(* The row's credits are its plan's, a recorded choice has a date, and what   *)
(* counts as confirmed was true at Shopify, whatever overtakes what.          *)
THEOREM SubscriptionHolds == Spec => []SubscriptionInv
<1>1. IInv => SubscriptionInv
  <2> SUFFICES ASSUME IInv PROVE SubscriptionInv
    OBVIOUS
  <2>1. TypeOK
    <3>1. provider.handle \in Handles \cup {None} /\ provider.ref \in 0..MaxMoves /\ provider.cycle \in 0..MaxCycles
      BY SnapshotFields DEF IInv, ProviderOK
    <3>2. past.moves \in 0..MaxMoves /\ past.cycles \in 0..MaxCycles
      BY DEF IInv, ProviderOK
    <3>3. row \in SubscriptionRows /\ RowFits(row)
      BY DEF IInv, RowsOK, RowFits
    <3>4. /\ row.status \in Statuses /\ row.plan \in Plans \cup {None} /\ row.observed \in Handles \cup {None}
          /\ row.next \in Times /\ row.pend.at \in Times /\ row.period \in 0..MaxCycles
      BY <3>3 DEF SubscriptionRows, Pends
    <3> QED  BY <3>1, <3>2, <3>3, <3>4 DEF TypeOK, IInv, CallOK, HoldsWell, RowFits, Statuses
  <2>2. PeriodOfPlan
    BY DEF PeriodOfPlan, IInv, RowsOK, PeriodFits
  <2>3. IntentIsScheduled
    BY DEF IntentIsScheduled, IInv, RowsOK, RowFits
  <2>4. ConfirmedWasHeld
    BY DEF ConfirmedWasHeld, IInv, OperationOK, Held
  <2> QED  BY <2>1, <2>2, <2>3, <2>4 DEF SubscriptionInv
<1> QED  BY InvariantHolds, <1>1, PTL

(* No observation, in whatever order they arrive, unsettles what is settled.  *)
THEOREM ConfirmationAlwaysFinal == Spec => ConfirmationIsFinal
<1> DEFINE A == \A op \in operations : \E new \in operations' :
                  /\ new.kind = op.kind /\ new.key = op.key
                  /\ op.ref # NoRef => new.ref = op.ref
                  /\ op.state = "CONFIRMED" => new.state = "CONFIRMED"
<1>1. IInv /\ [Next]_vars => [A]_vars
  BY NextKeeps DEF Follows
<1> QED  BY InvariantHolds, <1>1, PTL DEF Spec, ConfirmationIsFinal

(* The record of a return never takes the row back behind what it has seen.   *)
THEOREM ReturnsAlwaysForward == Spec => ReturnsMoveForward
<1> DEFINE A == \A c \in Calls : calls[c].at = "return" /\ calls'[c].at = "done" => row'.seen >= row.seen
<1>1. ASSUME IInv, Next, NEW c \in Calls, calls[c].at = "return", calls'[c].at = "done"
      PROVE  row'.seen >= row.seen
  <2>1. /\ calls \in [Calls -> CallStates] /\ calls[c] \in CallStates /\ CallOK(calls[c])
        /\ row \in SubscriptionRows /\ row.seen \in Nat
    BY <1>1 DEF IInv, RowsOK, RowFits, SubscriptionRows
  <2>2. [calls[c] EXCEPT !.fresh = FALSE].at = "return"
    BY <1>1, <2>1 DEF CallStates
  <2>3. calls' # calls /\ calls'[c] # [calls[c] EXCEPT !.fresh = FALSE]
    BY <1>1, <2>2
  <2>4. PICK d \in Calls : Request(d)
    <3>1. ASSUME NEW new, Moved(new) PROVE FALSE
      BY <2>3, <3>1 DEF Moved
    <3>2. CASE WorkerReconciles
      <4>1. calls'[c] = [calls[c] EXCEPT !.fresh = FALSE]
        BY <3>2 DEF WorkerReconciles
      <4> QED  BY <2>3, <4>1
    <3>3. CASE Ended
      BY <2>3, <3>3 DEF Ended, vars
    <3> QED  BY <1>1, <3>1, <3>2, <3>3, Zenon DEF Next, MerchantMoves
  <2>5. d = c
    <3> SUFFICES ASSUME d # c PROVE FALSE
      OBVIOUS
    <3>1. ASSUME NEW new, Goes(d, new) PROVE FALSE
      BY <1>1, <2>1, <3>1 DEF Goes
    <3>2. ASSUME NEW new, NEW r, Writes(d, new, r) PROVE FALSE
      <4>1. calls'[c] = [calls[c] EXCEPT !.fresh = FALSE]
        BY <3>2 DEF Writes, Stale
      <4> QED  BY <2>3, <4>1
    <3> QED  BY <2>4, <3>1, <3>2 DEF Request, Start, Verify, VerifyFails, HostedReturn, Prepare, Resume, Read,
                ReadFails, Superseded, ProjectNone, FinalizePaid, Project, Notify, Check, Complete, Schedule, Crash
  <2>6. HostedReturn(c) \/ Crash(c)
    <3>1. Request(c)
      BY <2>4, <2>5
    <3> QED  BY <1>1, <3>1 DEF Request, Start, Verify, VerifyFails, Prepare, Resume, Read, ReadFails, Superseded,
       ProjectNone, FinalizePaid, Project, Mine, Notify, Check, Complete, Schedule
  <2>7. CASE Crash(c)
    BY <2>1, <2>7 DEF Crash
  <2>8. CASE HostedReturn(c)
    <3> DEFINE s == calls[c].snap
               pend == IF s.pending = None THEN NoPend
                       ELSE [handle |-> s.pending, mapped |-> s.pending # Odd, at |-> "effective"]
    <3>1. \/ UNCHANGED row
          \/ row' = [row EXCEPT !.next = c]
          \/ /\ calls[c].fresh
             /\ \E next : row' = [row EXCEPT !.observed = s.handle, !.cycle = s.cycle, !.seen = calls[c].ver,
                                             !.pend = pend, !.next = next]
      BY <2>8 DEF HostedReturn, Returned, Writes
    <3>2. row'.seen = row.seen \/ (calls[c].fresh /\ row'.seen = calls[c].ver)
      <4> HIDE DEF pend, s
      <4> QED  BY <2>1, <3>1 DEF SubscriptionRows
    <3>3. calls[c].fresh => row.seen <= calls[c].ver
      BY <1>1, <2>1 DEF CallOK
    <3>4. calls[c].ver \in Nat
      BY <2>1 DEF CallStates
    <3> QED  BY <2>1, <3>2, <3>3, <3>4
  <2> QED  BY <2>6, <2>7, <2>8
<1>2. IInv /\ [Next]_vars => [A]_vars
  BY <1>1
<1> QED  BY InvariantHolds, <1>2, PTL DEF Spec, ReturnsMoveForward
=============================================================================
