------------------------- MODULE BillingOperations -------------------------
(***************************************************************************)
(* The billing operations a shop keeps about its Shopify subscription      *)
(* (services/billing/shopify-billing-operation.service.ts), as operators   *)
(* on the set of its BillingOperation rows: what each call makes of the    *)
(* rows it reads under the subscription lock.                              *)
(*                                                                         *)
(* A row is [kind, key, plan, ref, state].  The request key is a digest of *)
(* the kind and of the fields of `key`, and the fingerprint a digest of    *)
(* the quote, which follows from the plan: neither is spelled out.  The    *)
(* reference NoRef is the column's null.                                   *)
(***************************************************************************)
EXTENDS FiniteSets, Naturals

CONSTANTS Free, Paid, Odd, None     \* the free plan, the paid ones, one the catalogue lacks

ASSUME PlansDiffer == Free \notin Paid /\ Odd \notin Paid /\ Odd # Free /\ None \notin Paid \cup {Free, Odd}

Plans == Paid \cup {Free}
NoRef == 0

Open == {"INITIATING", "AWAITING_CONFIRMATION"}     \* OUTCOME_UNKNOWN is not written by the app

\* confirmOperation: a null reference keeps the stored one.
Confirmed(op, ref) == [op EXCEPT !.state = "CONFIRMED", !.ref = IF ref = NoRef THEN @ ELSE ref]

OfKind(ops, kind, key) == {op \in ops : op.kind = kind /\ op.key = key}

\* The request names another reference than the one the row has: the call throws.
Conflicts(ops, new) ==
  \E op \in OfKind(ops, new.kind, new.key) : new.ref # NoRef /\ op.ref # NoRef /\ op.ref # new.ref

\* ensureOperation: insert, or bring the row of the same key forward.
Ensured(ops, new) ==
  LET old == OfKind(ops, new.kind, new.key)
      Advanced(op) ==
        IF new.state = "CONFIRMED" THEN Confirmed(op, new.ref)
        ELSE [op EXCEPT !.ref = IF @ = NoRef THEN new.ref ELSE @,
                        !.state = IF @ = "INITIATING" THEN new.state ELSE @]
  IN IF old = {} THEN ops \cup {new} ELSE (ops \ old) \cup {Advanced(op) : op \in old}

\* recordInitialPaidIntent: the key is the subscription row and the plan.
InitialPaidIntent(plan) ==
  [kind |-> "SUBSCRIPTION_CREATE", key |-> <<plan>>, plan |-> plan, ref |-> NoRef, state |-> "INITIATING"]

\* recordHostedPlanChange: the operation a return from Shopify's page asks for, if any.
HostedChange(wanted, prev, ref, result, cancel, boundary) ==
  IF wanted \notin Plans \/ prev \in {None, wanted} THEN {}
  ELSE IF wanted = Free
    THEN IF result # "no_active" /\ ~cancel THEN {}
         ELSE {[kind |-> "CANCEL", key |-> <<prev, boundary>>, plan |-> None, ref |-> ref, state |-> "CONFIRMED"]}
  ELSE IF result \in {"mismatch", "no_active"} THEN {}
  ELSE {[kind |-> "PLAN_SWITCH", key |-> <<prev, wanted, boundary>>, plan |-> wanted, ref |-> ref,
         state |-> IF result = "current" THEN "CONFIRMED" ELSE "AWAITING_CONFIRMATION"]}

(* Slip: the confirmed rows are not asked for a missing reference. *)
SettledOver(mine, ref) ==
  {IF op.state = "CONFIRMED" \/ op.ref \in {NoRef, ref} THEN Confirmed(op, ref) ELSE op : op \in mine}

\* One kind of reconcileActiveSubscription: the rows `mine` that an observed reference
\* settles, and the confirmed row without a reference that it completes.
Settled(mine, ref) ==
  LET open == {op \in mine : op.state \in Open}
      done(r) == IF ref = NoRef THEN {} ELSE {op \in mine : op.state = "CONFIRMED" /\ op.ref = r}
      exact == IF ref = NoRef THEN open ELSE {op \in open : op.ref = ref}
      unresolved == {op \in open : op.ref = NoRef}
      match == IF Cardinality(exact) = 1 THEN exact
               ELSE IF /\ exact = {} /\ Cardinality(unresolved) = 1
                       /\ done(NoRef) = {} /\ done(ref) = {} THEN unresolved ELSE {}
      enrich == IF ref # NoRef /\ Cardinality(done(NoRef)) = 1 /\ done(ref) = {} /\ open = {}
                THEN done(NoRef) ELSE {}
  IN (mine \ (match \cup enrich)) \cup {Confirmed(op, ref) : op \in match \cup enrich}

\* reconcileActiveSubscription
ReconciledActive(ops, plan, ref, cancel) ==
  LET create == {op \in ops : op.kind = "SUBSCRIPTION_CREATE" /\ op.plan = plan}
      switch == {op \in ops : op.kind = "PLAN_SWITCH" /\ op.plan = plan}
      ends == IF cancel THEN {op \in ops : op.kind = "CANCEL"} ELSE {}
  IN (ops \ (create \cup switch \cup ends)) \cup Settled(create, ref) \cup Settled(switch, ref) \cup Settled(ends, ref)

\* reconcileNoActiveSubscription
ReconciledNone(ops) ==
  LET open == {op \in ops : op.kind = "CANCEL" /\ op.state \in Open}
  IN IF Cardinality(open) # 1 THEN ops
     ELSE (ops \ open) \cup {Confirmed(op, NoRef) : op \in open}
=============================================================================
