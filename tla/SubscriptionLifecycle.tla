----------------------- MODULE SubscriptionLifecycle -----------------------
(***************************************************************************)
(* How the app keeps its one Subscription row of a shop in step with the   *)
(* subscription the merchant has at Shopify: the return from Shopify's     *)
(* plan page (routes/app/billing/callback), the resumption of onboarding   *)
(* (routes/app/onboarding/resume), and the services they call.             *)
(*                                                                         *)
(* Each transaction locks the shop's rows first (subscription-locks.ts)    *)
(* and is one action; what happens between them is not.  The subscription  *)
(* at Shopify and the background worker are external.  A trial is an       *)
(* active subscription here, with or without a cycle; dates are kept only  *)
(* as what the code compares them for.                                     *)
(***************************************************************************)
EXTENDS BillingOperations

CONSTANTS Calls,        \* requests
          MaxMoves,     \* moves of the subscription at Shopify
          MaxCycles,    \* billing cycles
          TopUp,        \* may the free plan buy credits: does it have a date to be reconciled at
          Worker        \* does the background worker reconcile within the run

ASSUME BoundsAssumption == MaxMoves \in Nat /\ MaxCycles \in Nat /\ TopUp \in BOOLEAN /\ Worker \in BOOLEAN
ASSUME TimesDiffer == None \notin Calls \cup {"drain", "retry", "effective"}

VARIABLES provider,     \* the subscription at Shopify, or NoSub
          past,         \* [moves, cycles: counts; held: plans it has had; ended: references that ended]
          row,          \* the Subscription row; `seen` is the move its last projection was read after
          periods,      \* cycle -> its BillingPeriod, or NoPeriod
          operations,   \* the BillingOperation rows
          onboarded,    \* Shop.onboardingCompleted
          calls         \* what each request is at, and what it holds

vars == <<provider, past, row, periods, operations, onboarded, calls>>

Handles == Plans \cup {Odd}
Cycles == 1..MaxCycles
NoSub == [handle |-> None, ref |-> NoRef, cycle |-> 0, cancel |-> FALSE, pending |-> None]
NoPeriod == [handle |-> None, mapped |-> FALSE, granted |-> FALSE, counter |-> FALSE]
NoPend == [handle |-> None, mapped |-> FALSE, at |-> None]
Idle == [at |-> "idle", plan |-> None, snap |-> NoSub, ver |-> 0, fresh |-> FALSE,
         initial |-> FALSE, token |-> FALSE, told |-> NoRef, got |-> "none"]

Times == Calls \cup {None, "drain", "retry", "effective"}

TypeOK ==
  /\ provider.handle \in Handles \cup {None} /\ provider.ref \in 0..MaxMoves /\ provider.cycle \in 0..MaxCycles
  /\ past.moves \in 0..MaxMoves /\ past.cycles \in 0..MaxCycles
  /\ row.status \in {"NO_CONTRACT", "ACTIVE", "SYNC_ERROR", "UNMAPPED"} /\ row.plan \in Plans \cup {None}
  /\ row.observed \in Handles \cup {None} /\ row.next \in Times /\ row.pend.at \in Times
  /\ row.period \in 0..MaxCycles /\ row.seen <= past.moves
  /\ (row.status = "NO_CONTRACT" => row.plan = None /\ row.period = 0)
  /\ (row.status = "ACTIVE" => row.plan # None /\ row.ref # NoRef)
  /\ \A c \in Calls : calls[c].ver <= past.moves /\ (calls[c].told # NoRef => calls[c].at = "notify")

Init ==
  /\ provider = NoSub /\ past = [moves |-> 0, cycles |-> 0, held |-> {}, ended |-> {}]
  /\ row = [status |-> "NO_CONTRACT", plan |-> None, observed |-> None, ref |-> NoRef, period |-> 0, cycle |-> 0,
            pend |-> NoPend, next |-> None, seen |-> 0]
  /\ periods = [k \in Cycles |-> NoPeriod] /\ operations = {} /\ onboarded = FALSE
  /\ calls = [c \in Calls |-> Idle]

-----------------------------------------------------------------------------
(* The subscription at Shopify. *)

Moved(new) ==
  /\ past.moves < MaxMoves
  /\ provider' = new
  /\ past' = [past EXCEPT !.moves = @ + 1, !.cycles = IF new.cycle > @ THEN new.cycle ELSE @,
                          !.held = @ \cup ({new.handle} \ {None}),
                          !.ended = IF provider.ref \in {NoRef, new.ref} THEN @ ELSE @ \cup {provider.ref}]
  /\ UNCHANGED <<row, periods, operations, onboarded, calls>>

NewCycle == IF past.cycles < MaxCycles THEN {past.cycles + 1} ELSE {}

MerchantMoves ==
  \/ \E h \in Handles, k \in NewCycle \cup {0} :
       /\ provider = NoSub
       /\ Moved([NoSub EXCEPT !.handle = h, !.ref = Cardinality(past.ended) + 1, !.cycle = k])
  \/ /\ provider # NoSub
     /\ \/ \E h \in Handles, k \in NewCycle \cup {provider.cycle} :     \* another plan, or another cycle
             /\ h # provider.handle \/ k # provider.cycle
             /\ Moved([provider EXCEPT !.handle = h, !.cycle = k, !.pending = None])
        \/ \E h \in Handles \ {provider.handle} : Moved([provider EXCEPT !.pending = h])
        \/ ~provider.cancel /\ Moved([provider EXCEPT !.cancel = TRUE])
        \/ Moved(NoSub)

-----------------------------------------------------------------------------
(* What the transactions share. *)

Initial(r) == r.status = "NO_CONTRACT" /\ r.plan = None /\ r.observed = None
KeepsIntent(r) == Initial(r) /\ r.pend.handle # None /\ r.pend.mapped /\ r.next # None
Holds(c) == row.pend.at = c /\ row.next = c               \* matchesInitialFreeActivationToken
Confirms(snap, plan) == plan \in {snap.handle, snap.pending}

\* What resolveOrMaterializeBillingPlan and the checks after it can say of a handle.
Verdicts(h) == IF h = Odd THEN {"unmapped"} ELSE IF h \in Paid THEN {"ready", "meterless", "inactive"} ELSE {"ready", "inactive"}

\* Any write of the row makes every fence read before it stale.
Stale(c, call) == [d \in Calls |-> IF d = c THEN call ELSE [calls[d] EXCEPT !.fresh = FALSE]]
Done(call) == [Idle EXCEPT !.at = "done"]
Writes(c, call, new) == row' = new /\ calls' = Stale(c, call)
Goes(c, call) == calls' = [calls EXCEPT ![c] = call]

(* Slip: an existing period is taken over whatever plan it was opened for. *)
PeriodForAny(k, h) == [ok |-> TRUE, period |-> [handle |-> h, mapped |-> TRUE, granted |-> h \in Paid,
                                                counter |-> periods[k].counter \/ h \in Paid]]

\* ensureMappedCurrentBillingPeriodProjection: the cycle's period for plan h, or a conflict.
PeriodFor(k, h) ==
  LET old == periods[k]
      mine == [handle |-> h, mapped |-> TRUE, granted |-> h \in Paid, counter |-> h \in Paid]
  IN CASE old = NoPeriod -> [ok |-> TRUE, period |-> mine]
       [] old # NoPeriod /\ (old.handle # h \/ (h = Free /\ old.counter)) -> [ok |-> FALSE, period |-> old]
       [] OTHER -> [ok |-> TRUE, period |-> mine]

\* The upsert for a plan that cannot be used: it grants nothing.
PeriodAside(k, h, mapped) ==
  IF periods[k] # NoPeriod THEN periods[k] ELSE [handle |-> h, mapped |-> mapped, granted |-> FALSE, counter |-> FALSE]

\* The projection of a live subscription on row r: subscription-sync.service.ts after its special cases.
Projection(r, s, ver, verdict) ==
  LET plan == IF verdict \in {"ready", "meterless"} THEN s.handle ELSE None
      status == CASE verdict = "unmapped" -> "UNMAPPED" [] verdict = "ready" -> "ACTIVE" [] OTHER -> "SYNC_ERROR"
      keep == KeepsIntent(r)
      k == IF keep /\ plan \in Paid THEN 0 ELSE s.cycle
      mapped == IF k # 0 /\ status = "ACTIVE" THEN PeriodFor(k, s.handle) ELSE [ok |-> TRUE, period |-> NoPeriod]
      period == IF status = "ACTIVE" THEN mapped.period ELSE PeriodAside(k, s.handle, plan # None)
  IN [row |-> [status |-> IF mapped.ok THEN status ELSE "SYNC_ERROR",
               plan |-> IF mapped.ok THEN plan ELSE r.plan, observed |-> s.handle, ref |-> s.ref,
               period |-> IF mapped.ok THEN k ELSE r.period, cycle |-> IF mapped.ok THEN s.cycle ELSE r.cycle,
               pend |-> IF keep THEN r.pend ELSE IF s.pending = None THEN NoPend
                        ELSE [handle |-> s.pending, mapped |-> s.pending # Odd, at |-> "effective"],
               next |-> IF keep THEN r.next ELSE IF plan # Free \/ ~TopUp THEN None
                        ELSE IF s.cycle # 0 THEN "drain" ELSE "retry",
               seen |-> ver],
      periods |-> IF k = 0 THEN periods ELSE [periods EXCEPT ![k] = period],
      operations |-> IF mapped.ok /\ status = "ACTIVE" THEN ReconciledActive(operations, s.handle, s.ref, s.cancel)
                     ELSE operations]

\* The row once Shopify shows no subscription.
NoContract(ver) ==
  [status |-> "NO_CONTRACT", plan |-> None, observed |-> None, ref |-> NoRef, period |-> 0, cycle |-> 0,
   pend |-> IF KeepsIntent(row) THEN row.pend ELSE NoPend, next |-> IF KeepsIntent(row) THEN row.next ELSE None, seen |-> ver]

-----------------------------------------------------------------------------
(* The callback. *)

(* Slip: what the fence read is not remembered until the return is recorded. *)
ReturnedAlways(c) == TRUE

\* sameHostedPlanVerificationFence: nothing was written since the fence was read.
Returned(c) == calls[c].fresh

\* getHostedPlanVerificationFence, before Shopify is asked.
Start(c, plan) ==
  /\ calls[c].at = "idle"
  /\ Goes(c, [Idle EXCEPT !.at = "verify", !.plan = plan, !.fresh = TRUE, !.initial = Initial(row)])
  /\ UNCHANGED <<provider, past, row, periods, operations, onboarded>>

\* The choice between activation and the record of a return; activation marks onboarding first.
Verify(c) ==
  /\ calls[c].at = "verify"
  /\ LET ok == Confirms(provider, calls[c].plan)
     IN /\ Goes(c, [calls[c] EXCEPT !.at = IF ok THEN "prepare" ELSE "return", !.snap = provider, !.ver = past.moves])
        /\ onboarded' = (onboarded \/ ok)
  /\ UNCHANGED <<provider, past, row, periods, operations>>

\* recordHostedPlanVerificationFailure
VerifyFails(c) ==
  /\ calls[c].at = "verify"
  /\ IF Returned(c) THEN Writes(c, Done(c), [row EXCEPT !.next = "retry"])
     ELSE Goes(c, Done(c)) /\ UNCHANGED row
  /\ UNCHANGED <<provider, past, periods, operations, onboarded>>

\* recordHostedPlanChangeReturn
HostedReturn(c) ==
  LET call == calls[c]  s == call.snap
      result == CASE s = NoSub -> "no_active" [] s.handle = call.plan -> "current"
                  [] s.handle # call.plan /\ s.pending = call.plan -> "pending" [] OTHER -> "mismatch"
      boundary == IF s = NoSub THEN <<row.cycle, FALSE>> ELSE <<s.cycle, s.pending # None>>
      change == HostedChange(call.plan, row.observed, row.ref, result, s.cancel, boundary)
  IN /\ call.at = "return"
     /\ \/ /\ ~Returned(c) \/ \E op \in change : Conflicts(operations, op)
           /\ Goes(c, Done(c)) /\ UNCHANGED <<row, operations>>
        \/ /\ Returned(c) /\ \A op \in change : ~Conflicts(operations, op)
           /\ operations' = (IF change = {} THEN operations ELSE Ensured(operations, CHOOSE op \in change : TRUE))
           /\ CASE result = "no_active" -> Writes(c, Done(c), [row EXCEPT !.next = c])
                [] result = "mismatch" -> Goes(c, Done(c)) /\ UNCHANGED row
                [] OTHER -> Writes(c, Done(c),
                     [row EXCEPT !.observed = s.handle, !.cycle = s.cycle, !.seen = call.ver,
                                 !.pend = IF s.pending = None THEN NoPend
                                          ELSE [handle |-> s.pending, mapped |-> s.pending # Odd, at |-> "effective"],
                                 !.next = IF result = "pending" THEN "effective" ELSE c])
     /\ UNCHANGED <<provider, past, periods, onboarded>>

\* Shopify confirms the plan of a shop without a contract of its own.
freshInitialProjection(call) == call.initial /\ call.snap.handle = call.plan

\* prepareFreeActivation, then preparePaidActivation; neither applies: a fresh projection or a plain return.
Prepare(c) ==
  LET call == calls[c]  plan == call.plan
      replay == plan = Free /\ row.plan = Free /\ row.observed = Free /\ row.status = "ACTIVE"
  IN /\ call.at = "prepare"
     /\ \E verdict \in Verdicts(plan) :
          LET ready == verdict \in {"ready", "meterless"} IN
          \/ /\ ready /\ Initial(row)
             /\ Writes(c, [call EXCEPT !.at = "read", !.token = TRUE],
                       [row EXCEPT !.pend = [handle |-> plan, mapped |-> TRUE, at |-> c], !.next = c])
             /\ operations' = (IF plan \in Paid THEN Ensured(operations, InitialPaidIntent(plan)) ELSE operations)
          \/ /\ ready /\ replay /\ Goes(c, [call EXCEPT !.at = "read"]) /\ UNCHANGED <<row, operations>>
          \/ /\ ~ready \/ ~(Initial(row) \/ replay)
             /\ Goes(c, [call EXCEPT !.at = IF freshInitialProjection(call) THEN "read" ELSE "return",
                                     !.plan = IF freshInitialProjection(call) THEN None ELSE @])
             /\ UNCHANGED <<row, operations>>
     /\ UNCHANGED <<provider, past, periods, onboarded>>

\* onboarding/resume: a sync without a token, for a shop with something to resume.
Resume(c) ==
  /\ calls[c].at = "idle" /\ ~onboarded
  /\ row.ref # NoRef \/ row.observed # None \/ row.pend.handle # None
  /\ Goes(c, [Idle EXCEPT !.at = "read"])
  /\ UNCHANGED <<provider, past, row, periods, operations, onboarded>>

-----------------------------------------------------------------------------
(* syncSubscription. *)

Read(c) ==
  /\ calls[c].at = "read"
  /\ Goes(c, [calls[c] EXCEPT !.at = "project", !.snap = provider, !.ver = past.moves])
  /\ UNCHANGED <<provider, past, row, periods, operations, onboarded>>

\* The provider does not answer: the callback still schedules a retry of its own token.
ReadFails(c) ==
  /\ calls[c].at = "read"
  /\ Goes(c, IF calls[c].plan = None THEN Done(c) ELSE [calls[c] EXCEPT !.at = "schedule"])
  /\ UNCHANGED <<provider, past, row, periods, operations, onboarded>>

After(call, got) == [call EXCEPT !.at = IF @ = "notify" THEN @ ELSE IF call.plan = None THEN "done" ELSE "check", !.got = got]

\* The token was replaced: nothing is projected.
Superseded(c) ==
  /\ calls[c].at = "project" /\ calls[c].token /\ ~Holds(c)
  /\ Goes(c, After(calls[c], "none"))
  /\ UNCHANGED <<provider, past, row, periods, operations, onboarded>>

Mine(c) == calls[c].at = "project" /\ (calls[c].token => Holds(c))

ProjectNone(c) ==
  LET told == IF row.status = "ACTIVE" THEN row.ref ELSE NoRef
      call == IF told = NoRef THEN calls[c] ELSE [calls[c] EXCEPT !.at = "notify", !.told = told]
  IN /\ Mine(c) /\ calls[c].snap = NoSub
     /\ Writes(c, After(call, "none"), NoContract(calls[c].ver))
     /\ operations' = ReconciledNone(operations)
     /\ UNCHANGED <<provider, past, periods, onboarded>>

FirstPaid(c) == /\ calls[c].token /\ row.plan = None /\ row.observed = None
                /\ calls[c].plan \in Paid /\ calls[c].snap.handle = calls[c].plan

\* finalizeInitialPaidActivation
FinalizePaid(c) ==
  LET s == calls[c].snap
      old == IF s.cycle = 0 THEN NoPeriod ELSE periods[s.cycle]
      mine == [handle |-> s.handle, mapped |-> TRUE, granted |-> TRUE, counter |-> TRUE]
  IN /\ Mine(c) /\ FirstPaid(c)
     /\ \/ /\ s.cycle # 0 /\ (old = NoPeriod \/ [old EXCEPT !.counter = TRUE] = mine)
           /\ periods' = [periods EXCEPT ![s.cycle] = mine]
           /\ Writes(c, After(calls[c], "active"),
                [status |-> "ACTIVE", plan |-> s.handle, observed |-> s.handle, ref |-> s.ref, period |-> s.cycle,
                 cycle |-> s.cycle, pend |-> NoPend, next |-> "drain", seen |-> calls[c].ver])
           /\ operations' = ReconciledActive(operations, s.handle, s.ref, s.cancel)
        \/ \* the shop, the plan, its meter, the trial, the cycle or the period is not as it must be
           /\ Writes(c, After(calls[c], "error"),
                [row EXCEPT !.status = "SYNC_ERROR", !.plan = None, !.period = 0, !.cycle = 0, !.next = None])
           /\ UNCHANGED <<periods, operations>>
     /\ UNCHANGED <<provider, past, onboarded>>

Project(c) ==
  /\ Mine(c) /\ calls[c].snap # NoSub
  /\ \E verdict \in Verdicts(calls[c].snap.handle) :
       LET p == Projection(row, calls[c].snap, calls[c].ver, verdict)
       IN /\ ~(FirstPaid(c) /\ verdict \in {"ready", "meterless"})
          /\ periods' = p.periods /\ operations' = p.operations
          /\ Writes(c, After(calls[c], IF p.row.status = "ACTIVE" THEN "none" ELSE "error"), p.row)
  /\ UNCHANGED <<provider, past, onboarded>>

\* notifySubscriptionEnded, after the commit: a step that changes no row, and is lost with its request.
Notify(c) ==
  /\ calls[c].at = "notify"
  /\ Goes(c, After([calls[c] EXCEPT !.at = "project", !.told = NoRef], "none"))
  /\ UNCHANGED <<provider, past, row, periods, operations, onboarded>>

-----------------------------------------------------------------------------
(* The end of the callback. *)

\* isVerifiedBillingCallback, on the row of now
VerifiedFree(plan) == /\ row.status = "ACTIVE" /\ row.observed = plan /\ row.plan = plan
                      /\ row.pend.handle # None => row.pend.handle = plan /\ row.pend.mapped /\ row.pend.at # None

Check(c) ==
  LET call == calls[c] IN
  /\ call.at = "check"
  /\ \/ /\ call.plan \in Paid
        \* isVerifiedPaidActivation and lastSyncErrorCode look at the row the sync returned
        /\ Goes(c, IF call.token /\ call.got = "none" THEN [call EXCEPT !.at = "schedule"] ELSE Done(c))
     \/ /\ call.plan = Free
        /\ Goes(c, IF VerifiedFree(call.plan) THEN [call EXCEPT !.at = "complete"]
                   ELSE IF call.token THEN [call EXCEPT !.at = "schedule"] ELSE Done(c))
  /\ UNCHANGED <<provider, past, row, periods, operations, onboarded>>

\* completeFreeActivation
Complete(c) ==
  /\ calls[c].at = "complete"
  /\ IF VerifiedFree(calls[c].plan)
     THEN Writes(c, Done(c), [row EXCEPT !.pend = NoPend, !.next = IF ~TopUp THEN None ELSE IF row.cycle # 0 THEN "drain" ELSE "retry"])
     ELSE Goes(c, Done(c)) /\ UNCHANGED row
  /\ UNCHANGED <<provider, past, periods, operations, onboarded>>

\* scheduleInitialFreeReconciliationIfCurrent
Schedule(c) ==
  /\ calls[c].at = "schedule"
  /\ IF calls[c].token /\ Holds(c) THEN Writes(c, Done(c), [row EXCEPT !.next = "retry"])
     ELSE Goes(c, Done(c)) /\ UNCHANGED row
  /\ UNCHANGED <<provider, past, periods, operations, onboarded>>

\* The request dies, or something it calls throws: what it committed stays.
Crash(c) ==
  /\ calls[c].at \notin {"idle", "done"}
  /\ Goes(c, Done(c))
  /\ UNCHANGED <<provider, past, row, periods, operations, onboarded>>

\* The background worker reconciles a row that has a date, from what Shopify shows.
WorkerReconciles ==
  /\ Worker /\ row.next # None
  /\ \/ /\ provider = NoSub
        /\ row' = [NoContract(past.moves) EXCEPT !.pend = NoPend, !.next = None]
        /\ UNCHANGED <<periods, operations>>
     \/ /\ provider # NoSub
        /\ LET p == Projection([row EXCEPT !.pend = NoPend, !.next = None], provider, past.moves,
                           IF provider.handle = Odd THEN "unmapped" ELSE "ready")
           IN row' = p.row /\ periods' = p.periods /\ operations' = p.operations
  /\ calls' = [d \in Calls |-> [calls[d] EXCEPT !.fresh = FALSE]]
  /\ UNCHANGED <<provider, past, onboarded>>

Request(c) ==
  \/ \E plan \in Handles : Start(c, plan)
  \/ Verify(c) \/ VerifyFails(c) \/ HostedReturn(c) \/ Prepare(c) \/ Resume(c)
  \/ Read(c) \/ ReadFails(c) \/ Superseded(c) \/ ProjectNone(c) \/ FinalizePaid(c) \/ Project(c) \/ Notify(c)
  \/ Check(c) \/ Complete(c) \/ Schedule(c) \/ Crash(c)

Over == \A c \in Calls : calls[c].at = "done"
Ended == Over /\ past.moves = MaxMoves /\ (row.next = None \/ ~Worker) /\ UNCHANGED vars

Next == MerchantMoves \/ (\E c \in Calls : Request(c)) \/ WorkerReconciles \/ Ended

Spec == Init /\ [][Next]_vars

-----------------------------------------------------------------------------
(* Properties. *)

\* The record of a merchant's return never puts a state of the subscription back that is
\* older than the one already recorded, however long the request was under way.
ReturnsMoveForward ==
  [][\A c \in Calls : calls[c].at = "return" /\ calls'[c].at = "done" => row'.seen >= row.seen]_vars

\* The row is never active on the credits of another plan: the billing period it points at was
\* opened for its plan, with included credits exactly if that plan is paid.
PeriodOfPlan ==
  row.status = "ACTIVE" /\ row.period # 0 =>
    LET p == periods[row.period] IN p.mapped /\ p.handle = row.plan /\ p.counter = (row.plan \in Paid)

\* A first choice of a plan that was recorded, and not taken up yet, has a date to be taken up at.
IntentIsScheduled == row.status = "NO_CONTRACT" /\ row.pend.handle # None => row.next # None

\* An operation counts as confirmed only if Shopify has had the shop on its plan.
ConfirmedWasHeld ==
  \A op \in operations : op.state = "CONFIRMED" /\ op.kind # "CANCEL" => op.plan \in past.held

\* Whatever is observed later, a confirmed operation stays so, and keeps its reference.
ConfirmationIsFinal ==
  [][\A op \in operations : \E new \in operations' :
       /\ new.kind = op.kind /\ new.key = op.key
       /\ op.ref # NoRef => new.ref = op.ref
       /\ op.state = "CONFIRMED" => new.state = "CONFIRMED"]_vars

\* What holds of the subscription's rows between any two steps of the requests and the worker:
\* the credits are the plan's, a choice is scheduled, a confirmation was true at Shopify.
SubscriptionInv ==
  /\ TypeOK
  /\ PeriodOfPlan
  /\ IntentIsScheduled
  /\ ConfirmedWasHeld

=============================================================================
