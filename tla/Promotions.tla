----------------------------- MODULE Promotions -----------------------------
(***************************************************************************)
(* The promotions page (routes/app/promotions) and the service behind it   *)
(* (services/promotions/promotion.service.ts).  A merchant selects one of  *)
(* the running campaigns in one of several tabs; the selection is locked   *)
(* until its campaign expires.  Selections are serializable transactions   *)
(* that are tried up to three times with the time of the request; the      *)
(* credits of the selected grant are reserved and spent meanwhile, the     *)
(* campaigns are closed and reopened, and the merchant's plan moves.       *)
(*                                                                         *)
(* Every campaign has its translation; a page shows all offers at once.    *)
(***************************************************************************)
EXTENDS Naturals

CONSTANTS
  Tabs, Campaigns, Plans, None,
  Target,        \* the plan of a PLAN campaign; None: GLOBAL, or SHOP and this shop
  StartsAt,
  MaxClock,      \* bound: the last instant
  MaxQuantity,   \* bound: the credits of a campaign
  MaxReopenings  \* bound: reopenings of campaigns

ASSUME NoneIsNothing == None \notin Campaigns \cup Plans
ASSUME TargetIsAPlan == Target \in [Campaigns -> Plans \cup {None}]
ASSUME StartsSomeTime == StartsAt \in [Campaigns -> 1..MaxClock]
ASSUME BoundsAssumption == MaxClock \in Nat \ {0} /\ MaxQuantity \in Nat \ {0}

VARIABLES
  clock,
  context,     \* the shop's plan, and the state of shop and subscription
  campaigns,   \* PromotionCampaign
  grants,      \* PromotionalCreditGrant of the shop by campaign; quantity 0: no row
  selection,   \* MerchantPromotionSelection: the campaign of the selected grant
  reopenings,
  tabs         \* the page and the request of each tab

vars == <<clock, context, campaigns, grants, selection, reopenings, tabs>>
rows == <<grants, selection>>

-----------------------------------------------------------------------------
NoGrant == [quantity |-> 0, reserved |-> 0, committed |-> 0, first |-> 0, last |-> 0,
            used |-> FALSE]

\* fresh: nothing moved since the page was read; overtaken: the rows the transaction
\* writes were written since it began.
Closed == [at |-> "closed", now |-> 0, plan |-> None, locked |-> FALSE,
           offers |-> {}, campaign |-> None, attempt |-> 0, quantity |-> 0,
           fresh |-> FALSE, overtaken |-> FALSE, answer |-> "none"]

\* "live": the shop is active and its subscription ACTIVE or TRIALING on an active plan;
\* "retired": the plan is inactive; "ended": the shop or the subscription is not.
Contexts == [state : {"live", "retired", "ended"}, plan : Plans]

At(t, step) == tabs[t].at = step
Becomes(t, next) == tabs' = [tabs EXCEPT ![t] = next]
Answered(t, answer) ==
  [Closed EXCEPT !.at = "answered", !.answer = answer, !.fresh = tabs[t].fresh]
Answer(t, answer) == Becomes(t, Answered(t, answer))

\* What the world writes makes every page stale.
Stale == [t \in Tabs |-> [tabs[t] EXCEPT !.fresh = FALSE]]

Init ==
  /\ clock = 1
  /\ context \in [state : {"live"}, plan : Plans]
  /\ campaigns \in [Campaigns -> [open : {TRUE}, expires : 2..MaxClock,
                                  quantity : {MaxQuantity}, reopened : {0}]]
  /\ grants = [c \in Campaigns |-> NoGrant]
  /\ selection = None
  /\ reopenings = 0
  /\ tabs = [t \in Tabs |-> Closed]

-----------------------------------------------------------------------------
Remaining(grant) == grant.quantity - grant.reserved - grant.committed

\* The worker sets exhaustedAt with the last credit.
Exhausted(grant) == grant.quantity > 0 /\ grant.committed = grant.quantity

IsUsableGrant(grant) == ~Exhausted(grant) /\ Remaining(grant) > 0

IsTargetEligible(c, plan) == Target[c] = None \/ Target[c] = plan

IsExecutableSubscription == context.state = "live"

\* assertActiveShop and the surface PROMOTIONS, in the loader and in the action
Admitted == context.state # "ended"

\* The where clause of the offers.
Runs(c, now) == campaigns[c].open /\ StartsAt[c] <= now /\ campaigns[c].expires > now

Offered(plan, now) == {c \in Campaigns : Runs(c, now) /\ IsTargetEligible(c, plan)}

Locked(now) == selection # None /\ campaigns[selection].expires > now

\* getCurrentPromotionSelectionState
Spendable(now) ==
  /\ Locked(now) /\ Runs(selection, now)
  /\ IsTargetEligible(selection, context.plan)
  /\ IsUsableGrant(grants[selection])

\* getPromotionHistory lists every grant of the shop, ordered by lastSelectedAt.
History == {c \in Campaigns : grants[c].quantity > 0}

\* promotionHistoryStatus
HistoryStatus(c, now) ==
  CASE Exhausted(grants[c]) -> "EXHAUSTED"
    [] ~Exhausted(grants[c]) /\ ~campaigns[c].open -> "CLOSED"
    [] ~Exhausted(grants[c]) /\ campaigns[c].open /\ campaigns[c].expires <= now -> "EXPIRED"
    [] OTHER ->
       IF ~IsTargetEligible(c, context.plan) THEN "NO_LONGER_ELIGIBLE"
       ELSE IF campaigns[c].reopened > grants[c].first /\ Remaining(grants[c]) > 0 THEN "REOPENED"
       ELSE IF grants[c].used THEN "USED" ELSE "SELECTED"

-----------------------------------------------------------------------------
(* The loader, and getMerchantPromotionPage: the selection and the history *)
(* are read before the offers, outside of a transaction.                   *)
Load(t) ==
  /\ tabs[t].at \in {"closed", "shown", "answered"}
  /\ Becomes(t, IF Admitted
                THEN [Closed EXCEPT !.at = "loading", !.now = clock, !.plan = context.plan,
                        !.fresh = TRUE, !.locked = Locked(clock), !.campaign = selection]
                ELSE Closed)
  /\ UNCHANGED <<clock, context, campaigns, rows, reopenings>>

\* The offers whose button is enabled.
LoadOffers(t) ==
  /\ At(t, "loading")
  /\ Becomes(t, [Closed EXCEPT !.at = "shown", !.fresh = tabs[t].fresh, !.offers =
       IF tabs[t].locked THEN {}
       ELSE Offered(tabs[t].plan, tabs[t].now) \ {tabs[t].campaign, selection}])
  /\ UNCHANGED <<clock, context, campaigns, rows, reopenings>>

\* guardPromotionSubmit, one submission of a tab until the page is read again, and the action.
Submit(t, c) ==
  /\ At(t, "shown") /\ c \in tabs[t].offers
  /\ IF Admitted THEN Becomes(t, [tabs[t] EXCEPT !.at = "begin", !.campaign = c, !.offers = {},
                                    !.now = clock, !.attempt = 1])
     ELSE Answer(t, "denied")
  /\ UNCHANGED <<clock, context, campaigns, rows, reopenings>>

(* Slip: a selection is locked only while its campaign is open. *)
RefusalWhileOpen(c, now) ==
  IF ~IsExecutableSubscription THEN "UNAVAILABLE"
  ELSE IF c \notin Offered(context.plan, now) THEN "NOT_ELIGIBLE"
  ELSE IF Locked(now) /\ campaigns[selection].open THEN "ALREADY_SELECTED" ELSE "none"

\* The checks of the transaction, all on its snapshot.
Refusal(c, now) ==
  IF ~IsExecutableSubscription THEN "UNAVAILABLE"
  ELSE IF c \notin Offered(context.plan, now) THEN "NOT_ELIGIBLE"
  ELSE IF Locked(now) THEN "ALREADY_SELECTED" ELSE "none"

Begin(t) ==
  /\ At(t, "begin")
  /\ LET refusal == Refusal(tabs[t].campaign, tabs[t].now)
     IN IF refusal # "none" THEN Answer(t, refusal)
        ELSE Becomes(t, [tabs[t] EXCEPT !.at = "commit", !.overtaken = FALSE,
                           !.quantity = campaigns[tabs[t].campaign].quantity])
  /\ UNCHANGED <<clock, context, campaigns, rows, reopenings>>

(* Slip: the grant of an earlier selection is given the campaign's quantity anew. *)
SelectedAnew(grant, quantity, now) ==
  [grant EXCEPT !.quantity = quantity, !.committed = 0,
                !.first = IF @ = 0 THEN now ELSE @, !.last = now]

\* The upsert and the update of the grant.
Selected(grant, quantity, now) ==
  [grant EXCEPT !.quantity = IF @ = 0 THEN quantity ELSE @,
                !.first = IF @ = 0 THEN now ELSE @, !.last = now]

\* The transactions of the other tabs write the selection row too.
Overtaken(t, next) ==
  [u \in Tabs |-> IF u = t THEN next ELSE [tabs[u] EXCEPT !.overtaken = At(u, "commit"), !.fresh = FALSE]]

(* Slip: the isolation level is the default one. *)
MayCommitAnyway(t) == At(t, "commit")

\* Serializable: a transaction whose rows were written since its snapshot cannot commit.
MayCommit(t) == At(t, "commit") /\ ~tabs[t].overtaken

Commit(t) ==
  /\ MayCommit(t)
  /\ LET c == tabs[t].campaign
     IN /\ grants' = [grants EXCEPT ![c] = Selected(@, tabs[t].quantity, tabs[t].now)]
        /\ selection' = c
  /\ tabs' = Overtaken(t, Answered(t, "ok"))
  /\ UNCHANGED <<clock, context, campaigns, reopenings>>

Retries(t) == tabs[t].attempt < 3

(* P2034: the transaction is rolled back and tried again from its reads.  The *)
(* database may report a conflict that nothing in this model explains.        *)
Conflict(t) ==
  /\ At(t, "commit")
  /\ IF Retries(t)
     THEN Becomes(t, [tabs[t] EXCEPT !.at = "begin", !.quantity = 0, !.overtaken = FALSE,
                       !.attempt = IF @ < 3 THEN @ + 1 ELSE @])
     ELSE Answer(t, "UNAVAILABLE")
  /\ UNCHANGED <<clock, context, campaigns, rows, reopenings>>

-----------------------------------------------------------------------------
(* External: time, the merchant's plan, the campaigns' editor, the worker. *)
Tick ==
  /\ clock < MaxClock /\ clock' = clock + 1
  /\ tabs' = Stale
  /\ UNCHANGED <<context, campaigns, rows, reopenings>>

ContextMoves ==
  /\ context' \in Contexts
  /\ context' # context
  /\ tabs' = Stale
  /\ UNCHANGED <<clock, campaigns, rows, reopenings>>

Close(c) ==
  /\ campaigns[c].open
  /\ campaigns' = [campaigns EXCEPT ![c].open = FALSE]
  /\ tabs' = Stale
  /\ UNCHANGED <<clock, context, rows, reopenings>>

\* The event REOPENED, with an expiry to come.
Reopen(c, expires, quantity) ==
  /\ ~campaigns[c].open /\ reopenings < MaxReopenings
  /\ expires > clock /\ expires >= campaigns[c].expires
  /\ campaigns' = [campaigns EXCEPT ![c] = [@ EXCEPT !.open = TRUE, !.expires = expires,
                                              !.quantity = quantity, !.reopened = clock]]
  /\ reopenings' = reopenings + 1
  /\ tabs' = Stale
  /\ UNCHANGED <<clock, context, rows>>

\* A write of the grant that a transaction has read and is about to write.
Spends(next) ==
  /\ grants' = [grants EXCEPT ![selection] = next]
  /\ tabs' = [t \in Tabs |-> [tabs[t] EXCEPT !.fresh = FALSE,
                                !.overtaken = @ \/ (At(t, "commit") /\ tabs[t].campaign = selection)]]
  /\ UNCHANGED <<clock, context, campaigns, selection, reopenings>>

Reserve ==
  /\ Spendable(clock)
  /\ Spends([grants[selection] EXCEPT !.reserved = @ + 1])

Settle ==
  /\ selection # None /\ grants[selection].reserved > 0
  /\ \/ Spends([grants[selection] EXCEPT !.reserved = @ - 1])
     \/ Spends([grants[selection] EXCEPT !.reserved = @ - 1, !.committed = @ + 1, !.used = TRUE])

Request(t) == Begin(t) \/ Commit(t) \/ Conflict(t)

Next ==
  \/ \E t \in Tabs : Load(t) \/ LoadOffers(t) \/ Request(t) \/ \E c \in Campaigns : Submit(t, c)
  \/ Tick \/ ContextMoves \/ Reserve \/ Settle
  \/ \E c \in Campaigns : Close(c) \/ \E e \in 1..MaxClock + 1, q \in 1..MaxQuantity : Reopen(c, e, q)

Spec == Init /\ [][Next]_vars

-----------------------------------------------------------------------------
(* Types and the accounts of the rows: no grant is reserved or spent beyond   *)
(* its quantity, and the selection points at a grant that was selected.       *)
TypeOK ==
  /\ clock \in 1..MaxClock
  /\ \A c \in Campaigns :
       /\ grants[c].reserved + grants[c].committed <= grants[c].quantity
       /\ (grants[c].quantity > 0) = (grants[c].first > 0)
       /\ grants[c].first <= grants[c].last
  /\ selection = None \/ (selection \in Campaigns /\ grants[selection].quantity > 0)
  /\ \A t \in Tabs : tabs[t].at \in {"closed", "loading", "shown", "begin", "commit", "answered"}

(* A selection is not replaced while its campaign runs, whoever asks and      *)
(* however often a request is retried: the replaced campaign has expired, or  *)
(* it was reopened after the request that replaces it had begun.              *)
LockHolds ==
  [][selection' # selection /\ selection # None =>
       \/ campaigns[selection].expires <= clock
       \/ \E t \in Tabs : At(t, "commit") /\ tabs'[t].answer = "ok"
                          /\ campaigns[selection].reopened >= tabs[t].now]_vars

(* The selected grant is the one that was selected last: a request that is    *)
(* retried with its old time never replaces a later selection, and the        *)
(* history, which lists the grants by lastSelectedAt, begins with it.         *)
SelectedIsLatest ==
  selection # None => /\ selection \in History
                      /\ \A c \in History \ {selection} : grants[c].last < grants[selection].last

(* Selecting a campaign again, also one that was reopened with more credits,  *)
(* renews nothing: a grant keeps its quantity and what was spent of it.       *)
CreditsKept ==
  [][\A c \in Campaigns : grants[c].quantity > 0 =>
       /\ grants'[c].quantity = grants[c].quantity
       /\ grants'[c].committed >= grants[c].committed
       /\ grants'[c].first = grants[c].first]_vars

(* What the page offers is accepted, unless something moved since the page    *)
(* was read: the offers' query and the transaction's checks agree.  Only the  *)
(* plan's own activity is not looked at by the page.                          *)
OfferAccepted ==
  \A t \in Tabs : At(t, "answered") /\ tabs[t].fresh => tabs[t].answer \in {"ok", "UNAVAILABLE"}

(* The selection and the history of a page do not contradict each other:      *)
(* credits that can be spent are not closed, expired or used up.              *)
SpendableIsCurrent ==
  Spendable(clock) => HistoryStatus(selection, clock) \in {"SELECTED", "USED", "REOPENED"}

(* What holds of the grants and of what the pages show of them, whichever     *)
(* tabs select and retry while campaigns begin, end and are reopened.         *)
PromotionInv ==
  /\ TypeOK
  /\ SelectedIsLatest
  /\ OfferAccepted
  /\ SpendableIsCurrent

=============================================================================
