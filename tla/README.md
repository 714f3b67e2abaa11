# Verification of the Moda Interact Shopify app

TLA+ models of the Shopify app in this repository, their TLC configurations, and
TLAPS proofs. Paths below are relative to `src/`; where nothing else is said they
are under `app/services/`. `PROJECT.json` lists the parts of the system with their
files, every definition with the lines it models, every hazard with the line where
it bites, and every run, mutant and theorem.

## 1. The system

The app is a React Router server. Merchants reach it through the Shopify admin,
Shopify through webhooks and the billing callback. Its state is in PostgreSQL
(through Prisma), and other programs work on the same rows: BullMQ workers that
send recoveries, reserve and spend credits, settle refunds and reactivate shops.
The workers, the migrations (`database/`, an empty submodule here) and the
package `@modainteract/moda-interact-shared` (lock and session gate, billing
contracts) are not in this repository. Where the models need them they are
*external*: translated from what the code in `src/` expects of them.

| Part | State | Meets | What is hard | Correct when | Modules |
|---|---|---|---|---|---|
| Credit refunds: `billing/recovery-credit-purchase-management` | purchases, refunds, the shop's counter | credit and refund workers write the same rows | reads before a transaction, compare-and-set, bounded retries, unique conflicts | no credit is both spendable and held; one live refund while withdrawn; answers are true | RecoveryCreditRefund, CreditHold |
| Offline session: `shopify-offline-coordination`, `shopify-session-storage` | `Session` rows, the binding of one transaction | the SDK, Shopify, uninstall and redaction through one lock per shop | lost answers, aborts, stale SDK objects, a hint read without the lock | one offline row; credentials only move forward; events tell the outcome | OfflineSession |
| Installation: `shop/shop.service`, uninstall and redact webhooks, reinstalling page | `Shop`, `Subscription.nextReconcileAt` | session coordination, reactivation worker | late and repeated deliveries, stale reads, lost jobs | only the reconciliation reactivates; no reinstallation is forgotten | ShopLifecycle |
| Discount catalogue: `discounts/shopify-discount-lifecycle` | the catalogue's sync status | installation, scopes webhook, activation | a sync asked for after a commit | no uninstalled shop waits for a sync | ShopLifecycle |
| Access: `shop/*-access-policy`, `merchant-request-context` | none | session coordination, all pages | two layers decide, each from its own reading | redirects settle; what is linked opens | MerchantAccess |
| Billing operations: `billing/shopify-billing-operation` | `BillingOperation` | Shopify's observed subscription | confirmations matched to intents | only what the shop has had is confirmed, and that is final | BillingOperations |
| Subscription: `billing/subscription-sync`, `subscription-activation`, `hosted-plan-change`, period projection, billing callback, onboarding resume | `Subscription`, `BillingPeriod`, activation token, fence | Shopify, worker | snapshots applied late, requests that die | credits are the plan's; returns move forward | SubscriptionLifecycle |
| Credit purchases: `billing/recovery-credit-purchase-request`, pricing | requested purchases | Shopify (asked twice), catalogue, purchase worker, the clock | two snapshots, unique race, replay, tier arithmetic | one unresolved purchase; bought in its cycle at the price of its unit | PurchaseRequest, UsagePricing, UsageMeter |
| Promotions: `promotions` | selection, grants | credit workers, campaign editors | retries with an old time, expiry, reopening | the selection is locked; credits are kept | Promotions |
| Recovery control: `recoveries/recovery-human-commands`, the panel | control events, send commands, outreach attempts | AI worker, scheduler | snapshots older than locks, keys, lost answers | one chain of control; a draft is sent once | RecoveryControl |
| Settings: `recovery-policy`, `feature-preferences`, `ai-response-delay` and their forms | `ShopSettings`, preferences | uninstall, refreshes without the lock | times as revisions, clocks that differ, retries | no save is lost or applied twice | RecoverySettings |
| Store category: `store-profile` | profile, prompt revisions | callback, onboarding, editors | generations, drafts, lost replies | the prompt is of the active category | StoreCategory |
| Merchant knowledge: `merchant-knowledge` | sources, positions, revisions, uploads | object storage, plan changes | steps outside the lock, row by row rewriting | dense order; a revision per change; an upload is used once | MerchantKnowledge |
| Webhook ingress: `webhooks` | queue jobs | Shopify's retries, Redis | a deadline that does not cancel the add | accepted means queued, once; every request is answered | WebhookIngress, ConsentIdentity |

Not modelled, each with its reason in `PROJECT.json`: billing reads and
presentation, recovery readers (queries without state), the provider client (I/O),
merchant support (each operation is one transaction on rows of its own), platform
configuration (cryptography), health and telemetry, the user interface apart from
the forms and panels named above, server composition, and the scripts, which are
tools for developers. The package's locks and the workers appear only as far as
the code in `src/` relies on them.

## 2. What is modelled

Two conventions hold in every module. A transaction that takes its locks first is
one action; what a request does between transactions is not, so everything else may
happen there, and what it has read is kept in its own state. A serializable
transaction that reads before it locks is two actions, a snapshot and a commit
that fails if what it writes has changed.

### 2.1 RecoveryCreditRefund

A pack of credits (`RecoveryCreditPurchase`) has a current and a reserved amount.
Requesting a refund withdraws it and adds its free credits to the shop's
`refundingQuantity`; reactivating undoes that. Both are loops of at most
`MAX_RETRIES` attempts around a serializable transaction.

| Model | Code (`recovery-credit-purchase-management.service.ts`) |
|---|---|
| `purchase`, `refund`, `aggregate` | the three tables; a refund row is named by the call that wrote it |
| `pc`, `attempt`, `observed`, `snapshot`, `outcome` | the local state of one call of `requestRefundWithRetry` or `reactivateRefund` |
| `Preflight`, `ObserveProvider`, `BeginRefund` | 653-707: read, ask the provider, read again in the transaction |
| `CommitRefund` | 708-782: refund row, withdrawal and hold, all or nothing |
| `RefundUniqueConflict`, `ReadRefundReceipt`, `ReadRefundReplay` | 788-851 |
| `BeginReactivation`, `CommitEmptyReactivation`, `CommitReactivation` | 478-640 |
| `RetryAfterConflict`, `GiveUpAfterConflict`, `Throw` | 641-646, 783-854 |
| `ActivatePurchase` ... `CompleteRefund` | external workers |

Serializable isolation and the compare-and-set on version and amounts make a commit
succeed only if what it writes is unchanged, which is what `PurchaseCas`,
`RefundCas` and `AggregateCas` say; otherwise the attempt conflicts. A conflict may
also strike for no visible reason, as the database may abort at will. Whether the
provider's answer matches the purchase is free. The three codes for missing
evidence, unknown amount and zero amount are one (`NOT_REFUNDABLE`).

`CreditHold` is the abstract promise: credits are spendable or held, change side
all together, and the shop's total moves in the same step. `HoldLedger` states
that the rows implement it under the mapping spendable = free credits of active
packs, held = free credits of withdrawn packs, total = `refundingQuantity`.

`EmptyWithdrawn` says whether a withdrawn pack may be left without credits. The
code handles it (`COMPLETED_NO_CREDITS`); the constraint
`RecoveryCreditPurchase_lifecycle_amounts` exercised by
`tests/integration/recovery-credit-refunds.postgres.integration.test.ts` forbids
it. The run allows it, so that the branch is checked. A pack is withdrawn with at
least one free credit held, so it can only get there by losing held credits. The
branch leaves the counter alone, so whatever emptied the pack must have released the
hold: that is `WriteOffCredit`, an external worker.

### 2.2 OfflineSession

Every authentication hints at the shop without a lock, waits for the shop's
exclusive lock, runs the Shopify SDK in the locked transaction, and commits or
rolls back by what the SDK came to.

| Model | Code |
|---|---|
| `Hint` | `withShopHint`, `shopify-offline-coordination.server.ts` 427-469 |
| `Acquire` | the package's `withSessionLock` / `withSdkInstallationSessionLock`, then `runWithShopifySessionBinding` (`shopify-session-storage.server.ts` 103-153) |
| `SendTokenRequest` ... `TokenReceived` | `createBoundedFetch` 253-350, one action per way a token request can end |
| `StoreSession` (`MayStore`, `Store`), `DeleteSession` | 211-306 of the session storage |
| `AuthenticateEnds` | the SDK returns a value, a redirect, another response, or fails (377-389) |
| `Commit`, `CommitFails`, `RollBack`, `Abort` | `invokeInLock` 390-424 and the abort race 136-174 |
| `FailedEvents`, `CommittedEvents` | the terminal refresh events 407-421 |
| `Uninstall`, `Redact` | `ShopService.markUninstalled`, the `shop/redact` action, under `withLifecycleLock` |

A credential pair is a number, in the order Shopify issues them, and stands for
its fingerprint; issuing a pair retires the one before. `ShopifyIssues` is apart
from the answer, so an answer can be lost after the fact. The SDK is arbitrary:
it may request, store (any pair the app was ever given, also one held since an
earlier lock), delete and end as it likes. Simplifications, all of which only
remove behaviour irrelevant to the properties: one shop; offline sessions only;
one lock whose context names the row found under it, so the identity check
147-151 cannot fail; `CANCELLED` and `DEADLINE` are one code; a step the SDK takes
after an abort is refused by the closed binding and is no step of the model;
requests without a shop hint authenticate without coordination and cannot touch
offline sessions. `SetShopStatus` is external: creation, reactivation and
suspension of the shop.

### 2.3 ShopLifecycle

One shop domain from installation to redaction, with its row, its subscription's
schedule, its session, its settings, the discount catalogue and the reconciliation
jobs.

| Model | Code |
|---|---|
| `Enter`, `ReadRows`, `Drop` | the hint of the coordination; `resolveMerchantSnapshot` and `bootstrap`, `shop/shop.service.ts` 152-350: what a request reads and whether it goes on |
| `Provision` | 353-420: the upserts, by what was read before |
| `Begin` (`MayAdmit`, `Schedule`), `Retry`, `Enqueue` | `beginReinstallReconciliation` 447-558, `retryReinstallReconciliation` 560-631, and the job that follows on a best-effort basis |
| `UninstallDelivered` (`markUninstalled`), `Redact`, `ScopesUpdate` | the three webhook routes |
| `ActivatedSync`, `isDiscountSyncEligible` | `discounts/shopify-discount-lifecycle.service.ts` 21-37, 102-181 |
| `Reconcile`, `MerchantUninstalls`, `SubscriptionMoves`, `Suspension`, `CredentialsAge` | external |

`left` stands for `uninstalledAt`, `pending` for `reinstallPendingAt`. Schedules are
stamps of a bounded clock.

### 2.4 RecoveryControl

One recovery's conversation. A tab (`tab`) takes it over, hands it back and sends a
typed text or the one follow-up, a template; a call (`call`) is a POST that begins its
transaction (snapshot) and commits it later. The tab has a text (`body`) and a chosen
template (`variant`) with one key between them. The key is drawn when either is
submitted, kept for retries, and forgotten when either changes or a command is
accepted; `choices` counts how often the choice of a template has.

| Model | Code |
|---|---|
| `Begin`, `Snapshot`, `Locked`, `Allowed` | `recoveries/recovery-human-commands.server.ts` 40-133: context, row lock |
| `changeRecoveryControl` (`MayChange`) | 86-133 |
| `admitRecoveryHumanSend` (`Replay`, `MaySend`, `SecondIsFree`) | 139-286 |
| `TurnAway`, `Refuse`, `Respond` | `app/routes/app/recovery-detail/command-http.server.ts` |
| `Type`, `ChooseTemplate`, `RetireTemplate`, `Composes`, `CanSend` | `human-conversation-panel.tsx` 69-76, 157-161, the composer |
| `Reply`, `DraftOf`, `ChangeMode`, `Waits` (the two gates), `AfterSend`, `Revalidate`, `SubmitCall` | the panel 77-137, the control bar |
| `GiveUp`, `InboundMessage`, `TurnEnds`, `SchedulerActs`, `WorldChanges` | external: the browser loses the answer, the workers, what the admission asks about |

The payload hash is the payload itself. Polling changes nothing and is left out.

### 2.5 SubscriptionLifecycle and BillingOperations

How the one `Subscription` row follows the subscription at Shopify. A call is a
return from Shopify's plan page (`app/routes/app/billing/callback`) or the
resumption of the onboarding; both ask Shopify once (`snap`, with `ver`, the number
of moves the answer has seen) and work on from the answer.

| Model | Code (`billing/`) |
|---|---|
| `Start`, `Verify`, `Check`, `Goes`, `After`, `Done`, `VerifiedFree` | the callback's loader |
| `Request`, `Resume` | `billing.service.ts` 120-252, the resume route |
| `Returned`, `Stale`, `HostedReturn`, `VerifyFails` | `hosted-plan-change.service.ts`: the fence and the two writes behind it |
| `Prepare`, `FinalizePaid`, `Complete`, `Schedule`, `Holds` | `subscription-activation.service.ts` |
| `Read`, `Project`, `ProjectNone`, `Projection`, `Notify` | `subscription-sync.service.ts`, the notice of an ended subscription |
| `PeriodFor`, `PeriodAside` | `billing-period-projection.ts`, 325-346 of the sync |
| `Ensured`, `InitialPaidIntent`, `HostedChange`, `Settled`, `ReconciledActive`, `ReconciledNone`, `Confirmed` | `shopify-billing-operation.service.ts`, as operators on the set of rows |
| `Moved`, `NewCycle`, `MerchantMoves`, `WorkerReconciles`, `Crash` | external |

`row.seen` is a history variable: the move after which the row's last projection
was read. A trial is an active subscription; dates are kept only as what the code
compares them for; the materialization of a plan is its outcome (`Verdicts`);
request keys and fingerprints are the fields they digest.

### 2.6 PurchaseRequest, UsagePricing, UsageMeter

`PurchaseRequest` follows `billing/recovery-credit-purchase-request.service.ts` step
by step: receipt, context, first observation (`Observe`), catalogue, second
observation (`Revalidate`), catalogue again (`Reread`), transaction (`Commit`), with
the panel's `Submit` and the options page's price and eligibility
(`merchant-billing-read.service.ts`). A cycle is named by its end, and `Phase` compares
the clock with the end that a snapshot has, so a request may go on in a cycle that
Shopify has left. A metered plan has a usage handle of its own (`OwnHandle`), which
must be listed and must not be the offer's (`OwnMeterApart`). `Report`, `Resolve`,
`Sync`, `Tick`, `Move`, `Freeze` and `Edit` are external; `Move` changes plan, cycle and
meters at any time, also in the middle of a cycle. Two history variables, which no step
reads, say what was true as a request looked for the second time (`look`) and how often
Shopify's side has moved (`shopify.moves`). The shop row and the currency are left out.

`UsagePricing` is the arithmetic of `shopify-billing-operation.service.ts` 121-173
and the validation of a price list; a quantity counts `Parts`-ths of a unit, because
Shopify may report fractions, and amounts beyond `MaxSafe` have no quote. `UsageMeter`
buys one event unit by unit and compares what is paid with a reference written
without the code's loop: each part is priced by the first tier that reaches it, and a
tier's flat amount is due with the first of its parts.

### 2.7 StoreCategory and MerchantAccess

`StoreCategory`: tabs select a category from the generation they know (`Prepare`,
`CheckGeneration`, `CommitSelection`); before the first activation a selection is a
draft, which the callback (`CallbackActivate`) or the resumption (`ResumeActivate`)
publishes, and later ones are published at once. A page that resumes holds the category
and the version of the template that it shows as pending. A reply may be lost (`Closed`,
`Load`, `Answered`). A category with its template and its mappings is one entry with an
edit version.

`MerchantAccess`: a browser follows redirects and links. Each request authenticates
(`Authenticate`, `withShopHint`), reads the shop (`ReadShop`), and the loaders of the
layout (`LayoutAnswer`) and of the page (`GuardedAnswer`, `PageAnswer`,
`SelectAnswer`, `ReinstallingAnswer`) each decide from `surfaceMatrix` and the
lifecycle policies; the shop moves between them. `Shown` is what is served.

### 2.8 MerchantKnowledge

Sources in a merchant-given order, of which the plan admits the first few
(`Entitled`, `CurrentlyPlanEntitled`); web pages (`CreateWebPage`, `EditWebPage`,
`RefreshWebPage`), files that take an intent, a PUT and a finalization in three
steps (`UploadIntent`, `Put`, `FinalizeRead`, `FinalizeCommit`, `Publish`), deletion
and reordering. Reordering writes its rows one by one under the shop's lock
(`StartRewrite`, `MoveRow`, `PlaceRow`), in the order the database likes. The settings
page (`MerchantKnowledgeSection.tsx`) counts for itself what the plan admits and enables
its buttons by rules of its own (`RoomShown`, `MayAdd`, `MayUpload`, `MayReplace`,
`MayRefresh`). Left out:
the worker's queue and the merchant's preference, which only decide whether it is
told at once, names and file types, the range check of the positions, and the
page's polling.

### 2.9 Promotions

`Begin` reads and refuses (`Refusal`), `Commit` writes, `Conflict` retries with the
time of the request; `Load` and `LoadOffers` are the page's two reads. `Reserve` and
`Settle` are the credit workers, `Close` and `Reopen` the editors. `Overtaken` marks
a transaction that serializable isolation will abort. Every campaign has its
translation and a page shows all offers.

### 2.10 WebhookIngress and ConsentIdentity

A delivery is received, its shop read, its payload normalized and a job added
(`Receive`, `ReadShop`, `Add`), under a deadline that does not cancel the add
(`DeadlinePasses`, `TimerFires`, `LateAdd`); a missing Redis address is one of the ways
an add fails. Shopify delivers again what was not answered with 200 in time.
`ConsentIdentity` is the scanner that reads a customer id from the raw text of a
document: members up to `MaxMembers`, numbers that the SDK's parser may round
(`Rounded`), strings (`Names`) that end where JSON says they do, numbers without
punctuation, arrays and objects of one scalar. `found` is `<<>>` for the code's null, so
an empty `customer_id` is a value that was found.

### 2.11 RecoverySettings

The three forms of the settings page, their submissions with timeouts and checks
(`Send`, `TimeOut`, `Deliver`, `Unknown`, `Reconcile`), the action (`Authorize`,
`Answer`) and the three transactions. Those of the policy and of the delay are two steps
each: under the lock of the shop's row they read the settings and refuse (`Check`), and
write later whatever the settings are by then (`Save`); a refresh of the settings alone
takes no lock and may come between the two, while an uninstallation waits. The
transaction of the features writes what nobody writes without the lock and is one step
(`SaveFeatures`). An earlier attempt may be applied after its form has given it up; what
is sent again is what was sent before. The form of the features keeps the values its
merchant has set over those a reload shows (`Kept`), and gets none while the plan is not
live. The policy's scalars are one, its mode. Time passes in steps in which a person can
react: people act in a later step than what they react to, and a process's clock is
behind by at most `MaxSkew`, which is at most one step (`SkewBelowReaction`). `rewound`
records that the settings have changed under a revision that is not a later one: an
uninstallation withdraws discounts under the same revision, a refresh comes with a clock
that is behind, or a save has written the revision of a refresh that it has not read, or
an earlier one. The catalogue's worker may drop a discount at any time, so that a policy
that chooses or drops one may be refused (`INVALID_INPUT`). The answer to a body that is
too large carries no operation, so a large form stays unknown. A lost answer and a
failed transaction are both a timeout.

## 3. Runs

| Run | Instance | Checks |
|---|---|---|
| `refund` | one pack of 2 credits, 2 refund calls, 1 reactivation, 2 request ids, 2 attempts, workers up to counter version 4 | `RefundInv`, `StartedRefundNotCancelled`, `AnswersTrue`, `HoldLedger`, `EveryCallAnswers` |
| `offline_session` | 2 authentications, 2 row ids, 1 token request each, 2 credential pairs | `OneOfflineSession`, `OnlyInstallationCreates`, `CredentialsMoveForward`, `EventsTellTheOutcome`, `EveryCallAnswers` |
| `offline_session_rejected` | 1 authentication, 2 token requests | finds `AcceptedIsNotRejected` violated, section 6 |
| `shop_lifecycle` | 2 requests, 2 stamps, 2 rows of the domain | `LifecycleInv`, `OnlyReconciliationReactivates`, `RedeliveryKeepsReinstallation` |
| `recovery_control` | 2 tabs, 2 calls, 2 revisions, drafts (texts and choices of a template) and keys | `ControlInv`, `OneCommandPerDraft`, `SendsUnderHumanControl` |
| `subscription_lifecycle` | 2 requests, a free, a paid and an unknown plan, 3 moves, 2 cycles | `SubscriptionInv`, `ReturnsMoveForward`, `ConfirmationIsFinal` |
| `purchase_request` | part `request`: 2 calls, 2 ids, 2 offers, a free and a metered plan, cycles that end at 2 and 3, a clock up to 2 with a drain window of 1, 1 move; part `meter`: every list of up to two tiers, half units, 4 units | `PurchaseInv`, `BoughtInItsCycle`, `QuoteIsCurrent`; `MeterInv` |
| `store_category` | part `category`: 2 tabs, 2 categories, 3 generations, 2 versions; part `browser`: a browser under every subscription, 2 hops | `CategoryInv`, `ConflictMeansOvertaken`, `ResumesItsSelection`; `PagesAgree` |
| `merchant_knowledge` | 3 sources, 2 uploads, 2 urls, 1 form, 2 generations, a plan of up to 3 | `KnowledgeInv`, `AssetUsedOnce`, `RefusedAsCounted`, `AddedWithinPlan` |
| `promotions` | 2 tabs, 2 campaigns (one for a plan), 3 instants, 2 credits, 1 reopening | `PromotionInv`, `LockHolds`, `CreditsKept` |
| `webhook_ingress` | part `ingress`: 2 handlers, 7 deliveries, 2 tries, 1 move of the shop, 1 crash; part `consent`: documents of up to two members | `IngressInv`, `RequestIsAnswered`; `ScanInv` |
| `recovery_settings` | 2 tabs, 3 requests, 1 discount, 2 features, 3 instants, a clock behind by 1, 1 refresh | `SettingsInv`, `NoLostUpdate`, `TakesEffectOnce` |

Why the bounds are enough to be interesting. A conflict needs two calls on one pack; a
free and a reserved credit need a pack of two; a retry that succeeds and one that gives
up need two attempts; workers before, between and after two commits need four counter
versions. Two session rows need two ids, a stale object two calls, a lost refresh and
its successor two pairs. That the events tell
the outcome of an authentication with several token requests is left to the proof
(`EventsAlwaysTell`). A shop that was redacted and came back needs two rows, a
reinstallation scheduled again two stamps. Control that changes under a draft and comes
back needs two revisions; a reply retried beside another, or a text and a template that
share a key, two drafts and keys. A drain window of one, cycles that end at two and
three and a clock up to two give a cycle each of its phases and a move into the next
one, at its end or before. A snapshot can be overtaken twice in three moves (subscribe,
change, end), and carried over a renewal in two cycles. A tier's bound is met by half a
unit, a price list of two tiers has every kind of bound. A selection that is overtaken
and then repeated needs three generations. Reordering meets every collision with three
rows. A campaign that ends and is reopened needs three instants. A redelivery is a
second try. A form that gives up and retries while another tab saves needs three
requests.

Two parts in one run share no variable; `part` names the one that moves, and each has
its own invariants. Some MC modules explore a union of narrower scenarios instead of
their product: `recovery_control` takes the conversation over more often or sends more,
not both (`Takeovers`, `Messages`); in `subscription_lifecycle` the worker comes before
the second request or after both; `purchase_request` has several requests for one offer
under a plan without a meter, or one request at a time under any plan (`Narrow`,
`Single`), and edits one offer's entry; `store_category` two tabs without edits or one
with; `merchant_knowledge` uploads beside one page or three pages; `promotions` two tabs
under a steady plan or one under a moving plan; `webhook_ingress` two deliveries of one
order or one of another kind, and empty strings only as members' values;
`recovery_settings` five stories (two tabs save the policy, two save the delay beside
refreshes, retries, features, and one tab in a moving world; a page stays open once it
has sent, or all requests are of one form). The restriction is in the MC module's
initial states and next-state relation only: the specification, and what is proved of
it, has none.

Bounds in guards: `MaxVersion`, `MaxRequests`, `MaxTokens`, `MaxStamps`, `MaxRows`,
`MaxRevision`, `MaxDrafts`, `MaxKeys`, `MaxMoves`, `MaxCycles`, `MaxTime`, `MaxUnits`,
`MaxGeneration`, `MaxHops`, `MaxAdmitted`, `MaxClock`, `MaxQuantity`, `MaxReopenings`,
`MaxTries`, `MaxCrashes`, `MaxRefreshes`, `MaxMembers` and `MaxSkew`, each named where
it is declared. `CHECK_DEADLOCK FALSE` is set where a system comes to rest: the two
refund and session models once all calls are answered, the meter at its last unit,
deliveries once Shopify gives up, and a settings page without a request left to send.

Fairness. A refund call's own next step is taken in the end (`WF_vars(Call(c))`): a
Node process that is not stopped runs its continuations, and each awaited query
settles. Nothing is assumed of workers, of failures or of the database's choice to
abort. In OfflineSession weak fairness covers the coordination's own steps, among
them `Abort`: the fifteen-second timer of `runWithShopifySessionBinding` fires.
Shopify and the SDK may hang. In WebhookIngress it covers a handler's own steps,
among them the deadline's timer; Redis may hang for ever. The other models state no
liveness and assume no fairness.

Every property has a mutant in `PROJECT.json`: a definition marked "Slip" that a
plausible bug would put in place of the code's, and under which TLC finds the
property violated.

## 4. Proofs

All theorems hold for every value of the constants that satisfies the named assumptions
of the component's module: names do not collide, bounds are natural numbers, packs and
knowledge sources are finitely many, a pack holds at least a credit, there is at least
one attempt, a plan and a catalogue entry exist, a merchant may follow two redirects,
the strings and numbers of a text are those of JSON, clocks differ by at most a person's
reaction, and the amounts and bounds of a price list are natural numbers. They are about
the whole specification, without the scenarios of the MC modules. Each proof module has
an inductive invariant, one lemma per action or group of actions that keeps it, and the
theorems.

**RecoveryCreditProofs**, refunds. `TypeCorrect`, `HoldsAlwaysConserved`,
`OneLiveRefundWhileWithdrawn` (together `RefundsHold`). None is inductive: the
counter can only be shown to stay above zero, and a reactivation to find its refund,
knowing more. `IndInv` adds that no row has more reserved than it has
(`ReservedWithinCurrent`) and that a call past its first read is about a purchase of
the shop, a reactivation about to commit has read a refund of that purchase
(`CallsOnTrack`). The set of held credits changes by one row's interval at a time
(`HeldInChange`, from two counting lemmas), which turns each commit and each worker
step into arithmetic on the counter; the compare-and-set gives that the amounts in
the snapshot are the current ones. From the same invariant follow the step
properties `RefundsRecordTheBalance`, `StartedRefundsStand` and `AnswersAlwaysTrue`,
and the refinement `RefundsImplementHold`: initial states map to initial states of
`CreditHold` and every step to one of its steps or a stutter.

**RecoveryCreditProofs**, purchases. `PurchasesHold`, `AlwaysBoughtInItsCycle`,
`QuoteAlwaysCurrent`. A request carries evidence it has read long before its
transaction, which compares it only with the row. The invariant says what the second
look is worth later (`Worth`): while the subscription has not moved, its plan and cycle
still stand, the meter has moved only forward, and only by packs that Shopify has
counted since. Every pack lies on the meter where it was charged (`OnMeter`), a whole
unit after those that were counted before its second look (`InTurn`), whatever was
bought before. What the page offers can be bought because its conditions, with
those it does not look at, are the transaction's. After a move nothing is promised but
the phase; section 6 says what follows.

**RecoveryCreditProofs**, prices. `MeterAlwaysHolds`, for lists of any length, parts of
any size and any reading. The invariant (`MeterIInv`) is short: what was paid is the
difference of what the list asks for two quantities. The work is that the code's loop
and the reference, which adds part by part, compute the same. Both are induction over
data. The library's induction theorems take an operator, which the provers cannot
instantiate; that a non-empty set of numbers has a least one (`LeastNumber`) needs
none, and gives induction over sets of numbers (`EveryNumber`) and that a function
defined by recursion exists (`StepByStep`). The loop's invariant is `Pricing`: after
`i` tiers the run has priced the parts these tiers reach, each as the reference does;
one tier keeps it (`TierPrices`), because within a tier the reference grows by the unit
price (`SumWithinTier`), and it ends `Priced`. That a valid list is quoted
(`ValidRuns`) needs also that each bound leaves room above the one before.

**OfflineSessionProofs.** `TypeCorrect`, `AlwaysOneOfflineSession`, `AlwaysForward`,
`AlwaysByInstallation`, `EventsAlwaysTell`. A commit replaces the rows by the
transaction's draft, so `IndInv` relates the two: the draft has a row only under the
binding's session id (`DraftBound`), nothing the binding holds, stored or asked for
is older than a committed row (`BindingAhead`), and a call on the session path has a
committed row to its name (`SessionPathBound`); while the lock is held nobody else
changes the rows. The events need a second invariant (`RefreshInv`): a recorded
fingerprint is that of the pair Shopify granted to that request and a granted
request is never rejected (`GrantedKnown`), and credentials reach the binding in the
order they were issued (`StoredInOrder`).

**ShopWebhookProofs**, installation. `LifecycleHolds`, `AlwaysReactivatedByReconciliation`,
`RedeliveryAlwaysKeepsReinstallation`. A request decides on a row it read earlier.
What keeps that harmless is that a row is uninstalled exactly while it has left
(`LeftRows`), which the locked transactions check again, and that a request about to
publish a job has admitted a row and a schedule that exist (`KnownRows`).

**ShopWebhookProofs**, ingress. `IngressAlwaysHolds`. A job reaches the queue from a
handler, from an add that outlived its deadline, or from a redelivery, and all of
them name it by its event's subject (`RequestsOK`, `LateAddsOK`, `JobsOK`): whatever
the order, the queue takes one. What Shopify has been told was accepted waits, failed
or was worked off (`DeliveriesOK`), and no step takes it from all three.

**ShopWebhookProofs**, consent. `ScanAlwaysHolds`, for documents of any number of
members over any strings and numbers. The invariant (`ScanIInv`) says where in the
document the scanner is (`Place`): what follows it in the raw text is the text of what
is still to come, at the depths of that place, and what it found is what the keys that
it has passed give (`Taken`). That a place leads to a place is a lemma about texts alone
(`PlaceReads`): a character is passed, a string that is no top-level key is skipped, a
member's key is read, or the document is over. A body that names one customer is then
refused only if an alias names another or is a number that the SDK has rounded
(`NamedIsAccepted`). The steps then only say what the scanner finds there (`StringAt`,
`NumberAt`, `ValueAt`): a string ends at the first quote that no backslash takes
(`CloseAtQuote`, by the induction over numbers of the prices). Concatenation goes by
names of its own (`Join`, `Then`), of which the provers see only a few laws.

**RecoveryManagementProofs**, control. `ControlIsOneChain` and
`SendsAlwaysUnderHumanControl` follow from the lock that a transaction takes on the row
its snapshot has shown. `DraftSentOnce` needs more: what ties a key to its draft is
spread over the tab that drew it, the calls that carry it and the commands it has left
behind. `SendInv` speaks of all uses of a text or a choice at once (`Used`): what was
typed is never what was chosen (`KindsApart`); while the choice of a template stands, a
text has one key (`TextHasOneKey`), which a tab that still shows the text knows
(`TabsKnowUses`); and no two tabs show one text (`TextsApart`). Of the templates one
command is admitted at most, the second attempt's (`SecondAttemptHasOneOwner`).

**RecoveryManagementProofs**, settings. `SettingsAlwaysHolds`, `NoUpdateLost`,
`AlwaysTakesEffectOnce`. A save is let through when the revision it was based on is the
present one; revisions are times, taken from clocks that differ. The invariant orders
them. Nobody holds a revision ahead of the rows, in a page, a form or a request, and who
holds the present one has its content (`Fresh`, `PageOK`, `FormOK`, `RequestOK`).
Between the read of a save and its write the revision may have moved on; what the save
has read (`HeldBy`, while its request holds the lock) is then no longer the present, but
unless it was rewound the values still are those its merchant was shown, as only
refreshes come in between. So nothing is overwritten unseen. For the features, whose
revision is the rows with their times, a row that a holder does not know is dated after
the one it has read, or at the same time, when a holder of the present rows can no
longer write (`Dated`, `Settled`). Requests of one operation carry one intent
(`OperationsOK`), and once one of them has written, the others find the revision gone or
nothing left to change (`OnceOK`, `WriterOK`). `Dated` is what needs
`SkewBelowReaction`: with a clock two steps behind, another save could put the old
values back at the old time, and a request still under way would write again.

**PromotionsProofs.** `PromotionsHold`, `SelectionAlwaysLocked`, `CreditsAlwaysKept`.
A grant was last selected before its campaign's expiry (`LastBeforeExpiry`), an
expiry never moves back, and a transaction that nothing has overtaken still sees the
selection it may replace (`Sees`); a page that nothing has overtaken shows what the
transaction would check (`Agrees`).

**MerchantPagesProofs**, the category. `CategoryHolds`, `ConflictAlwaysOvertaken`,
`AlwaysResumesItsSelection`. The lineage has one draft at most, the profile's, and it
was rendered for the pending category (`DraftOfProfile`); a fresh tab knows the
generation and the entry (`TabOK`). A generation stands for what is pending under it: as
long as a page's generation is the profile's, the category and the version that the page
shows are those of the draft (`PagesShowPending`, `ShowingHolds`). So a resumption, which
compares generations only, puts live what its page shows.

**MerchantPagesProofs**, access. `PagesAlwaysAgree`. The states of a shop and of its
subscription are finitely many whatever the constants, but what a page answers is
computed from both through two policies; lemmas say once what each part of that
computation comes to (`StateOf`, `MatrixOf`, `ShownIs`, and `ActiveRedirects` and its
likes for where each lifecycle sends a merchant). That redirects settle is a fact of
every state (`SettlesAnywhere`). That the browser stays below `MaxHops`, two or more,
is inductive only with where it has been: under an unchanged lifecycle only an active
shop is sent on, and at most to the home page, which renders (`BrowserIInv`).

**MerchantKnowledgeProofs.** `KnowledgeAlwaysHolds`, `AssetAlwaysUsedOnce`,
`AlwaysRefusedAsCounted`, `AlwaysAddedWithinPlan`. Positions are dense between
transactions but not within one that reorders, so the invariant (`Positioned`) speaks of
the rewrite as it stands: the rows still in place, the row that is out, and the target
each has. A revision that uses an upload has an upload that was finalized
(`RevisionsOK`), so a finalization, which asks for one that is still pending, finds none
of it. Forms and handlers keep what they read before the lock; the invariant says what
of that stays true, the file to replace is still one or is deleted for good
(`TargetOK`). The page and the requests count the same rows, so what the page enables
beyond its own count is what they refuse.

**SubscriptionLifecycleProofs.** `SubscriptionHolds`, `ConfirmationAlwaysFinal`,
`ReturnsAlwaysForward`. What a request does after it has asked Shopify it does from
a snapshot. The invariant says what a snapshot that is no longer true still is: a
subscription the shop has had, read no later than now and, while the fence holds, no
earlier than what the row has recorded (`CallOK`). Each reference took a move
(`ProviderOK`); the key of a switch names its plan, so that a repeated intent cannot
move an operation to another plan (`OperationOK`). Lemmas about the operators of
`BillingOperations` (`ActiveFollows`, `NoneFollows`, `EnsuredFollows`) say what a
reconciliation leaves of every row.

Every invariant and action property that a run checks is a theorem. Only
model-checked are the liveness properties, `EveryCallAnswers` (of refunds and of
sessions) and `RequestIsAnswered`: fairness and ENABLED are out of the proof system's
reach.

## 5. Plan

Modelled: every part that changes state, except merchant support, whose operations
are single transactions on rows of their own. Proved: everything the runs check that
the proof system can reach. Left: merchant support.

## 6. Disagreements found

`offline_session_rejected`: one authentication makes two token requests, Shopify
accepts the first and rejects the second, and the SDK fails. The binding keeps one
`tokenOutcome`; the rejection overwrites the success
(`shopify-offline-coordination.server.ts:305`), so the call rolls the accepted
credentials back and answers `REFRESH_REJECTED`, while
`tests/unit/shopify-offline-coordination.test.ts:268` states that it "reports an
unknown outcome if the SDK fails after Shopify accepted the refresh". The refresh
events, which keep an outcome per request, are right in the same behaviour.

Met while modelling; the models follow the code, and no run states the other side:

- `withShopHint` refuses every shop that is not ACTIVE
  (`shopify-offline-coordination.server.ts:445`). The policies that admit suspended and
  reinstalling shops to support (`tests/unit/shop-access-policy.test.ts:46`,
  `tests/unit/merchant-route-access-policy.test.ts:106`) and the retry of a stopped
  reinstallation (`tests/unit/routes/reinstalling-route.test.ts:117`) are therefore not
  reached by a request that authenticates again. `NavigationIsOpen` says what the
  policies promise to the requests that do reach them.
- A notice of an ended subscription names the subscription the row had, though the row
  may have been activated again before it is sent
  (`billing/subscription-sync.service.ts:162`).
- The billing callback records the onboarding milestone before any category is chosen
  (`app/routes/app/billing/callback/route.tsx:226`); the home page says that
  subscription evidence must not bypass that choice
  (`app/routes/app/home/route.jsx:82`).
- A policy or a delay that was saved, whose answer was lost and that is sent again meets
  its own revision and is refused (`recovery-policy/recovery-policy.server.ts:144`); the
  form then says that the "Settings changed elsewhere" (`app/i18n/locales/en.json:536`).
  `TakesEffectOnce` covers what matters of it: the retry changes nothing.
- The panel of a recovery has one key for a typed text and a chosen template. When the
  choice changes, or its template is retired, the key is forgotten while the text stays
  (`app/routes/app/recovery-detail/human-conversation-panel.tsx:69`, `:160`): after a
  lost answer the same text goes out again, under a second key. `OneCommandPerDraft` is
  of a text while the choice stands. An accepted template also clears a text that was
  not sent (`:92`).
- The page of the options offers packs with a price that the transaction refuses: it
  does not ask, as `billing/recovery-credit-purchase-request.service.ts:287` does, that
  a metered plan's own meter is set, listed and not the offer's, nor for a reading of a
  meter with a fixed price (`billing/merchant-billing-read.service.ts:80`).
  `OfferedIsBuyable` names these conditions.
- When the plan or the cycle is switched at Shopify after a request's second look
  (`billing/recovery-credit-purchase-request.service.ts:204`) and the row has not
  followed, the purchase is recorded in a cycle that is no longer the shop's, for the
  phase is taken from the clock and the snapshot's own end. And two requests that
  overlap may be charged for the same unit, if the first pack is reported and resolved
  between the second look and the transaction of the other. `BoughtInItsCycle` and
  `PacksInTurn` say what holds apart from these.
- Refresh is enabled for every web page and the upload forms for every plan with files
  (`app/components/settings/MerchantKnowledgeSection.tsx:249`, `:198`, `:268`), while
  the requests refuse a source that the plan does not admit and a plan that is full
  (`merchant-knowledge/merchant-knowledge.server.ts:487`). `RefusedAsCounted` says that
  it is exactly those.
- A consent request whose alias agrees is refused when the alias is a number beyond
  2^53: it is taken from the SDK's payload, where it has been rounded, and compared with
  the exact id of the raw text
  (`webhooks/shopify-whatsapp-consent-normalization.ts:67`).
- A refresh of the settings alone writes `updatedAt` without the shop's row lock
  (`shop/shop.service.ts:343`), and a save updates unconditionally with a time later
  than the one it has read (`recovery-policy/recovery-policy.server.ts:181`,
  `ai-response-delay/ai-response-delay.server.ts:47`). When the refresh comes between,
  the save may write the refresh's revision again or an earlier one, and a page loaded
  between the two overwrites the save unseen. `NoLostUpdate` is until then.

## 7. How to run

Each run by its configuration, each proof by its module:

    tlc -config RecoveryCreditRefund.cfg MCRecoveryCreditRefund.tla
    tlc -config OfflineSession.cfg MCOfflineSession.tla
    tlc -config OfflineSessionRejected.cfg MCOfflineSession.tla
    tlc -config ShopLifecycle.cfg MCShopLifecycle.tla

and likewise `RecoveryControl`, `SubscriptionLifecycle`, `PurchaseRequest`,
`StoreCategory`, `MerchantKnowledge`, `Promotions`, `WebhookIngress` and
`RecoverySettings`;

    tlapm RecoveryCreditProofs.tla

and likewise the other modules whose names end in `Proofs`.
