---------------------------- MODULE ShopLifecycle ----------------------------
(* One shop domain from installation to redaction: requests that resolve the  *)
(* shop and provision its rows (app/services/shop/shop.service.ts), uninstall *)
(* deliveries, the two-step admission of a reinstallation and its             *)
(* reconciliation job, and the discount catalogue that follows the shop's     *)
(* status and scopes (app/services/discounts/).                               *)
EXTENDS Integers

CONSTANTS
    Visits,      \* concurrent requests of the merchant
    MaxStamps,   \* bound: schedules ever written
    MaxRows      \* bound: Shop rows ever created for the domain

ASSUME BoundsAssumption == MaxStamps \in Nat \ {0} /\ MaxRows \in Nat \ {0}

VARIABLES
    row,         \* the Shop row of the domain, NoRow without one
    sub,         \* its Subscription: row present, status, nextReconcileAt
    settings,    \* it has ShopSettings
    session,     \* the offline session: none, stale or usable credentials
    scope,       \* its scope holds read_discounts
    catalogue,   \* ShopifyDiscountCatalogue.status, NONE without a row
    jobs,        \* reconciliation jobs in the queue: <<shop row, stamp>>
    stamp,       \* the last time written as a schedule
    rows,        \* Shop rows created so far
    emitted,     \* Shopify has sent app/uninstalled; it may redeliver it
    visit,       \* the requests
    activating   \* the shop whose subscription activation still asks for a sync

domain == <<row, sub, settings>>
credentials == <<session, scope>>
clock == <<stamp, rows>>
vars == <<domain, credentials, catalogue, jobs, clock, emitted, visit, activating>>

-----------------------------------------------------------------------------
(* left stands for uninstalledAt, pending for reinstallPendingAt; 0 is null.  *)
(* live is an active or trialing contract of a shop that completed onboarding.*)
Rows == [id : 0..MaxRows, status : {"ACTIVE", "SUSPENDED", "UNINSTALLED"},
         left : BOOLEAN, pending : 0..MaxStamps]

NoRow == [id |-> 0, status |-> "UNINSTALLED", left |-> FALSE, pending |-> 0]

NoSub == [row |-> FALSE, live |-> FALSE, next |-> 0]

Idle == [pc |-> "idle", entry |-> "auth", seen |-> NoRow, hadSub |-> FALSE, schedule |-> 0]

hasUsableOfflineSession == session = "usable"

isDiscountSyncEligible(hasReadDiscountsScope) ==
    row.status = "ACTIVE" /\ sub.live /\ hasReadDiscountsScope

Go(v, pc) == visit' = [visit EXCEPT ![v].pc = pc]
Leave(v) == visit' = [visit EXCEPT ![v] = Idle]

-----------------------------------------------------------------------------
Init ==
    /\ row = NoRow /\ sub = NoSub /\ settings = FALSE
    /\ session = "none" /\ scope = FALSE
    /\ catalogue = "NONE"
    /\ jobs = {}
    /\ stamp = 0 /\ rows = 0
    /\ emitted = FALSE
    /\ visit = [v \in Visits |-> Idle]
    /\ activating = 0

(* "auth" is the OAuth callback, which may bring a new session; "form" is any *)
(* other request, among them the retry of the reinstalling page: withShopHint *)
(* refuses it unless the shop is active and has a session.                    *)
Enter(v, entry) ==
    /\ visit[v].pc = "idle"
    /\ entry = "form" => row.id = 0 \/ (row.status = "ACTIVE" /\ session # "none")
    /\ \/ entry = "auth" /\ session' = "usable" /\ scope' \in BOOLEAN
       \/ (session # "none" \/ entry = "form") /\ UNCHANGED credentials
    /\ visit' = [visit EXCEPT ![v] = [Idle EXCEPT !.pc = "resolve", !.entry = entry]]
    /\ UNCHANGED <<domain, catalogue, jobs, clock, emitted, activating>>

(* The unlocked reads, after Shopify answered with the shop's profile. With   *)
(* all three rows there is at most a refresh of the profile, which fails when *)
(* the row has gone meanwhile; otherwise the rows are provisioned.            *)
ReadRows(v) ==
    /\ visit[v].pc = "resolve"
    /\ LET whole == row.id # 0 /\ sub.row /\ settings
           known == visit[v].entry = "form" /\ row.id # 0
       IN visit' = [visit EXCEPT ![v].seen = row, ![v].hadSub = sub.row,
                                 ![v].pc = IF whole \/ known THEN "route" ELSE "provision"]
    /\ UNCHANGED <<domain, credentials, catalogue, jobs, clock, emitted, activating>>

NewRow == [NoRow EXCEPT !.id = rows + 1, !.status = "ACTIVE"]

(* Slip: the upsert also activates the row that it finds.                     *)
ProvisionActivates(v) ==
    /\ visit[v].pc = "provision"
    /\ row.id # 0 \/ rows < MaxRows
    /\ row' = IF row.id # 0 THEN [row EXCEPT !.status = "ACTIVE"] ELSE NewRow
    /\ rows' = IF row.id # 0 THEN rows ELSE rows + 1
    /\ sub' = IF visit[v].hadSub \/ sub.row THEN sub ELSE [NoSub EXCEPT !.row = TRUE]
    /\ settings' = TRUE
    /\ visit' = [visit EXCEPT ![v].pc = "route", ![v].seen = row']
    /\ UNCHANGED <<credentials, catalogue, jobs, stamp, emitted, activating>>

(* bootstrap: upserts by the domain. A subscription that was read before is   *)
(* not written again, even if it has gone since.                              *)
Provision(v) ==
    /\ visit[v].pc = "provision"
    /\ row.id # 0 \/ rows < MaxRows
    /\ row' = IF row.id # 0 THEN row ELSE NewRow
    /\ rows' = IF row.id # 0 THEN rows ELSE rows + 1
    /\ sub' = IF visit[v].hadSub \/ sub.row THEN sub ELSE [NoSub EXCEPT !.row = TRUE]
    /\ settings' = TRUE
    /\ visit' = [visit EXCEPT ![v].pc = "route", ![v].seen = row']
    /\ UNCHANGED <<credentials, catalogue, jobs, stamp, emitted, activating>>

(* The catch-all auth route admits a reinstallation when the row it resolved  *)
(* is uninstalled; the reinstalling page's action retries one.                *)
Route(v) ==
    /\ visit[v].pc = "route"
    /\ CASE visit[v].entry = "form"               -> Go(v, "retry")
         [] visit[v].entry = "auth" /\ visit[v].seen.status = "UNINSTALLED" -> Go(v, "begin")
         [] OTHER                                 -> Leave(v)
    /\ UNCHANGED <<domain, credentials, catalogue, jobs, clock, emitted, activating>>

-----------------------------------------------------------------------------
(* The locked transactions of the admission. seen.id is the shopId they get.  *)
MayAdmit(v) ==
    row.id # 0 /\ row.id = visit[v].seen.id /\ row.status = "UNINSTALLED"
    /\ hasUsableOfflineSession

Schedule(v, marker) ==
    /\ stamp < MaxStamps
    /\ stamp' = stamp + 1
    /\ row' = [row EXCEPT !.pending = marker]
    /\ sub' = [sub EXCEPT !.row = TRUE, !.next = stamp + 1]
    /\ visit' = [visit EXCEPT ![v].pc = "enqueue", ![v].schedule = stamp + 1]

(* beginReinstallReconciliation: a marker that is there already keeps its     *)
(* schedule, which the caller publishes again.                                *)
Begin(v) ==
    /\ visit[v].pc = "begin"
    /\ CASE MayAdmit(v) /\ row.pending = 0 -> Schedule(v, stamp + 1)
         [] MayAdmit(v) /\ row.pending # 0 /\ sub.next # 0 ->
              /\ visit' = [visit EXCEPT ![v].pc = "enqueue", ![v].schedule = sub.next]
              /\ UNCHANGED <<row, sub, stamp>>
         [] OTHER -> Leave(v) /\ UNCHANGED <<row, sub, stamp>>
    /\ UNCHANGED <<settings, credentials, catalogue, jobs, rows, emitted, activating>>

(* retryReinstallReconciliation: only a marker without a schedule.            *)
Retry(v) ==
    /\ visit[v].pc = "retry"
    /\ IF MayAdmit(v) /\ row.pending # 0 /\ sub.next = 0
       THEN Schedule(v, stamp + 1)
       ELSE Leave(v) /\ UNCHANGED <<row, sub, stamp>>
    /\ UNCHANGED <<settings, credentials, catalogue, jobs, rows, emitted, activating>>

(* enqueueBillingSubscriptionReconcileBestEffort, after the commit: a failure *)
(* is logged and no more.                                                     *)
Enqueue(v) ==
    /\ visit[v].pc = "enqueue"
    /\ jobs' \in {jobs, jobs \cup {<<visit[v].seen.id, visit[v].schedule>>}}
    /\ Leave(v)
    /\ UNCHANGED <<domain, credentials, catalogue, clock, emitted, activating>>

(* The profile read fails, a redirect is lost, or the process stops.          *)
Drop(v) ==
    /\ visit[v].pc # "idle"
    /\ Leave(v)
    /\ UNCHANGED <<domain, credentials, catalogue, jobs, clock, emitted, activating>>

-----------------------------------------------------------------------------
MerchantUninstalls ==
    /\ row.id # 0 /\ ~emitted
    /\ emitted' = TRUE
    /\ UNCHANGED <<domain, credentials, catalogue, jobs, clock, visit, activating>>

(* app/uninstalled reaches its route, late or more than once; without a row   *)
(* it changes nothing.                                                        *)
UninstallDelivered == emitted /\ row.id # 0

(* Slip: every delivery uninstalls, a repeated one too.                       *)
UninstallAlways ==
    /\ UninstallDelivered
    /\ row' = [row EXCEPT !.status = "UNINSTALLED", !.left = TRUE, !.pending = 0]
    /\ session' = "none"
    /\ catalogue' = "UNAVAILABLE"
    /\ UNCHANGED <<sub, settings, scope, jobs, clock, emitted, visit, activating>>

(* markUninstalled under the lifecycle lock.                                  *)
markUninstalled ==
    /\ UninstallDelivered
    /\ IF row.left THEN UNCHANGED <<row, session>>
       ELSE /\ row' = [row EXCEPT !.status = "UNINSTALLED", !.left = TRUE, !.pending = 0]
            /\ session' = "none"
    /\ catalogue' = "UNAVAILABLE"
    /\ UNCHANGED <<sub, settings, scope, jobs, clock, emitted, visit, activating>>

(* shop/redact: the sessions by domain, and the row with all that cascades.   *)
Redact ==
    /\ emitted /\ row.id # 0
    /\ row' = NoRow /\ sub' = NoSub /\ settings' = FALSE
    /\ session' = "none" /\ catalogue' = "NONE"
    /\ UNCHANGED <<scope, jobs, clock, emitted, visit, activating>>

(* app/scopes_update, under the same lock.                                    *)
ScopesUpdate(granted) ==
    /\ row.id # 0
    /\ scope' = IF session = "none" THEN scope ELSE granted
    /\ catalogue' = CASE session = "none" \/ ~granted     -> "UNAVAILABLE"
                      [] session # "none" /\ isDiscountSyncEligible(granted) -> "SYNC_REQUIRED"
                      [] OTHER                            -> catalogue
    /\ UNCHANGED <<domain, session, jobs, clock, emitted, visit, activating>>

(* Slip: the sync asks for the activated shop without looking at it again.    *)
ActivatedSyncBlind ==
    /\ activating # 0
    /\ activating' = 0
    /\ catalogue' = IF activating = row.id THEN "SYNC_REQUIRED" ELSE catalogue
    /\ UNCHANGED <<domain, credentials, jobs, clock, emitted, visit>>

(* enqueueSubscriptionActivatedDiscountSyncBestEffort: after the activation   *)
(* committed it locks the shop and decides on what it then reads.             *)
ActivatedSync ==
    /\ activating # 0
    /\ activating' = 0
    /\ catalogue' = IF activating = row.id /\ session # "none" /\ isDiscountSyncEligible(scope)
                    THEN "SYNC_REQUIRED" ELSE catalogue
    /\ UNCHANGED <<domain, credentials, jobs, clock, emitted, visit>>

-----------------------------------------------------------------------------
(* Outside this code: billing activates or ends the contract, support         *)
(* suspends the shop, and credentials age.                                    *)
SubscriptionMoves ==
    /\ row.status = "ACTIVE" /\ sub.row
    /\ sub' = [sub EXCEPT !.live = ~sub.live]
    /\ activating' = IF sub.live THEN activating ELSE row.id
    /\ UNCHANGED <<row, settings, credentials, catalogue, jobs, clock, emitted, visit>>

Suspension ==
    /\ row.id # 0 /\ row.status # "UNINSTALLED"
    /\ row' = [row EXCEPT !.status = IF row.status = "ACTIVE" THEN "SUSPENDED" ELSE "ACTIVE"]
    /\ UNCHANGED <<sub, settings, credentials, catalogue, jobs, clock, emitted, visit, activating>>

CredentialsAge ==
    /\ session = "usable"
    /\ session' = "stale"
    /\ UNCHANGED <<domain, scope, catalogue, jobs, clock, emitted, visit, activating>>

(* The reconciliation worker takes the job whose schedule is still the row's: *)
(* it reactivates the shop or gives up for the time being.                    *)
Reconcile ==
    \E job \in jobs :
        /\ jobs' = jobs \ {job}
        /\ IF job = <<row.id, sub.next>> /\ row.pending # 0
           THEN /\ sub' = [sub EXCEPT !.next = 0]
                /\ \/ row' = [row EXCEPT !.status = "ACTIVE", !.left = FALSE, !.pending = 0]
                   \/ row' = row
           ELSE UNCHANGED <<row, sub>>
        /\ UNCHANGED <<settings, credentials, catalogue, clock, emitted, visit, activating>>

Serve(v) == ReadRows(v) \/ Provision(v) \/ Route(v) \/ Begin(v) \/ Retry(v) \/ Enqueue(v)

Next ==
    \/ \E v \in Visits :
          \/ \E entry \in {"auth", "form"} : Enter(v, entry)
          \/ Serve(v)
          \/ Drop(v)
    \/ MerchantUninstalls \/ markUninstalled \/ Redact
    \/ \E granted \in BOOLEAN : ScopesUpdate(granted)
    \/ ActivatedSync
    \/ SubscriptionMoves \/ Suspension \/ CredentialsAge \/ Reconcile

Spec == Init /\ [][Next]_vars

-----------------------------------------------------------------------------
(* The variables stay within their types, and no time is ahead of the clock.  *)
TypeOK ==
    /\ row \in Rows /\ row.pending <= stamp
    /\ sub \in [row : BOOLEAN, live : BOOLEAN, next : 0..stamp]
    /\ settings \in BOOLEAN
    /\ session \in {"none", "stale", "usable"} /\ scope \in BOOLEAN
    /\ catalogue \in {"NONE", "UNAVAILABLE", "SYNC_REQUIRED"}
    /\ jobs \subseteq (1..rows) \X (1..stamp)
    /\ stamp \in 0..MaxStamps /\ rows \in 0..MaxRows
    /\ emitted \in BOOLEAN
    /\ visit \in [Visits -> [pc : {"idle", "resolve", "provision", "route", "begin",
                                   "retry", "enqueue"},
                             entry : {"auth", "form"}, seen : Rows, hadSub : BOOLEAN,
                             schedule : 0..stamp]]
    /\ activating \in 0..MaxRows

(* A reinstallation is pending on no shop but an uninstalled one, although a  *)
(* request admits it on a row it read before others changed it.               *)
PendingOnlyWhileUninstalled ==
    row.pending # 0 => row.status = "UNINSTALLED" /\ row.left

(* Only the reconciliation of a pending reinstallation brings a shop back:    *)
(* no request, however stale what it read, reactivates an uninstalled row.    *)
OnlyReconciliationReactivates ==
    [][row.status = "UNINSTALLED" /\ row'.status = "ACTIVE" /\ row'.id = row.id =>
          row.pending # 0 /\ <<row.id, sub.next>> \in jobs \ jobs']_vars

(* A repeated uninstall delivery does not undo a reinstallation: while the    *)
(* shop stays uninstalled a marker is never taken away, nor the new session.  *)
RedeliveryKeepsReinstallation ==
    [][row.pending # 0 /\ row'.id = row.id /\ row'.status = "UNINSTALLED" =>
          row'.pending # 0 /\ (session # "none" => session' # "none")]_vars

(* The catalogue of an uninstalled shop is never waiting for a sync, whatever *)
(* activations and scope changes were under way when it was uninstalled.      *)
UninstalledWantsNoSync == row.status = "UNINSTALLED" => catalogue # "SYNC_REQUIRED"

(* What holds of the shop's rows between any two steps of the requests, the   *)
(* webhooks and the worker.                                                   *)
LifecycleInv ==
  /\ TypeOK
  /\ PendingOnlyWhileUninstalled
  /\ UninstalledWantsNoSync

=============================================================================
