--------------------------- MODULE MerchantAccess ---------------------------
(* What a merchant's browser reaches: every request is authenticated, the     *)
(* shop's row is read, the loaders of the layout and of the page each decide  *)
(* whether the shop may see the page, and a refusal redirects to another      *)
(* page, which decides again. The shop and its subscription change meanwhile. *)
EXTENDS Naturals

CONSTANTS
    Subscriptions,   \* the subscription projections a shop moves through
    MaxHops          \* the most redirects a browser should ever follow

ASSUME HopsAssumption == MaxHops \in Nat \ {0, 1}

VARIABLES
    shop,          \* the Shop row: status, reinstallPendingAt, onboardingCompleted
    subscription,  \* its Subscription row
    page,          \* the page the browser asks for or shows
    phase,         \* how far the request is
    seen,          \* the Shop row the request has read
    hops           \* redirects followed so far

browsing == <<shop, subscription, page, phase, seen, hops>>

-----------------------------------------------------------------------------
ShopRow == [status : {"ACTIVE", "SUSPENDED", "UNINSTALLED"},
            pending : BOOLEAN, onboarded : BOOLEAN]

(* Subscription.status, OTHER for every status the policy does not name, and  *)
(* lastProviderLifecycleState.                                                *)
SubscriptionRow == [status : {"ACTIVE", "TRIALING", "NO_CONTRACT", "FROZEN", "OTHER"},
                    canceled : BOOLEAN]

ASSUME SubscriptionsAssumption == Subscriptions \subseteq SubscriptionRow

NoSubscription == [status |-> "OTHER", canceled |-> FALSE]

resolveMerchantExperienceState(s, sub) ==
    CASE s.status = "UNINSTALLED" /\ s.pending -> "REINSTALLING"
      [] s.status = "SUSPENDED"                -> "SUPPORT_ONLY"
      [] s.status = "UNINSTALLED" /\ ~s.pending -> "SIGNED_OUT"
      [] s.status = "ACTIVE" /\ ~s.onboarded   -> "ONBOARDING"
      [] OTHER ->
           CASE sub.status \in {"ACTIVE", "TRIALING"}             -> "ACTIVE"
             [] sub.status = "NO_CONTRACT" /\ sub.canceled        -> "POST_CONTRACT"
             [] sub.status = "NO_CONTRACT" /\ ~sub.canceled       -> "NO_CONTRACT"
             [] sub.status = "FROZEN"                             -> "FROZEN"
             [] OTHER                                             -> "BILLING_ATTENTION"

History == {"HOME", "USAGE", "BILLING_OPTIONS", "BILLING_PURCHASE_HISTORY",
            "SUPPORT", "RECOVERY_HISTORY"}

surfaceMatrix ==
    [SIGNED_OUT        |-> {},
     REINSTALLING      |-> {"SUPPORT"},
     SUPPORT_ONLY      |-> {"SUPPORT"},
     ONBOARDING        |-> {"HOME", "SUPPORT", "PLAN_SELECT"},
     ACTIVE            |-> History \cup {"PROMOTIONS", "RECOVERY_SETTINGS", "PLAN_SELECT",
                                         "PENDING_RECOVERIES"},
     NO_CONTRACT       |-> History \cup {"PLAN_SELECT"},
     POST_CONTRACT     |-> History \cup {"PLAN_SELECT", "PENDING_RECOVERIES"},
     FROZEN            |-> History,
     BILLING_ATTENTION |-> History \cup {"PLAN_SELECT"}]

getMerchantDeniedRedirect(state, surface) ==
    CASE state = "REINSTALLING"                         -> "reinstalling"
      [] state = "SUPPORT_ONLY"                         -> "support"
      [] state = "SIGNED_OUT"                           -> "login"
      [] state = "FROZEN" /\ surface = "PLAN_SELECT"    -> "options"
      [] OTHER                                          -> "home"

HistoryNavigation == {"home", "recoveries", "options", "support"}

navigationByState(state) ==
    CASE state = "SIGNED_OUT"                        -> {}
      [] state \in {"REINSTALLING", "SUPPORT_ONLY"}  -> {"support"}
      [] state = "ONBOARDING"                        -> {"home", "support"}
      [] state = "ACTIVE" -> HistoryNavigation \cup {"promotions", "recoverySettings"}
      [] OTHER            -> HistoryNavigation

-----------------------------------------------------------------------------
(* The pages, each with the surface its own loader checks.                    *)
SurfaceOf ==
    [home |-> "HOME", usage |-> "USAGE", promotions |-> "PROMOTIONS",
     recoverySettings |-> "RECOVERY_SETTINGS", recoveries |-> "RECOVERY_HISTORY",
     support |-> "SUPPORT", options |-> "BILLING_OPTIONS",
     purchases |-> "BILLING_PURCHASE_HISTORY", select |-> "PLAN_SELECT"]

Guarded == {"usage", "promotions", "recoverySettings", "recoveries", "options",
            "purchases", "select"}

Pages == Guarded \cup {"home", "support", "reinstalling"}

(* The children of the app layout; the other pages run without its loader.    *)
UnderLayout == Pages \ {"select", "reinstalling"}

(* An answer is a page to go to, or "here": the loader lets the page render.  *)
assertActiveShop(s, redirectTo) ==
    CASE s.status = "ACTIVE"                     -> "here"
      [] s.status = "UNINSTALLED" /\ s.pending   -> "reinstalling"
      [] OTHER                                   -> redirectTo

assertSupportShop(s, redirectTo) ==
    IF s.status # "UNINSTALLED" \/ s.pending THEN "here" ELSE redirectTo

LayoutAnswer(p, s) ==
    IF p = "support" THEN assertSupportShop(s, "login") ELSE assertActiveShop(s, "support")

(* Only the options page shows the subscription it read to the policy; the    *)
(* other guarded pages drop one that is not live.                             *)
Shown(p, sub) ==
    IF p = "options" \/ sub.status \in {"ACTIVE", "TRIALING"} THEN sub ELSE NoSubscription

(* recoveries has no assertActiveShop of its own.                             *)
GuardedAnswer(p, s, sub) ==
    LET active == IF p = "recoveries" THEN "here" ELSE assertActiveShop(s, "support")
        state  == resolveMerchantExperienceState(s, Shown(p, sub))
    IN CASE active # "here"                                  -> active
         [] active = "here" /\ SurfaceOf[p] \in surfaceMatrix[state] -> "here"
         [] OTHER -> getMerchantDeniedRedirect(state, SurfaceOf[p])

ReinstallingAnswer(s) ==
    CASE s.status = "ACTIVE"                   -> "home"
      [] s.status = "SUSPENDED"                -> "support"
      [] s.status = "UNINSTALLED" /\ s.pending -> "here"
      [] OTHER                                 -> "login"

(* A frozen contract is told so before the surface is checked.                *)
SelectAnswer(s, sub) ==
    IF s.status = "ACTIVE" /\ sub.status = "FROZEN" THEN "forbidden"
    ELSE GuardedAnswer("select", s, sub)

(* Slip: the plan page forgets the frozen contract it dropped.                *)
PageAnswerUnfrozen(p, s, sub) ==
    CASE p \in Guarded        -> GuardedAnswer(p, s, sub)
      [] p = "reinstalling"   -> ReinstallingAnswer(s)
      [] p = "support"        -> assertSupportShop(s, "login")
      [] OTHER                -> assertActiveShop(s, "support")

PageAnswer(p, s, sub) ==
    CASE p = "select"         -> SelectAnswer(s, sub)
      [] p = "reinstalling"   -> ReinstallingAnswer(s)
      [] p = "support"        -> assertSupportShop(s, "login")
      [] p = "home"           -> assertActiveShop(s, "support")
      [] OTHER                -> GuardedAnswer(p, s, sub)

(* Both loaders run; a redirect of either answers the request.                *)
Answers(p, s, sub) ==
    LET all == {PageAnswer(p, s, sub)}
               \cup IF p \in UnderLayout THEN {LayoutAnswer(p, s)} ELSE {}
    IN IF all = {"here"} THEN all ELSE all \ {"here"}

-----------------------------------------------------------------------------
BrowserInit ==
    /\ shop \in [status : {"ACTIVE"}, pending : {FALSE}, onboarded : BOOLEAN]
    /\ subscription \in Subscriptions
    /\ page = "home"
    /\ phase = "idle"
    /\ seen = shop
    /\ hops = 0

(* Uninstallation, reinstallation, suspension, onboarding and billing go on   *)
(* while the merchant browses; hops counts redirects under one lifecycle.     *)
LifecycleChanges ==
    /\ shop' \in {s \in ShopRow : s.pending => s.status = "UNINSTALLED"}
    /\ subscription' \in Subscriptions
    /\ <<shop', subscription'>> # <<shop, subscription>>
    /\ hops' = 0
    /\ UNCHANGED <<page, phase, seen>>

(* The merchant types an address, or follows a link that the layout offers.   *)
Ask(p) ==
    /\ phase \in {"idle", "shown", "forbidden"}
    /\ page' = p
    /\ phase' = "asked"
    /\ hops' = 0
    /\ UNCHANGED <<shop, subscription, seen>>

(* withShopHint answers before any loader when the shop is not active. The    *)
(* pages' requests are no OAuth callbacks.                                    *)
Authenticate ==
    /\ phase = "asked"
    /\ phase' = IF shop.status = "ACTIVE" THEN "authenticated" ELSE "refused"
    /\ UNCHANGED <<shop, subscription, page, seen, hops>>

ReadShop ==
    /\ phase = "authenticated"
    /\ seen' = shop
    /\ phase' = "read"
    /\ UNCHANGED <<shop, subscription, page, hops>>

ServePage ==
    /\ phase = "read"
    /\ \E answer \in Answers(page, seen, subscription) :
          CASE answer \in {"here", "forbidden"} ->
                 /\ phase' = IF answer = "here" THEN "shown" ELSE "forbidden"
                 /\ UNCHANGED <<page, hops>>
            [] answer = "login" -> phase' = "signedOut" /\ UNCHANGED <<page, hops>>
            [] OTHER -> page' = answer /\ phase' = "asked" /\ hops' = hops + 1
    /\ UNCHANGED <<shop, subscription, seen>>

(* A refused or signed out merchant comes back through a new session.         *)
Return ==
    /\ phase \in {"refused", "signedOut"}
    /\ phase' = "idle"
    /\ UNCHANGED <<shop, subscription, page, seen, hops>>

Browse ==
    \/ LifecycleChanges
    \/ \E p \in Pages : Ask(p)
    \/ Authenticate
    \/ ReadShop
    \/ ServePage
    \/ Return

BrowserSpec == BrowserInit /\ [][Browse]_browsing

-----------------------------------------------------------------------------
(* The variables stay within their types.                                     *)
BrowserTypeOK ==
    /\ shop \in ShopRow /\ seen \in ShopRow
    /\ subscription \in SubscriptionRow
    /\ page \in Pages
    /\ phase \in {"idle", "asked", "authenticated", "read", "shown", "forbidden",
                  "refused", "signedOut"}
    /\ hops \in 0..MaxHops

(* Redirects settle: whatever the state of the shop, the pages that refuse it *)
(* never send the merchant round in a circle: after two redirects under an    *)
(* unchanged lifecycle the answer is a page, a refusal or the login.          *)
RedirectsSettle ==
    LET Step(p) == Answers(p, shop, subscription)
        Away(p) == Step(p) \ {"here", "forbidden", "login"}
    IN \A p \in Pages : \A q \in Away(p) : \A r \in Away(q) : Away(r) = {}

(* Every link the layout offers for what it knows of the shop leads to a page *)
(* that renders, although the page computes the merchant's state anew from a  *)
(* subscription it may have dropped.                                          *)
NavigationIsOpen ==
    \A p \in navigationByState(resolveMerchantExperienceState(shop, subscription)) :
        PageAnswer(p, shop, subscription) = "here"

(* A page that renders is one the surface matrix grants for the shop and the  *)
(* subscription as they are: dropping a subscription that is not live never   *)
(* opens a surface that the real state closes.                                *)
NoSurfaceBeyondState ==
    \A p \in Guarded :
        PageAnswer(p, shop, subscription) = "here" =>
            SurfaceOf[p] \in surfaceMatrix[resolveMerchantExperienceState(shop, subscription)]

(* The pages agree about a shop in every state of its lifecycle and           *)
(* subscription: where they redirect, what they link to, what they open.      *)
PagesAgree ==
  /\ BrowserTypeOK
  /\ RedirectsSettle
  /\ NavigationIsOpen
  /\ NoSurfaceBeyondState

=============================================================================
