--------------------------- MODULE RecoverySettings ---------------------------
(***************************************************************************)
(* The recovery settings page: its three forms (components/settings), the  *)
(* action they are sent to (routes/app/settings-save) and the services     *)
(* that save the recovery policy, the AI response delay and the feature    *)
(* preferences.  A form submits one operation at a time.  An operation     *)
(* whose outcome is unknown is sent again as it was, so that several of    *)
(* its requests, and those of other tabs, reach the services in any order; *)
(* each save runs under the lock of the shop's row.  A refresh of the      *)
(* settings alone does not take that lock: it may come between the read of *)
(* a save and its write.                                                   *)
(*                                                                         *)
(* The policy's scalars are one, its mode; the features are those that a   *)
(* merchant may opt in to.  People act later than what they react to.      *)
(***************************************************************************)
EXTENDS Naturals

CONSTANTS
  Tabs, Discounts, Features,
  Forms,         \* the forms in use, of "recovery", "ai-response-delay" and "features"
  LargeForms,    \* forms whose body may exceed the limit of the action
  MaxClock,      \* bound: the last instant
  MaxSkew,       \* bound: how far the clock of a process may be behind
  MaxRequests,   \* bound: requests sent
  MaxRefreshes   \* bound: writes of the settings by others

ASSUME FormsAreForms == LargeForms \subseteq Forms /\ Forms \subseteq {"recovery", "ai-response-delay", "features"}
ASSUME BoundsAreNaturals == {MaxSkew, MaxRequests, MaxRefreshes} \subseteq Nat /\ MaxClock \in Nat \ {0}
\* Clocks differ by less than the time a person takes to answer what a page shows.
ASSUME SkewBelowReaction == MaxSkew <= 1

VARIABLES
  clock,
  standing,      \* of the shop, its subscription and its plan
  settings,      \* ShopSettings, with the discounts that are available
  mapped,        \* features the plan enables
  preferences,   \* ShopFeaturePreference; at = 0: no row
  writer,        \* operation that wrote the preferences last; 0: none
  refreshes,
  lock,          \* on the shop's row: the request that has it, since when, and the settings it has read
  requests, sent,
  pages,         \* the page's loader in each tab
  forms          \* the controllers

vars == <<clock, standing, settings, mapped, preferences, writer, refreshes, lock, requests, sent, pages, forms>>
rows == <<settings, preferences, writer>>
world == <<clock, standing, mapped, refreshes, lock>>

-----------------------------------------------------------------------------
Enabled == {f \in Features : preferences[f].enabled}

\* What the forms show, and what they send.
Current == [mode |-> settings.mode, selection |-> settings.selection, delay |-> settings.delay,
            shown |-> mapped, enabled |-> Enabled \cap mapped]

Values == [mode : {"NONE", "FIXED"}, selection : SUBSET Discounts, delay : {0, 1},
           shown : SUBSET Features, enabled : SUBSET Features]

\* updatedAt, or revisionOf what projectFeaturePreferences has read
Revision(form) == IF form = "features" THEN <<mapped, preferences>> ELSE <<settings.updatedAt>>

Nothing == [mode |-> "NONE", selection |-> {}, delay |-> 0, shown |-> {}, enabled |-> {}]

\* known: the features the merchant's page holds a value of its own for, shown or not
Unmounted == [phase |-> "idle", error |-> "none", attempt |-> 0, operation |-> 0, since |-> 0,
              revision |-> <<>>, loaded |-> 0, seen |-> Nothing, value |-> Nothing,
              known |-> {}, frozen |-> Nothing]

Idle(form, page, seen) ==
  [Unmounted EXCEPT !.since = clock, !.loaded = page.updatedAt, !.seen = seen, !.value = seen,
     !.known = seen.shown,
     !.revision = IF form = "features" THEN page.features ELSE <<page.updatedAt>>]

Request == [at |-> "unsent", tab |-> "none", form |-> "none", operation |-> 0, large |-> FALSE,
            value |-> Nothing, revision |-> <<>>, seen |-> Nothing,
            reply |-> "none", wrote |-> FALSE, new |-> <<>>, result |-> Nothing]

NoPage == [at |-> "closed", due |-> FALSE, updatedAt |-> 0, read |-> Nothing, features |-> <<>>]

FirstSettings == [updatedAt |-> 1, rewound |-> FALSE, mode |-> "NONE", selection |-> {}, delay |-> 0]

Free == [by |-> 0, since |-> 1, row |-> FirstSettings]

Init ==
  /\ clock = 1 /\ standing = "live"
  /\ settings = FirstSettings /\ lock = Free
  /\ mapped = Features
  /\ preferences = [f \in Features |-> [enabled |-> FALSE, at |-> 0]]
  /\ writer = 0
  /\ refreshes = 0 /\ sent = 0
  /\ requests = [r \in 1..MaxRequests |-> Request]
  /\ pages = [t \in Tabs |-> NoPage]
  /\ forms = [t \in Tabs |-> [f \in Forms |-> Unmounted]]

\* authorizeSettings: for the loader and for the action.
Authorized == standing \in {"live", "retired"}

\* requireFeaturePlan: the shop is active, its subscription live and on an active plan.
requireFeaturePlan == standing = "live"

\* Date.now() of the process that writes
Instants == {n \in 1..clock : clock <= n + MaxSkew}

-----------------------------------------------------------------------------
Disposed(t) ==
  /\ pages' = [pages EXCEPT ![t] = NoPage]
  /\ forms' = [forms EXCEPT ![t] = [f \in Forms |-> Unmounted]]

\* The loader's data, its settings and preferences of one instant: without a live plan, no features.
loader(at) ==
  LET features == IF requireFeaturePlan THEN mapped ELSE {}
  IN [at |-> at, due |-> FALSE, updatedAt |-> settings.updatedAt, features |-> Revision("features"),
      read |-> [Current EXCEPT !.shown = features, !.enabled = @ \cap features]]

(* The loader: the settings, the plan and the preferences first, then the   *)
(* catalogue, whose discounts are the selection.                            *)
Read(t) ==
  /\ pages[t].at = "closed" \/ pages[t].due
  /\ IF Authorized
     THEN /\ pages' = [pages EXCEPT ![t] =
               loader(IF @.at = "closed" THEN "opening" ELSE "reloading")]
          /\ UNCHANGED forms
     ELSE Disposed(t)
  /\ UNCHANGED <<world, rows, requests, sent>>

\* What the view shows of the features: a value of the merchant's page goes before the loader's.
Kept(old, seen) == [seen EXCEPT !.enabled = (old.value.enabled \cap old.known) \cup (@ \ old.known)]

(* The view with the data: a new page mounts its forms; a reloaded one the    *)
(* form of the delay when its key has changed, and that of the features when  *)
(* there are any, which it disposes when none is left.                        *)
Mounted(t, form, seen) ==
  LET page == pages[t]
      old == forms[t][form]
      features(base) == [base EXCEPT !.value = Kept(old, seen), !.known = old.known]
  IN CASE page.at = "opening" -> Idle(form, page, seen)
       [] form = "ai-response-delay" /\ page.at # "opening" ->
            IF old.loaded = page.updatedAt THEN old ELSE Idle(form, page, seen)
       [] form = "features" /\ page.at # "opening" ->
            IF seen.shown = {} THEN features(Unmounted)
            ELSE IF old.value.shown = {} THEN features(Idle(form, page, seen)) ELSE features(old)
       [] OTHER -> old

Show(t) ==
  /\ pages[t].at \in {"opening", "reloading"}
  /\ LET seen == [pages[t].read EXCEPT !.selection = settings.selection]
     IN forms' = [forms EXCEPT ![t] = [f \in Forms |-> Mounted(t, f, seen)]]
  /\ pages' = [pages EXCEPT ![t] = [NoPage EXCEPT !.at = "shown", !.due = pages[t].due]]
  /\ UNCHANGED <<world, rows, requests, sent>>

\* The merchant reloads the page or leaves it: its controllers are disposed.
Leave(t) ==
  /\ pages[t].at \in {"shown", "reloading"}
  /\ Disposed(t)
  /\ UNCHANGED <<world, rows, requests, sent>>

Usable(t) == pages[t].at \in {"shown", "reloading"}

-----------------------------------------------------------------------------
(* createSettingsSubmission.                                                *)
Inputs(form, old) ==
  CASE form = "recovery" -> {[old EXCEPT !.mode = p[1], !.selection = p[2]] : p \in {"NONE", "FIXED"} \X SUBSET Discounts}
    [] form = "ai-response-delay" -> {[old EXCEPT !.delay = 1 - @]}
    [] form = "features" -> {[old EXCEPT !.enabled = (@ \ {f}) \cup ({f} \ @)] : f \in old.shown}

Toggled(old, new) == (old.enabled \ new.enabled) \cup (new.enabled \ old.enabled)

Send(t, form, held, large) ==
  LET id == sent + 1
  IN /\ sent' = id
     /\ requests' = [requests EXCEPT ![id] = [@ EXCEPT !.at = "sent", !.tab = t, !.form = form,
          !.operation = held.operation, !.value = held.frozen, !.large = large,
          !.revision = held.revision, !.seen = held.seen]]
     /\ forms' = [forms EXCEPT ![t][form] = [held EXCEPT !.phase = "saving", !.error = "none",
          !.attempt = id, !.since = clock]]

\* submit
Submit(t, form) ==
  LET held == forms[t][form]
  IN /\ Usable(t) /\ held.phase \notin {"saving", "unknown"}
     /\ clock > held.since /\ sent < MaxRequests
     /\ \E value \in Inputs(form, held.value), large \in {l \in BOOLEAN : l => form \in LargeForms} :
          Send(t, form, [held EXCEPT !.operation = sent + 1, !.value = value, !.frozen = value,
                           !.known = @ \cup Toggled(held.value, value)], large)
     /\ UNCHANGED <<world, rows, pages>>

\* reconcile: run, with what was frozen.
Reconcile(t, form) ==
  LET held == forms[t][form]
  IN /\ Usable(t) /\ held.phase = "unknown"
     /\ clock > held.since /\ sent < MaxRequests
     /\ Send(t, form, held, requests[held.operation].large)
     /\ UNCHANGED <<world, rows, pages>>

Unknown(t, form) == forms' = [forms EXCEPT ![t][form].phase = "unknown", ![t][form].since = clock]

\* The timer of the last attempt fires, or its connection fails: an answer that is lost is
\* never delivered.
TimeOut(t, form) ==
  /\ Usable(t) /\ forms[t][form].phase = "saving"
  /\ Unknown(t, form)
  /\ UNCHANGED <<world, rows, requests, sent, pages>>

(* Slip: the answer of an earlier attempt settles the operation. *)
AwaitedByOperation(r) ==
  /\ Usable(requests[r].tab)
  /\ forms[requests[r].tab][requests[r].form].operation = requests[r].operation

\* disposed || attempt !== sequence
Awaited(r) ==
  /\ Usable(requests[r].tab)
  /\ forms[requests[r].tab][requests[r].form].attempt = r

\* What is kept of a request that has been dealt with.
Ended(request) == [Request EXCEPT !.at = "done", !.tab = request.tab, !.form = request.form, !.large = request.large,
                     !.operation = request.operation, !.reply = request.reply, !.wrote = request.wrote]

\* The answer of a request reaches its controller.
Deliver(r) ==
  LET request == requests[r]
      tab == request.tab
      form == request.form
  IN /\ request.at = "answered"
     /\ requests' = [requests EXCEPT ![r] = Ended(request)]
     /\ CASE ~Awaited(r) -> UNCHANGED <<forms, pages>>
          [] Awaited(r) /\ request.reply \in {"nothing", "unnamed"} ->
               Unknown(tab, form) /\ UNCHANGED pages
          [] Awaited(r) /\ request.reply = "ok" ->
               /\ forms' = [forms EXCEPT ![tab][form] = [@ EXCEPT !.phase = "saved", !.since = clock,
                                  !.frozen = Nothing, !.revision = request.new, !.seen = request.result]]
               /\ pages' = [pages EXCEPT ![tab].due = TRUE]
          [] OTHER ->
               /\ forms' = [forms EXCEPT ![tab][form] = [@ EXCEPT !.phase = "error", !.since = clock,
                                  !.frozen = Nothing, !.error = request.reply]]
               /\ UNCHANGED pages
     /\ UNCHANGED <<world, rows, sent>>

-----------------------------------------------------------------------------
(* The action, and the services' transactions.                              *)
Answered(request, reply) == [Ended(request) EXCEPT !.at = "answered", !.reply = reply]

Answer(r, reply) == requests' = [requests EXCEPT ![r] = Answered(@, reply)]

\* A redirect says nothing; the answer to a body that is too large does not name its operation.
Authorize(r) ==
  /\ requests[r].at = "sent"
  /\ IF ~Authorized THEN Answer(r, "nothing")
     ELSE IF requests[r].large THEN Answer(r, "unnamed")
     ELSE requests' = [requests EXCEPT ![r].at = "authorized"]
  /\ UNCHANGED <<world, rows, sent, pages, forms>>

Changes(value) == {f \in value.shown : (f \in value.enabled) # preferences[f].enabled}

\* saveFeaturePreferences
FeaturesReply(value, revision) ==
  IF ~requireFeaturePlan \/ ~(value.shown \subseteq mapped) THEN "DENIED"
  ELSE IF Changes(value) # {} /\ revision # Revision("features") THEN "CONFLICT" ELSE "ok"

(* Slip: only the scalars are under the revision. *)
SettingsReplyLoose(form, value, revision) ==
  IF form = "recovery" /\ value.mode = "FIXED" /\ value.selection = {} THEN "FIXED_SELECTION_REQUIRED"
  ELSE IF standing = "uninstalled" THEN "DENIED"
  ELSE IF revision # <<settings.updatedAt>> /\ value.mode # settings.mode THEN "CONFLICT" ELSE "ok"

\* saveMerchantRecoveryPolicy and saveAiResponseDelay, under the lock
SettingsReply(form, value, revision) ==
  IF form = "recovery" /\ value.mode = "FIXED" /\ value.selection = {} THEN "FIXED_SELECTION_REQUIRED"
  ELSE IF standing = "uninstalled" THEN "DENIED"
  ELSE IF revision # <<settings.updatedAt>> THEN "CONFLICT" ELSE "ok"

\* A discount that is chosen, or dropped, has left the catalogue, whose worker takes no lock.
MayBeInvalid(form, value, selection) == form = "recovery" /\ value.selection \cup selection # {}

(* Slip: the revision is the time of the process. *)
AdvancedToNow(now) == now

\* max(Date.now(), current.updatedAt + 1), of the settings that were read
Advanced(now) == IF now > lock.row.updatedAt THEN now ELSE lock.row.updatedAt + 1

\* The columns of its form in a row of the settings.
With(form, value, row) ==
  IF form = "recovery" THEN [row EXCEPT !.mode = value.mode, !.selection = value.selection]
  ELSE [row EXCEPT !.delay = value.delay]

Same(form, value) == With(form, value, lock.row) = lock.row

\* The update, whatever the row's time is by now: a refresh since the read may be rewound.
SettingsWith(form, value, now) ==
  [With(form, value, settings) EXCEPT !.updatedAt = Advanced(now),
     !.rewound = @ \/ (settings.updatedAt # lock.row.updatedAt /\ Advanced(now) <= settings.updatedAt)]

PreferencesWith(value, now) ==
  [f \in Features |-> IF f \in Changes(value) THEN [enabled |-> f \in value.enabled, at |-> now] ELSE preferences[f]]

\* The features: nobody writes without the lock what the transaction writes.
SaveFeatures(r) ==
  LET request == requests[r]
      reply == FeaturesReply(request.value, request.revision)
  IN /\ request.at = "authorized" /\ request.form = "features" /\ lock = Free
     /\ UNCHANGED <<world, settings, sent, pages, forms>>
     /\ IF reply # "ok" THEN Answer(r, reply) /\ UNCHANGED <<preferences, writer>>
        ELSE \E now \in Instants :
          /\ preferences' = PreferencesWith(request.value, now)
          /\ writer' = IF preferences' = preferences THEN writer ELSE request.operation
          /\ requests' = [requests EXCEPT ![r] = [Answered(@, "ok") EXCEPT
               !.wrote = preferences' # preferences, !.new = Revision("features")', !.result = Current']]

\* The policy or the delay: the lock, the settings as they are, and the refusals they give rise to.
Check(r) ==
  LET request == requests[r]
      reply == SettingsReply(request.form, request.value, request.revision)
  IN /\ request.at = "authorized" /\ request.form # "features" /\ lock = Free
     /\ \/ reply # "ok" /\ Answer(r, reply) /\ UNCHANGED lock
        \/ /\ reply = "ok" /\ MayBeInvalid(request.form, request.value, {})
           /\ Answer(r, "INVALID_INPUT") /\ UNCHANGED lock
        \/ reply = "ok" /\ lock' = [by |-> r, since |-> clock, row |-> settings] /\ UNCHANGED requests
     /\ UNCHANGED <<clock, standing, mapped, refreshes, rows, sent, pages, forms>>

\* Date.now() of a save that has read
Since == {n \in 1..clock : lock.since <= n + MaxSkew}

\* The update, unless there is nothing to change or the selection has, and the commit.
Save(r) ==
  LET request == requests[r]
      same == Same(request.form, request.value)
  IN /\ lock.by = r /\ lock' = Free
     /\ UNCHANGED <<clock, standing, mapped, refreshes, preferences, writer, sent, pages, forms>>
     /\ \/ /\ ~same /\ MayBeInvalid(request.form, request.value, lock.row.selection)
           /\ Answer(r, "INVALID_INPUT") /\ UNCHANGED settings
        \/ \E now \in Since :
             /\ settings' = IF same THEN settings ELSE SettingsWith(request.form, request.value, now)
             /\ requests' = [requests EXCEPT ![r] = [Answered(@, "ok") EXCEPT !.wrote = ~same,
                  !.new = <<IF same THEN lock.row.updatedAt ELSE settings'.updatedAt>>, !.result = Current']]

\* A transaction that fails leaves the request where it is.
Abort ==
  /\ lock # Free /\ lock' = Free
  /\ UNCHANGED <<clock, standing, mapped, refreshes, rows, requests, sent, pages, forms>>

-----------------------------------------------------------------------------
\* The shop's other rows: its plan, its subscription, its uninstallation, which withdraws
\* the discounts, its reinstallation, and the writes that refresh its context.
Tick == clock < MaxClock /\ clock' = clock + 1
        /\ UNCHANGED <<standing, mapped, refreshes, lock, rows, requests, sent, pages, forms>>

Stand ==
  /\ refreshes < MaxRefreshes /\ refreshes' = refreshes + 1
  /\ standing' \in {"live", "retired", "lapsed"} \ {standing} /\ standing # "uninstalled"
  /\ UNCHANGED <<clock, mapped, lock, rows, requests, sent, pages, forms>>

Map(f) ==
  /\ refreshes < MaxRefreshes /\ refreshes' = refreshes + 1
  /\ mapped' = (mapped \ {f}) \cup ({f} \ mapped)
  /\ UNCHANGED <<clock, standing, lock, rows, requests, sent, pages, forms>>

Uninstall ==
  /\ lock = Free
  /\ refreshes < MaxRefreshes /\ refreshes' = refreshes + 1
  /\ standing' = IF standing = "uninstalled" THEN "live" ELSE "uninstalled"
  /\ settings' = [settings EXCEPT !.selection = {}, !.rewound = @ \/ settings.selection # {}]
  /\ UNCHANGED <<clock, mapped, lock, preferences, writer, requests, sent, pages, forms>>

\* Of the shop and the settings, or of the settings alone: then without the lock.
Refresh ==
  /\ refreshes < MaxRefreshes /\ refreshes' = refreshes + 1
  /\ \E now \in Instants :
       settings' = [settings EXCEPT !.updatedAt = now, !.rewound = @ \/ now <= settings.updatedAt]
  /\ UNCHANGED <<clock, standing, mapped, lock, preferences, writer, requests, sent, pages, forms>>

InTab(t) ==
  \/ Read(t) \/ Show(t) \/ Leave(t)
  \/ \E f \in Forms : Submit(t, f) \/ Reconcile(t, f) \/ TimeOut(t, f)

OfRequest(r) == Authorize(r) \/ SaveFeatures(r) \/ Check(r) \/ Save(r) \/ Deliver(r)

Next ==
  \/ \E t \in Tabs : InTab(t)
  \/ \E r \in 1..MaxRequests : OfRequest(r)
  \/ Abort \/ Tick \/ Stand \/ (\E f \in Features : Map(f)) \/ Uninstall \/ Refresh

Spec == Init /\ [][Next]_vars

-----------------------------------------------------------------------------
TypeOK ==
  /\ settings.updatedAt \in 1..(MaxClock + MaxRequests) /\ settings.delay \in {0, 1}
  /\ settings.mode = "FIXED" => settings.selection # {} \/ settings.rewound
  /\ Current \in Values
  /\ \A f \in Features : preferences[f].enabled => preferences[f].at \in 1..clock
  /\ \A r \in 1..MaxRequests : requests[r].at = "unsent" <=> r > sent
  /\ \A t \in Tabs, f \in Forms : forms[t][f].attempt <= sent /\ forms[t][f].operation <= forms[t][f].attempt

Writes(r) == requests'[r].wrote /\ ~requests[r].wrote

(* Whatever the order in which the tabs load, save and retry, and whatever    *)
(* refreshes come between the read of a save and its write, a save of the     *)
(* policy or of the delay replaces only values that its merchant was shown:   *)
(* no save of another tab or form is lost.  Until the revision was "rewound": *)
(* an uninstallation withdraws discounts under the same revision, a refresh   *)
(* comes with a clock that is behind, or a save has written the revision of a *)
(* refresh that it has not read, or an earlier one.                           *)
NoLostUpdate ==
  [][\A r \in 1..MaxRequests :
       Writes(r) /\ requests[r].form # "features" /\ ~settings.rewound =>
         \A field \in {"mode", "selection", "delay"} : requests[r].seen[field] = settings[field]]_vars

(* "One intent": however many times an operation is sent, it takes effect at  *)
(* most once, and never after one of its requests was answered with a         *)
(* conflict; nor are features that were saved by an operation whose answer    *)
(* was lost reported as changed elsewhere when the operation is checked.      *)
TakesEffectOnce ==
  [][\A r \in 1..MaxRequests :
       /\ \A q \in (1..MaxRequests) \ {r} :
            Writes(r) /\ requests[q].operation = requests[r].operation /\ ~settings.rewound =>
              /\ ~requests[q].wrote
              /\ requests[r].form # "features" => requests[q].reply # "CONFLICT"
       /\ requests'[r].reply = "CONFLICT" /\ requests[r].reply = "none" /\ requests[r].form = "features" =>
            writer # requests[r].operation]_vars

(* "Stale-response fencing": a form that no longer saves tells the outcome of *)
(* the last request of its operation, not of one that it gave up before.      *)
SettledByLastAttempt ==
  \A t \in Tabs, f \in Forms :
    LET held == forms[t][f]
    IN held.phase \in {"saved", "error"} =>
         /\ requests[held.attempt].at = "done"
         /\ requests[held.attempt].reply = IF held.phase = "saved" THEN "ok" ELSE held.error

(* What holds of the rows and of the forms that save them, whichever answers  *)
(* are lost or overtaken.                                                     *)
SettingsInv ==
  /\ TypeOK
  /\ SettledByLastAttempt

=============================================================================
