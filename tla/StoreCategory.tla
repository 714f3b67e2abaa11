--------------------------- MODULE StoreCategory ----------------------------
(***************************************************************************)
(* The store category of a shop and the agent prompt that follows from it  *)
(* (services/store-profile): the merchant selects a category in one of     *)
(* several tabs; before the first activation a selection is a draft, which *)
(* the billing callback or the onboarding's resumption publishes, and      *)
(* afterwards it is published at once.  Categories are edited meanwhile,   *)
(* replies get lost and the subscription comes and goes.                   *)
(*                                                                         *)
(* A category with its default template and its mappings is one entry with *)
(* an edit version; its prompt always renders.  The shop row is active.    *)
(***************************************************************************)
EXTENDS Naturals, Sequences

CONSTANTS
  Tabs, Categories, None,
  MaxGeneration,    \* bound: selections
  MaxVersion        \* bound: edits of a category

ASSUME NoneIsNoCategory == None \notin Categories
ASSUME BoundsAssumption == MaxGeneration \in Nat /\ MaxVersion \in Nat \ {0}

VARIABLES
  catalogue,   \* each category: edit version, enabled
  profile,     \* CommerceShopProfile: active, pending, revision, generation
  revisions,   \* the prompt revisions of the shop's lineage, by number
  config,      \* CommerceAgentConfiguration: the active revision, 0 without a row
  live,        \* the Subscription row is ACTIVE or TRIALING and has a plan
  onboarded,   \* Shop.onboardingCompleted
  callback,    \* how far the billing callback is
  tabs         \* what each tab shows and does

vars == <<catalogue, profile, revisions, config, live, onboarded, callback, tabs>>
rows == <<profile, revisions, config>>

-----------------------------------------------------------------------------
Entry == [version : 1..MaxVersion, enabled : BOOLEAN]

\* resumed is resumeRequestedGeneration, fresh a reply or load that nothing has overtaken.
Closed == [at |-> "closed", generation |-> 0, category |-> None, version |-> 0,
           resumed |-> None, onboarding |-> FALSE, error |-> "none", fresh |-> FALSE]

At(t, step) == tabs[t].at = step
Becomes(t, next) == tabs' = [tabs EXCEPT ![t] = next]
Shows(t, error) == Becomes(t, [tabs[t] EXCEPT !.at = "shown", !.error = error])

\* Another write overtakes what the other tabs show.
Overtake(t, next) ==
  tabs' = [u \in Tabs |-> IF u = t THEN next ELSE [tabs[u] EXCEPT !.fresh = FALSE]]

Init ==
  /\ catalogue = [c \in Categories |-> [version |-> 1, enabled |-> TRUE]]
  /\ profile = [active |-> None, pending |-> None, revision |-> 0, generation |-> 0]
  /\ revisions = <<>> /\ config = 0
  /\ live = FALSE /\ onboarded = FALSE
  /\ callback = "none"
  /\ tabs = [t \in Tabs |-> Closed]

-----------------------------------------------------------------------------
\* What the pages are shown of the profile.
loadStoreProfile ==
  [activeCategory |-> profile.active, pendingCategory |-> profile.pending,
   pendingTemplate |-> IF profile.revision = 0 THEN 0 ELSE revisions[profile.revision].version,
   pendingSelectionGeneration |-> profile.generation]

(* The loaders show the profile; while a subscription exists and no category *)
(* is active, the onboarding page resumes a pending one by itself, which it  *)
(* shows as the selected one.                                                *)
Load(t) ==
  /\ tabs[t].at \in {"closed", "shown"}
  /\ LET loaded   == loadStoreProfile
         resuming == ~onboarded /\ live /\ loaded.activeCategory = None
         itself   == resuming /\ loaded.pendingCategory # None
     IN Becomes(t, [Closed EXCEPT
          !.at = IF itself THEN "resume" ELSE "shown",
          !.generation = loaded.pendingSelectionGeneration, !.onboarding = resuming, !.fresh = TRUE,
          !.category = IF itself THEN loaded.pendingCategory ELSE None,
          !.version = IF itself THEN loaded.pendingTemplate ELSE 0,
          !.resumed = IF itself THEN loaded.pendingSelectionGeneration ELSE None])
  /\ UNCHANGED <<catalogue, rows, live, onboarded, callback>>

Choose(t, c) ==
  /\ At(t, "shown") /\ tabs[t].generation < MaxGeneration
  /\ Becomes(t, [tabs[t] EXCEPT !.at = "check", !.category = c, !.error = "none"])
  /\ UNCHANGED <<catalogue, rows, live, onboarded, callback>>

CheckGeneration(t) ==
  /\ At(t, "check")
  /\ IF profile.generation = tabs[t].generation
     THEN Becomes(t, [tabs[t] EXCEPT !.at = "prepare"]) ELSE Shows(t, "CONFLICT")
  /\ UNCHANGED <<catalogue, rows, live, onboarded, callback>>

\* prepareStoreCategorySelection
Prepare(t) ==
  /\ At(t, "prepare")
  /\ LET entry == catalogue[tabs[t].category]
     IN IF entry.enabled THEN Becomes(t, [tabs[t] EXCEPT !.at = "commit", !.version = entry.version])
        ELSE Shows(t, "CATEGORY_UNAVAILABLE")
  /\ UNCHANGED <<catalogue, rows, live, onboarded, callback>>

\* assertPreparedSelectionStillCurrent
StillCurrent(category, version) == catalogue[category] = [version |-> version, enabled |-> TRUE]

Draft == {n \in DOMAIN revisions : revisions[n].status = "DRAFT"}

\* The revision a selection writes: the profile's pending draft, or a new one.
Target == IF profile.revision # 0 THEN profile.revision ELSE Len(revisions) + 1

TargetConflict ==
  IF profile.revision # 0 THEN profile.revision \notin Draft ELSE Draft # {}

Conflicts(category, version, generation) ==
  \/ profile.generation # generation
  \/ ~StillCurrent(category, version)
  \/ TargetConflict

Written(revision) ==
  IF Target > Len(revisions) THEN Append(revisions, revision)
  ELSE [revisions EXCEPT ![Target] = revision]

\* createStoreCategoryPromptSourceContext: what a prompt revision was rendered from.
PromptRevision(status, category, version) ==
  [status |-> status, category |-> category, version |-> version]

Selected(category, version) ==
  LET status == IF profile.active = None THEN "DRAFT" ELSE "PUBLISHED"
  IN /\ revisions' = Written(PromptRevision(status, category, version))
     /\ IF status = "DRAFT"
        THEN /\ profile' = [profile EXCEPT !.pending = category, !.revision = Target, !.generation = @ + 1]
             /\ UNCHANGED config
        ELSE /\ profile' = [active |-> category, pending |-> None, revision |-> 0,
                            generation |-> profile.generation + 1]
             /\ config' = Target

(* Slip: the page goes on with the generation it was loaded with. *)
AnsweredOld(t) ==
  [tabs[t] EXCEPT !.at = IF tabs[t].onboarding THEN "resume" ELSE "shown",
                  !.resumed = IF tabs[t].onboarding THEN profile.generation + 1 ELSE @]

\* The reply brings the new generation, with which the onboarding page resumes.
Answered(t) ==
  [tabs[t] EXCEPT !.generation = profile.generation + 1,
                  !.at = IF @ = "commit" /\ tabs[t].onboarding THEN "resume" ELSE "shown",
                  !.resumed = IF tabs[t].onboarding THEN profile.generation + 1 ELSE @]

\* selectPendingStoreCategory's transaction, under the lock of the shop row.
CommitSelection(t) ==
  /\ At(t, "commit")
  /\ IF Conflicts(tabs[t].category, tabs[t].version, tabs[t].generation)
     THEN Shows(t, "CONFLICT") /\ UNCHANGED rows
     ELSE /\ Selected(tabs[t].category, tabs[t].version)
          /\ \/ Overtake(t, Answered(t))
             \/ Overtake(t, [tabs[t] EXCEPT !.at = "shown", !.error = "LOST", !.fresh = FALSE])
  /\ UNCHANGED <<catalogue, live, onboarded, callback>>

-----------------------------------------------------------------------------
(* activateInitialPendingStoreCategoryIfEligible.                            *)
Eligible == live /\ profile.active = None /\ profile.pending # None

(* Slip: the configuration keeps the revision it has. *)
PublishUnconfigured ==
  /\ revisions' = [revisions EXCEPT ![profile.revision].status = "PUBLISHED"]
  /\ profile' = [profile EXCEPT !.active = profile.pending, !.pending = None, !.revision = 0]
  /\ UNCHANGED config

Publish ==
  /\ revisions' = [revisions EXCEPT ![profile.revision].status = "PUBLISHED"]
  /\ config' = profile.revision
  /\ profile' = [profile EXCEPT !.active = profile.pending, !.pending = None, !.revision = 0]

\* The onboarding's resumption reads the synchronized row, then activates.
ResumeSync(t) ==
  /\ At(t, "resume")
  /\ IF onboarded THEN Becomes(t, [tabs[t] EXCEPT !.at = "done"])
     ELSE IF live THEN Becomes(t, [tabs[t] EXCEPT !.at = "activate"])
     ELSE Shows(t, "BILLING_RECONCILIATION_REQUIRED")
  /\ UNCHANGED <<catalogue, rows, live, onboarded, callback>>

(* Slip: whatever is pending is activated. *)
ResumeConflictsNever(t) == FALSE

ResumeConflicts(t) == Eligible /\ tabs[t].resumed # profile.generation

ResumeActivate(t) ==
  /\ At(t, "activate")
  /\ CASE live /\ profile.active # None ->
            Becomes(t, [tabs[t] EXCEPT !.at = "milestone"]) /\ UNCHANGED rows
       [] Eligible /\ ~ResumeConflicts(t) ->
            Publish /\ Becomes(t, [tabs[t] EXCEPT !.at = "milestone"])
       [] OTHER ->
            Shows(t, IF ResumeConflicts(t) THEN "CONFLICT" ELSE "CATEGORY_ACTIVATION_REQUIRED") /\ UNCHANGED rows
  /\ UNCHANGED <<catalogue, live, onboarded, callback>>

\* The shop row and its settings, in one transaction.
persistShopifyOnboardingMilestone == onboarded' = TRUE

ResumeMilestone(t) ==
  /\ At(t, "milestone")
  /\ persistShopifyOnboardingMilestone
  /\ Becomes(t, [tabs[t] EXCEPT !.at = "done"])
  /\ UNCHANGED <<catalogue, rows, live, callback>>

\* The milestone comes before the first plan is prepared, and stays when that fails.
CallbackMilestone ==
  /\ callback = "none"
  /\ persistShopifyOnboardingMilestone
  /\ callback' = "subscribed"
  /\ UNCHANGED <<catalogue, rows, live, tabs>>

\* A callback for a later plan starts here, and a process may have died.
CallbackHosted ==
  /\ callback \in {"none", "subscribed"}
  /\ callback' = IF callback = "none" THEN "subscribed" ELSE "none"
  /\ UNCHANGED <<catalogue, rows, live, onboarded, tabs>>

CallbackActivate ==
  /\ callback = "subscribed" /\ live
  /\ IF Eligible THEN Publish ELSE UNCHANGED rows
  /\ callback' = "none"
  /\ UNCHANGED <<catalogue, live, onboarded, tabs>>

-----------------------------------------------------------------------------
\* The catalogue's editor, Shopify, and the merchant who closes a tab.
Edit(c) ==
  /\ catalogue[c].version < MaxVersion
  /\ \E enabled \in BOOLEAN :
       catalogue' = [catalogue EXCEPT ![c] = [version |-> @.version + 1, enabled |-> enabled]]
  /\ Overtake(None, Closed)
  /\ UNCHANGED <<rows, live, onboarded, callback>>

SubscriptionMoves ==
  /\ live' = ~live
  /\ UNCHANGED <<catalogue, rows, onboarded, callback, tabs>>

Close(t) ==
  /\ tabs[t].at # "closed"
  /\ Becomes(t, Closed)
  /\ UNCHANGED <<catalogue, rows, live, onboarded, callback>>

InTab(t) ==
  \/ Load(t) \/ (\E c \in Categories : Choose(t, c)) \/ CheckGeneration(t) \/ Prepare(t) \/ CommitSelection(t)
  \/ ResumeSync(t) \/ ResumeActivate(t) \/ ResumeMilestone(t) \/ Close(t)

Next ==
  \/ \E t \in Tabs : InTab(t)
  \/ CallbackMilestone \/ CallbackHosted \/ CallbackActivate
  \/ (\E c \in Categories : Edit(c)) \/ SubscriptionMoves

Spec == Init /\ [][Next]_vars

-----------------------------------------------------------------------------
TypeOK ==
  /\ catalogue \in [Categories -> Entry]
  /\ profile \in [active : Categories \cup {None}, pending : Categories \cup {None},
                  revision : 0..Len(revisions), generation : 0..MaxGeneration]
  /\ config \in 0..Len(revisions)
  /\ \A n \in DOMAIN revisions : revisions[n] \in
       [status : {"DRAFT", "PUBLISHED"}, category : Categories, version : 1..MaxVersion]
  /\ \A t \in Tabs : tabs[t].generation \in 0..MaxGeneration

(* The agent speaks for the category the profile shows as active: whichever   *)
(* of the callback, the resumption and a later selection made it active, the  *)
(* configuration points to a published revision of that category.             *)
PromptMatchesCategory ==
  IF profile.active = None THEN config = 0
  ELSE /\ config # 0
       /\ revisions[config].status = "PUBLISHED"
       /\ revisions[config].category = profile.active

(* No order of selections, activations and edits leaves the shop in a state   *)
(* in which a selection made from an up to date page is refused for good.     *)
SelectionStaysPossible ==
  \A c \in Categories :
    catalogue[c].enabled => ~Conflicts(c, catalogue[c].version, profile.generation)

(* A merchant whose page nothing has overtaken since its last load or reply   *)
(* is never told of a conflict, in a series of selections and resumptions.    *)
ConflictMeansOvertaken ==
  [][\A t \in Tabs : tabs'[t].error = "CONFLICT" /\ tabs[t].error # "CONFLICT" => ~tabs[t].fresh]_vars

(* The onboarding's resumption puts live what its page shows: the category    *)
(* that was pending when it loaded, or that it selected, with the prompt      *)
(* rendered from the same version of the template, whatever other tabs have   *)
(* selected or the editors have changed since.                                *)
ResumesItsSelection ==
  [][\A t \in Tabs : At(t, "activate") /\ profile.active = None /\ profile'.active # None
       /\ tabs'[t].at = "milestone" =>
         /\ profile'.active = tabs[t].category
         /\ revisions'[config'] = PromptRevision("PUBLISHED", tabs[t].category, tabs[t].version)]_vars

(* What holds of the profile and the configuration between any two steps of   *)
(* the pages, the callback and the editors.                                   *)
CategoryInv ==
  /\ TypeOK
  /\ PromptMatchesCategory
  /\ SelectionStaysPossible

=============================================================================
