------------------------ MODULE MerchantPagesProofs -------------------------
(* Proofs about what a merchant's pages show and select: the store category,  *)
(* and which pages a shop may see.                                            *)
EXTENDS StoreCategory, MerchantAccess, SequenceTheorems, TLAPS

-----------------------------------------------------------------------------
(* Proofs about StoreCategory, for any number of tabs, categories, selections *)
(* and edits.  The prompt follows the category because the lineage has one    *)
(* draft at most, the profile's pending revision, and it was rendered for the *)
(* pending category; a fresh tab meets no conflict because it knows the       *)
(* generation, and every write that moves it makes the others' pages stale.   *)

Revision == [status : {"DRAFT", "PUBLISHED"}, category : Categories, version : 1..MaxVersion]

Profile == [active : Categories \cup {None}, pending : Categories \cup {None},
            revision : Nat, generation : 0..MaxGeneration]

Steps == {"closed", "shown", "check", "prepare", "commit", "resume", "activate", "milestone", "done"}

Errors == {"none", "CONFLICT", "CATEGORY_UNAVAILABLE", "LOST",
           "BILLING_RECONCILIATION_REQUIRED", "CATEGORY_ACTIVATION_REQUIRED"}

TabStates ==
  [at : Steps, generation : 0..MaxGeneration, category : Categories \cup {None}, version : 0..MaxVersion,
   resumed : (0..MaxGeneration) \cup {None}, onboarding : BOOLEAN, error : Errors, fresh : BOOLEAN]

(* The lineage's only draft is the one the profile points to, and it was      *)
(* rendered for the pending category; an active category has none pending.    *)
DraftOfProfile ==
  /\ Draft = IF profile.revision = 0 THEN {} ELSE {profile.revision}
  /\ (profile.revision = 0) = (profile.pending = None)
  /\ profile.pending # None => profile.active = None /\ revisions[profile.revision].category = profile.pending

RowsOK ==
  /\ catalogue \in [Categories -> Entry]
  /\ profile \in Profile
  /\ profile.revision <= Len(revisions)
  /\ revisions \in Seq(Revision)
  /\ config \in 0..Len(revisions)
  /\ PromptMatchesCategory
  /\ DraftOfProfile

(* A selection under way is of a category, from a generation that can still   *)
(* move; a tab that nothing has overtaken knows the generation and the entry. *)
TabOK(tab) ==
  /\ tab.at \in {"check", "prepare", "commit"} => tab.category \in Categories /\ tab.generation < MaxGeneration
  /\ tab.at = "commit" => tab.version \in 1..MaxVersion
  /\ tab.fresh =>
       /\ tab.at # "closed" => tab.generation = profile.generation
       /\ tab.at \in {"resume", "activate"} => tab.resumed = profile.generation
       /\ tab.at = "commit" => StillCurrent(tab.category, tab.version)

IInv ==
  /\ RowsOK
  /\ tabs \in [Tabs -> TabStates]
  /\ \A t \in Tabs : TabOK(tabs[t])

-----------------------------------------------------------------------------
LEMMA RowsKept ==
  ASSUME RowsOK, UNCHANGED <<catalogue, profile, revisions, config>>
  PROVE  RowsOK'
BY DEF RowsOK, PromptMatchesCategory, DraftOfProfile, Draft, Entry, Profile, Revision

(* One tab moves; whatever else happens, neither the generation nor an entry  *)
(* does.                                                                      *)
LEMMA OneTab ==
  ASSUME IInv, RowsOK', NEW t \in Tabs, NEW new \in TabStates, TabOK(new), Becomes(t, new),
         catalogue' = catalogue, profile'.generation = profile.generation
  PROVE  IInv'
<1>1. tabs' \in [Tabs -> TabStates] /\ \A u \in Tabs : tabs'[u] = IF u = t THEN new ELSE tabs[u]
  BY DEF IInv, Becomes
<1>2. (\A u \in Tabs : TabOK(tabs[u]))'
  <2> SUFFICES ASSUME NEW u \in Tabs PROVE TabOK(tabs[u])'
    OBVIOUS
  <2>1. PICK p \in TabStates : p = tabs'[u] /\ TabOK(p)
    BY <1>1 DEF IInv
  <2> QED  BY <2>1 DEF TabOK, StillCurrent
<1> QED  BY <1>1, <1>2 DEF IInv

(* No tab moves, nor what tabs are compared with.                             *)
LEMMA TabsKept ==
  ASSUME IInv, RowsOK', tabs' = tabs, catalogue' = catalogue, profile'.generation = profile.generation
  PROVE  IInv'
BY DEF IInv, TabOK, StillCurrent

(* A write that moves the generation or an entry makes the other tabs stale.  *)
LEMMA OtherTabs ==
  ASSUME IInv, NEW t, NEW new, Overtake(t, new), t \in Tabs => new \in TabStates
  PROVE  /\ tabs' \in [Tabs -> TabStates]
         /\ t \in Tabs => tabs'[t] = new
         /\ \A u \in Tabs : u # t => TabOK(tabs[u])'
<1>1. \A u \in Tabs : tabs'[u] = IF u = t THEN new ELSE [tabs[u] EXCEPT !.fresh = FALSE]
  BY DEF Overtake
<1>2. \A u \in Tabs : u # t => tabs'[u] \in TabStates
  <2>1. \A p \in TabStates : [p EXCEPT !.fresh = FALSE] \in TabStates
    BY DEF TabStates
  <2> QED  BY <1>1, <2>1 DEF IInv
<1>3. tabs' \in [Tabs -> TabStates]
  BY <1>1, <1>2 DEF Overtake
<1>4. ASSUME NEW u \in Tabs, u # t PROVE TabOK(tabs[u])'
  <2>1. tabs[u] \in TabStates /\ TabOK(tabs[u]) /\ tabs'[u] = [tabs[u] EXCEPT !.fresh = FALSE]
    BY <1>1, <1>4 DEF IInv
  <2>2. /\ tabs'[u].fresh = FALSE /\ tabs'[u].at = tabs[u].at /\ tabs'[u].category = tabs[u].category
        /\ tabs'[u].generation = tabs[u].generation /\ tabs'[u].version = tabs[u].version
    BY <2>1 DEF TabStates
  <2> QED  BY <2>1, <2>2 DEF TabOK
<1> QED  BY <1>1, <1>3, <1>4

(* A tab that gets an answer without a write shows it.                        *)
LEMMA ShowsKeeps ==
  ASSUME IInv, NEW t \in Tabs, tabs[t].at # "closed", NEW error \in Errors, Shows(t, error),
         UNCHANGED <<catalogue, profile, revisions, config>>
  PROVE  IInv'
<1> DEFINE new == [tabs[t] EXCEPT !.at = "shown", !.error = error]
<1>1. Becomes(t, new) /\ tabs[t] \in TabStates /\ TabOK(tabs[t])
  BY DEF Shows, IInv
<1>2. new \in TabStates
  BY <1>1 DEF TabStates, Steps
<1>3. new.at = "shown" /\ new.fresh = tabs[t].fresh /\ new.generation = tabs[t].generation
  BY <1>1 DEF TabStates
<1> HIDE DEF new
<1>4. TabOK(new)
  BY <1>1, <1>3 DEF TabOK
<1>5. RowsOK'
  BY RowsKept DEF IInv
<1> QED  BY <1>1, <1>2, <1>4, <1>5, OneTab

(* A tab goes one step on with what it holds.                                 *)
LEMMA MovesOn ==
  ASSUME IInv, RowsOK', NEW t \in Tabs, NEW step \in Steps \ {"closed", "check", "prepare", "commit"},
         tabs[t].at # "closed",
         step \in {"resume", "activate"} => tabs[t].at \in {"resume", "activate"},
         Becomes(t, [tabs[t] EXCEPT !.at = step]),
         catalogue' = catalogue, profile'.generation = profile.generation
  PROVE  IInv'
<1> DEFINE new == [tabs[t] EXCEPT !.at = step]
<1>1. tabs[t] \in TabStates /\ TabOK(tabs[t])
  BY DEF IInv
<1>2. new \in TabStates
  BY <1>1 DEF TabStates
<1>3. /\ new.at = step /\ new.fresh = tabs[t].fresh /\ new.generation = tabs[t].generation
      /\ new.resumed = tabs[t].resumed
  BY <1>1 DEF TabStates
<1> HIDE DEF new
<1>4. TabOK(new)
  BY <1>1, <1>3 DEF TabOK
<1> QED  BY <1>2, <1>4, OneTab DEF new

-----------------------------------------------------------------------------
(* The two writes of the rows.                                                *)

(* Sequences as the writes need them.                                         *)
LEMMA RevisionsTyped ==
  ASSUME RowsOK
  PROVE  /\ Len(revisions) \in Nat /\ DOMAIN revisions = 1..Len(revisions)
         /\ \A n \in DOMAIN revisions : revisions[n] \in Revision
         /\ profile.revision \in 0..Len(revisions)
         /\ profile.revision # 0 =>
              profile.revision \in DOMAIN revisions /\ revisions[profile.revision].status = "DRAFT"
<1>1. /\ revisions \in Seq(Revision) /\ profile \in Profile /\ profile.revision <= Len(revisions)
      /\ profile.revision # 0 => profile.revision \in Draft
  BY DEF RowsOK, DraftOfProfile
<1>2. Len(revisions) \in Nat /\ DOMAIN revisions = 1..Len(revisions)
  BY <1>1, LenProperties
<1>3. \A n \in DOMAIN revisions : revisions[n] \in Revision
  BY <1>1, <1>2, ElementOfSeq
<1>4. profile.revision \in Nat
  BY <1>1 DEF Profile
<1> QED  BY <1>1, <1>2, <1>3, <1>4 DEF Draft

(* A selection that meets no conflict writes one revision of its category: a  *)
(* new one, or the pending draft in place.                                    *)
LEMMA WrittenRevision ==
  ASSUME RowsOK, ~TargetConflict, NEW new \in Revision, revisions' = Written(new)
  PROVE  /\ Target \in Nat \ {0} /\ revisions' \in Seq(Revision) /\ Target <= Len(revisions')
         /\ Len(revisions) <= Len(revisions') /\ Len(revisions') \in Nat
         /\ revisions'[Target] = new
         /\ \A n \in DOMAIN revisions : n # Target => revisions'[n] = revisions[n]
         /\ DOMAIN revisions' = DOMAIN revisions \cup {Target}
         /\ profile.revision = 0 => Target \notin DOMAIN revisions
<1>1. /\ Len(revisions) \in Nat /\ DOMAIN revisions = 1..Len(revisions) /\ revisions \in Seq(Revision)
      /\ profile.revision \in 0..Len(revisions)
  BY RevisionsTyped DEF RowsOK
<1>2. CASE profile.revision = 0
  <2>0. Target = Len(revisions) + 1 /\ Target > Len(revisions)
    BY <1>1, <1>2 DEF Target
  <2>1. Target = Len(revisions) + 1 /\ revisions' = Append(revisions, new)
    BY <2>0, Zenon DEF Written
  <2>2. /\ revisions' \in Seq(Revision) /\ Len(revisions') = Len(revisions) + 1
        /\ \A n \in 1..Len(revisions) : revisions'[n] = revisions[n]
        /\ revisions'[Len(revisions) + 1] = new
    BY <1>1, <2>1
  <2>3. DOMAIN revisions' = 1..Len(revisions) + 1
    BY <2>2, LenProperties
  <2> QED  BY <1>1, <1>2, <2>1, <2>2, <2>3
<1>3. CASE profile.revision # 0
  <2>0. Target = profile.revision /\ Target \in 1..Len(revisions) /\ ~(Target > Len(revisions))
    BY <1>1, <1>3 DEF Target
  <2>1. Target = profile.revision /\ Target \in 1..Len(revisions) /\ revisions' = [revisions EXCEPT ![Target] = new]
    BY <2>0, Zenon DEF Written
  <2>2. /\ revisions' \in Seq(Revision) /\ Len(revisions') = Len(revisions)
        /\ \A n \in 1..Len(revisions) : revisions'[n] = IF n = Target THEN new ELSE revisions[n]
    BY <1>1, <2>1, ExceptSeq
  <2>3. DOMAIN revisions' = DOMAIN revisions
    BY <1>1, <2>2, LenProperties
  <2> HIDE DEF Target
  <2> QED  BY <1>1, <1>3, <2>1, <2>2, <2>3
<1> QED  BY <1>2, <1>3

LEMMA SelectionKeepsRows ==
  ASSUME RowsOK, NEW category \in Categories, NEW version \in 1..MaxVersion, catalogue' = catalogue,
         ~TargetConflict, profile.generation < MaxGeneration, Selected(category, version)
  PROVE  RowsOK' /\ profile'.generation = profile.generation + 1
<1> DEFINE status == IF profile.active = None THEN "DRAFT" ELSE "PUBLISHED"
           new == PromptRevision(status, category, version)
           drafted == [profile EXCEPT !.pending = category, !.revision = Target, !.generation = @ + 1]
           published == [active |-> category, pending |-> None, revision |-> 0, generation |-> profile.generation + 1]
<1>1. /\ revisions' = Written(new)
      /\ status = "DRAFT" => profile' = drafted /\ config' = config
      /\ status # "DRAFT" => profile' = published /\ config' = Target
  BY DEF Selected
<1>2. new \in Revision /\ new.status = status /\ new.category = category
  BY DEF PromptRevision, Revision
<1>3. /\ profile \in Profile /\ config \in 0..Len(revisions) /\ category # None
      /\ profile.generation + 1 \in 0..MaxGeneration
  BY NoneIsNoCategory, BoundsAssumption DEF RowsOK, Profile
<1>4. /\ Len(revisions) \in Nat /\ DOMAIN revisions = 1..Len(revisions)
      /\ Draft = IF profile.revision = 0 THEN {} ELSE {profile.revision}
      /\ profile.active # None => profile.revision = 0
  BY RevisionsTyped DEF RowsOK, DraftOfProfile
<1> HIDE DEF new
<1>5. /\ Target \in Nat \ {0} /\ revisions' \in Seq(Revision) /\ Target <= Len(revisions')
      /\ Len(revisions) <= Len(revisions') /\ Len(revisions') \in Nat
      /\ revisions'[Target] = new
      /\ \A n \in DOMAIN revisions : n # Target => revisions'[n] = revisions[n]
      /\ DOMAIN revisions' = DOMAIN revisions \cup {Target}
      /\ profile.revision = 0 => Target \notin DOMAIN revisions
      /\ profile.revision # 0 => Target = profile.revision
  BY <1>1, <1>2, WrittenRevision DEF Target
<1>6. Draft' = {n \in DOMAIN revisions' : revisions'[n].status = "DRAFT"}
  BY DEF Draft
<1>7. \A n \in DOMAIN revisions : revisions[n].status = "DRAFT" => n = profile.revision
  BY <1>4 DEF Draft
<1> HIDE DEF Target
<1>8. catalogue' \in [Categories -> Entry]
  BY DEF RowsOK, Entry
<1>9. CASE profile.active = None
  <2>1. profile' = drafted /\ config' = config /\ status = "DRAFT"
    BY <1>1, <1>9
  <2>2. drafted \in Profile
    BY <1>3, <1>5 DEF Profile
  <2>3. /\ drafted.active = None /\ drafted.pending = category /\ drafted.revision = Target
        /\ drafted.generation = profile.generation + 1
    BY <1>3, <1>9 DEF Profile
  <2> HIDE DEF drafted, status
  <2>4. Draft' = {Target}
    BY <1>2, <1>5, <1>6, <1>7, <2>1
  <2>5. DraftOfProfile'
    BY <1>2, <1>3, <1>5, <2>1, <2>3, <2>4 DEF DraftOfProfile
  <2>6. config = 0 /\ PromptMatchesCategory'
    BY <1>9, <2>1, <2>3 DEF RowsOK, PromptMatchesCategory
  <2>7. profile' \in Profile /\ profile'.revision <= Len(revisions') /\ config' \in 0..Len(revisions')
    BY <1>5, <2>1, <2>2, <2>3, <2>6
  <2> QED  BY <1>5, <1>8, <2>1, <2>3, <2>5, <2>6, <2>7 DEF RowsOK
<1>10. CASE profile.active # None
  <2>1. profile' = published /\ config' = Target /\ status = "PUBLISHED" /\ profile.revision = 0
    BY <1>1, <1>4, <1>10
  <2>2. published \in Profile
    BY <1>3 DEF Profile
  <2>3. /\ published.active = category /\ published.pending = None /\ published.revision = 0
        /\ published.generation = profile.generation + 1
    OBVIOUS
  <2> HIDE DEF published, status
  <2>4. Draft' = {}
    BY <1>2, <1>4, <1>5, <1>6, <1>7, <2>1
  <2>5. DraftOfProfile'
    BY <2>1, <2>3, <2>4 DEF DraftOfProfile
  <2>6. PromptMatchesCategory'
    BY <1>2, <1>3, <1>5, <2>1, <2>3 DEF PromptMatchesCategory
  <2>7. profile' \in Profile /\ profile'.revision <= Len(revisions') /\ config' \in 0..Len(revisions')
    BY <1>5, <2>1, <2>2, <2>3
  <2> QED  BY <1>5, <1>8, <2>1, <2>3, <2>5, <2>6, <2>7 DEF RowsOK
<1> QED  BY <1>9, <1>10

(* The pending category becomes the active one together with its prompt.      *)
LEMMA PublishKeepsRows ==
  ASSUME RowsOK, Eligible, Publish, catalogue' = catalogue
  PROVE  RowsOK' /\ profile'.generation = profile.generation
<1> DEFINE r == profile.revision
           old == revisions[r]
           new == [old EXCEPT !.status = "PUBLISHED"]
           active == [profile EXCEPT !.active = profile.pending, !.pending = None, !.revision = 0]
<1>1. /\ revisions' = [revisions EXCEPT ![r] = new] /\ config' = r /\ profile' = active
  BY DEF Publish
<1>2. /\ profile \in Profile /\ profile.pending # None /\ profile.pending \in Categories
      /\ r # 0 /\ revisions \in Seq(Revision) /\ old.category = profile.pending
      /\ Draft = {r}
  BY DEF RowsOK, Eligible, DraftOfProfile, Profile
<1>3. /\ Len(revisions) \in Nat /\ DOMAIN revisions = 1..Len(revisions) /\ r \in 1..Len(revisions)
      /\ old \in Revision
  BY <1>2, RevisionsTyped
<1>4. new \in Revision /\ new.status = "PUBLISHED" /\ new.category = profile.pending
  BY <1>2, <1>3 DEF Revision
<1>5. active \in Profile
  BY <1>2 DEF Profile
<1>6. /\ active.active = profile.pending /\ active.pending = None /\ active.revision = 0
      /\ active.generation = profile.generation
  BY <1>2 DEF Profile
<1> HIDE DEF new, active
<1>7. /\ revisions' \in Seq(Revision) /\ Len(revisions') = Len(revisions)
      /\ \A n \in 1..Len(revisions) : revisions'[n] = IF n = r THEN new ELSE revisions[n]
  BY <1>1, <1>2, <1>3, <1>4, ExceptSeq
<1>8. DOMAIN revisions' = 1..Len(revisions)
  BY <1>7, LenProperties
<1>9. \A n \in DOMAIN revisions : revisions[n].status = "DRAFT" => n = r
  BY <1>2 DEF Draft
<1> HIDE DEF old, r
<1>10. Draft' = {}
  BY <1>3, <1>4, <1>7, <1>8, <1>9 DEF Draft
<1>11. DraftOfProfile'
  BY <1>1, <1>6, <1>10 DEF DraftOfProfile
<1>12. PromptMatchesCategory'
  BY <1>1, <1>2, <1>3, <1>4, <1>6, <1>7 DEF PromptMatchesCategory
<1>13. catalogue' \in [Categories -> Entry]
  BY DEF RowsOK
<1>14. profile' \in Profile /\ profile'.revision <= Len(revisions') /\ config' \in 0..Len(revisions')
  BY <1>1, <1>2, <1>3, <1>5, <1>6, <1>7
<1> QED  BY <1>1, <1>6, <1>7, <1>11, <1>12, <1>13, <1>14 DEF RowsOK

-----------------------------------------------------------------------------
(* The steps of a page.                                                       *)
LEMMA ClosedOK ==
  ASSUME IInv
  PROVE  Closed \in TabStates /\ TabOK(Closed)
<1>1. 0 \in 0..MaxGeneration /\ 0 \in 0..MaxVersion
  BY BoundsAssumption
<1>2. Closed \in TabStates
  BY <1>1 DEF Closed, TabStates, Steps, Errors
<1>3. TabOK(Closed)
  BY DEF Closed, TabOK
<1> QED  BY <1>2, <1>3

LEMMA LoadKeeps ==
  ASSUME IInv, NEW t \in Tabs, Load(t)
  PROVE  IInv'
<1> DEFINE resuming == ~onboarded /\ live /\ profile.active = None
           itself == resuming /\ profile.pending # None
           at == IF itself THEN "resume" ELSE "shown"
           resumed == IF itself THEN profile.generation ELSE None
           template == IF profile.revision = 0 THEN 0 ELSE revisions[profile.revision].version
           category == IF itself THEN profile.pending ELSE None
           version == IF itself THEN template ELSE 0
           new == [Closed EXCEPT !.at = at, !.generation = profile.generation,
                                 !.onboarding = resuming, !.fresh = TRUE,
                                 !.category = category, !.version = version, !.resumed = resumed]
<1>1. Becomes(t, new) /\ UNCHANGED <<catalogue, profile, revisions, config>>
  BY DEF Load, loadStoreProfile, rows
<1>2. profile.generation \in 0..MaxGeneration /\ category \in Categories \cup {None}
  BY DEF IInv, RowsOK, Profile
<1>. template \in 0..MaxVersion
  BY RevisionsTyped, BoundsAssumption DEF IInv, Revision
<1>. version \in 0..MaxVersion
  BY BoundsAssumption
<1>3. at \in Steps /\ resumed \in (0..MaxGeneration) \cup {None} /\ at \in {"resume", "shown"}
  BY <1>2 DEF Steps
<1>4. resuming \in BOOLEAN
  OBVIOUS
<1>5. at = "resume" => resumed = profile.generation
  OBVIOUS
<1> HIDE DEF at, resumed, itself, resuming, template, category, version
<1>6. new \in TabStates
  BY <1>2, <1>3, <1>4, ClosedOK DEF TabStates
<1>7. new.at = at /\ new.generation = profile.generation /\ new.resumed = resumed
  BY DEF Closed
<1> HIDE DEF new
<1>8. TabOK(new)
  BY <1>3, <1>5, <1>7 DEF TabOK
<1>9. RowsOK'
  BY <1>1, RowsKept DEF IInv
<1> QED  BY <1>1, <1>6, <1>8, <1>9, OneTab

LEMMA ChooseKeeps ==
  ASSUME IInv, NEW t \in Tabs, NEW c \in Categories, Choose(t, c)
  PROVE  IInv'
<1> DEFINE new == [tabs[t] EXCEPT !.at = "check", !.category = c, !.error = "none"]
<1>1. /\ Becomes(t, new) /\ UNCHANGED <<catalogue, profile, revisions, config>>
      /\ tabs[t].at = "shown" /\ tabs[t].generation < MaxGeneration
  BY DEF Choose, At, rows
<1>2. tabs[t] \in TabStates /\ TabOK(tabs[t])
  BY DEF IInv
<1>3. new \in TabStates
  BY <1>2 DEF TabStates, Steps, Errors
<1>4. /\ new.at = "check" /\ new.category = c /\ new.fresh = tabs[t].fresh
      /\ new.generation = tabs[t].generation
  BY <1>2 DEF TabStates
<1> HIDE DEF new
<1>5. TabOK(new)
  BY <1>1, <1>2, <1>4 DEF TabOK
<1>6. RowsOK'
  BY <1>1, RowsKept DEF IInv
<1> QED  BY <1>1, <1>3, <1>5, <1>6, OneTab

LEMMA CheckKeeps ==
  ASSUME IInv, NEW t \in Tabs, CheckGeneration(t)
  PROVE  IInv'
<1>1. tabs[t].at = "check" /\ UNCHANGED <<catalogue, profile, revisions, config>>
  BY DEF CheckGeneration, At, rows
<1>2. tabs[t] \in TabStates /\ TabOK(tabs[t])
  BY DEF IInv
<1>3. CASE profile.generation = tabs[t].generation
  <2> DEFINE new == [tabs[t] EXCEPT !.at = "prepare"]
  <2>1. Becomes(t, new)
    BY <1>3 DEF CheckGeneration
  <2>2. new \in TabStates
    BY <1>2 DEF TabStates, Steps
  <2>3. /\ new.at = "prepare" /\ new.category = tabs[t].category /\ new.fresh = tabs[t].fresh
        /\ new.generation = tabs[t].generation
    BY <1>2 DEF TabStates
  <2> HIDE DEF new
  <2>4. TabOK(new)
    BY <1>1, <1>2, <2>3 DEF TabOK
  <2>5. RowsOK'
    BY <1>1, RowsKept DEF IInv
  <2> QED  BY <1>1, <2>1, <2>2, <2>4, <2>5, OneTab
<1>4. CASE profile.generation # tabs[t].generation
  <2>1. Shows(t, "CONFLICT")
    BY <1>4 DEF CheckGeneration
  <2> QED  BY <1>1, <2>1, ShowsKeeps DEF Errors
<1> QED  BY <1>3, <1>4

LEMMA PrepareKeeps ==
  ASSUME IInv, NEW t \in Tabs, Prepare(t)
  PROVE  IInv'
<1> DEFINE entry == catalogue[tabs[t].category]
<1>1. tabs[t].at = "prepare" /\ UNCHANGED <<catalogue, profile, revisions, config>>
  BY DEF Prepare, At, rows
<1>2. tabs[t] \in TabStates /\ TabOK(tabs[t]) /\ tabs[t].category \in Categories
  BY <1>1 DEF IInv, TabOK
<1>3. entry \in Entry
  BY <1>2 DEF IInv, RowsOK
<1>4. CASE entry.enabled
  <2> DEFINE new == [tabs[t] EXCEPT !.at = "commit", !.version = entry.version]
  <2>1. Becomes(t, new)
    BY <1>4 DEF Prepare
  <2>2. entry.version \in 1..MaxVersion /\ entry.version \in 0..MaxVersion /\ entry.enabled = TRUE
    BY <1>3, <1>4, BoundsAssumption DEF Entry
  <2>3. entry = [version |-> entry.version, enabled |-> TRUE]
    BY <1>3, <2>2 DEF Entry
  <2>4. new \in TabStates
    BY <1>2, <2>2 DEF TabStates, Steps
  <2>5. /\ new.at = "commit" /\ new.category = tabs[t].category /\ new.fresh = tabs[t].fresh
        /\ new.generation = tabs[t].generation /\ new.version = entry.version
    BY <1>2 DEF TabStates
  <2> HIDE DEF new
  <2>6. StillCurrent(new.category, new.version)
    BY <2>3, <2>5 DEF StillCurrent
  <2>7. TabOK(new)
    BY <1>1, <1>2, <2>2, <2>5, <2>6 DEF TabOK
  <2>8. RowsOK'
    BY <1>1, RowsKept DEF IInv
  <2> QED  BY <1>1, <2>1, <2>4, <2>7, <2>8, OneTab
<1>5. CASE ~entry.enabled
  <2>1. Shows(t, "CATEGORY_UNAVAILABLE")
    BY <1>5 DEF Prepare
  <2> QED  BY <1>1, <2>1, ShowsKeeps DEF Errors
<1> QED  BY <1>4, <1>5

(* A selection commits: the generation moves, and every other page is stale.  *)
LEMMA CommitKeeps ==
  ASSUME IInv, NEW t \in Tabs, CommitSelection(t)
  PROVE  IInv'
<1> DEFINE g == profile.generation
           lost == [tabs[t] EXCEPT !.at = "shown", !.error = "LOST", !.fresh = FALSE]
<1>1. tabs[t].at = "commit" /\ catalogue' = catalogue
  BY DEF CommitSelection, At
<1>2. /\ tabs[t] \in TabStates /\ TabOK(tabs[t]) /\ tabs[t].category \in Categories
      /\ tabs[t].version \in 1..MaxVersion /\ tabs[t].generation < MaxGeneration
  BY <1>1 DEF IInv, TabOK
<1>3. CASE Conflicts(tabs[t].category, tabs[t].version, tabs[t].generation)
  <2>1. Shows(t, "CONFLICT") /\ UNCHANGED <<profile, revisions, config>>
    BY <1>3 DEF CommitSelection, rows
  <2> QED  BY <1>1, <2>1, ShowsKeeps DEF Errors
<1>4. CASE ~Conflicts(tabs[t].category, tabs[t].version, tabs[t].generation)
  <2>1. /\ Selected(tabs[t].category, tabs[t].version)
        /\ Overtake(t, Answered(t)) \/ Overtake(t, lost)
    BY <1>4 DEF CommitSelection
  <2>2. g = tabs[t].generation /\ ~TargetConflict
    BY <1>4 DEF Conflicts
  <2>3. RowsOK' /\ profile'.generation = g + 1
    BY <1>1, <1>2, <2>1, <2>2, SelectionKeepsRows DEF IInv
  <2>4. g + 1 \in 0..MaxGeneration
    BY <2>3 DEF RowsOK, Profile
  <2>5. CASE Overtake(t, Answered(t))
    <3> DEFINE new == Answered(t)
               at == IF tabs[t].onboarding THEN "resume" ELSE "shown"
               resumed == IF tabs[t].onboarding THEN g + 1 ELSE tabs[t].resumed
    <3>1. new = [tabs[t] EXCEPT !.generation = g + 1, !.at = at, !.resumed = resumed]
      BY <1>1, <1>2 DEF Answered, TabStates
    <3>2. at \in Steps /\ at \in {"resume", "shown"} /\ resumed \in (0..MaxGeneration) \cup {None}
      BY <1>2, <2>4 DEF Steps, TabStates
    <3>3. at = "resume" => resumed = g + 1
      OBVIOUS
    <3> HIDE DEF at, resumed, new
    <3>4. new \in TabStates
      BY <1>2, <2>4, <3>1, <3>2 DEF TabStates
    <3>5. new.at = at /\ new.generation = g + 1 /\ new.resumed = resumed
      BY <1>2, <3>1 DEF TabStates
    <3>6. /\ tabs' \in [Tabs -> TabStates] /\ tabs'[t] = new
          /\ \A u \in Tabs : u # t => TabOK(tabs[u])'
      BY <2>5, <3>4, OtherTabs DEF new
    <3>7. TabOK(tabs[t])'
      BY <2>3, <3>2, <3>3, <3>5, <3>6 DEF TabOK
    <3> QED  BY <2>3, <3>6, <3>7 DEF IInv
  <2>6. CASE Overtake(t, lost)
    <3>1. lost \in TabStates
      BY <1>2 DEF TabStates, Steps, Errors
    <3>2. lost.at = "shown" /\ lost.fresh = FALSE
      BY <1>2 DEF TabStates
    <3> HIDE DEF lost
    <3>3. /\ tabs' \in [Tabs -> TabStates] /\ tabs'[t] = lost
          /\ \A u \in Tabs : u # t => TabOK(tabs[u])'
      BY <2>6, <3>1, OtherTabs
    <3>4. TabOK(tabs[t])'
      BY <3>2, <3>3 DEF TabOK
    <3> QED  BY <2>3, <3>3, <3>4 DEF IInv
  <2> QED  BY <2>1, <2>5, <2>6
<1> QED  BY <1>3, <1>4

LEMMA ResumeSyncKeeps ==
  ASSUME IInv, NEW t \in Tabs, ResumeSync(t)
  PROVE  IInv'
<1>1. tabs[t].at = "resume" /\ UNCHANGED <<catalogue, profile, revisions, config>>
  BY DEF ResumeSync, At, rows
<1>2. RowsOK'
  BY <1>1, RowsKept DEF IInv
<1>3. \/ Becomes(t, [tabs[t] EXCEPT !.at = "done"])
      \/ Becomes(t, [tabs[t] EXCEPT !.at = "activate"])
      \/ Shows(t, "BILLING_RECONCILIATION_REQUIRED")
  BY DEF ResumeSync
<1>4. {"done", "activate"} \subseteq Steps \ {"closed", "check", "prepare", "commit"}
  BY DEF Steps
<1>5. CASE Becomes(t, [tabs[t] EXCEPT !.at = "done"])
  BY <1>1, <1>2, <1>4, <1>5, MovesOn
<1>6. CASE Becomes(t, [tabs[t] EXCEPT !.at = "activate"])
  BY <1>1, <1>2, <1>4, <1>6, MovesOn
<1>7. CASE Shows(t, "BILLING_RECONCILIATION_REQUIRED")
  BY <1>1, <1>7, ShowsKeeps DEF Errors
<1> QED  BY <1>3, <1>5, <1>6, <1>7

LEMMA ResumeActivateKeeps ==
  ASSUME IInv, NEW t \in Tabs, ResumeActivate(t)
  PROVE  IInv'
<1>1. tabs[t].at = "activate" /\ catalogue' = catalogue
  BY DEF ResumeActivate, At
<1>2. \/ Becomes(t, [tabs[t] EXCEPT !.at = "milestone"]) /\ UNCHANGED rows
      \/ Eligible /\ Publish /\ Becomes(t, [tabs[t] EXCEPT !.at = "milestone"])
      \/ (Shows(t, "CONFLICT") \/ Shows(t, "CATEGORY_ACTIVATION_REQUIRED")) /\ UNCHANGED rows
  BY DEF ResumeActivate
<1>3. "milestone" \in Steps \ {"closed", "check", "prepare", "commit"}
  BY DEF Steps
<1>4. CASE Becomes(t, [tabs[t] EXCEPT !.at = "milestone"]) /\ UNCHANGED rows
  <2>1. RowsOK' /\ profile'.generation = profile.generation
    BY <1>1, <1>4, RowsKept DEF IInv, rows
  <2> QED  BY <1>1, <1>3, <1>4, <2>1, MovesOn
<1>5. CASE Eligible /\ Publish /\ Becomes(t, [tabs[t] EXCEPT !.at = "milestone"])
  <2>1. RowsOK' /\ profile'.generation = profile.generation
    BY <1>1, <1>5, PublishKeepsRows DEF IInv
  <2> QED  BY <1>1, <1>3, <1>5, <2>1, MovesOn
<1>6. CASE (Shows(t, "CONFLICT") \/ Shows(t, "CATEGORY_ACTIVATION_REQUIRED")) /\ UNCHANGED rows
  BY <1>1, <1>6, ShowsKeeps DEF Errors, rows
<1> QED  BY <1>2, <1>4, <1>5, <1>6

LEMMA MilestoneKeeps ==
  ASSUME IInv, NEW t \in Tabs, ResumeMilestone(t)
  PROVE  IInv'
<1>1. /\ tabs[t].at = "milestone" /\ Becomes(t, [tabs[t] EXCEPT !.at = "done"])
      /\ UNCHANGED <<catalogue, profile, revisions, config>>
  BY DEF ResumeMilestone, At, rows
<1>2. RowsOK' /\ "done" \in Steps \ {"closed", "check", "prepare", "commit"}
  BY <1>1, RowsKept DEF IInv, Steps
<1> QED  BY <1>1, <1>2, MovesOn

LEMMA CloseKeeps ==
  ASSUME IInv, NEW t \in Tabs, Close(t)
  PROVE  IInv'
<1>1. Becomes(t, Closed) /\ UNCHANGED <<catalogue, profile, revisions, config>>
  BY DEF Close, rows
<1>2. RowsOK'
  BY <1>1, RowsKept DEF IInv
<1> QED  BY <1>1, <1>2, ClosedOK, OneTab

-----------------------------------------------------------------------------
(* The billing callback, Shopify and the editors of the catalogue.            *)
LEMMA CallbackKeeps ==
  ASSUME IInv, CallbackMilestone \/ CallbackHosted \/ CallbackActivate \/ SubscriptionMoves
  PROVE  IInv'
<1>1. catalogue' = catalogue /\ tabs' = tabs
  BY DEF CallbackMilestone, CallbackHosted, CallbackActivate, SubscriptionMoves
<1>2. UNCHANGED rows \/ (Eligible /\ Publish)
  BY DEF CallbackMilestone, CallbackHosted, CallbackActivate, SubscriptionMoves
<1>3. RowsOK' /\ profile'.generation = profile.generation
  BY <1>1, <1>2, RowsKept, PublishKeepsRows DEF IInv, rows
<1> QED  BY <1>1, <1>3, TabsKept

LEMMA EditKeeps ==
  ASSUME IInv, NEW c \in Categories, Edit(c)
  PROVE  IInv'
<1>1. /\ catalogue[c].version < MaxVersion /\ UNCHANGED <<profile, revisions, config>>
      /\ Overtake(None, Closed)
      /\ \E enabled \in BOOLEAN :
           catalogue' = [catalogue EXCEPT ![c] = [version |-> catalogue[c].version + 1, enabled |-> enabled]]
  BY DEF Edit, rows
<1>2. catalogue \in [Categories -> Entry] /\ catalogue[c].version + 1 \in 1..MaxVersion
  BY <1>1, BoundsAssumption DEF IInv, RowsOK, Entry
<1>3. catalogue' \in [Categories -> Entry]
  BY <1>1, <1>2 DEF Entry
<1>4. RowsOK'
  BY <1>1, <1>3 DEF IInv, RowsOK, PromptMatchesCategory, DraftOfProfile, Draft, Profile, Revision
<1>5. /\ tabs' \in [Tabs -> TabStates]
      /\ None \in Tabs => tabs'[None] = Closed
      /\ \A u \in Tabs : u # None => TabOK(tabs[u])'
  BY <1>1, ClosedOK, OtherTabs
<1>6. None \in Tabs => TabOK(tabs[None])'
  BY <1>5 DEF TabOK, Closed
<1> QED  BY <1>4, <1>5, <1>6 DEF IInv

LEMMA InitHolds == Init => IInv
<1> SUFFICES ASSUME Init PROVE IInv
  OBVIOUS
<1>1. /\ catalogue = [c \in Categories |-> [version |-> 1, enabled |-> TRUE]]
      /\ profile = [active |-> None, pending |-> None, revision |-> 0, generation |-> 0]
      /\ revisions = <<>> /\ config = 0 /\ tabs = [t \in Tabs |-> Closed]
  BY DEF Init
<1>2. 1 \in 1..MaxVersion /\ 0 \in 0..MaxGeneration /\ 0 \in 0..MaxVersion /\ 0 \in Nat
  BY BoundsAssumption
<1>3. [version |-> 1, enabled |-> TRUE] \in Entry
  BY <1>2 DEF Entry
<1>4. catalogue \in [Categories -> Entry] /\ profile \in Profile
  BY <1>1, <1>2, <1>3 DEF Profile
<1>5. revisions \in Seq(Revision) /\ Len(revisions) = 0 /\ DOMAIN revisions = {}
  <2>1. revisions \in Seq(Revision) /\ Len(revisions) = 0
    BY <1>1, EmptySeq
  <2> QED  BY <2>1, LenProperties
<1>6. PromptMatchesCategory /\ DraftOfProfile
  BY <1>1, <1>5 DEF PromptMatchesCategory, DraftOfProfile, Draft
<1>7. profile.revision = 0
  BY <1>1
<1>8. RowsOK
  BY <1>1, <1>4, <1>5, <1>6, <1>7 DEF RowsOK
<1>9. Closed \in TabStates /\ TabOK(Closed)
  BY <1>2 DEF Closed, TabStates, Steps, Errors, TabOK
<1>10. tabs \in [Tabs -> TabStates] /\ \A t \in Tabs : tabs[t] = Closed
  BY <1>1, <1>9
<1> QED  BY <1>8, <1>9, <1>10 DEF IInv

LEMMA NextKeeps == IInv /\ [Next]_vars => IInv'
<1> SUFFICES ASSUME IInv, [Next]_vars PROVE IInv'
  OBVIOUS
<1>1. CASE \E t \in Tabs : InTab(t)
  BY <1>1, LoadKeeps, ChooseKeeps, CheckKeeps, PrepareKeeps, CommitKeeps, ResumeSyncKeeps,
     ResumeActivateKeeps, MilestoneKeeps, CloseKeeps DEF InTab
<1>2. CASE CallbackMilestone \/ CallbackHosted \/ CallbackActivate \/ SubscriptionMoves
  BY <1>2, CallbackKeeps
<1>3. CASE \E c \in Categories : Edit(c)
  BY <1>3, EditKeeps
<1>4. CASE UNCHANGED vars
  <2>1. UNCHANGED <<catalogue, profile, revisions, config, tabs>>
    BY <1>4 DEF vars
  <2>2. RowsOK'
    BY <2>1, RowsKept DEF IInv
  <2> QED  BY <2>1, <2>2, TabsKept
<1> QED  BY <1>1, <1>2, <1>3, <1>4 DEF Next

(* The inductive invariant holds in every reachable state.                    *)
THEOREM InvariantHolds == Spec => []IInv
<1> QED  BY InitHolds, NextKeeps, PTL DEF Spec

LEMMA InvariantImplies == IInv => CategoryInv
<1> SUFFICES ASSUME IInv PROVE CategoryInv
  OBVIOUS
<1>1. /\ Len(revisions) \in Nat /\ DOMAIN revisions = 1..Len(revisions)
      /\ \A n \in DOMAIN revisions : revisions[n] \in Revision
      /\ profile.revision \in 0..Len(revisions)
  BY RevisionsTyped DEF IInv
<1>2. profile \in [active : Categories \cup {None}, pending : Categories \cup {None},
                   revision : 0..Len(revisions), generation : 0..MaxGeneration]
  BY <1>1 DEF IInv, RowsOK, Profile
<1>3. \A t \in Tabs : tabs[t].generation \in 0..MaxGeneration
  BY DEF IInv, TabStates
<1>4. TypeOK
  BY <1>1, <1>2, <1>3 DEF TypeOK, IInv, RowsOK, Revision
<1>5. ~TargetConflict
  BY DEF IInv, RowsOK, DraftOfProfile, TargetConflict
<1>6. \A c \in Categories : catalogue[c].enabled => StillCurrent(c, catalogue[c].version)
  <2> TAKE c \in Categories
  <2>1. catalogue[c] \in Entry
    BY DEF IInv, RowsOK
  <2> QED  BY <2>1 DEF Entry, StillCurrent
<1>7. SelectionStaysPossible
  BY <1>5, <1>6 DEF SelectionStaysPossible, Conflicts
<1> QED  BY <1>4, <1>7 DEF CategoryInv, IInv, RowsOK

(* Whichever of the callback, the resumption and a later selection makes a    *)
(* category active, the published prompt is the category's, and a selection   *)
(* from an up to date page stays possible.                                    *)
THEOREM CategoryHolds == Spec => []CategoryInv
<1> QED  BY InvariantHolds, InvariantImplies, PTL

(* A merchant whose page nothing has overtaken is never told of a conflict.   *)
THEOREM ConflictAlwaysOvertaken == Spec => ConflictMeansOvertaken
<1> DEFINE A == \A t \in Tabs : tabs'[t].error = "CONFLICT" /\ tabs[t].error # "CONFLICT" => ~tabs[t].fresh
<1>1. ASSUME IInv, NEW t \in Tabs, NEW new, Becomes(t, new),
             new.error # "CONFLICT" \/ new.error = tabs[t].error \/ ~tabs[t].fresh
      PROVE  A
  BY <1>1 DEF Becomes, IInv
<1>2. ASSUME IInv, NEW t \in Tabs, NEW error \in Errors, Shows(t, error), error # "CONFLICT" \/ ~tabs[t].fresh
      PROVE  A
  <2>1. [tabs[t] EXCEPT !.at = "shown", !.error = error].error = error
    BY DEF IInv, TabStates
  <2> QED  BY <1>1, <1>2, <2>1 DEF Shows
<1>3. ASSUME IInv, NEW t, NEW new, Overtake(t, new),
             t \in Tabs => new.error # "CONFLICT" \/ new.error = tabs[t].error
      PROVE  A
  <2>1. \A u \in Tabs : u # t => tabs'[u].error = tabs[u].error
    BY <1>3 DEF Overtake, IInv, TabStates
  <2>2. t \in Tabs => tabs'[t] = new
    BY <1>3 DEF Overtake
  <2> QED  BY <1>3, <2>1, <2>2
<1>4. Closed.error = "none"
  BY DEF Closed
<1> HIDE DEF A
<1>5. ASSUME IInv, NEW t \in Tabs, InTab(t) PROVE A
  <2>1. tabs[t] \in TabStates /\ TabOK(tabs[t]) /\ ~TargetConflict
    BY <1>5 DEF IInv, RowsOK, DraftOfProfile, TargetConflict
  <2>2. CASE Load(t) \/ Close(t)
    <3> DEFINE resuming == ~onboarded /\ live /\ profile.active = None
               itself == resuming /\ profile.pending # None
               template == IF profile.revision = 0 THEN 0 ELSE revisions[profile.revision].version
               new == [Closed EXCEPT !.at = IF itself THEN "resume" ELSE "shown", !.generation = profile.generation,
                                     !.onboarding = resuming, !.fresh = TRUE,
                                     !.category = IF itself THEN profile.pending ELSE None,
                                     !.version = IF itself THEN template ELSE 0,
                                     !.resumed = IF itself THEN profile.generation ELSE None]
    <3>1. Becomes(t, new) \/ Becomes(t, Closed)
      BY <2>2 DEF Load, loadStoreProfile, Close
    <3>2. new.error = "none"
      BY DEF Closed
    <3> HIDE DEF new
    <3> QED  BY <1>1, <1>4, <1>5, <3>1, <3>2
  <2>3. ASSUME NEW c \in Categories, Choose(t, c) PROVE A
    <3> DEFINE new == [tabs[t] EXCEPT !.at = "check", !.category = c, !.error = "none"]
    <3>1. Becomes(t, new)
      BY <2>3 DEF Choose
    <3>2. new.error = "none"
      BY <2>1 DEF TabStates
    <3> HIDE DEF new
    <3> QED  BY <1>1, <1>5, <3>1, <3>2
  <2>4. CASE CheckGeneration(t)
    <3>1. tabs[t].at = "check"
      BY <2>4 DEF CheckGeneration, At
    <3>2. CASE profile.generation = tabs[t].generation
      <4>1. Becomes(t, [tabs[t] EXCEPT !.at = "prepare"])
        BY <2>4, <3>2 DEF CheckGeneration
      <4>2. [tabs[t] EXCEPT !.at = "prepare"].error = tabs[t].error
        BY <2>1 DEF TabStates
      <4> QED  BY <1>1, <1>5, <4>1, <4>2
    <3>3. CASE profile.generation # tabs[t].generation
      <4>1. Shows(t, "CONFLICT") /\ ~tabs[t].fresh
        BY <2>1, <2>4, <3>1, <3>3 DEF CheckGeneration, TabOK
      <4> QED  BY <1>2, <1>5, <4>1 DEF Errors
    <3> QED  BY <3>2, <3>3
  <2>5. CASE Prepare(t)
    <3> DEFINE new == [tabs[t] EXCEPT !.at = "commit", !.version = catalogue[tabs[t].category].version]
    <3>1. Becomes(t, new) \/ Shows(t, "CATEGORY_UNAVAILABLE")
      BY <2>5 DEF Prepare
    <3>2. new.error = tabs[t].error
      BY <2>1 DEF TabStates
    <3> QED  BY <1>1, <1>2, <1>5, <3>1, <3>2 DEF Errors
  <2>6. CASE CommitSelection(t)
    <3> DEFINE lost == [tabs[t] EXCEPT !.at = "shown", !.error = "LOST", !.fresh = FALSE]
    <3>1. tabs[t].at = "commit"
      BY <2>6 DEF CommitSelection, At
    <3>2. tabs[t].fresh => ~Conflicts(tabs[t].category, tabs[t].version, tabs[t].generation)
      BY <2>1, <3>1 DEF TabOK, Conflicts
    <3>3. \/ Shows(t, "CONFLICT") /\ ~tabs[t].fresh
          \/ Overtake(t, Answered(t))
          \/ Overtake(t, lost)
      BY <2>6, <3>2 DEF CommitSelection
    <3>4. Answered(t).error = tabs[t].error
      BY <2>1 DEF Answered, TabStates
    <3>5. lost.error = "LOST"
      BY <2>1 DEF TabStates
    <3> HIDE DEF lost
    <3> QED  BY <1>2, <1>3, <1>5, <3>3, <3>4, <3>5 DEF Errors
  <2>7. CASE ResumeSync(t)
    <3>1. \/ Becomes(t, [tabs[t] EXCEPT !.at = "done"])
          \/ Becomes(t, [tabs[t] EXCEPT !.at = "activate"])
          \/ Shows(t, "BILLING_RECONCILIATION_REQUIRED")
      BY <2>7 DEF ResumeSync
    <3>2. /\ [tabs[t] EXCEPT !.at = "done"].error = tabs[t].error
          /\ [tabs[t] EXCEPT !.at = "activate"].error = tabs[t].error
      BY <2>1 DEF TabStates
    <3> QED  BY <1>1, <1>2, <1>5, <3>1, <3>2 DEF Errors
  <2>8. CASE ResumeActivate(t)
    <3>1. tabs[t].at = "activate"
      BY <2>8 DEF ResumeActivate, At
    <3>2. tabs[t].fresh => ~ResumeConflicts(t)
      BY <2>1, <3>1 DEF TabOK, ResumeConflicts
    <3>3. \/ Becomes(t, [tabs[t] EXCEPT !.at = "milestone"])
          \/ Shows(t, "CONFLICT") /\ ~tabs[t].fresh
          \/ Shows(t, "CATEGORY_ACTIVATION_REQUIRED")
      BY <2>8, <3>2 DEF ResumeActivate
    <3>4. [tabs[t] EXCEPT !.at = "milestone"].error = tabs[t].error
      BY <2>1 DEF TabStates
    <3> QED  BY <1>1, <1>2, <1>5, <3>3, <3>4 DEF Errors
  <2>9. CASE ResumeMilestone(t)
    <3>1. Becomes(t, [tabs[t] EXCEPT !.at = "done"])
      BY <2>9 DEF ResumeMilestone
    <3>2. [tabs[t] EXCEPT !.at = "done"].error = tabs[t].error
      BY <2>1 DEF TabStates
    <3> QED  BY <1>1, <1>5, <3>1, <3>2
  <2> QED  BY <1>5, <2>2, <2>3, <2>4, <2>5, <2>6, <2>7, <2>8, <2>9 DEF InTab
<1>6. ASSUME tabs' = tabs PROVE A
  BY <1>6 DEF A
<1>7. ASSUME IInv, NEW c \in Categories, Edit(c) PROVE A
  BY <1>3, <1>4, <1>7 DEF Edit
<1>8. IInv /\ [Next]_vars => [A]_vars
  BY <1>5, <1>6, <1>7 DEF Next, CallbackMilestone, CallbackHosted, CallbackActivate, SubscriptionMoves, vars
<1> QED  BY InvariantHolds, <1>8, PTL DEF Spec, ConflictMeansOvertaken, A

(* A page that resumes shows a category, and asks for a generation that has   *)
(* been: while it is still the profile's and nothing is active, what the      *)
(* profile has pending is what the page shows.                                *)
ShowsPending(tab) ==
  tab.at \in {"resume", "activate"} =>
    /\ tab.category \in Categories /\ tab.resumed \in 0..profile.generation
    /\ tab.resumed = profile.generation /\ profile.active = None =>
         profile.pending = tab.category /\ revisions[profile.revision].version = tab.version

PagesShowPending == \A t \in Tabs : ShowsPending(tabs[t])

LEMMA SelectionPends ==
  ASSUME RowsOK, NEW category \in Categories, NEW version \in 1..MaxVersion,
         ~TargetConflict, Selected(category, version)
  PROVE  profile'.active = None =>
           profile'.pending = category /\ revisions'[profile'.revision].version = version
<1> SUFFICES ASSUME profile'.active = None
             PROVE  profile'.pending = category /\ revisions'[profile'.revision].version = version
  OBVIOUS
<1> DEFINE status == IF profile.active = None THEN "DRAFT" ELSE "PUBLISHED"
           new == PromptRevision(status, category, version)
           drafted == [profile EXCEPT !.pending = category, !.revision = Target, !.generation = @ + 1]
<1>1. revisions' = Written(new) /\ new \in Revision /\ new.version = version
  BY DEF Selected, PromptRevision, Revision
<1>2. profile.active = None /\ profile' = drafted
  BY NoneIsNoCategory DEF Selected
<1>3. drafted.pending = category /\ drafted.revision = Target
  BY DEF RowsOK, Profile
<1> HIDE DEF new, drafted, Target
<1>4. revisions'[Target] = new
  BY <1>1, WrittenRevision
<1> QED  BY <1>1, <1>2, <1>3, <1>4

LEMMA PublishPutsLive ==
  ASSUME RowsOK, Eligible, Publish
  PROVE  /\ profile'.active = profile.pending /\ profile'.active # None
         /\ profile'.generation = profile.generation
         /\ revisions'[config'] =
              PromptRevision("PUBLISHED", profile.pending, revisions[profile.revision].version)
<1> DEFINE r == profile.revision
           old == revisions[r]
           new == [old EXCEPT !.status = "PUBLISHED"]
           active == [profile EXCEPT !.active = profile.pending, !.pending = None, !.revision = 0]
<1>1. /\ revisions' = [revisions EXCEPT ![r] = new] /\ config' = r /\ profile' = active
  BY DEF Publish
<1>2. profile \in Profile /\ profile.pending # None /\ r # 0 /\ old.category = profile.pending
  BY DEF RowsOK, Eligible, DraftOfProfile
<1>3. old \in Revision /\ r \in DOMAIN revisions
  BY <1>2, RevisionsTyped
<1>4. new = PromptRevision("PUBLISHED", profile.pending, old.version)
  BY <1>2, <1>3 DEF Revision, PromptRevision
<1>5. active.active = profile.pending /\ active.generation = profile.generation
  BY <1>2 DEF Profile
<1> HIDE DEF new, active
<1>6. revisions'[r] = new
  BY <1>1, <1>3
<1> QED  BY <1>1, <1>2, <1>4, <1>5, <1>6

(* One tab moves; the selection stays, or the profile now has an active one.  *)
LEMMA OneTabShows ==
  ASSUME IInv, PagesShowPending, NEW t \in Tabs, NEW new, Becomes(t, new), ShowsPending(new),
         profile'.generation = profile.generation,
         profile'.active # None \/ UNCHANGED <<profile, revisions>>
  PROVE  PagesShowPending'
<1>1. \A u \in Tabs : tabs'[u] = IF u = t THEN new ELSE tabs[u]
  BY DEF IInv, Becomes
<1>2. ASSUME NEW u \in Tabs PROVE ShowsPending(tabs[u])'
  <2>1. PICK p : p = tabs'[u] /\ ShowsPending(p)
    BY <1>1 DEF PagesShowPending
  <2> QED  BY <2>1 DEF ShowsPending
<1> QED  BY <1>2 DEF PagesShowPending

LEMMA TabsKeepShowing ==
  ASSUME PagesShowPending, tabs' = tabs, profile'.generation = profile.generation,
         profile'.active # None \/ UNCHANGED <<profile, revisions>>
  PROVE  PagesShowPending'
BY DEF PagesShowPending, ShowsPending

(* A tab that does not resume need not show anything.                         *)
LEMMA NotResuming ==
  ASSUME NEW tab \in TabStates, NEW step \in Steps \ {"resume", "activate"}
  PROVE  ShowsPending([tab EXCEPT !.at = step])
BY DEF ShowsPending, TabStates

LEMMA ShowsError ==
  ASSUME IInv, PagesShowPending, NEW t \in Tabs, NEW error, Shows(t, error), UNCHANGED rows
  PROVE  PagesShowPending'
<1> DEFINE new == [tabs[t] EXCEPT !.at = "shown", !.error = error]
<1>1. tabs[t] \in TabStates /\ Becomes(t, new)
  BY DEF IInv, Shows
<1>2. new.at = "shown"
  BY <1>1 DEF TabStates
<1> HIDE DEF new
<1>3. ShowsPending(new)
  BY <1>2 DEF ShowsPending
<1> QED  BY <1>1, <1>3, OneTabShows DEF rows

LEMMA LoadShows ==
  ASSUME IInv, PagesShowPending, NEW t \in Tabs, Load(t)
  PROVE  PagesShowPending'
<1> DEFINE resuming == ~onboarded /\ live /\ profile.active = None
           itself == resuming /\ profile.pending # None
           at == IF itself THEN "resume" ELSE "shown"
           resumed == IF itself THEN profile.generation ELSE None
           template == IF profile.revision = 0 THEN 0 ELSE revisions[profile.revision].version
           category == IF itself THEN profile.pending ELSE None
           version == IF itself THEN template ELSE 0
           new == [Closed EXCEPT !.at = at, !.generation = profile.generation,
                                 !.onboarding = resuming, !.fresh = TRUE,
                                 !.category = category, !.version = version, !.resumed = resumed]
<1>1. Becomes(t, new) /\ UNCHANGED <<profile, revisions>>
  BY DEF Load, loadStoreProfile, rows
<1>2. /\ profile.generation \in 0..MaxGeneration /\ profile.pending \in Categories \cup {None}
      /\ profile.pending # None => profile.revision # 0
  BY DEF IInv, RowsOK, Profile, DraftOfProfile
<1>3. at = "resume" => /\ resumed = profile.generation /\ category = profile.pending /\ category \in Categories
                       /\ version = revisions[profile.revision].version
  BY <1>2
<1>4. at \in {"resume", "shown"}
  OBVIOUS
<1> HIDE DEF at, resumed, category, version, itself, resuming, template
<1>5. new.at = at /\ new.resumed = resumed /\ new.category = category /\ new.version = version
  BY DEF Closed
<1> HIDE DEF new
<1>6. ShowsPending(new)
  BY <1>2, <1>3, <1>4, <1>5, BoundsAssumption DEF ShowsPending
<1> QED  BY <1>1, <1>6, OneTabShows

(* A selection moves the generation: the pages that resume an earlier one no  *)
(* longer match, and its own page shows what it selected.                     *)
LEMMA CommitShows ==
  ASSUME IInv, PagesShowPending, NEW t \in Tabs, CommitSelection(t)
  PROVE  PagesShowPending'
<1> DEFINE g == profile.generation
           tab == tabs[t]
           lost == [tab EXCEPT !.at = "shown", !.error = "LOST", !.fresh = FALSE]
<1>1. tab.at = "commit" /\ catalogue' = catalogue
  BY DEF CommitSelection, At
<1>2. /\ tab \in TabStates /\ tab.category \in Categories
      /\ tab.version \in 1..MaxVersion /\ tab.generation < MaxGeneration
  BY <1>1 DEF IInv, TabOK
<1>3. CASE Conflicts(tab.category, tab.version, tab.generation)
  <2>1. Shows(t, "CONFLICT") /\ UNCHANGED rows
    BY <1>3 DEF CommitSelection
  <2> QED  BY <2>1, ShowsError
<1>4. CASE ~Conflicts(tab.category, tab.version, tab.generation)
  <2>1. /\ Selected(tab.category, tab.version)
        /\ Overtake(t, Answered(t)) \/ Overtake(t, lost)
    BY <1>4 DEF CommitSelection
  <2>2. g = tab.generation /\ ~TargetConflict
    BY <1>4 DEF Conflicts
  <2>3. /\ profile'.generation = g + 1 /\ g \in Nat
        /\ profile'.active = None =>
             profile'.pending = tab.category /\ revisions'[profile'.revision].version = tab.version
    BY <1>1, <1>2, <2>1, <2>2, SelectionKeepsRows, SelectionPends DEF IInv, RowsOK, Profile
  <2>4. ASSUME NEW u \in Tabs, u # t PROVE ShowsPending(tabs[u])'
    <3>1. /\ tabs[u] \in TabStates /\ ShowsPending(tabs[u])
          /\ tabs'[u] = [tabs[u] EXCEPT !.fresh = FALSE]
      BY <2>1, <2>4 DEF IInv, PagesShowPending, Overtake
    <3>2. /\ tabs'[u].at = tabs[u].at /\ tabs'[u].category = tabs[u].category
          /\ tabs'[u].resumed = tabs[u].resumed /\ tabs'[u].version = tabs[u].version
      BY <3>1 DEF TabStates
    <3> QED  BY <2>3, <3>1, <3>2 DEF ShowsPending
  <2>5. CASE Overtake(t, Answered(t))
    <3>1. tabs'[t] = Answered(t)
      BY <2>5 DEF Overtake
    <3>2. /\ Answered(t).at \in {"resume", "shown"} /\ Answered(t).category = tab.category
          /\ Answered(t).version = tab.version
          /\ Answered(t).at = "resume" => Answered(t).resumed = g + 1
      BY <1>1, <1>2 DEF Answered, TabStates
    <3>3. ShowsPending(tabs[t])'
      BY <1>2, <2>3, <3>1, <3>2 DEF ShowsPending
    <3> QED  BY <2>4, <3>3 DEF PagesShowPending
  <2>6. CASE Overtake(t, lost)
    <3>1. tabs'[t].at = "shown"
      BY <1>2, <2>6 DEF Overtake, TabStates
    <3>2. ShowsPending(tabs[t])'
      BY <3>1 DEF ShowsPending
    <3> QED  BY <2>4, <3>2 DEF PagesShowPending
  <2> QED  BY <2>1, <2>5, <2>6
<1> QED  BY <1>3, <1>4

(* The pages' own steps between a load or an answer and the activation.       *)
LEMMA OtherStepsShow ==
  ASSUME IInv, PagesShowPending, NEW t \in Tabs,
         \/ \E c \in Categories : Choose(t, c)
         \/ CheckGeneration(t) \/ Prepare(t) \/ ResumeSync(t) \/ ResumeMilestone(t) \/ Close(t)
  PROVE  PagesShowPending'
<1>1. tabs[t] \in TabStates /\ ShowsPending(tabs[t]) /\ UNCHANGED rows
  BY DEF IInv, PagesShowPending, Choose, CheckGeneration, Prepare, ResumeSync, ResumeMilestone, Close
<1>2. \/ \E error \in Errors : Shows(t, error)
      \/ \E new : Becomes(t, new) /\ new.at \notin {"resume", "activate"}
      \/ tabs[t].at = "resume" /\ Becomes(t, [tabs[t] EXCEPT !.at = "activate"])
  <2>1. ASSUME NEW c \in Categories, Choose(t, c)
        PROVE  \E new : Becomes(t, new) /\ new.at \notin {"resume", "activate"}
    <3>1. [tabs[t] EXCEPT !.at = "check", !.category = c, !.error = "none"].at = "check"
      BY <1>1 DEF TabStates
    <3> QED  BY <2>1, <3>1 DEF Choose
  <2>2. ASSUME CheckGeneration(t)
        PROVE  Shows(t, "CONFLICT") \/ \E new : Becomes(t, new) /\ new.at \notin {"resume", "activate"}
    <3>1. [tabs[t] EXCEPT !.at = "prepare"].at = "prepare"
      BY <1>1 DEF TabStates
    <3> QED  BY <2>2, <3>1 DEF CheckGeneration
  <2>3. ASSUME Prepare(t)
        PROVE  Shows(t, "CATEGORY_UNAVAILABLE") \/ \E new : Becomes(t, new) /\ new.at \notin {"resume", "activate"}
    <3> DEFINE commit == [tabs[t] EXCEPT !.at = "commit", !.version = catalogue[tabs[t].category].version]
    <3>1. commit.at = "commit" /\ (Becomes(t, commit) \/ Shows(t, "CATEGORY_UNAVAILABLE"))
      BY <1>1, <2>3 DEF TabStates, Prepare
    <3> HIDE DEF commit
    <3> QED  BY <3>1
  <2>4. ASSUME ResumeSync(t)
        PROVE  \/ Shows(t, "BILLING_RECONCILIATION_REQUIRED")
               \/ \E new : Becomes(t, new) /\ new.at \notin {"resume", "activate"}
               \/ tabs[t].at = "resume" /\ Becomes(t, [tabs[t] EXCEPT !.at = "activate"])
    <3>1. [tabs[t] EXCEPT !.at = "done"].at = "done"
      BY <1>1 DEF TabStates
    <3> QED  BY <2>4, <3>1 DEF ResumeSync, At
  <2>5. ASSUME ResumeMilestone(t) \/ Close(t)
        PROVE  \E new : Becomes(t, new) /\ new.at \notin {"resume", "activate"}
    <3>1. [tabs[t] EXCEPT !.at = "done"].at = "done" /\ Closed.at = "closed"
      BY <1>1 DEF TabStates, Closed
    <3> QED  BY <2>5, <3>1 DEF ResumeMilestone, Close
  <2> QED  BY <2>1, <2>2, <2>3, <2>4, <2>5 DEF Errors
<1>3. ASSUME NEW error \in Errors, Shows(t, error) PROVE PagesShowPending'
  BY <1>1, <1>3, ShowsError
<1>4. ASSUME NEW new, Becomes(t, new), new.at \notin {"resume", "activate"} PROVE PagesShowPending'
  <2>1. ShowsPending(new)
    BY <1>4 DEF ShowsPending
  <2> QED  BY <1>1, <1>4, <2>1, OneTabShows DEF rows
<1>5. ASSUME tabs[t].at = "resume", Becomes(t, [tabs[t] EXCEPT !.at = "activate"]) PROVE PagesShowPending'
  <2> DEFINE new == [tabs[t] EXCEPT !.at = "activate"]
  <2>1. /\ new.at = "activate" /\ new.category = tabs[t].category
        /\ new.resumed = tabs[t].resumed /\ new.version = tabs[t].version
    BY <1>1 DEF TabStates
  <2> HIDE DEF new
  <2>2. ShowsPending(new)
    BY <1>1, <1>5, <2>1 DEF ShowsPending
  <2> QED  BY <1>1, <1>5, <2>2, OneTabShows DEF rows, new
<1> QED  BY <1>2, <1>3, <1>4, <1>5

LEMMA ActivateShows ==
  ASSUME IInv, PagesShowPending, NEW t \in Tabs, ResumeActivate(t)
  PROVE  PagesShowPending'
<1> DEFINE new == [tabs[t] EXCEPT !.at = "milestone"]
<1>1. new.at = "milestone"
  BY DEF IInv, TabStates
<1>2. ShowsPending(new)
  BY <1>1 DEF ShowsPending
<1>3. \/ Becomes(t, new) /\ UNCHANGED rows
      \/ Eligible /\ Publish /\ Becomes(t, new)
      \/ (Shows(t, "CONFLICT") \/ Shows(t, "CATEGORY_ACTIVATION_REQUIRED")) /\ UNCHANGED rows
  BY DEF ResumeActivate
<1> HIDE DEF new
<1>4. CASE Becomes(t, new) /\ UNCHANGED rows
  BY <1>2, <1>4, OneTabShows DEF rows
<1>5. CASE Eligible /\ Publish /\ Becomes(t, new)
  <2>1. profile'.active # None /\ profile'.generation = profile.generation
    BY <1>5, PublishPutsLive DEF IInv
  <2> QED  BY <1>2, <1>5, <2>1, OneTabShows
<1>6. CASE (Shows(t, "CONFLICT") \/ Shows(t, "CATEGORY_ACTIVATION_REQUIRED")) /\ UNCHANGED rows
  BY <1>6, ShowsError
<1> QED  BY <1>3, <1>4, <1>5, <1>6

LEMMA NextKeepsShowing == IInv /\ PagesShowPending /\ [Next]_vars => PagesShowPending'
<1> SUFFICES ASSUME IInv, PagesShowPending, [Next]_vars PROVE PagesShowPending'
  OBVIOUS
<1>1. CASE \E t \in Tabs : InTab(t)
  BY <1>1, LoadShows, CommitShows, ActivateShows, OtherStepsShow DEF InTab
<1>2. CASE UNCHANGED vars \/ CallbackMilestone \/ CallbackHosted \/ CallbackActivate \/ SubscriptionMoves
  <2>1. tabs' = tabs /\ (UNCHANGED rows \/ (Eligible /\ Publish))
    BY <1>2 DEF vars, rows, CallbackMilestone, CallbackHosted, CallbackActivate, SubscriptionMoves
  <2>2. CASE UNCHANGED rows
    BY <2>1, <2>2, TabsKeepShowing DEF rows
  <2>3. CASE Eligible /\ Publish
    <3>1. profile'.active # None /\ profile'.generation = profile.generation
      BY <2>3, PublishPutsLive DEF IInv
    <3> QED  BY <2>1, <3>1, TabsKeepShowing
  <2> QED  BY <2>1, <2>2, <2>3
<1>3. ASSUME NEW c \in Categories, Edit(c) PROVE PagesShowPending'
  <2>1. UNCHANGED rows /\ Overtake(None, Closed)
    BY <1>3 DEF Edit
  <2>2. ASSUME NEW u \in Tabs PROVE ShowsPending(tabs[u])'
    <3>1. CASE u = None
      <4>1. tabs'[u].at = "closed"
        BY <2>1, <3>1 DEF Overtake, Closed
      <4> QED  BY <4>1 DEF ShowsPending
    <3>2. CASE u # None
      <4>1. /\ tabs[u] \in TabStates /\ ShowsPending(tabs[u])
            /\ tabs'[u] = [tabs[u] EXCEPT !.fresh = FALSE]
        BY <2>1, <3>2 DEF IInv, PagesShowPending, Overtake
      <4>2. /\ tabs'[u].at = tabs[u].at /\ tabs'[u].category = tabs[u].category
            /\ tabs'[u].resumed = tabs[u].resumed /\ tabs'[u].version = tabs[u].version
        BY <4>1 DEF TabStates
      <4> QED  BY <2>1, <4>1, <4>2 DEF ShowsPending, rows
    <3> QED  BY <3>1, <3>2
  <2> QED  BY <2>2 DEF PagesShowPending
<1> QED  BY <1>1, <1>2, <1>3 DEF Next

(* Between a load or an answer and the activation that a page asks for, the   *)
(* generation it sends stands for what the page shows.                        *)
THEOREM ShowingHolds == Spec => []PagesShowPending
<1>1. Init => PagesShowPending
  <2> SUFFICES ASSUME Init, NEW t \in Tabs PROVE ShowsPending(tabs[t])
    BY DEF PagesShowPending
  <2>1. tabs[t].at = "closed"
    BY DEF Init, Closed
  <2> QED  BY <2>1 DEF ShowsPending
<1> QED  BY <1>1, NextKeepsShowing, InvariantHolds, PTL DEF Spec

(* The onboarding's resumption puts live what its page shows, category and    *)
(* version, whatever other tabs have selected or editors changed since.       *)
THEOREM AlwaysResumesItsSelection == Spec => ResumesItsSelection
<1> DEFINE A == \A t \in Tabs : At(t, "activate") /\ profile.active = None /\ profile'.active # None
                  /\ tabs'[t].at = "milestone" =>
                    /\ profile'.active = tabs[t].category
                    /\ revisions'[config'] = PromptRevision("PUBLISHED", tabs[t].category, tabs[t].version)
<1>1. ASSUME IInv, PagesShowPending, Next, NEW t \in Tabs, At(t, "activate"), profile.active = None,
             profile'.active # None, tabs'[t].at = "milestone"
      PROVE  /\ profile'.active = tabs[t].category
             /\ revisions'[config'] = PromptRevision("PUBLISHED", tabs[t].category, tabs[t].version)
  <2>1. tabs \in [Tabs -> TabStates] /\ tabs[t].at = "activate"
    BY <1>1 DEF IInv, At
  <2>2. ASSUME NEW u \in Tabs, InTab(u) PROVE u = t
    <3> SUFFICES ASSUME u # t PROVE FALSE
      OBVIOUS
    <3>1. ASSUME NEW new, Becomes(u, new) PROVE FALSE
      BY <1>1, <2>1, <2>2, <3>1 DEF Becomes
    <3>2. ASSUME NEW new, Overtake(u, new) PROVE FALSE
      <4>1. tabs'[t] = [tabs[t] EXCEPT !.fresh = FALSE]
        BY <3>2 DEF Overtake
      <4> QED  BY <1>1, <2>1, <4>1 DEF TabStates
    <3> QED  BY <2>2, <3>1, <3>2 DEF InTab, Load, Choose, CheckGeneration, Prepare, CommitSelection, ResumeSync,
                ResumeActivate, ResumeMilestone, Close, Shows
  <2>3. InTab(t)
    <3>1. ASSUME tabs' = tabs PROVE FALSE
      BY <1>1, <2>1, <3>1
    <3>2. ASSUME NEW c \in Categories, Edit(c) PROVE FALSE
      BY <1>1, <3>2 DEF Edit, rows
    <3> QED  BY <1>1, <2>2, <3>1, <3>2 DEF Next, CallbackMilestone, CallbackHosted, CallbackActivate, SubscriptionMoves
  <2>4. ResumeActivate(t)
    BY <1>1, <2>1, <2>3 DEF InTab, Load, Choose, CheckGeneration, Prepare, CommitSelection, ResumeSync,
       ResumeMilestone, Close, At, rows
  <2>5. Eligible /\ ~ResumeConflicts(t) /\ Publish
    BY <1>1, <2>4 DEF ResumeActivate, rows, Eligible
  <2>6. ShowsPending(tabs[t]) /\ tabs[t].resumed = profile.generation
    BY <1>1, <2>5 DEF PagesShowPending, ResumeConflicts
  <2>7. profile.pending = tabs[t].category /\ revisions[profile.revision].version = tabs[t].version
    BY <1>1, <2>1, <2>6 DEF ShowsPending
  <2> QED  BY <1>1, <2>5, <2>7, PublishPutsLive DEF IInv
<1>2. IInv /\ PagesShowPending /\ [Next]_vars => [A]_vars
  BY <1>1
<1> QED  BY InvariantHolds, ShowingHolds, <1>2, PTL DEF Spec, ResumesItsSelection

-----------------------------------------------------------------------------
(* Proofs about MerchantAccess, for every status of a shop and every          *)
(* subscription.  What the pages say of a subscription they may have dropped  *)
(* is compared with what the policies say of the one there is, state by       *)
(* state; the browser's invariant is that under an unchanged lifecycle only   *)
(* an active shop is redirected, and only home.                               *)

Settled == {"here", "forbidden", "login"}

LEMMA SurfacesOf ==
  /\ SurfaceOf["usage"] = "USAGE" /\ SurfaceOf["promotions"] = "PROMOTIONS"
  /\ SurfaceOf["recoverySettings"] = "RECOVERY_SETTINGS" /\ SurfaceOf["recoveries"] = "RECOVERY_HISTORY"
  /\ SurfaceOf["options"] = "BILLING_OPTIONS" /\ SurfaceOf["purchases"] = "BILLING_PURCHASE_HISTORY"
  /\ SurfaceOf["select"] = "PLAN_SELECT"
BY DEF SurfaceOf

(* The matrix, line by line.                                                  *)
LEMMA MatrixOf ==
  /\ surfaceMatrix["SIGNED_OUT"] = {}
  /\ surfaceMatrix["REINSTALLING"] = {"SUPPORT"}
  /\ surfaceMatrix["SUPPORT_ONLY"] = {"SUPPORT"}
  /\ surfaceMatrix["ONBOARDING"] = {"HOME", "SUPPORT", "PLAN_SELECT"}
  /\ surfaceMatrix["ACTIVE"] = History \cup {"PROMOTIONS", "RECOVERY_SETTINGS", "PLAN_SELECT",
                                              "PENDING_RECOVERIES"}
  /\ surfaceMatrix["NO_CONTRACT"] = History \cup {"PLAN_SELECT"}
  /\ surfaceMatrix["POST_CONTRACT"] = History \cup {"PLAN_SELECT", "PENDING_RECOVERIES"}
  /\ surfaceMatrix["FROZEN"] = History
  /\ surfaceMatrix["BILLING_ATTENTION"] = History \cup {"PLAN_SELECT"}
BY DEF surfaceMatrix

(* Whatever was read, a redirect leads to one of four pages.                  *)
LEMMA RedirectsTo ==
  ASSUME NEW p \in Pages, NEW s, NEW sub
  PROVE  Answers(p, s, sub) \ Settled \subseteq {"home", "support", "reinstalling", "options"}
<1>1. GuardedAnswer(p, s, sub) \in Settled \cup {"home", "support", "reinstalling", "options"}
  BY DEF GuardedAnswer, assertActiveShop, getMerchantDeniedRedirect, Settled
<1> QED
  BY <1>1 DEF Answers, PageAnswer, SelectAnswer, ReinstallingAnswer, assertSupportShop, assertActiveShop,
     LayoutAnswer, Settled, Pages, Guarded

-----------------------------------------------------------------------------
(* The merchant's state, status by status.                                    *)
LEMMA StateOf ==
  ASSUME NEW s \in ShopRow, NEW sub \in SubscriptionRow
  PROVE  LET state == resolveMerchantExperienceState(s, sub)
         IN /\ s.status = "UNINSTALLED" => state = IF s.pending THEN "REINSTALLING" ELSE "SIGNED_OUT"
            /\ s.status = "SUSPENDED" => state = "SUPPORT_ONLY"
            /\ s.status = "ACTIVE" /\ ~s.onboarded => state = "ONBOARDING"
            /\ s.status = "ACTIVE" /\ s.onboarded =>
                 /\ sub.status \in {"ACTIVE", "TRIALING"} => state = "ACTIVE"
                 /\ sub.status = "FROZEN" => state = "FROZEN"
                 /\ sub.status = "OTHER" => state = "BILLING_ATTENTION"
                 /\ sub.status = "NO_CONTRACT" => state = IF sub.canceled THEN "POST_CONTRACT" ELSE "NO_CONTRACT"
<1>1. s.status \in {"ACTIVE", "SUSPENDED", "UNINSTALLED"} /\ s.pending \in BOOLEAN /\ s.onboarded \in BOOLEAN
  BY DEF ShopRow
<1>2. sub.status \in {"ACTIVE", "TRIALING", "NO_CONTRACT", "FROZEN", "OTHER"} /\ sub.canceled \in BOOLEAN
  BY DEF SubscriptionRow
<1> QED  BY <1>1, <1>2 DEF resolveMerchantExperienceState

(* What a page is shown of a subscription has one of its statuses, and is of  *)
(* one that is live only if this one is.                                      *)
LEMMA ShownIs ==
  ASSUME NEW p, NEW sub \in SubscriptionRow
  PROVE  /\ Shown(p, sub) \in SubscriptionRow
         /\ p = "options" \/ sub.status \in {"ACTIVE", "TRIALING"} => Shown(p, sub) = sub
         /\ p # "options" /\ sub.status \notin {"ACTIVE", "TRIALING"} => Shown(p, sub).status = "OTHER"
BY DEF Shown, NoSubscription, SubscriptionRow

(* An active shop is sent home at most, where it stays: the plan page would   *)
(* send a frozen contract to the options, but refuses it before.              *)
LEMMA ActiveRedirects ==
  ASSUME NEW s \in ShopRow, NEW sub \in SubscriptionRow, s.status = "ACTIVE"
  PROVE  /\ \A p \in Pages : Answers(p, s, sub) \ Settled \subseteq {"home"}
         /\ Answers("home", s, sub) \ Settled = {}
         /\ Answers("support", s, sub) \ Settled = {}
<1>1. \A p : assertActiveShop(s, p) = "here" /\ assertSupportShop(s, p) = "here" /\ LayoutAnswer(p, s) = "here"
  BY DEF assertActiveShop, assertSupportShop, LayoutAnswer
<1>2. Answers("home", s, sub) \ Settled = {} /\ Answers("support", s, sub) \ Settled = {}
  BY <1>1 DEF Answers, PageAnswer, Settled
<1>3. resolveMerchantExperienceState(s, Shown("select", sub)) = "FROZEN" => sub.status = "FROZEN"
  <2>1. Shown("select", sub) \in SubscriptionRow
    BY ShownIs
  <2>2. Shown("select", sub).status = "FROZEN" => sub.status = "FROZEN"
    BY ShownIs
  <2> QED  BY <2>1, <2>2, StateOf DEF ShopRow, SubscriptionRow
<1>4. \A p : resolveMerchantExperienceState(s, Shown(p, sub)) \notin {"REINSTALLING", "SUPPORT_ONLY", "SIGNED_OUT"}
  BY ShownIs, StateOf DEF ShopRow, SubscriptionRow
<1>5. ASSUME NEW p \in Guarded PROVE PageAnswer(p, s, sub) \in Settled \cup {"home"}
  <2>1. CASE p # "select"
    <3>1. SurfaceOf[p] # "PLAN_SELECT"
      BY <2>1, SurfacesOf DEF Guarded
    <3> QED  BY <1>1, <1>4, <2>1, <3>1 DEF PageAnswer, GuardedAnswer, getMerchantDeniedRedirect, Settled, Guarded
  <2>2. CASE p = "select"
    BY <1>1, <1>3, <1>4, <2>2 DEF PageAnswer, SelectAnswer, GuardedAnswer, getMerchantDeniedRedirect, Settled
  <2> QED  BY <2>1, <2>2
<1>6. ASSUME NEW p \in Pages PROVE Answers(p, s, sub) \ Settled \subseteq {"home"}
  <2>1. PageAnswer(p, s, sub) \in Settled \cup {"home"}
    BY <1>1, <1>5 DEF Pages, PageAnswer, ReinstallingAnswer, Settled
  <2> QED  BY <1>1, <2>1 DEF Answers, Settled
<1> QED  BY <1>2, <1>6

(* A suspended shop is sent to the support page at most, and stays there.     *)
LEMMA SuspendedRedirects ==
  ASSUME NEW s \in ShopRow, NEW sub \in SubscriptionRow, s.status = "SUSPENDED"
  PROVE  /\ \A p \in Pages : Answers(p, s, sub) \ Settled \subseteq {"support"}
         /\ Answers("support", s, sub) \ Settled = {}
<1>1. /\ \A p : assertSupportShop(s, p) = "here" /\ LayoutAnswer(p, s) \in {"here", "support"}
      /\ LayoutAnswer("support", s) = "here" /\ assertActiveShop(s, "support") = "support"
  BY DEF assertActiveShop, assertSupportShop, LayoutAnswer
<1>2. \A p : resolveMerchantExperienceState(s, Shown(p, sub)) = "SUPPORT_ONLY"
  BY ShownIs, StateOf
<1>3. \A p : GuardedAnswer(p, s, sub) \in {"here", "support"}
  BY <1>1, <1>2 DEF GuardedAnswer, getMerchantDeniedRedirect
<1>4. \A p \in Pages : PageAnswer(p, s, sub) \in {"here", "support"}
  BY <1>1, <1>3 DEF Pages, Guarded, PageAnswer, SelectAnswer, ReinstallingAnswer
<1>5. Answers("support", s, sub) \ Settled = {}
  BY <1>1 DEF Answers, PageAnswer, Settled
<1> QED  BY <1>1, <1>4, <1>5 DEF Answers, Settled

(* A shop that is being reinstalled is sent to the page that says so, or may  *)
(* see the support page.                                                      *)
LEMMA ReinstallingRedirects ==
  ASSUME NEW s \in ShopRow, NEW sub \in SubscriptionRow, s.status = "UNINSTALLED", s.pending
  PROVE  /\ \A p \in Pages : Answers(p, s, sub) \ Settled \subseteq {"reinstalling"}
         /\ Answers("reinstalling", s, sub) \ Settled = {}
<1>1. /\ \A p : assertSupportShop(s, p) = "here" /\ LayoutAnswer(p, s) \in {"here", "reinstalling"}
      /\ assertActiveShop(s, "support") = "reinstalling" /\ ReinstallingAnswer(s) = "here"
  BY DEF assertActiveShop, assertSupportShop, LayoutAnswer, ReinstallingAnswer
<1>2. \A p : resolveMerchantExperienceState(s, Shown(p, sub)) = "REINSTALLING"
  BY ShownIs, StateOf
<1>3. \A p : GuardedAnswer(p, s, sub) \in {"here", "reinstalling"}
  BY <1>1, <1>2 DEF GuardedAnswer, getMerchantDeniedRedirect
<1>4. \A p \in Pages : PageAnswer(p, s, sub) \in {"here", "reinstalling"}
  BY <1>1, <1>3 DEF Pages, Guarded, PageAnswer, SelectAnswer
<1>5. Answers("reinstalling", s, sub) \ Settled = {}
  BY <1>1 DEF Answers, PageAnswer, Settled, UnderLayout
<1> QED  BY <1>1, <1>4, <1>5 DEF Answers, Settled

(* A shop that has left is asked to log in, at the support page at the latest. *)
LEMMA LeftRedirects ==
  ASSUME NEW s \in ShopRow, NEW sub \in SubscriptionRow, s.status = "UNINSTALLED", ~s.pending
  PROVE  /\ \A p \in Pages : Answers(p, s, sub) \ Settled \subseteq {"support"}
         /\ Answers("support", s, sub) \ Settled = {}
<1>1. /\ assertSupportShop(s, "login") = "login" /\ \A p : LayoutAnswer(p, s) \in {"login", "support"}
      /\ LayoutAnswer("support", s) = "login" /\ assertActiveShop(s, "support") = "support"
      /\ ReinstallingAnswer(s) = "login"
  BY DEF assertActiveShop, assertSupportShop, LayoutAnswer, ReinstallingAnswer
<1>2. \A p : resolveMerchantExperienceState(s, Shown(p, sub)) = "SIGNED_OUT"
  BY ShownIs, StateOf
<1>3. \A p : GuardedAnswer(p, s, sub) \in {"here", "login", "support"}
  BY <1>1, <1>2 DEF GuardedAnswer, getMerchantDeniedRedirect
<1>4. \A p \in Pages : PageAnswer(p, s, sub) \in {"here", "login", "support"}
  BY <1>1, <1>3 DEF Pages, Guarded, PageAnswer, SelectAnswer
<1>5. Answers("support", s, sub) \ Settled = {}
  BY <1>1 DEF Answers, PageAnswer, Settled
<1> QED  BY <1>1, <1>4, <1>5 DEF Answers, Settled

-----------------------------------------------------------------------------
(* No state of a shop sends a browser round in a circle.                      *)
LEMMA SettlesAnywhere ==
  ASSUME shop \in ShopRow, subscription \in SubscriptionRow
  PROVE  RedirectsSettle
<1> DEFINE Away(p) == Answers(p, shop, subscription) \ Settled
<1> DEFINE EndsAt(end) == (\A p \in Pages : Away(p) \subseteq {end}) /\ Away(end) = {}
<1>1. \E end \in {"home", "support", "reinstalling"} : EndsAt(end)
  <2>1. CASE shop.status = "ACTIVE"
    <3>1. EndsAt("home")
      BY <2>1, ActiveRedirects
    <3> QED  BY <3>1
  <2>2. CASE shop.status = "SUSPENDED"
    <3>1. EndsAt("support")
      BY <2>2, SuspendedRedirects
    <3> QED  BY <3>1
  <2>3. CASE shop.status = "UNINSTALLED" /\ shop.pending
    <3>1. EndsAt("reinstalling")
      BY <2>3, ReinstallingRedirects
    <3> QED  BY <3>1
  <2>4. CASE shop.status = "UNINSTALLED" /\ ~shop.pending
    <3>1. EndsAt("support")
      BY <2>4, LeftRedirects
    <3> QED  BY <3>1
  <2> QED  BY <2>1, <2>2, <2>3, <2>4 DEF ShopRow
<1> HIDE DEF Away
<1>2. \A p \in Pages : \A q \in Away(p) : \A r \in Away(q) : Away(r) = {}
  BY <1>1
<1> QED  BY <1>2 DEF RedirectsSettle, Away, Settled

(* What a page grants of the subscription it is shown, the surface matrix     *)
(* grants of the one there is.                                                *)
LEMMA NothingBeyond ==
  ASSUME shop \in ShopRow, subscription \in SubscriptionRow
  PROVE  NoSurfaceBeyondState
<1> DEFINE state == resolveMerchantExperienceState(shop, subscription)
           told(p) == resolveMerchantExperienceState(shop, Shown(p, subscription))
<1>1. SUFFICES ASSUME NEW p \in Guarded, PageAnswer(p, shop, subscription) = "here"
               PROVE  SurfaceOf[p] \in surfaceMatrix[state]
  BY DEF NoSurfaceBeyondState
<1>2. SurfaceOf[p] \in surfaceMatrix[told(p)]
  BY <1>1 DEF PageAnswer, SelectAnswer, GuardedAnswer, getMerchantDeniedRedirect, Guarded
<1>3. CASE shop.status # "ACTIVE" \/ ~shop.onboarded
  <2>1. told(p) = state
    BY <1>3, ShownIs, StateOf DEF ShopRow
  <2> QED  BY <1>2, <2>1
<1>4. CASE shop.status = "ACTIVE" /\ shop.onboarded
  <2>1. CASE p = "options" \/ subscription.status \in {"ACTIVE", "TRIALING"}
    <3>1. told(p) = state
      BY <2>1, ShownIs
    <3> QED  BY <1>2, <3>1
  <2>2. CASE p # "options" /\ subscription.status \notin {"ACTIVE", "TRIALING"}
    <3>1. Shown(p, subscription) \in SubscriptionRow /\ Shown(p, subscription).status = "OTHER"
      BY <2>2, ShownIs
    <3>2. told(p) = "BILLING_ATTENTION"
      BY <1>4, <3>1, StateOf
    <3> HIDE DEF told, state
    <3>3. SurfaceOf[p] \in History \cup {"PLAN_SELECT"}
      BY <1>2, <3>2, MatrixOf
    <3>4. /\ subscription.status = "FROZEN" => state = "FROZEN"
          /\ subscription.status # "FROZEN" => state \in {"NO_CONTRACT", "POST_CONTRACT", "BILLING_ATTENTION"}
      BY <1>4, <2>2, StateOf DEF SubscriptionRow, state
    <3>5. CASE subscription.status # "FROZEN"
      BY <3>3, <3>4, <3>5, MatrixOf
    <3>6. CASE subscription.status = "FROZEN"
      <4>1. p # "select"
        BY <1>1, <1>4, <3>6 DEF PageAnswer, SelectAnswer
      <4>2. SurfaceOf[p] # "PLAN_SELECT"
        BY <4>1, SurfacesOf DEF Guarded
      <4> QED  BY <3>3, <3>4, <3>6, <4>2, MatrixOf
    <3> QED  BY <3>5, <3>6
  <2> QED  BY <2>1, <2>2
<1> QED  BY <1>3, <1>4

(* The layout's links are to pages that render.                               *)
LEMMA LinksOpen ==
  ASSUME shop \in ShopRow, subscription \in SubscriptionRow
  PROVE  NavigationIsOpen
<1> DEFINE state == resolveMerchantExperienceState(shop, subscription)
           told(p) == resolveMerchantExperienceState(shop, Shown(p, subscription))
<1>1. SUFFICES ASSUME NEW p \in navigationByState(state) PROVE PageAnswer(p, shop, subscription) = "here"
  BY DEF NavigationIsOpen
<1>2. p \in HistoryNavigation \cup {"promotions", "recoverySettings"}
  BY <1>1 DEF navigationByState, HistoryNavigation
<1>3. CASE shop.status # "ACTIVE"
  <2>1. /\ shop.status = "SUSPENDED" => state = "SUPPORT_ONLY"
        /\ shop.status = "UNINSTALLED" => state = IF shop.pending THEN "REINSTALLING" ELSE "SIGNED_OUT"
    BY StateOf
  <2>2. p = "support" /\ (shop.status # "UNINSTALLED" \/ shop.pending)
    BY <1>1, <1>3, <2>1 DEF navigationByState, ShopRow
  <2> QED  BY <2>2 DEF PageAnswer, assertSupportShop
<1>4. CASE shop.status = "ACTIVE"
  <2>1. assertSupportShop(shop, "login") = "here" /\ assertActiveShop(shop, "support") = "here"
    BY <1>4 DEF assertSupportShop, assertActiveShop
  <2>2. CASE p \in {"home", "support"}
    BY <2>1, <2>2 DEF PageAnswer
  <2>3. CASE p \notin {"home", "support"}
    <3>1. shop.onboarded
      BY <1>1, <1>4, <2>3, StateOf DEF navigationByState, ShopRow
    <3>2. Shown(p, subscription) \in SubscriptionRow
      BY ShownIs
    <3> DEFINE given == Shown(p, subscription)
    <3>3. /\ given.status \in {"ACTIVE", "TRIALING"} => told(p) = "ACTIVE"
          /\ told(p) \in {"ACTIVE", "FROZEN", "BILLING_ATTENTION", "NO_CONTRACT", "POST_CONTRACT"}
      BY <1>4, <3>1, <3>2, StateOf DEF SubscriptionRow
    <3>4. CASE p \in {"promotions", "recoverySettings"}
      <4>1. state = "ACTIVE"
        BY <1>1, <3>4 DEF navigationByState, HistoryNavigation
      <4>2. subscription.status \in {"ACTIVE", "TRIALING"}
        BY <1>4, <3>1, <4>1, StateOf DEF SubscriptionRow
      <4>3. told(p) = "ACTIVE"
        BY <3>3, <4>2, ShownIs
      <4>4. SurfaceOf[p] \in surfaceMatrix[told(p)]
        BY <3>4, <4>3, SurfacesOf, MatrixOf
      <4> QED  BY <2>1, <3>4, <4>4 DEF PageAnswer, GuardedAnswer
    <3>5. CASE p \in {"recoveries", "options"}
      <4>1. SurfaceOf[p] \in History
        BY <3>5, SurfacesOf DEF History
      <4>2. SurfaceOf[p] \in surfaceMatrix[told(p)]
        BY <3>3, <4>1, MatrixOf
      <4> QED  BY <2>1, <3>5, <4>2 DEF PageAnswer, GuardedAnswer
    <3> QED  BY <1>2, <2>3, <3>4, <3>5 DEF HistoryNavigation
  <2> QED  BY <2>2, <2>3
<1> QED  BY <1>3, <1>4

-----------------------------------------------------------------------------
(* Under an unchanged lifecycle a redirected request is one of an active      *)
(* shop, and it is redirected once more at most: home.                        *)
BrowserIInv ==
  /\ shop \in ShopRow /\ seen \in ShopRow
  /\ subscription \in SubscriptionRow
  /\ page \in Pages
  /\ phase \in {"idle", "asked", "authenticated", "read", "shown", "forbidden", "refused", "signedOut"}
  /\ hops \in 0..2
  /\ hops # 0 /\ phase = "authenticated" => shop.status = "ACTIVE"
  /\ hops # 0 /\ phase = "read" => seen = shop /\ shop.status = "ACTIVE"
  /\ hops = 2 => page = "home"

LEMMA BrowserServes ==
  ASSUME BrowserIInv, ServePage
  PROVE  BrowserIInv'
<1>1. PICK answer \in Answers(page, seen, subscription) :
          CASE answer \in {"here", "forbidden"} ->
                 /\ phase' = IF answer = "here" THEN "shown" ELSE "forbidden"
                 /\ UNCHANGED <<page, hops>>
            [] answer = "login" -> phase' = "signedOut" /\ UNCHANGED <<page, hops>>
            [] OTHER -> page' = answer /\ phase' = "asked" /\ hops' = hops + 1
  BY DEF ServePage
<1>2. CASE answer \in Settled
  BY <1>1, <1>2 DEF ServePage, BrowserIInv, Settled
<1>3. CASE answer \notin Settled
  <2>1. page' = answer /\ phase' = "asked" /\ hops' = hops + 1
    BY <1>1, <1>3 DEF Settled
  <2>2. answer \in Answers(page, seen, subscription) \ Settled
    BY <1>3
  <2>3. answer \in {"home", "support", "reinstalling", "options"}
    BY <2>2, RedirectsTo DEF BrowserIInv
  <2>4. hops # 0 => answer = "home" /\ hops = 1
    <3>1. SUFFICES ASSUME hops # 0 PROVE answer = "home" /\ hops = 1
      OBVIOUS
    <3>2. seen = shop /\ shop.status = "ACTIVE"
      BY <3>1 DEF BrowserIInv, ServePage
    <3>3. answer = "home" /\ page # "home"
      BY <2>2, <3>2, ActiveRedirects DEF BrowserIInv
    <3> QED  BY <3>1, <3>3 DEF BrowserIInv
  <2>5. hops' \in 0..2 /\ (hops' = 2 => page' = "home")
    BY <2>1, <2>4 DEF BrowserIInv
  <2>6. page' \in Pages
    BY <2>1, <2>3 DEF Pages, Guarded
  <2> QED  BY <2>1, <2>5, <2>6 DEF ServePage, BrowserIInv
<1> QED  BY <1>2, <1>3

LEMMA BrowserKeeps == BrowserIInv /\ [Browse]_browsing => BrowserIInv'
<1> SUFFICES ASSUME BrowserIInv, [Browse]_browsing PROVE BrowserIInv'
  OBVIOUS
<1>1. CASE LifecycleChanges
  BY <1>1, SubscriptionsAssumption DEF LifecycleChanges, BrowserIInv
<1>2. CASE \E p \in Pages : Ask(p)
  BY <1>2 DEF Ask, BrowserIInv
<1>3. CASE Authenticate
  BY <1>3 DEF Authenticate, BrowserIInv
<1>4. CASE ReadShop
  BY <1>4 DEF ReadShop, BrowserIInv
<1>5. CASE ServePage
  BY <1>5, BrowserServes
<1>6. CASE Return
  BY <1>6 DEF Return, BrowserIInv
<1>7. CASE UNCHANGED browsing
  BY <1>7 DEF browsing, BrowserIInv
<1> QED  BY <1>1, <1>2, <1>3, <1>4, <1>5, <1>6, <1>7 DEF Browse

(* The pages agree about a shop in every state of its lifecycle and of its    *)
(* subscription: no redirects in a circle, no link to a page that refuses,    *)
(* no page that opens what the state closes (merchant-experience policies and *)
(* the loaders that apply them).                                              *)
THEOREM PagesAlwaysAgree == BrowserSpec => []PagesAgree
<1>1. BrowserInit => BrowserIInv
  <2> SUFFICES ASSUME BrowserInit PROVE BrowserIInv
    OBVIOUS
  <2>1. shop \in ShopRow
    BY DEF BrowserInit, ShopRow
  <2> QED  BY <2>1, SubscriptionsAssumption DEF BrowserInit, BrowserIInv, Pages
<1>2. BrowserIInv => PagesAgree
  <2> SUFFICES ASSUME BrowserIInv PROVE PagesAgree
    OBVIOUS
  <2>1. BrowserTypeOK
    BY HopsAssumption DEF BrowserIInv, BrowserTypeOK
  <2> QED  BY <2>1, SettlesAnywhere, NothingBeyond, LinksOpen DEF PagesAgree, BrowserIInv
<1> QED  BY <1>1, <1>2, BrowserKeeps, PTL DEF BrowserSpec
=============================================================================
