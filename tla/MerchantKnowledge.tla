------------------------- MODULE MerchantKnowledge -------------------------
(***************************************************************************)
(* The knowledge sources of a shop (services/merchant-knowledge): web      *)
(* pages and uploaded files in the order the merchant gives them, of which *)
(* the plan admits the first few.  A file takes an intent, a PUT to object *)
(* storage and a finalization, which other requests, a change of the plan, *)
(* the expiry of the intent and lost replies come between; every change of *)
(* a source asks for a revision.  Each request's transaction locks the     *)
(* shop; reordering writes its rows one by one under that lock.            *)
(***************************************************************************)
EXTENDS Naturals, FiniteSetsExt

CONSTANTS
  Sources,          \* ids of sources, each used once
  Assets,           \* ids of uploads
  Urls, Forms, None,
  MaxAdmitted,      \* bound: maxKnowledgeSources
  MaxGeneration     \* bound: revisions of a source

ASSUME SourcesFinite == IsFiniteSet(Sources)
ASSUME KindsDiffer == Urls \cap Assets = {} /\ None \notin Sources
ASSUME BoundsPositive == MaxAdmitted \in Nat \ {0} /\ MaxGeneration \in Nat \ {0}

VARIABLES
  plan,        \* entitled; the types the plan allows and the catalogue has active; maxKnowledgeSources
  sources,     \* MerchantKnowledgeSource rows
  revisions,   \* MerchantKnowledgeSourceRevision rows
  assets,      \* MerchantKnowledgeUploadedAsset rows, and whether their object is stored
  rewrite,     \* the reordering under way: its order and the rows written in each pass
  forms,       \* the upload forms
  handlers     \* finalizations under way at the server

vars == <<plan, sources, revisions, assets, rewrite, forms, handlers>>
uploads == <<assets, forms>>

-----------------------------------------------------------------------------
Types == {"WEB_PAGE", "FILE"}
NoSource == [at |-> "unused", type |-> "WEB_PAGE", position |-> 0, generation |-> 0]
Deleted == [NoSource EXCEPT !.at = "deleted"]
NoAsset == [status |-> "unused", expired |-> FALSE, stored |-> FALSE]
NoRewrite == [order |-> <<>>, offset |-> 0, moved |-> {}, placed |-> {}]
Idle == [stage |-> "idle", asset |-> None, target |-> None]

Live == {s \in Sources : sources[s].at = "live"}
Position(s) == sources[s].position
Behind(rows) == IF rows = {} THEN 0 ELSE Max({Position(s) : s \in rows}) + 1
Before(s) == {t \in Live : Position(t) < Position(s)}

Unlocked == rewrite = NoRewrite

Init ==
  /\ plan = [entitled |-> TRUE, types |-> Types, max |-> MaxAdmitted]
  /\ sources = [s \in Sources |-> NoSource]
  /\ revisions = {}
  /\ assets = [a \in Assets |-> NoAsset]
  /\ rewrite = NoRewrite
  /\ forms = [f \in Forms |-> Idle]
  /\ handlers = {}

-----------------------------------------------------------------------------
\* Entitlement.
Eligible == {s \in Live : sources[s].type \in plan.types}

\* loadCurrentMerchantKnowledgeEntitlement: a live subscription, its active plan, the feature.
Entitled == plan.entitled

RequireAllowed(type) == Entitled /\ type \in plan.types

(* Slip: the first sources count whether their type is allowed or not. *)
PlanEntitledFirst(s) ==
  /\ s \in Eligible
  /\ Cardinality(Before(s)) < plan.max

\* requireCurrentlyPlanEntitledSource
PlanEntitled(s) ==
  /\ s \in Eligible
  /\ Cardinality(Before(s) \cap Eligible) < plan.max

(* Slip: one source too many. *)
RoomInclusive(type) == RequireAllowed(type) /\ Cardinality(Eligible) <= plan.max

Room(type) == RequireAllowed(type) /\ Cardinality(Eligible) < plan.max

(* The settings page counts the same sources for itself, and enables buttons. *)
WithinCount == {s \in Eligible : Cardinality({t \in Eligible : Position(t) < Position(s)}) < plan.max}
CurrentlyPlanEntitled(s) == Entitled /\ s \in WithinCount
RoomShown == Cardinality(Eligible) < plan.max

MayAdd == Entitled /\ "WEB_PAGE" \in plan.types /\ RoomShown

\* The forms that upload, whatever room the plan has left.
MayUpload == Entitled /\ "FILE" \in plan.types
MayReplace(s) == MayUpload /\ sources[s].type = "FILE"

\* Every page's Refresh, whatever the plan says of it.
MayRefresh(s) == Entitled /\ sources[s].type = "WEB_PAGE"

-----------------------------------------------------------------------------
\* Sources and revisions.
Revision(s, generation, reason, input) ==
  [source |-> s, generation |-> generation, reason |-> reason, input |-> input]

Latest(s) == CHOOSE r \in revisions : r.source = s /\ r.generation = sources[s].generation

Handler(asset, target, copy) ==
  [asset |-> asset, target |-> target, copy |-> copy, at |-> "read", revision |-> None]

Create(s, type, input) ==
  /\ sources' = [sources EXCEPT ![s] =
       [at |-> "live", type |-> type, position |-> Behind(Live), generation |-> 1]]
  /\ revisions' = revisions \cup {Revision(s, 1, "CREATE", input)}

Revise(s, reason, input) ==
  /\ sources' = [sources EXCEPT ![s].generation = @ + 1]
  /\ revisions' = revisions \cup {Revision(s, sources[s].generation + 1, reason, input)}

CreateWebPage(s, url) ==
  /\ Unlocked /\ sources[s] = NoSource
  /\ Room("WEB_PAGE")
  /\ Create(s, "WEB_PAGE", url)
  /\ UNCHANGED <<plan, rewrite, handlers, uploads>>

Edited(s) ==
  /\ Unlocked /\ s \in Live /\ sources[s].generation < MaxGeneration
  /\ RequireAllowed(sources[s].type) /\ PlanEntitled(s)
  /\ UNCHANGED <<plan, rewrite, handlers, uploads>>

\* A page edited without a new address, or an edited file, keeps its revision.
EditWebPage(s, url) ==
  /\ Edited(s) /\ sources[s].type = "WEB_PAGE"
  /\ Latest(s).input # url
  /\ Revise(s, "URL_CHANGE", url)

RefreshWebPage(s) ==
  /\ Edited(s) /\ sources[s].type = "WEB_PAGE"
  /\ Revise(s, "REFRESH", Latest(s).input)

ReprocessRefused(s) ==
  \/ ~RequireAllowed("FILE") \/ ~PlanEntitled(s)
  \/ Latest(s).input \notin Assets
  \/ assets[Latest(s).input].status # "AVAILABLE"

Reprocess(s) ==
  /\ Edited(s) /\ sources[s].type = "FILE"
  /\ ~ReprocessRefused(s)
  /\ Revise(s, "REPROCESS", Latest(s).input)

-----------------------------------------------------------------------------
(* rewritePositions: one statement moves every row behind the highest        *)
(* position, another puts each where it belongs; each writes row by row.     *)
(* Slip: the rows are put in their places without the first statement. *)
StartRewriteDirect(order) ==
  rewrite' = [order |-> order, offset |-> 0, moved |-> {order[i] : i \in DOMAIN order}, placed |-> {}]

StartRewrite(order) ==
  rewrite' = IF \A i \in DOMAIN order : sources'[order[i]].position = i - 1 THEN NoRewrite
             ELSE [order |-> order, offset |-> Behind({order[i] : i \in DOMAIN order}), moved |-> {}, placed |-> {}]

Rows == {rewrite.order[i] : i \in DOMAIN rewrite.order}

MoveRow(s) ==
  /\ s \in Rows \ rewrite.moved
  /\ sources' = [sources EXCEPT ![s].position = @ + rewrite.offset]
  /\ rewrite' = [rewrite EXCEPT !.moved = @ \cup {s}]
  /\ UNCHANGED <<plan, revisions, handlers, uploads>>

PlaceRow(i) ==
  /\ rewrite.moved = Rows /\ i \in DOMAIN rewrite.order
  /\ LET s == rewrite.order[i]
     IN /\ s \notin rewrite.placed
        /\ sources' = [sources EXCEPT ![s].position = i - 1]
        /\ rewrite' = IF rewrite.placed \cup {s} = Rows THEN NoRewrite
                      ELSE [rewrite EXCEPT !.placed = @ \cup {s}]
  /\ UNCHANGED <<plan, revisions, handlers, uploads>>

Orders(rows) ==
  {order \in [1..Cardinality(rows) -> rows] : \A i, j \in 1..Cardinality(rows) : i # j => order[i] # order[j]}

Reorder ==
  /\ Unlocked /\ Entitled
  /\ \E order \in Orders(Live) : UNCHANGED sources /\ StartRewrite(order)
  /\ UNCHANGED <<plan, revisions, handlers, uploads>>

Delete(s) ==
  /\ Unlocked /\ Entitled /\ s \in Live
  /\ sources' = [sources EXCEPT ![s] = Deleted]
  /\ revisions' = {r \in revisions : r.source # s}
  /\ StartRewrite([i \in 1..Cardinality(Live \ {s}) |->
       CHOOSE t \in Live \ {s} : Cardinality(Before(t) \ {s}) = i - 1])
  /\ UNCHANGED <<plan, handlers, uploads>>

-----------------------------------------------------------------------------
\* Uploads: MerchantKnowledgeUploadForm and the two requests it makes.
Stage(f, stage) == forms' = [forms EXCEPT ![f].stage = stage]
Fail(f) == forms' = [forms EXCEPT ![f] = Idle]

UploadIntent(f, a, target) ==
  /\ Unlocked /\ forms[f] = Idle
  /\ assets[a] = NoAsset
  /\ target # None => target \in Live /\ sources[target].type = "FILE"
  /\ IF RequireAllowed("FILE")
     THEN /\ assets' = [assets EXCEPT ![a].status = "PENDING_UPLOAD"]
          /\ forms' = [forms EXCEPT ![f] = [stage |-> "uploading", asset |-> a, target |-> target]]
     ELSE Fail(f) /\ UNCHANGED assets
  /\ UNCHANGED <<plan, sources, revisions, rewrite, handlers>>

\* The object may be stored though the form does not hear of it.
Put(f) ==
  /\ forms[f].stage = "uploading"
  /\ \/ /\ assets' = [assets EXCEPT ![forms[f].asset].stored = TRUE]
        /\ Stage(f, "finalizing") \/ Fail(f)
     \/ UNCHANGED assets /\ Fail(f)
  /\ UNCHANGED <<plan, sources, revisions, rewrite, handlers>>

\* The request may reach the server twice.
Finalize(f) ==
  /\ forms[f].stage = "finalizing"
  /\ \E copies \in {{1}, {1, 2}} :
       handlers' = handlers \cup {Handler(forms[f].asset, forms[f].target, copy) : copy \in copies}
  /\ Stage(f, "waiting")
  /\ UNCHANGED <<plan, sources, revisions, assets, rewrite>>

Reply(a) ==
  forms' = [f \in Forms |-> IF forms[f].stage = "waiting" /\ forms[f].asset = a THEN Idle ELSE forms[f]]

Pending(a) == assets[a].status = "PENDING_UPLOAD" /\ ~assets[a].expired

Refused(h) == handlers' = handlers \ {h} /\ Reply(h.asset)

\* The reading of the row and of the object.
FinalizeRead(h) ==
  /\ h.at = "read"
  /\ IF Pending(h.asset) /\ assets[h.asset].stored
     THEN handlers' = (handlers \ {h}) \cup {[h EXCEPT !.at = "commit"]} /\ UNCHANGED forms
     ELSE Refused(h)
  /\ UNCHANGED <<plan, sources, revisions, assets, rewrite>>

(* Slip: the transaction trusts what was read before it. *)
FinalizableRead(h) ==
  /\ RequireAllowed("FILE")
  /\ IF h.target = None THEN Room("FILE") ELSE h.target \in Live /\ PlanEntitled(h.target)

Finalizable(h) ==
  /\ Pending(h.asset)
  /\ RequireAllowed("FILE")
  /\ IF h.target = None THEN Room("FILE") ELSE h.target \in Live /\ PlanEntitled(h.target)

Replace(s, a) == Revise(s, "FILE_REPLACE", a)

FinalizeCommit(h, s) ==
  /\ h.at = "commit" /\ Unlocked
  /\ IF ~Finalizable(h)
     THEN Refused(h) /\ UNCHANGED <<sources, revisions, assets>>
     ELSE /\ IF h.target = None THEN sources[s] = NoSource /\ Create(s, "FILE", h.asset)
             ELSE s = h.target /\ sources[s].generation < MaxGeneration /\ Replace(s, h.asset)
          /\ assets' = [assets EXCEPT ![h.asset].status = "AVAILABLE"]
          /\ handlers' = (handlers \ {h}) \cup
               {[h EXCEPT !.at = "publish", !.revision = r] : r \in revisions' \ revisions}
          /\ UNCHANGED forms
  /\ UNCHANGED <<plan, rewrite>>

\* After the commit the revision is offered to the queue, which may fail; the
\* queue, and the preference that keeps a revision from it, are left out.
Publish(h) ==
  /\ h.at = "publish"
  /\ handlers' = handlers \ {h}
  /\ Reply(h.asset)
  /\ UNCHANGED <<plan, sources, revisions, assets, rewrite>>

LoseReply(f) ==
  /\ forms[f].stage = "waiting"
  /\ Fail(f)
  /\ UNCHANGED <<plan, sources, revisions, assets, rewrite, handlers>>

Expire(a) ==
  /\ assets[a].status = "PENDING_UPLOAD" /\ ~assets[a].expired
  /\ assets' = [assets EXCEPT ![a].expired = TRUE]
  /\ UNCHANGED <<plan, sources, revisions, rewrite, forms, handlers>>

-----------------------------------------------------------------------------
PlanMoves ==
  /\ \/ plan' = [plan EXCEPT !.entitled = FALSE]
     \/ \E types \in {Types, {"FILE"}}, max \in 1..MaxAdmitted :
          plan' = [entitled |-> TRUE, types |-> types, max |-> max]
  /\ UNCHANGED <<sources, revisions, assets, rewrite, forms, handlers>>

OnSource(s) ==
  \/ \E url \in Urls : CreateWebPage(s, url) \/ EditWebPage(s, url)
  \/ RefreshWebPage(s) \/ Reprocess(s) \/ Delete(s) \/ MoveRow(s)

Upload(f) ==
  \/ \E a \in Assets, target \in Sources \cup {None} : UploadIntent(f, a, target)
  \/ Put(f) \/ Finalize(f) \/ LoseReply(f)

Handle(h) ==
  FinalizeRead(h) \/ (\E s \in Sources : FinalizeCommit(h, s)) \/ Publish(h)

Next ==
  \/ \E s \in Sources : OnSource(s)
  \/ Reorder \/ \E i \in 1..Cardinality(Sources) : PlaceRow(i)
  \/ \E f \in Forms : Upload(f)
  \/ \E h \in handlers : Handle(h)
  \/ (\E a \in Assets : Expire(a)) \/ PlanMoves

Spec == Init /\ [][Next]_vars

-----------------------------------------------------------------------------
TypeOK ==
  /\ \A s \in Live : /\ sources[s].type \in Types
                     /\ sources[s].generation \in 1..MaxGeneration
  /\ \A r \in revisions : /\ r.input \in Urls \cup Assets
                          /\ r.reason = "CREATE" <=> r.generation = 1
  /\ \A a \in Assets : assets[a].status \in {"unused", "PENDING_UPLOAD", "AVAILABLE"}

(* No two sources of the shop have one position, not even between two rows of *)
(* a statement of rewritePositions, where a unique index would fail it.       *)
PositionsUnique == \A s, t \in Live : s # t => Position(s) # Position(t)

(* After every request the positions count from 0 without a gap: the order    *)
(* decides which sources the plan admits.                                     *)
PositionsDense == Unlocked => {Position(s) : s \in Live} = {i - 1 : i \in 1..Cardinality(Live)}

(* The revisions of a source are its generations, one each, up to the current *)
(* one, whichever requests edit, refresh, replace and reprocess it.           *)
RevisionOfEachGeneration ==
  \A s \in Live : \A g \in 1..MaxGeneration :
    Cardinality({r \in revisions : r.source = s /\ r.generation = g})
      = IF g <= sources[s].generation THEN 1 ELSE 0

(* An upload ends up in one source at most, though its finalization arrives   *)
(* twice or its reply is lost.                                                *)
AssetUsedOnce ==
  \A a \in Assets :
    Cardinality({r \in revisions : r.input = a /\ r.reason \in {"CREATE", "FILE_REPLACE"}}) <= 1

(* Of the buttons that the page enables, Refresh and the upload forms can be  *)
(* refused: exactly for a source that the page itself counts out of the plan, *)
(* or a plan that it knows to be full.  The others work; in particular an     *)
(* admitted file still has its upload.                                        *)
RefusedAsCounted ==
  Unlocked =>
    /\ MayAdd => Room("WEB_PAGE")
    /\ MayUpload => (Room("FILE") <=> RoomShown)
    /\ \A s \in Live :
         /\ CurrentlyPlanEntitled(s) /\ sources[s].type = "FILE" => ~ReprocessRefused(s)
         /\ CurrentlyPlanEntitled(s) \/ MayRefresh(s) \/ MayReplace(s) =>
              (RequireAllowed(sources[s].type) /\ PlanEntitled(s) <=> CurrentlyPlanEntitled(s))

(* No request adds a source beyond what the plan admits, two uploads begun    *)
(* while there was room for one included.                                     *)
AddedWithinPlan ==
  [][Live' \ Live # {} => Cardinality(Eligible') <= plan.max]_vars

(* "The revision is durable before this queue hint is published."             *)
(* (merchant-knowledge-queue.server): the worker never hears of a revision    *)
(* that was not written, though its source may be gone again.                 *)
HintIsDurable ==
  \A h \in handlers : h.at = "publish" =>
    \/ h.revision \in revisions
    \/ h.revision.source \in Sources /\ sources[h.revision.source] = Deleted

(* What holds of the sources and their revisions between any two requests,    *)
(* and between the rows of a statement that rewrites the positions.           *)
KnowledgeInv ==
  /\ TypeOK
  /\ PositionsUnique
  /\ PositionsDense
  /\ RevisionOfEachGeneration
  /\ HintIsDurable

=============================================================================
