-------------------------- MODULE PromotionsProofs ---------------------------
(* Proofs about Promotions, for any number of tabs, campaigns, plans and      *)
(* reopenings.  That the lock holds and that the selected grant is the latest *)
(* one rest on one chain: a grant was last selected before its campaign's     *)
(* expiry, an expiry never moves back, and a transaction that finds the       *)
(* selection expired at its own time keeps that until it commits, because a   *)
(* write of the selection overtakes it.                                       *)
EXTENDS Promotions, TLAPS

Steps == {"closed", "loading", "shown", "begin", "commit", "answered"}

Answers == {"none", "denied", "ok", "UNAVAILABLE", "NOT_ELIGIBLE", "ALREADY_SELECTED"}

TabStates ==
  [at : Steps, now : Nat, plan : Plans \cup {None}, locked : BOOLEAN,
   offers : SUBSET Campaigns, campaign : Campaigns \cup {None}, attempt : Nat, quantity : Nat,
   fresh : BOOLEAN, overtaken : BOOLEAN, answer : Answers]

CampaignRows == [open : BOOLEAN, expires : Nat, quantity : Nat \ {0}, reopened : Nat]

GrantRows ==
  [quantity : Nat, reserved : Nat, committed : Nat, first : Nat, last : Nat, used : BOOLEAN]

(* A grant was last selected while its campaign ran, and the shop without a   *)
(* selection has no grant at all.                                             *)
Accounts(grant) ==
  /\ grant.reserved + grant.committed <= grant.quantity
  /\ (grant.quantity > 0) = (grant.first > 0)
  /\ grant.first <= grant.last

RowsOK ==
  /\ clock \in 1..MaxClock
  /\ context \in Contexts
  /\ campaigns \in [Campaigns -> CampaignRows]
  /\ grants \in [Campaigns -> GrantRows]
  /\ selection \in Campaigns \cup {None}
  /\ \A c \in Campaigns : Accounts(grants[c])

LastBeforeExpiry == \A c \in Campaigns : grants[c].quantity > 0 => grants[c].last < campaigns[c].expires

SelectionOfGrant == IF selection = None THEN History = {} ELSE grants[selection].quantity > 0

(* What a request holds: a time that has come, a campaign, and in the         *)
(* transaction the campaign's credits as long as the campaign runs.           *)
Knows(tab) ==
  /\ tab.now <= clock
  /\ tab.at \in {"begin", "commit"} => tab.campaign \in Campaigns /\ tab.now > 0
  /\ tab.at = "commit" => tab.quantity > 0 /\ campaigns[tab.campaign].expires > tab.now

(* A transaction that nothing has overtaken still sees the selection it may   *)
(* replace: selected before its time, and expired or reopened since.          *)
Sees(tab) ==
  tab.at = "commit" /\ ~tab.overtaken /\ selection # None =>
    /\ grants[selection].last < tab.now
    /\ campaigns[selection].expires <= tab.now \/ campaigns[selection].reopened >= tab.now

(* A page that nothing has overtaken shows what the transaction would check.  *)
Agrees(tab) ==
  tab.fresh =>
    /\ tab.at = "loading" => Admitted /\ tab.now = clock /\ tab.plan = context.plan /\ tab.locked = Locked(clock)
    /\ tab.at = "shown" /\ tab.offers # {} =>
         Admitted /\ ~Locked(clock) /\ tab.offers \subseteq Offered(context.plan, clock)
    /\ tab.at \in {"begin", "commit"} =>
         tab.now = clock /\ ~Locked(clock) /\ tab.campaign \in Offered(context.plan, clock)
    /\ tab.at = "answered" => tab.answer \in {"ok", "UNAVAILABLE"}

TabOK(tab) == Knows(tab) /\ Sees(tab) /\ Agrees(tab)

IInv ==
  /\ RowsOK
  /\ LastBeforeExpiry
  /\ SelectionOfGrant
  /\ SelectedIsLatest
  /\ tabs \in [Tabs -> TabStates]
  /\ \A t \in Tabs : TabOK(tabs[t])

-----------------------------------------------------------------------------
(* A page is read, an offer is submitted, a transaction reads or gives up:    *)
(* one tab changes and no row.                                                *)
LEMMA OneTab ==
  ASSUME IInv, NEW t \in Tabs, NEW new \in TabStates, TabOK(new), Becomes(t, new),
         UNCHANGED <<clock, context, campaigns, rows, reopenings>>
  PROVE  IInv'
<1>1. tabs' \in [Tabs -> TabStates] /\ \A u \in Tabs : tabs'[u] = IF u = t THEN new ELSE tabs[u]
  BY DEF IInv, Becomes
<1>2. UNCHANGED <<clock, context, campaigns, grants, selection>>
  BY DEF rows
<1>3. RowsOK'
  BY <1>2 DEF IInv, RowsOK, Contexts, Accounts
<1>4. LastBeforeExpiry' /\ SelectionOfGrant' /\ SelectedIsLatest'
  BY <1>2 DEF IInv, LastBeforeExpiry, SelectionOfGrant, SelectedIsLatest, History
<1>5. \A p \in TabStates : TabOK(p) => TabOK(p)'
  BY <1>2 DEF TabOK, Knows, Sees, Agrees, Admitted, Locked, Offered, Runs, IsTargetEligible
<1>6. (\A u \in Tabs : TabOK(tabs[u]))'
  <2> SUFFICES ASSUME NEW u \in Tabs PROVE TabOK(tabs[u])'
    OBVIOUS
  <2>1. PICK p \in TabStates : p = tabs'[u] /\ TabOK(p)
    BY <1>1 DEF IInv
  <2>2. TabOK(p)'
    BY <1>5, <2>1
  <2> QED  BY <2>1, <2>2 DEF TabOK, Knows, Sees, Agrees
<1> QED  BY <1>1, <1>3, <1>4, <1>6 DEF IInv

(* A closed or answered tab holds nothing that could be wrong.                *)
LEMMA ClosedOK ==
  /\ Closed \in TabStates /\ (IInv => TabOK(Closed))
<1>1. None \in Plans \cup {None} /\ None \in Campaigns \cup {None} /\ {} \in SUBSET Campaigns
  OBVIOUS
<1>2. Closed \in TabStates
  BY <1>1 DEF Closed, TabStates, Steps, Answers
<1>3. IInv => TabOK(Closed)
  BY BoundsAssumption DEF IInv, RowsOK, TabOK, Knows, Sees, Agrees, Closed
<1> QED  BY <1>2, <1>3

LEMMA AnswerOK ==
  ASSUME IInv, NEW t \in Tabs, NEW answer \in Answers,
         tabs[t].fresh => answer \in {"ok", "UNAVAILABLE"}
  PROVE  Answered(t, answer) \in TabStates /\ TabOK(Answered(t, answer))
<1> DEFINE new == Answered(t, answer)
<1>1. tabs[t].fresh \in BOOLEAN
  BY DEF IInv, TabStates
<1>2. "answered" \in Steps
  BY DEF Steps
<1>3. new \in TabStates
  BY <1>1, <1>2, ClosedOK DEF Answered, TabStates
<1>4. /\ new.at = "answered" /\ new.answer = answer /\ new.fresh = tabs[t].fresh
      /\ new.now = 0
  BY DEF Answered, Closed
<1>5. clock \in Nat
  BY BoundsAssumption DEF IInv, RowsOK
<1> HIDE DEF new
<1>6. TabOK(new)
  BY <1>4, <1>5 DEF TabOK, Knows, Sees, Agrees
<1> QED  BY <1>3, <1>6 DEF new

LEMMA LoadKeeps ==
  ASSUME IInv, NEW t \in Tabs, Load(t)
  PROVE  IInv'
<1>1. UNCHANGED <<clock, context, campaigns, rows, reopenings>>
  BY DEF Load
<1>2. CASE Admitted
  <2> DEFINE new == [Closed EXCEPT !.at = "loading", !.now = clock, !.plan = context.plan,
                       !.fresh = TRUE, !.locked = Locked(clock), !.campaign = selection]
  <2>1. Becomes(t, new)
    BY <1>2 DEF Load
  <2>2. clock \in Nat /\ context.plan \in Plans /\ selection \in Campaigns \cup {None}
    BY BoundsAssumption DEF IInv, RowsOK, Contexts
  <2>3. Locked(clock) \in BOOLEAN /\ "loading" \in Steps
    BY DEF Locked, Steps
  <2>4. new \in TabStates
    BY <2>2, <2>3, ClosedOK DEF TabStates
  <2>5. /\ new.at = "loading" /\ new.now = clock /\ new.plan = context.plan
        /\ new.locked = Locked(clock)
    BY DEF Closed
  <2> HIDE DEF new
  <2>6. TabOK(new)
    BY <1>2, <2>2, <2>5 DEF TabOK, Knows, Sees, Agrees
  <2> QED  BY <1>1, <2>1, <2>4, <2>6, OneTab
<1>3. CASE ~Admitted
  <2>1. Becomes(t, Closed)
    BY <1>3 DEF Load
  <2> QED  BY <1>1, <2>1, ClosedOK, OneTab
<1> QED  BY <1>2, <1>3

(* The offers a page enables are those a transaction of its time accepts.     *)
LEMMA LoadOffersKeeps ==
  ASSUME IInv, NEW t \in Tabs, LoadOffers(t)
  PROVE  IInv'
<1> DEFINE offers == IF tabs[t].locked THEN {}
                     ELSE Offered(tabs[t].plan, tabs[t].now) \ {tabs[t].campaign, selection}
           new == [Closed EXCEPT !.at = "shown", !.fresh = tabs[t].fresh, !.offers = offers]
<1>1. Becomes(t, new) /\ At(t, "loading") /\ UNCHANGED <<clock, context, campaigns, rows, reopenings>>
  BY DEF LoadOffers
<1>2. offers \in SUBSET Campaigns
  BY DEF Offered
<1>3. tabs[t].fresh \in BOOLEAN /\ "shown" \in Steps
  BY DEF IInv, TabStates, Steps
<1>4. tabs[t].fresh /\ offers # {} => Admitted /\ ~Locked(clock) /\ offers \subseteq Offered(context.plan, clock)
  BY <1>1 DEF IInv, TabOK, Agrees, At
<1> HIDE DEF offers
<1>5. new \in TabStates
  BY <1>2, <1>3, ClosedOK DEF TabStates
<1>6. new.at = "shown" /\ new.fresh = tabs[t].fresh /\ new.offers = offers /\ new.now = 0
  BY DEF Closed
<1>7. clock \in Nat
  BY BoundsAssumption DEF IInv, RowsOK
<1> HIDE DEF new
<1>8. TabOK(new)
  BY <1>4, <1>6, <1>7 DEF TabOK, Knows, Sees, Agrees
<1> QED  BY <1>1, <1>5, <1>8, OneTab

LEMMA SubmitKeeps ==
  ASSUME IInv, NEW t \in Tabs, NEW c \in Campaigns, Submit(t, c)
  PROVE  IInv'
<1>1. UNCHANGED <<clock, context, campaigns, rows, reopenings>> /\ At(t, "shown") /\ c \in tabs[t].offers
  BY DEF Submit
<1>2. tabs[t].fresh => Admitted /\ ~Locked(clock) /\ c \in Offered(context.plan, clock)
  BY <1>1 DEF IInv, TabOK, Agrees, At
<1>3. CASE Admitted
  <2> DEFINE new == [tabs[t] EXCEPT !.at = "begin", !.campaign = c, !.offers = {},
                                    !.now = clock, !.attempt = 1]
  <2>1. Becomes(t, new)
    BY <1>3 DEF Submit
  <2>2. tabs[t] \in TabStates /\ clock \in Nat /\ clock > 0
    BY BoundsAssumption DEF IInv, RowsOK
  <2>3. "begin" \in Steps /\ c \in Campaigns \cup {None} /\ {} \in SUBSET Campaigns
    BY DEF Steps
  <2>4. new \in TabStates
    BY <2>2, <2>3 DEF TabStates
  <2>5. new.at = "begin" /\ new.campaign = c /\ new.now = clock /\ new.fresh = tabs[t].fresh
    BY <2>2 DEF TabStates
  <2> HIDE DEF new
  <2>6. TabOK(new)
    BY <1>2, <2>2, <2>5 DEF TabOK, Knows, Sees, Agrees
  <2> QED  BY <1>1, <2>1, <2>4, <2>6, OneTab
<1>4. CASE ~Admitted
  <2>1. Becomes(t, Answered(t, "denied")) /\ ~tabs[t].fresh
    BY <1>2, <1>4 DEF Submit, Answer
  <2>2. "denied" \in Answers
    BY DEF Answers
  <2>3. Answered(t, "denied") \in TabStates /\ TabOK(Answered(t, "denied"))
    BY <2>1, <2>2, AnswerOK
  <2> QED  BY <1>1, <2>1, <2>3, OneTab
<1> QED  BY <1>3, <1>4

(* The transaction's reads: what it refuses is stale, and what it goes on     *)
(* with has no selection left to lock it.                                     *)
LEMMA BeginKeeps ==
  ASSUME IInv, NEW t \in Tabs, Begin(t)
  PROVE  IInv'
<1> DEFINE c == tabs[t].campaign
           now == tabs[t].now
           refusal == Refusal(c, now)
<1>1. UNCHANGED <<clock, context, campaigns, rows, reopenings>> /\ At(t, "begin")
  BY DEF Begin
<1>2. /\ tabs[t] \in TabStates /\ c \in Campaigns /\ now \in Nat /\ now > 0 /\ now <= clock
      /\ tabs[t].fresh => now = clock /\ ~Locked(clock) /\ c \in Offered(context.plan, clock)
  BY <1>1 DEF IInv, TabOK, Knows, Agrees, At, TabStates
<1>3. CASE refusal # "none"
  <2>1. Becomes(t, Answered(t, refusal))
    BY <1>3 DEF Begin, Answer
  <2>2. refusal \in Answers
    BY DEF Refusal, Answers
  <2>3. tabs[t].fresh => refusal \in {"ok", "UNAVAILABLE"}
    BY <1>2, <1>3 DEF Refusal
  <2> HIDE DEF refusal
  <2>4. Answered(t, refusal) \in TabStates /\ TabOK(Answered(t, refusal))
    BY <2>2, <2>3, AnswerOK
  <2> QED  BY <1>1, <2>1, <2>4, OneTab
<1>4. CASE refusal = "none"
  <2> DEFINE new == [tabs[t] EXCEPT !.at = "commit", !.overtaken = FALSE, !.quantity = campaigns[c].quantity]
  <2>1. Becomes(t, new)
    BY <1>4 DEF Begin
  <2>2. c \in Offered(context.plan, now) /\ ~Locked(now)
    BY <1>4 DEF Refusal
  <2>3. campaigns[c].quantity \in Nat \ {0} /\ "commit" \in Steps
    BY <1>2 DEF IInv, RowsOK, CampaignRows, Steps
  <2>4. new \in TabStates
    BY <1>2, <2>3 DEF TabStates
  <2>5. /\ new.at = "commit" /\ new.overtaken = FALSE /\ new.quantity = campaigns[c].quantity
        /\ new.campaign = c /\ new.now = now /\ new.fresh = tabs[t].fresh
    BY <1>2 DEF TabStates
  <2>6. campaigns[c].expires > now
    BY <2>2 DEF Offered, Runs
  <2>7. selection # None => /\ selection \in Campaigns /\ campaigns[selection].expires \in Nat
                            /\ grants[selection].last \in Nat
                            /\ grants[selection].last < campaigns[selection].expires
    BY DEF IInv, RowsOK, LastBeforeExpiry, SelectionOfGrant, CampaignRows, GrantRows
  <2>8. selection # None => campaigns[selection].expires <= now
    BY <1>2, <2>2, <2>7 DEF Locked
  <2> HIDE DEF new, c, now
  <2>9. Knows(new)
    BY <1>2, <2>3, <2>5, <2>6 DEF Knows
  <2>10. Sees(new)
    BY <1>2, <2>5, <2>7, <2>8 DEF Sees
  <2>11. Agrees(new)
    BY <1>2, <2>5 DEF Agrees
  <2> QED  BY <1>1, <2>1, <2>4, <2>9, <2>10, <2>11, OneTab DEF TabOK
<1> QED  BY <1>3, <1>4

LEMMA ConflictKeeps ==
  ASSUME IInv, NEW t \in Tabs, Conflict(t)
  PROVE  IInv'
<1>1. UNCHANGED <<clock, context, campaigns, rows, reopenings>> /\ At(t, "commit")
  BY DEF Conflict
<1>2. tabs[t] \in TabStates /\ TabOK(tabs[t])
  BY DEF IInv
<1>3. CASE Retries(t)
  <2> DEFINE new == [tabs[t] EXCEPT !.at = "begin", !.quantity = 0, !.overtaken = FALSE,
                       !.attempt = IF @ < 3 THEN @ + 1 ELSE @]
  <2>1. Becomes(t, new)
    BY <1>3 DEF Conflict
  <2>2. "begin" \in Steps /\ (IF tabs[t].attempt < 3 THEN tabs[t].attempt + 1 ELSE tabs[t].attempt) \in Nat
    BY <1>2 DEF Steps, TabStates
  <2>3. new \in TabStates
    BY <1>2, <2>2 DEF TabStates
  <2>4. /\ new.at = "begin" /\ new.campaign = tabs[t].campaign /\ new.now = tabs[t].now
        /\ new.fresh = tabs[t].fresh
    BY <1>2 DEF TabStates
  <2> HIDE DEF new
  <2>5. TabOK(new)
    BY <1>1, <1>2, <2>4 DEF TabOK, Knows, Sees, Agrees, At
  <2> QED  BY <1>1, <2>1, <2>3, <2>5, OneTab
<1>4. CASE ~Retries(t)
  <2>1. Becomes(t, Answered(t, "UNAVAILABLE"))
    BY <1>4 DEF Conflict, Answer
  <2>2. "UNAVAILABLE" \in Answers
    BY DEF Answers
  <2>3. Answered(t, "UNAVAILABLE") \in TabStates /\ TabOK(Answered(t, "UNAVAILABLE"))
    BY <2>2, AnswerOK
  <2> QED  BY <1>1, <2>1, <2>3, OneTab
<1> QED  BY <1>3, <1>4

-----------------------------------------------------------------------------
(* What the world writes makes every page stale, and moves no expiry back.    *)
LEMMA WorldKeeps ==
  ASSUME IInv, RowsOK', tabs' = Stale, UNCHANGED rows, clock <= clock',
         \A c \in Campaigns : /\ campaigns[c].expires <= campaigns'[c].expires
                              /\ \/ campaigns'[c].expires = campaigns[c].expires
                                    /\ campaigns'[c].reopened = campaigns[c].reopened
                                 \/ campaigns'[c].reopened = clock
  PROVE  IInv'
<1>1. UNCHANGED <<grants, selection>> /\ clock \in Nat /\ clock' \in Nat
  BY BoundsAssumption DEF rows, IInv, RowsOK
<1>2. \A c \in Campaigns : campaigns[c].expires \in Nat /\ campaigns'[c].expires \in Nat /\ grants[c].last \in Nat
  BY DEF IInv, RowsOK, CampaignRows, GrantRows
<1>3. LastBeforeExpiry'
  BY <1>1, <1>2 DEF IInv, LastBeforeExpiry
<1>4. SelectionOfGrant' /\ SelectedIsLatest'
  BY <1>1 DEF IInv, SelectionOfGrant, SelectedIsLatest, History
<1>5. tabs' \in [Tabs -> TabStates]
  BY DEF IInv, Stale, TabStates
<1>6. (\A t \in Tabs : TabOK(tabs[t]))'
  <2> SUFFICES ASSUME NEW t \in Tabs PROVE TabOK(tabs[t])'
    OBVIOUS
  <2>1. tabs[t] \in TabStates /\ TabOK(tabs[t]) /\ tabs'[t] = [tabs[t] EXCEPT !.fresh = FALSE]
    BY DEF IInv, Stale
  <2>2. /\ tabs'[t].fresh = FALSE /\ tabs'[t].at = tabs[t].at /\ tabs'[t].now = tabs[t].now
        /\ tabs'[t].campaign = tabs[t].campaign /\ tabs'[t].quantity = tabs[t].quantity
        /\ tabs'[t].overtaken = tabs[t].overtaken /\ tabs[t].now \in Nat
    BY <2>1 DEF TabStates
  <2>3. Knows(tabs[t])'
    BY <1>1, <1>2, <2>1, <2>2 DEF TabOK, Knows
  <2>4. Sees(tabs[t])'
    <3> SUFFICES ASSUME tabs[t].at = "commit", ~tabs[t].overtaken, selection # None
                 PROVE  /\ grants[selection].last < tabs[t].now
                        /\ \/ campaigns'[selection].expires <= tabs[t].now
                           \/ campaigns'[selection].reopened >= tabs[t].now
      BY <1>1, <2>2 DEF Sees
    <3>1. selection \in Campaigns /\ tabs[t].now <= clock
      BY <2>1 DEF IInv, RowsOK, TabOK, Knows
    <3> QED  BY <1>1, <2>1, <2>2, <3>1 DEF TabOK, Sees
  <2>5. Agrees(tabs[t])'
    BY <2>2 DEF Agrees
  <2> QED  BY <2>3, <2>4, <2>5 DEF TabOK
<1> QED  BY <1>3, <1>4, <1>5, <1>6 DEF IInv

LEMMA TickKeeps ==
  ASSUME IInv, Tick
  PROVE  IInv'
<1>1. clock' = clock + 1 /\ clock < MaxClock /\ tabs' = Stale /\ UNCHANGED <<context, campaigns, rows>>
  BY DEF Tick
<1>2. clock \in 1..MaxClock
  BY DEF IInv, RowsOK
<1>3. clock' \in 1..MaxClock /\ clock <= clock'
  BY <1>1, <1>2, BoundsAssumption
<1>4. RowsOK'
  BY <1>1, <1>3 DEF IInv, RowsOK, rows, Contexts, Accounts
<1>5. \A c \in Campaigns : campaigns[c].expires \in Nat
  BY DEF IInv, RowsOK, CampaignRows
<1> QED  BY <1>1, <1>3, <1>4, <1>5, WorldKeeps

LEMMA ContextKeeps ==
  ASSUME IInv, ContextMoves
  PROVE  IInv'
<1>1. context' \in Contexts /\ tabs' = Stale /\ UNCHANGED <<clock, campaigns, rows>>
  BY DEF ContextMoves
<1>2. RowsOK'
  BY <1>1 DEF IInv, RowsOK, rows, Contexts, Accounts
<1>3. clock \in Nat /\ \A c \in Campaigns : campaigns[c].expires \in Nat
  BY BoundsAssumption DEF IInv, RowsOK, CampaignRows
<1> QED  BY <1>1, <1>2, <1>3, WorldKeeps

LEMMA CloseKeeps ==
  ASSUME IInv, NEW c \in Campaigns, Close(c)
  PROVE  IInv'
<1>1. /\ campaigns' = [campaigns EXCEPT ![c].open = FALSE]
      /\ tabs' = Stale /\ UNCHANGED <<clock, context, rows>>
  BY DEF Close
<1>2. campaigns \in [Campaigns -> CampaignRows]
  BY DEF IInv, RowsOK
<1>3. campaigns' \in [Campaigns -> CampaignRows]
  BY <1>1, <1>2 DEF CampaignRows
<1>4. \A d \in Campaigns : /\ campaigns'[d].expires = campaigns[d].expires
                           /\ campaigns'[d].reopened = campaigns[d].reopened
                           /\ campaigns[d].expires \in Nat
  BY <1>1, <1>2 DEF CampaignRows
<1>5. RowsOK'
  BY <1>1, <1>3 DEF IInv, RowsOK, rows, Contexts, Accounts
<1>6. clock \in Nat
  BY BoundsAssumption DEF IInv, RowsOK
<1> QED  BY <1>1, <1>4, <1>5, <1>6, WorldKeeps

LEMMA ReopenKeeps ==
  ASSUME IInv, NEW c \in Campaigns, NEW expires \in 1..MaxClock + 1, NEW quantity \in 1..MaxQuantity,
         Reopen(c, expires, quantity)
  PROVE  IInv'
<1> DEFINE new == [campaigns[c] EXCEPT !.open = TRUE, !.expires = expires, !.quantity = quantity, !.reopened = clock]
<1>1. /\ campaigns' = [campaigns EXCEPT ![c] = new] /\ expires >= campaigns[c].expires
      /\ tabs' = Stale /\ UNCHANGED <<clock, context, rows>>
  BY DEF Reopen
<1>2. campaigns \in [Campaigns -> CampaignRows] /\ clock \in Nat
  BY BoundsAssumption DEF IInv, RowsOK
<1>3. expires \in Nat /\ quantity \in Nat \ {0}
  BY BoundsAssumption
<1>4. new \in CampaignRows /\ new.expires = expires /\ new.reopened = clock
  BY <1>2, <1>3 DEF CampaignRows
<1> HIDE DEF new
<1>5. campaigns' \in [Campaigns -> CampaignRows]
  BY <1>1, <1>2, <1>4
<1>6. campaigns'[c] = new /\ \A d \in Campaigns \ {c} : campaigns'[d] = campaigns[d]
  BY <1>1, <1>2
<1>7. \A d \in Campaigns : campaigns[d].expires \in Nat
  BY <1>2 DEF CampaignRows
<1>8. RowsOK'
  BY <1>1, <1>5 DEF IInv, RowsOK, rows, Contexts, Accounts
<1> QED  BY <1>1, <1>2, <1>4, <1>6, <1>7, <1>8, WorldKeeps

-----------------------------------------------------------------------------
(* A write of the rows may overtake a tab, and makes its page stale.          *)
LEMMA OvertakenTyped ==
  ASSUME NEW tab \in TabStates, NEW b \in BOOLEAN
  PROVE  [tab EXCEPT !.overtaken = b, !.fresh = FALSE] \in TabStates
BY DEF TabStates

(* A credit of the selected grant is taken, spent or given back.              *)
LEMMA SpendsKeeps ==
  ASSUME IInv, selection # None, NEW next \in GrantRows, Spends(next), Accounts(next),
         next.quantity = grants[selection].quantity, next.last = grants[selection].last
  PROVE  IInv'
<1>1. /\ grants' = [grants EXCEPT ![selection] = next] /\ selection \in Campaigns
      /\ UNCHANGED <<clock, context, campaigns, selection>>
      /\ tabs' = [t \in Tabs |-> [tabs[t] EXCEPT !.fresh = FALSE,
                    !.overtaken = @ \/ (At(t, "commit") /\ tabs[t].campaign = selection)]]
  BY DEF Spends, IInv, RowsOK
<1>2. grants \in [Campaigns -> GrantRows]
  BY DEF IInv, RowsOK
<1>3. grants' \in [Campaigns -> GrantRows]
  BY <1>1, <1>2
<1>4. grants'[selection] = next /\ \A c \in Campaigns \ {selection} : grants'[c] = grants[c]
  BY <1>1, <1>2
<1>5. \A c \in Campaigns : grants'[c].quantity = grants[c].quantity /\ grants'[c].last = grants[c].last
  BY <1>4
<1>6. \A c \in Campaigns : Accounts(grants'[c])
  BY <1>4 DEF IInv, RowsOK
<1>7. RowsOK'
  BY <1>1, <1>3, <1>6 DEF IInv, RowsOK, Contexts, Accounts
<1>8. LastBeforeExpiry'
  BY <1>1, <1>5 DEF IInv, LastBeforeExpiry
<1>9. SelectionOfGrant' /\ SelectedIsLatest'
  BY <1>1, <1>5 DEF IInv, SelectionOfGrant, SelectedIsLatest, History
<1>10. tabs' \in [Tabs -> TabStates]
  <2>1. \A t \in Tabs : tabs[t] \in TabStates
    BY DEF IInv
  <2>2. \A t \in Tabs : tabs[t].overtaken \in BOOLEAN
    BY <2>1 DEF TabStates
  <2>3. \A t \in Tabs : (tabs[t].overtaken \/ (At(t, "commit") /\ tabs[t].campaign = selection)) \in BOOLEAN
    BY <2>2, Zenon DEF At
  <2>4. \A t \in Tabs : [tabs[t] EXCEPT !.fresh = FALSE,
                          !.overtaken = @ \/ (At(t, "commit") /\ tabs[t].campaign = selection)] \in TabStates
    <3> TAKE t \in Tabs
    <3>1. PICK b \in BOOLEAN : b = (tabs[t].overtaken \/ (At(t, "commit") /\ tabs[t].campaign = selection))
      BY <2>3
    <3>2. [tabs[t] EXCEPT !.overtaken = b, !.fresh = FALSE] \in TabStates
      BY <2>1, OvertakenTyped
    <3>3. [tabs[t] EXCEPT !.fresh = FALSE, !.overtaken = b] \in TabStates
      BY <2>1, <3>2 DEF TabStates
    <3> QED  BY <3>1, <3>3
  <2> QED  BY <1>1, <2>4
<1>11. (\A t \in Tabs : TabOK(tabs[t]))'
  <2> SUFFICES ASSUME NEW t \in Tabs PROVE TabOK(tabs[t])'
    OBVIOUS
  <2>1. tabs[t] \in TabStates /\ TabOK(tabs[t])
    BY DEF IInv
  <2>2. tabs'[t] = [tabs[t] EXCEPT !.fresh = FALSE,
                      !.overtaken = @ \/ (At(t, "commit") /\ tabs[t].campaign = selection)]
    BY <1>1
  <2>3. /\ tabs'[t].fresh = FALSE /\ tabs'[t].at = tabs[t].at /\ tabs'[t].now = tabs[t].now
        /\ tabs'[t].campaign = tabs[t].campaign /\ tabs'[t].quantity = tabs[t].quantity
        /\ tabs[t].overtaken => tabs'[t].overtaken
    BY <2>1, <2>2 DEF TabStates
  <2> QED  BY <1>1, <1>5, <2>1, <2>3 DEF TabOK, Knows, Sees, Agrees
<1> QED  BY <1>7, <1>8, <1>9, <1>10, <1>11 DEF IInv

(* Reservations and commitments stay within the grant.                        *)
LEMMA ReserveKeeps ==
  ASSUME IInv, Reserve
  PROVE  IInv'
<1> DEFINE old == grants[selection]
           next == [old EXCEPT !.reserved = @ + 1]
<1>1. selection # None /\ Remaining(old) > 0 /\ Spends(next)
  BY DEF Reserve, Spendable, Locked, IsUsableGrant
<1>2. old \in GrantRows /\ Accounts(old)
  BY <1>1 DEF IInv, RowsOK
<1>3. old.reserved + 1 \in Nat
  BY <1>2 DEF GrantRows
<1>4. next \in GrantRows
  BY <1>2, <1>3 DEF GrantRows
<1>5. /\ next.quantity = old.quantity /\ next.reserved = old.reserved + 1 /\ next.committed = old.committed
      /\ next.first = old.first /\ next.last = old.last
  BY <1>2 DEF GrantRows
<1>6. old.quantity \in Nat /\ old.reserved \in Nat /\ old.committed \in Nat
  BY <1>2 DEF GrantRows
<1> HIDE DEF next, old
<1>7. Accounts(next)
  BY <1>1, <1>2, <1>5, <1>6 DEF Accounts, Remaining
<1> QED  BY <1>1, <1>4, <1>5, <1>7, SpendsKeeps DEF old

LEMMA SettleKeeps ==
  ASSUME IInv, Settle
  PROVE  IInv'
<1> DEFINE old == grants[selection]
           back == [old EXCEPT !.reserved = @ - 1]
           spent == [old EXCEPT !.reserved = @ - 1, !.committed = @ + 1, !.used = TRUE]
<1>1. selection # None /\ old.reserved > 0
  BY DEF Settle
<1>2. old \in GrantRows /\ Accounts(old)
  BY <1>1 DEF IInv, RowsOK
<1>3. old.reserved - 1 \in Nat /\ old.committed + 1 \in Nat /\ TRUE \in BOOLEAN
  BY <1>1, <1>2 DEF GrantRows
<1>4. old.quantity \in Nat /\ old.reserved \in Nat /\ old.committed \in Nat
  BY <1>2 DEF GrantRows
<1>5. CASE Spends(back)
  <2>1. back \in GrantRows
    BY <1>2, <1>3 DEF GrantRows
  <2>2. /\ back.quantity = old.quantity /\ back.reserved = old.reserved - 1 /\ back.committed = old.committed
        /\ back.first = old.first /\ back.last = old.last
    BY <1>2 DEF GrantRows
  <2> HIDE DEF back, old
  <2>3. Accounts(back)
    BY <1>2, <1>4, <2>2 DEF Accounts
  <2> QED  BY <1>1, <1>5, <2>1, <2>2, <2>3, SpendsKeeps DEF old
<1>6. CASE Spends(spent)
  <2>1. spent \in GrantRows
    BY <1>2, <1>3 DEF GrantRows
  <2>2. /\ spent.quantity = old.quantity /\ spent.reserved = old.reserved - 1
        /\ spent.committed = old.committed + 1 /\ spent.first = old.first /\ spent.last = old.last
    BY <1>2 DEF GrantRows
  <2> HIDE DEF spent, old
  <2>3. Accounts(spent)
    BY <1>2, <1>4, <2>2 DEF Accounts
  <2> QED  BY <1>1, <1>6, <2>1, <2>2, <2>3, SpendsKeeps DEF old
<1> QED  BY <1>5, <1>6 DEF Settle

(* A selection commits: its grant becomes the latest, and every transaction   *)
(* under way is overtaken.                                                    *)
LEMMA CommitKeeps ==
  ASSUME IInv, NEW t \in Tabs, Commit(t)
  PROVE  IInv'
<1> DEFINE c == tabs[t].campaign
           now == tabs[t].now
           old == grants[c]
           new == Selected(old, tabs[t].quantity, now)
<1>1. /\ At(t, "commit") /\ ~tabs[t].overtaken
      /\ grants' = [grants EXCEPT ![c] = new] /\ selection' = c
      /\ tabs' = Overtaken(t, Answered(t, "ok"))
      /\ UNCHANGED <<clock, context, campaigns>>
  BY DEF Commit, MayCommit
<1>2. /\ tabs[t] \in TabStates /\ TabOK(tabs[t])
      /\ grants \in [Campaigns -> GrantRows]
  BY DEF IInv, RowsOK
<1>3. /\ c \in Campaigns /\ now \in Nat /\ now > 0 /\ now <= clock
      /\ tabs[t].quantity \in Nat /\ tabs[t].quantity > 0 /\ campaigns[c].expires > now
  BY <1>1, <1>2 DEF TabOK, Knows, At, TabStates
<1>4. selection # None => selection \in Campaigns /\ grants[selection].last < now
  BY <1>1, <1>2 DEF TabOK, Sees, At, IInv, RowsOK
<1>5. old \in GrantRows /\ Accounts(old)
  BY <1>3 DEF IInv, RowsOK
<1> DEFINE quantity == IF old.quantity = 0 THEN tabs[t].quantity ELSE old.quantity
           first == IF old.first = 0 THEN now ELSE old.first
<1>6. quantity \in Nat /\ quantity > 0 /\ first \in Nat /\ first > 0
  BY <1>3, <1>5 DEF GrantRows
<1>7. new \in GrantRows
  BY <1>3, <1>5, <1>6 DEF GrantRows, Selected
<1>8. /\ new.quantity = quantity /\ new.first = first /\ new.last = now
      /\ new.reserved = old.reserved /\ new.committed = old.committed
  BY <1>5 DEF GrantRows, Selected
<1> HIDE DEF new
<1>9. \A d \in Campaigns : grants[d].quantity > 0 => grants[d].last < now
  <2> SUFFICES ASSUME NEW d \in Campaigns, grants[d].quantity > 0 PROVE grants[d].last < now
    OBVIOUS
  <2>1. selection # None
    BY DEF IInv, SelectionOfGrant, History
  <2>2. d # selection => grants[d].last < grants[selection].last
    BY <2>1 DEF IInv, SelectedIsLatest, History
  <2>3. grants[d].last \in Nat /\ grants[selection].last \in Nat
    BY <1>2, <1>4, <2>1 DEF GrantRows
  <2> QED  BY <1>3, <1>4, <2>1, <2>2, <2>3
<1>10. old.first > 0 => old.first <= now
  <2>1. old.first > 0 => old.quantity > 0 /\ old.first <= old.last
    BY <1>5 DEF Accounts
  <2>2. old.quantity \in Nat /\ old.first \in Nat /\ old.last \in Nat
    BY <1>5 DEF GrantRows
  <2>3. old.quantity > 0 => old.last < now
    BY <1>3, <1>9
  <2> HIDE DEF old, now
  <2> QED  BY <1>3, <2>1, <2>2, <2>3
<1>11. Accounts(new)
  <2>1. /\ old.quantity \in Nat /\ old.reserved \in Nat /\ old.committed \in Nat /\ old.first \in Nat
        /\ old.reserved + old.committed <= old.quantity /\ first <= now
    BY <1>3, <1>5, <1>10 DEF GrantRows, Accounts
  <2>2. old.reserved + old.committed <= quantity
    BY <1>3, <2>1
  <2> HIDE DEF old, now, quantity, first
  <2> QED  BY <1>6, <1>8, <2>1, <2>2 DEF Accounts
<1>12. grants' \in [Campaigns -> GrantRows]
  BY <1>1, <1>2, <1>7
<1>13. grants'[c] = new /\ \A d \in Campaigns \ {c} : grants'[d] = grants[d]
  BY <1>1, <1>2, <1>3
<1> HIDE DEF old, quantity, first
<1>14. RowsOK'
  <2>1. selection' \in Campaigns \cup {None}
    BY <1>1, <1>3
  <2>2. \A d \in Campaigns : Accounts(grants'[d])
    BY <1>11, <1>13 DEF IInv, RowsOK
  <2> QED  BY <1>1, <1>12, <2>1, <2>2 DEF IInv, RowsOK, Contexts, Accounts
<1>15. LastBeforeExpiry'
  BY <1>1, <1>3, <1>8, <1>13 DEF IInv, LastBeforeExpiry
<1>16. SelectionOfGrant' /\ SelectedIsLatest'
  <2>1. selection' = c /\ c \in Campaigns /\ c # None /\ grants'[c].quantity > 0 /\ grants'[c].last = now
    BY <1>1, <1>3, <1>6, <1>8, <1>13, NoneIsNothing
  <2>2. \A d \in Campaigns : d # c /\ grants'[d].quantity > 0 => grants'[d].last < now
    BY <1>9, <1>13
  <2> QED  BY <2>1, <2>2 DEF SelectionOfGrant, SelectedIsLatest, History
<1>17. Answered(t, "ok") \in TabStates /\ TabOK(Answered(t, "ok"))
  BY AnswerOK DEF Answers
<1>18. tabs' \in [Tabs -> TabStates]
  <2>1. \A u \in Tabs : [tabs[u] EXCEPT !.overtaken = At(u, "commit"), !.fresh = FALSE] \in TabStates
    BY OvertakenTyped DEF IInv, At
  <2> QED  BY <1>1, <1>17, <2>1 DEF Overtaken
<1>19. (\A u \in Tabs : TabOK(tabs[u]))'
  <2> SUFFICES ASSUME NEW u \in Tabs PROVE TabOK(tabs[u])'
    OBVIOUS
  <2>1. CASE u = t
    <3>1. /\ tabs'[u].at = "answered" /\ tabs'[u].answer = "ok" /\ tabs'[u].now = 0
      BY <1>1, <2>1 DEF Overtaken, Answered, Closed
    <3>2. clock' \in Nat
      BY <1>1, BoundsAssumption DEF IInv, RowsOK
    <3> QED  BY <3>1, <3>2 DEF TabOK, Knows, Sees, Agrees
  <2>2. CASE u # t
    <3>1. tabs[u] \in TabStates /\ TabOK(tabs[u])
          /\ tabs'[u] = [tabs[u] EXCEPT !.overtaken = At(u, "commit"), !.fresh = FALSE]
      BY <1>1, <2>2 DEF IInv, Overtaken
    <3>2. /\ tabs'[u].fresh = FALSE /\ tabs'[u].at = tabs[u].at /\ tabs'[u].now = tabs[u].now
          /\ tabs'[u].campaign = tabs[u].campaign /\ tabs'[u].quantity = tabs[u].quantity
          /\ tabs'[u].overtaken = (tabs[u].at = "commit")
      BY <3>1 DEF TabStates, At
    <3> QED  BY <1>1, <3>1, <3>2 DEF TabOK, Knows, Sees, Agrees
  <2> QED  BY <2>1, <2>2
<1> QED  BY <1>14, <1>15, <1>16, <1>18, <1>19 DEF IInv

-----------------------------------------------------------------------------
LEMMA InitHolds == Init => IInv
<1> SUFFICES ASSUME Init PROVE IInv
  OBVIOUS
<1>1. /\ clock = 1 /\ context \in Contexts /\ selection = None
      /\ campaigns \in [Campaigns -> [open : {TRUE}, expires : 2..MaxClock, quantity : {MaxQuantity}, reopened : {0}]]
      /\ grants = [c \in Campaigns |-> NoGrant] /\ tabs = [t \in Tabs |-> Closed]
  BY DEF Init, Contexts
<1>2. 1 \in 1..MaxClock
  BY BoundsAssumption
<1>3. \A row \in [open : {TRUE}, expires : 2..MaxClock, quantity : {MaxQuantity}, reopened : {0}] : row \in CampaignRows
  <2>1. {TRUE} \subseteq BOOLEAN /\ 2..MaxClock \subseteq Nat /\ {MaxQuantity} \subseteq Nat \ {0} /\ {0} \subseteq Nat
    BY BoundsAssumption
  <2> QED  BY <2>1 DEF CampaignRows
<1>4. campaigns \in [Campaigns -> CampaignRows]
  BY <1>1, <1>3
<1>5. NoGrant \in GrantRows /\ Accounts(NoGrant)
  BY DEF NoGrant, GrantRows, Accounts
<1>6. RowsOK
  BY <1>1, <1>2, <1>4, <1>5 DEF RowsOK
<1>7. \A c \in Campaigns : grants[c].quantity = 0
  BY <1>1 DEF NoGrant
<1>8. LastBeforeExpiry /\ SelectionOfGrant /\ SelectedIsLatest
  BY <1>1, <1>7 DEF LastBeforeExpiry, SelectionOfGrant, SelectedIsLatest, History
<1>9. Closed \in TabStates /\ TabOK(Closed)
  <2>1. Closed \in TabStates
    BY ClosedOK
  <2> QED  BY <1>1, <2>1 DEF TabOK, Knows, Sees, Agrees, Closed
<1>10. tabs \in [Tabs -> TabStates] /\ \A t \in Tabs : tabs[t] = Closed
  BY <1>1, <1>9
<1> QED  BY <1>6, <1>8, <1>9, <1>10 DEF IInv

LEMMA StutterKeeps ==
  ASSUME IInv, UNCHANGED vars
  PROVE  IInv'
<1>1. UNCHANGED <<clock, context, campaigns, grants, selection, tabs>>
  BY DEF vars
<1>2. RowsOK'
  BY <1>1 DEF IInv, RowsOK, Contexts, Accounts
<1>3. LastBeforeExpiry' /\ SelectionOfGrant' /\ SelectedIsLatest'
  BY <1>1 DEF IInv, LastBeforeExpiry, SelectionOfGrant, SelectedIsLatest, History
<1>4. (\A t \in Tabs : TabOK(tabs[t]))'
  BY <1>1 DEF IInv, TabOK, Knows, Sees, Agrees, Admitted, Locked, Offered, Runs, IsTargetEligible
<1> QED  BY <1>1, <1>2, <1>3, <1>4 DEF IInv

LEMMA NextKeeps == IInv /\ [Next]_vars => IInv'
<1> SUFFICES ASSUME IInv, [Next]_vars PROVE IInv'
  OBVIOUS
<1>1. CASE \E t \in Tabs : Load(t) \/ LoadOffers(t) \/ Request(t) \/ \E c \in Campaigns : Submit(t, c)
  BY <1>1, LoadKeeps, LoadOffersKeeps, SubmitKeeps, BeginKeeps, CommitKeeps, ConflictKeeps DEF Request
<1>2. CASE Tick \/ ContextMoves \/ Reserve \/ Settle
  BY <1>2, TickKeeps, ContextKeeps, ReserveKeeps, SettleKeeps
<1>3. CASE \E c \in Campaigns : Close(c) \/ \E e \in 1..MaxClock + 1, q \in 1..MaxQuantity : Reopen(c, e, q)
  BY <1>3, CloseKeeps, ReopenKeeps
<1>4. CASE UNCHANGED vars
  BY <1>4, StutterKeeps
<1> QED  BY <1>1, <1>2, <1>3, <1>4 DEF Next

(* Credits that can be spent are shown as such in the history.                *)
LEMMA SpendableShown == IInv => SpendableIsCurrent
<1> SUFFICES ASSUME IInv, Spendable(clock)
             PROVE  HistoryStatus(selection, clock) \in {"SELECTED", "USED", "REOPENED"}
  BY DEF SpendableIsCurrent
<1>1. selection \in Campaigns /\ clock \in Nat
  BY BoundsAssumption DEF IInv, RowsOK, Spendable, Locked
<1>2. campaigns[selection].expires \in Nat
  BY <1>1 DEF IInv, RowsOK, CampaignRows
<1>3. /\ ~Exhausted(grants[selection]) /\ campaigns[selection].open
      /\ ~(campaigns[selection].expires <= clock) /\ IsTargetEligible(selection, context.plan)
  BY <1>1, <1>2 DEF Spendable, Locked, Runs, IsUsableGrant
<1> QED  BY <1>3 DEF HistoryStatus

LEMMA InvariantImplies == IInv => PromotionInv
<1> SUFFICES ASSUME IInv PROVE PromotionInv
  OBVIOUS
<1>1. TypeOK
  BY DEF IInv, RowsOK, Accounts, SelectionOfGrant, TypeOK, TabStates, Steps
<1>2. OfferAccepted
  BY DEF IInv, TabOK, Agrees, OfferAccepted, At
<1>3. SelectedIsLatest
  BY DEF IInv
<1> QED  BY <1>1, <1>2, <1>3, SpendableShown DEF PromotionInv

(* The inductive invariant holds in every reachable state.                    *)
THEOREM InvariantHolds == Spec => []IInv
<1> QED  BY InitHolds, NextKeeps, PTL DEF Spec

(* The grants and what the pages show of them hold together whichever tabs    *)
(* select and retry while campaigns begin, end and are reopened: no grant is  *)
(* overspent, the selected one is the latest, an offer is accepted.           *)
THEOREM PromotionsHold == Spec => []PromotionInv
<1> QED  BY InvariantHolds, InvariantImplies, PTL

-----------------------------------------------------------------------------
(* The selection of a shop is replaced only when its campaign has expired, or *)
(* was reopened after the request had begun, however often that was retried.  *)
THEOREM SelectionAlwaysLocked == Spec => LockHolds
<1> DEFINE A == selection' # selection /\ selection # None =>
                  \/ campaigns[selection].expires <= clock
                  \/ \E t \in Tabs : At(t, "commit") /\ tabs'[t].answer = "ok"
                                     /\ campaigns[selection].reopened >= tabs[t].now
<1>1. ASSUME IInv, Next, selection' # selection PROVE \E t \in Tabs : Commit(t)
  BY <1>1 DEF Next, Request, Load, LoadOffers, Submit, Begin, Conflict, Tick, ContextMoves, Close, Reopen,
              Reserve, Settle, Spends, rows
<1>2. ASSUME IInv, selection # None, NEW t \in Tabs, Commit(t)
      PROVE  \/ campaigns[selection].expires <= clock
             \/ At(t, "commit") /\ tabs'[t].answer = "ok" /\ campaigns[selection].reopened >= tabs[t].now
  <2>1. /\ At(t, "commit") /\ ~tabs[t].overtaken /\ tabs' = Overtaken(t, Answered(t, "ok"))
    BY <1>2 DEF Commit, MayCommit
  <2>2. tabs'[t].answer = "ok"
    BY <2>1 DEF Overtaken, Answered, Closed
  <2>3. /\ tabs[t].now \in Nat /\ clock \in Nat /\ tabs[t].now <= clock /\ selection \in Campaigns
        /\ campaigns[selection].expires <= tabs[t].now \/ campaigns[selection].reopened >= tabs[t].now
    BY <1>2, <2>1, BoundsAssumption DEF IInv, RowsOK, TabOK, Knows, Sees, TabStates, At
  <2>4. campaigns[selection].expires \in Nat
    BY <1>2, <2>3 DEF IInv, RowsOK, CampaignRows
  <2> QED  BY <2>1, <2>2, <2>3, <2>4
<1>3. IInv /\ [Next]_vars => [A]_vars
  BY <1>1, <1>2
<1> QED  BY InvariantHolds, <1>3, PTL DEF Spec, LockHolds

(* Selecting a campaign again renews nothing of the grant it already has.     *)
THEOREM CreditsAlwaysKept == Spec => CreditsKept
<1> DEFINE A == \A c \in Campaigns : grants[c].quantity > 0 =>
                  /\ grants'[c].quantity = grants[c].quantity
                  /\ grants'[c].committed >= grants[c].committed
                  /\ grants'[c].first = grants[c].first
<1>1. ASSUME IInv, UNCHANGED grants PROVE A
  <2>1. \A c \in Campaigns : grants[c].committed \in Nat
    BY <1>1 DEF IInv, RowsOK, GrantRows
  <2> QED  BY <1>1, <2>1
<1>2. ASSUME IInv, NEW t \in Tabs, Commit(t) PROVE A
  <2> DEFINE s == tabs[t].campaign
             new == Selected(grants[s], tabs[t].quantity, tabs[t].now)
  <2>1. /\ grants \in [Campaigns -> GrantRows] /\ grants' = [grants EXCEPT ![s] = new]
        /\ s \in Campaigns /\ Accounts(grants[s])
    BY <1>2 DEF Commit, MayCommit, IInv, RowsOK, TabOK, Knows, At
  <2>2. grants[s].quantity > 0 => grants[s].first > 0
    BY <2>1 DEF Accounts
  <2>3. grants[s].quantity > 0 =>
          new.quantity = grants[s].quantity /\ new.committed = grants[s].committed /\ new.first = grants[s].first
    BY <2>1, <2>2 DEF Selected, GrantRows
  <2>4. \A c \in Campaigns : grants[c].committed \in Nat
    BY <2>1 DEF GrantRows
  <2> HIDE DEF new, s
  <2> QED  BY <2>1, <2>3, <2>4
<1>3. ASSUME IInv, Reserve \/ Settle PROVE A
  <2> DEFINE old == grants[selection]
             taken == [old EXCEPT !.reserved = @ + 1]
             back == [old EXCEPT !.reserved = @ - 1]
             spent == [old EXCEPT !.reserved = @ - 1, !.committed = @ + 1, !.used = TRUE]
  <2>1. selection \in Campaigns /\ grants \in [Campaigns -> GrantRows]
    BY <1>3 DEF Reserve, Settle, Spendable, Locked, IInv, RowsOK
  <2>2. PICK next \in {taken, back, spent} : grants' = [grants EXCEPT ![selection] = next]
    BY <1>3 DEF Reserve, Settle, Spends
  <2>3. old.committed \in Nat /\ \A c \in Campaigns : grants[c].committed \in Nat
    BY <2>1 DEF GrantRows
  <2>4. /\ taken.quantity = old.quantity /\ taken.first = old.first /\ taken.committed = old.committed
        /\ back.quantity = old.quantity /\ back.first = old.first /\ back.committed = old.committed
        /\ spent.quantity = old.quantity /\ spent.first = old.first /\ spent.committed = old.committed + 1
    BY <2>1 DEF GrantRows
  <2> HIDE DEF taken, back, spent, old
  <2>5. next.quantity = old.quantity /\ next.first = old.first /\ next.committed >= old.committed
    BY <2>2, <2>3, <2>4
  <2> USE DEF old
  <2> QED  BY <2>1, <2>2, <2>3, <2>5
<1>4. ASSUME Next, ~UNCHANGED grants PROVE (\E t \in Tabs : Commit(t)) \/ Reserve \/ Settle
  BY <1>4 DEF Next, Request, Load, LoadOffers, Submit, Begin, Conflict, Tick, ContextMoves, Close, Reopen, rows
<1>5. IInv /\ [Next]_vars => [A]_vars
  BY <1>1, <1>2, <1>3, <1>4 DEF vars
<1> QED  BY InvariantHolds, <1>5, PTL DEF Spec, CreditsKept
=============================================================================
