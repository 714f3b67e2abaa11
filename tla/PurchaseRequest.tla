-------------------------- MODULE PurchaseRequest ---------------------------
(***************************************************************************)
(* The request for a recovery credit pack                                  *)
(* (services/billing/recovery-credit-purchase-request.service.ts): the     *)
(* evidence that is read at Shopify and in the catalogue, twice, and the   *)
(* transaction that records the purchase, its usage event and the intent   *)
(* of its one-time charge.  Requests overlap; Shopify, the catalogue and   *)
(* the subscription row move while they run.                               *)
(*                                                                         *)
(* Left out: the shop row and identifiers other than the purchase's, the   *)
(* currency.  A meter that Shopify does not list or reports no usage for   *)
(* is one whose reading is NoReading.  A billing cycle is named by its end,*)
(* an instant of the clock.  History, which no step reads: shopify.moves,  *)
(* and `look`, what was true as a request looked for the second time.      *)
(***************************************************************************)
EXTENDS UsagePricing, FiniteSets

CONSTANTS
  Callers,    \* requests in flight
  Ids,        \* purchase ids: a retry repeats one
  Offers,     \* usage event handles
  Versions,   \* catalogue entries of an offer: [credits, event]
  Plans,      \* plan handles
  Metered,    \* those of kind PAID_METERED
  OwnHandle,  \* the usage handle of each plan's own meter, or NoHandle
  NoHandle,
  Cycles,     \* the ends of billing cycles
  DrainWindow,
  MaxTime,    \* bound: the clock
  MaxMoves    \* bound: how often Shopify's side of the subscription changes

ASSUME ClockAssumption ==
  /\ Cycles \subseteq Nat /\ Cycles # {}
  /\ DrainWindow \in Nat /\ MaxTime \in Nat /\ MaxMoves \in Nat
ASSUME SomethingIsSold == Plans # {} /\ Versions # {}
ASSUME EntriesAreEntries == \A v \in Versions : v = [credits |-> v.credits, event |-> v.event]

VARIABLES
  now,         \* the clock
  shopify,     \* the subscription at Shopify: plan, cycle, frozen, used per offer,
               \* metered (the plan's own meter is listed), moves
  row,         \* the Subscription row with its open billing period: plan, cycle, live
  catalogue,   \* the catalogue entry of each offer
  purchases,   \* the RecoveryCreditPurchase rows with their usage event and charge intent
  calls        \* what each request has read

packVars == <<now, shopify, row, catalogue, purchases, calls>>

NoReading == -1

-----------------------------------------------------------------------------
Idle == [at |-> "idle"]

NoEvidence == [plan |-> CHOOSE p \in Plans : TRUE, cycle |-> CHOOSE k \in Cycles : TRUE,
               used |-> NoReading, metered |-> FALSE]

NoLook == [moves |-> 0, packs |-> {}]

Request(id, offer) ==
  [at |-> "receipt", id |-> id, offer |-> offer, period |-> NoEvidence.cycle, plan |-> NoEvidence.plan,
   seen |-> NoEvidence, entry |-> CHOOSE v \in Versions : TRUE, look |-> NoLook]

\* What is read of a snapshot: plan, cycle, the offer's usage and the listed handles.
Evidence(offer) ==
  [plan |-> shopify.plan, cycle |-> shopify.cycle, used |-> shopify.used[offer], metered |-> shopify.metered]

(* Slip: the usage item is not compared. *)
sameSubscription(left, right) == left.plan = right.plan /\ left.cycle = right.cycle /\ left.metered = right.metered

sameRecoveryCreditProviderEvidence(left, right) == left = right

\* deriveBillingPeriodPhase: the clock against the end that the snapshot itself has.
Phase(cycle) ==
  CASE now + DrainWindow < cycle -> "ACTIVE"
    [] now >= cycle              -> "RECONCILING"
    [] OTHER                     -> "DRAINING"

Unresolved(offer) == {p \in purchases : p.offer = offer /\ p.status = "REQUESTED"}
Bought(id) == \E p \in purchases : p.id = id

\* The packs of an offer that Shopify has counted.
Counted(offer) == {p.id : p \in {q \in purchases : q.offer = offer /\ q.reported}}

At(c, step) == calls[c].at = step
Goes(c, next) == calls' = [calls EXCEPT ![c] = next]

\* failRead, a refusal or an answer: either way the request is over.
Ends(c) == Goes(c, Idle)

PackInit ==
  /\ now = 0
  /\ \E plan \in Plans, cycle \in Cycles :
       /\ shopify = [plan |-> plan, cycle |-> cycle, frozen |-> FALSE, metered |-> TRUE,
                     used |-> [o \in Offers |-> 0], moves |-> 0]
       /\ row = [plan |-> plan, cycle |-> cycle, live |-> TRUE]
  /\ catalogue \in [Offers -> Versions]
  /\ purchases = {}
  /\ calls = [c \in Callers |-> Idle]

-----------------------------------------------------------------------------
(* The options page (services/billing/merchant-billing-read.service.ts).     *)

QuotedPackPrice(offer) ==
  LET event == catalogue[offer].event
  IN CASE event.mode = "FIXED"                -> Quote(event, 0)
       [] shopify.used[offer] = NoReading     -> NoAmount
       [] OTHER                               -> Quote(event, shopify.used[offer])

\* The cycle of the row is the one that Shopify reports.
hasMatchingBillingCycle == row.cycle = shopify.cycle

PurchaseEligible == row.live /\ hasMatchingBillingCycle /\ Phase(row.cycle) = "ACTIVE"

(* The panel submits an offer under a new id; a lost answer repeats the id.  *)
Submit(c, id, offer) ==
  /\ At(c, "idle")
  /\ Goes(c, Request(id, offer))
  /\ UNCHANGED <<now, shopify, row, catalogue, purchases>>

\* The receipt of a purchase that exists answers the request.
ReadReceipt(c) ==
  /\ At(c, "receipt")
  /\ IF Bought(calls[c].id) THEN Ends(c) ELSE Goes(c, [calls[c] EXCEPT !.at = "context"])
  /\ UNCHANGED <<now, shopify, row, catalogue, purchases>>

ReadContext(c) ==
  /\ At(c, "context")
  /\ IF row.live
     THEN Goes(c, [calls[c] EXCEPT !.at = "observe", !.period = row.cycle, !.plan = row.plan])
     ELSE Ends(c)
  /\ UNCHANGED <<now, shopify, row, catalogue, purchases>>

Observe(c) ==
  /\ At(c, "observe")
  /\ IF ~shopify.frozen /\ shopify.plan = calls[c].plan
     THEN Goes(c, [calls[c] EXCEPT !.at = "catalogue", !.seen = Evidence(calls[c].offer)])
     ELSE Ends(c)
  /\ UNCHANGED <<now, shopify, row, catalogue, purchases>>

\* The catalogue's entry of an offer of the plan, as it is now.
readMerchantPricingPlan(offer) == catalogue[offer]

ReadCatalogue(c) ==
  /\ At(c, "catalogue")
  /\ LET seen == calls[c].seen
     IN IF /\ seen.used # NoReading
           /\ seen.cycle = calls[c].period
           /\ Phase(seen.cycle) = "ACTIVE"
        THEN Goes(c, [calls[c] EXCEPT !.at = "revalidate", !.entry = readMerchantPricingPlan(calls[c].offer)])
        ELSE Ends(c)
  /\ UNCHANGED <<now, shopify, row, catalogue, purchases>>

(* Slip: the second observation is not compared with the first one. *)
RevalidateBlindly(c) ==
  /\ At(c, "revalidate")
  /\ IF ~shopify.frozen
     THEN Goes(c, [calls[c] EXCEPT !.at = "reread",
                     !.look = [moves |-> shopify.moves, packs |-> Counted(calls[c].offer)]])
     ELSE Ends(c)
  /\ UNCHANGED <<now, shopify, row, catalogue, purchases>>

\* The second observation must show what the first one showed.
Revalidate(c) ==
  /\ At(c, "revalidate")
  /\ IF ~shopify.frozen /\ sameRecoveryCreditProviderEvidence(calls[c].seen, Evidence(calls[c].offer))
     THEN Goes(c, [calls[c] EXCEPT !.at = "reread",
                     !.look = [moves |-> shopify.moves, packs |-> Counted(calls[c].offer)]])
     ELSE Ends(c)
  /\ UNCHANGED <<now, shopify, row, catalogue, purchases>>

\* The second entry prices the pack, the first one granted the credits.
Reread(c) ==
  /\ At(c, "reread")
  /\ LET current == readMerchantPricingPlan(calls[c].offer)
     IN IF current.credits = calls[c].entry.credits
        THEN Goes(c, [calls[c] EXCEPT !.at = "commit", !.entry.event = current.event])
        ELSE Ends(c)
  /\ UNCHANGED <<now, shopify, row, catalogue, purchases>>

\* A metered plan needs a listed meter of its own, which the offer's is not.
OwnMeterApart(plan, offer, metered) ==
  plan \in Metered => OwnHandle[plan] \notin {NoHandle, offer} /\ metered

(* Slip: a pack that awaits Shopify does not hold up the next one. *)
StillBuyableAgain(call) ==
  /\ row.live /\ row.plan = call.seen.plan
  /\ row.cycle = call.period /\ row.cycle = call.seen.cycle
  /\ Phase(call.seen.cycle) = "ACTIVE"
  /\ OwnMeterApart(row.plan, call.offer, call.seen.metered)

\* The checks of the transaction, under the subscription's row lock.
StillBuyable(call) ==
  /\ Unresolved(call.offer) = {}
  /\ row.live /\ row.plan = call.seen.plan
  /\ row.cycle = call.period /\ row.cycle = call.seen.cycle
  /\ Phase(call.seen.cycle) = "ACTIVE"
  /\ OwnMeterApart(row.plan, call.offer, call.seen.metered)

\* The rows of the transaction: recordOneTimeChargeIntent prices the next unit.
Purchase(call) ==
  [id |-> call.id, offer |-> call.offer, plan |-> row.plan, cycle |-> row.cycle,
   context |-> [plan |-> call.seen.plan, cycle |-> call.seen.cycle], before |-> call.seen.used,
   credits |-> call.entry.credits, event |-> call.entry.event,
   quote |-> Quote(call.entry.event, call.seen.used), status |-> "REQUESTED", reported |-> FALSE,
   look |-> call.look]

(* A purchase of the same id, seen in the transaction or through the unique  *)
(* key it collides with, is the answer; without a quote nothing is kept.     *)
Commit(c) ==
  /\ At(c, "commit")
  /\ purchases' = purchases \cup
       IF ~Bought(calls[c].id) /\ StillBuyable(calls[c]) /\ Purchase(calls[c]).quote # NoAmount
       THEN {Purchase(calls[c])} ELSE {}
  /\ Ends(c)
  /\ UNCHANGED <<now, shopify, row, catalogue>>

\* A read or the transaction fails, or the process dies.
Fail(c) ==
  /\ ~At(c, "idle")
  /\ Ends(c)
  /\ UNCHANGED <<now, shopify, row, catalogue, purchases>>

-----------------------------------------------------------------------------
(* The background worker reports the unit to Shopify and then resolves the   *)
(* purchase; another process syncs the subscription row.                     *)
Report ==
  \E p \in purchases :
    /\ p.status = "REQUESTED" /\ ~p.reported
    /\ purchases' = (purchases \ {p}) \cup {[p EXCEPT !.reported = TRUE]}
    /\ shopify' = [shopify EXCEPT !.used[p.offer] = IF @ = NoReading THEN @ ELSE @ + Parts]
    /\ UNCHANGED <<now, row, catalogue, calls>>

Resolve ==
  \E p \in purchases :
    /\ p.status = "REQUESTED" /\ p.reported
    /\ purchases' = (purchases \ {p}) \cup {[p EXCEPT !.status = "ACTIVE"]}
    /\ UNCHANGED <<now, shopify, row, catalogue, calls>>

(* The row follows Shopify; without the plan's own meter, or when the period *)
(* conflicts with the one kept, it is no longer live.                        *)
Sync ==
  /\ \/ row' = [plan |-> shopify.plan, cycle |-> shopify.cycle,
                live |-> /\ ~shopify.frozen
                         /\ shopify.plan \in Metered => OwnHandle[shopify.plan] # NoHandle /\ shopify.metered]
     \/ row' = [row EXCEPT !.live = FALSE]
  /\ row' # row
  /\ UNCHANGED <<now, shopify, catalogue, purchases, calls>>

Tick ==
  /\ now < MaxTime
  /\ now' = now + 1
  /\ UNCHANGED <<shopify, row, catalogue, purchases, calls>>

(* Another cycle begins, at the end of the last one or in its middle, or     *)
(* another plan, or other meters are listed: whatever Shopify then shows.    *)
Move ==
  /\ shopify.moves < MaxMoves
  /\ \E plan \in Plans, cycle \in {k \in Cycles : k > now \/ k = shopify.cycle},
        reading \in {0, NoReading}, metered \in BOOLEAN :
       shopify' = [shopify EXCEPT !.plan = plan, !.cycle = cycle, !.metered = metered,
                                  !.used = [o \in Offers |-> reading], !.moves = @ + 1]
  /\ UNCHANGED <<now, row, catalogue, purchases, calls>>

Freeze ==
  /\ shopify' = [shopify EXCEPT !.frozen = ~@]
  /\ UNCHANGED <<now, row, catalogue, purchases, calls>>

Edit ==
  /\ \E o \in Offers, v \in Versions : catalogue' = [catalogue EXCEPT ![o] = v]
  /\ UNCHANGED <<now, shopify, row, purchases, calls>>

Step(c) ==
  \/ \E id \in Ids, o \in Offers : Submit(c, id, o)
  \/ ReadReceipt(c) \/ ReadContext(c) \/ Observe(c) \/ ReadCatalogue(c)
  \/ Revalidate(c) \/ Reread(c) \/ Commit(c) \/ Fail(c)

PackNext ==
  \/ \E c \in Callers : Step(c)
  \/ Report \/ Resolve \/ Sync \/ Tick \/ Move \/ Freeze \/ Edit

PackSpec == PackInit /\ [][PackNext]_packVars

-----------------------------------------------------------------------------
PackTypeOK ==
  /\ now \in 0..MaxTime
  /\ shopify \in [plan : Plans, cycle : Cycles, frozen : BOOLEAN, metered : BOOLEAN,
                  used : [Offers -> Int], moves : 0..MaxMoves]
  /\ row \in [plan : Plans, cycle : Cycles, live : BOOLEAN]
  /\ catalogue \in [Offers -> Versions]
  /\ \A p \in purchases : p.id \in Ids /\ p.offer \in Offers /\ p.quote \in 1..MaxSafe
  /\ \A p, q \in purchases : p.id = q.id => p = q
  /\ \A c \in Callers : calls[c].at \in {"idle", "receipt", "context", "observe", "catalogue",
                                       "revalidate", "reread", "commit"}

(* "A recovery credit pack is already awaiting Shopify confirmation":         *)
(* however the requests overlap, at most one pack of an offer waits, so that  *)
(* the worker can tell whose unit the meter's next step is.                   *)
OneUnresolved == \A o \in Offers : Cardinality(Unresolved(o)) <= 1

(* The credits a pack grants and the price it is charged at stood together in *)
(* the catalogue, though they are taken from two readings of it; and the      *)
(* billing period it is booked in is the one of the context that the worker   *)
(* will look for at Shopify, though one is the row's and one the snapshot's.  *)
TakenTogether ==
  \A p \in purchases :
    /\ [credits |-> p.credits, event |-> p.event] \in Versions
    /\ p.context = [plan |-> p.plan, cycle |-> p.cycle]

(* Two packs are charged for the same unit of a meter only if their requests  *)
(* overlapped: a pack that Shopify had counted as another request looked for  *)
(* the second time comes a whole unit before that one's, unless the           *)
(* subscription moved in between.                                             *)
PacksInTurn ==
  \A p, q \in purchases :
    q.id \in p.look.packs /\ q.look.moves = p.look.moves => q.before + Parts <= p.before

\* What the page offers with a price, and a request that nothing overtakes.
Offered(o) == PurchaseEligible /\ QuotedPackPrice(o) # NoAmount /\ Unresolved(o) = {}

AtOnce(o) == [Request("new", o) EXCEPT !.period = row.cycle, !.seen = Evidence(o), !.entry = catalogue[o]]

(* What the page offers with a price can be bought at this price by a request *)
(* that nothing overtakes, but for what the page does not look at: a freeze,  *)
(* a switch that the row has not followed, a meter without usage, and a       *)
(* metered plan whose own meter is missing, not listed or the offer's.        *)
OfferedIsBuyable ==
  \A o \in Offers :
    /\ Offered(o)
    /\ ~shopify.frozen /\ shopify.plan = row.plan /\ shopify.used[o] # NoReading
    /\ OwnMeterApart(shopify.plan, o, shopify.metered)
    => StillBuyable(AtOnce(o)) /\ Purchase(AtOnce(o)).quote = QuotedPackPrice(o)

(* A pack is bought while its cycle neither drains nor is over, by the clock; *)
(* and its cycle, plan and reading are Shopify's, unless the subscription     *)
(* moved after the request's second look.                                     *)
BoughtInItsCycle ==
  [][\A p \in purchases' : ~Bought(p.id) =>
       /\ Phase(p.cycle) = "ACTIVE"
       /\ \/ p.look.moves # shopify.moves
          \/ p.cycle = shopify.cycle /\ p.plan = shopify.plan
             /\ p.before \in 0..shopify.used[p.offer]]_packVars

(* The quote is the price of the very unit that the pack adds to the meter,   *)
(* whatever was bought before, unless a pack of the offer was counted or the  *)
(* subscription moved after the request's second look.                        *)
QuoteIsCurrent ==
  [][\A p \in purchases' :
       ~Bought(p.id) /\ p.look = [moves |-> shopify.moves, packs |-> Counted(p.offer)]
       => p.quote = Quote(p.event, shopify.used[p.offer])]_packVars

(* What holds of the packs between any two steps of the requests: one waits,  *)
(* its terms stood together, the packs follow one another on the meter, and   *)
(* what the page prices can be bought.                                        *)
PurchaseInv ==
  /\ PackTypeOK
  /\ OneUnresolved
  /\ TakenTogether
  /\ PacksInTurn
  /\ OfferedIsBuyable

=============================================================================
