---------------------------- MODULE UsagePricing ----------------------------
(***************************************************************************)
(* What one more unit of a metered usage event costs: the validation of    *)
(* the pricing catalogue (services/merchant-pricing) and the quote of a    *)
(* one-time charge (services/billing/shopify-billing-operation.service.ts),*)
(* used by the options page and by the purchase of a recovery credit pack. *)
(*                                                                         *)
(* Shopify reports quantities that need not be whole: a quantity counts    *)
(* Parts-ths of a unit, and so does an amount while it is computed.        *)
(***************************************************************************)
EXTENDS Integers, Sequences, FiniteSetsExt

CONSTANTS
  Parts,       \* parts of a unit that Shopify may report
  MaxSafe      \* the largest safe integer

ASSUME PricingAssumption == Parts \in Nat \ {0} /\ MaxSafe \in Nat

NoLimit == 0     \* upTo of the open-ended tier: the column's null
NoAmount == -1   \* no safe amount

Tiered == {"GRADUATED", "VOLUME"}

(* An event is [mode, fixed, tiers], a tier [upTo, unit, flat].               *)
\* validateUsageEvent
ValidEvent(event) ==
  LET tiers == event.tiers
      bounds == [i \in DOMAIN tiers |-> tiers[i].upTo]
  IN IF event.mode \in Tiered
     THEN /\ Len(tiers) \in 1..6
          /\ bounds[Len(tiers)] = NoLimit
          /\ \A i \in 1..(Len(tiers) - 1) : bounds[i] > IF i = 1 THEN 0 ELSE bounds[i - 1]
     ELSE tiers = <<>>

Safe(amount) == amount \in 0..MaxSafe * Parts /\ amount % Parts = 0

SafeCost(amount) == IF Safe(amount) THEN amount \div Parts ELSE NoAmount

Within(quantity, tier) == tier.upTo = NoLimit \/ quantity <= tier.upTo * Parts

(* Slip: a tier is offered all units up to its bound, also those of the tiers below. *)
TakenWhole(run, tier) ==
  LET capacity == IF tier.upTo = NoLimit THEN run.remaining ELSE tier.upTo * Parts
      units    == Min({run.remaining, capacity})
      cost     == run.cost + tier.flat * Parts + tier.unit * units
  IN IF run.remaining = 0 \/ ~run.ok THEN run
     ELSE [ok |-> capacity > 0 /\ Safe(cost), cost |-> cost, remaining |-> run.remaining - units, below |-> 0]

\* One tier of the graduated sum: run is what the loop carries.
Taken(run, tier) ==
  LET capacity == IF tier.upTo = NoLimit THEN run.remaining ELSE tier.upTo * Parts - run.below
      units    == Min({run.remaining, capacity})
      cost     == run.cost + tier.flat * Parts + tier.unit * units
  IN IF run.remaining = 0 \/ ~run.ok THEN run
     ELSE [ok |-> capacity > 0 /\ Safe(cost), cost |-> cost, remaining |-> run.remaining - units,
           below |-> IF tier.upTo = NoLimit THEN run.below ELSE tier.upTo * Parts]

Start(quantity) == [ok |-> TRUE, cost |-> 0, remaining |-> quantity, below |-> 0]

\* The loop: what it carries after each tier.
Runs(tiers, quantity) ==
  LET run[i \in 0..Len(tiers)] == IF i = 0 THEN Start(quantity) ELSE Taken(run[i - 1], tiers[i])
  IN run

Graduated(tiers, quantity) ==
  LET last == Runs(tiers, quantity)[Len(tiers)]
  IN IF last.ok /\ last.remaining = 0 THEN SafeCost(last.cost) ELSE NoAmount

Volume(tiers, quantity) ==
  LET fitting == {i \in DOMAIN tiers : Within(quantity, tiers[i])}
      tier    == tiers[Min(fitting)]
  IN IF fitting = {} THEN NoAmount ELSE SafeCost(tier.flat * Parts + tier.unit * quantity)

\* pricingCostMinor of a tiered event; the FIXED branch is not reached from a quote.
PricingCost(event, quantity) ==
  IF quantity = 0 THEN 0
  ELSE IF event.tiers = <<>> THEN NoAmount
  ELSE IF event.mode = "VOLUME" THEN Volume(event.tiers, quantity)
  ELSE Graduated(event.tiers, quantity)

\* calculateShopifyUsageEventQuoteMinor
Quote(event, before) ==
  LET from  == PricingCost(event, before)
      to    == PricingCost(event, before + Parts)
      price == IF event.mode = "FIXED" THEN event.fixed ELSE to - from
  IN IF \/ event.mode # "FIXED" /\ NoAmount \in {from, to}
        \/ price \notin 1..MaxSafe
     THEN NoAmount ELSE price
=============================================================================
