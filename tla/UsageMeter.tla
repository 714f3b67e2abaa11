---------------------------- MODULE UsageMeter ------------------------------
(* One metered usage event of Shopify, bought unit by unit at the price that *)
(* UsagePricing quotes for the next unit.                                    *)
EXTENDS UsagePricing

CONSTANTS
  Events,      \* the usage events a catalogue may hold
  MaxUnits     \* bound: units bought of one event

ASSUME UnitsAssumption == MaxUnits \in Nat
ASSUME EventsAreEvents ==
  Events \subseteq [mode : Tiered \cup {"FIXED"}, fixed : Nat, tiers : Seq([upTo : Nat, unit : Nat, flat : Nat])]

VARIABLES event, used, bought, paid

meter == <<event, used, bought, paid>>

MeterInit ==
  /\ event \in Events
  /\ used \in 0..Parts     \* what the meter shows before the first purchase
  /\ bought = 0
  /\ paid = 0

Buy ==
  /\ bought < MaxUnits
  /\ Quote(event, used) # NoAmount
  /\ used' = used + Parts
  /\ bought' = bought + 1
  /\ paid' = paid + Quote(event, used)
  /\ UNCHANGED event

MeterSpec == MeterInit /\ [][Buy]_meter

-----------------------------------------------------------------------------
(* The reference: the first tier that reaches a part prices it, and a tier's *)
(* flat amount is due once a part falls into it.                             *)
TierOf(e, part) == CHOOSE i \in DOMAIN e.tiers :
  /\ Within(part, e.tiers[i])
  /\ \A j \in 1..(i - 1) : ~Within(part, e.tiers[j])

Reached(e, part) == \E i \in DOMAIN e.tiers : Within(part, e.tiers[i])

Enters(e, part) == part = 1 \/ TierOf(e, part) # TierOf(e, part - 1)

Added(e, part) ==
  LET tier == e.tiers[TierOf(e, part)]
  IN IF Reached(e, part) THEN tier.unit + (IF Enters(e, part) THEN tier.flat * Parts ELSE 0) ELSE 0

Sum(e) == LET sum[part \in Nat] == IF part = 0 THEN 0 ELSE sum[part - 1] + Added(e, part) IN sum

Owed(e, quantity) ==
  LET tier == e.tiers[TierOf(e, quantity)]
  IN IF e.mode = "VOLUME" /\ quantity # 0 THEN tier.flat * Parts + tier.unit * quantity ELSE Sum(e)[quantity]

First == used - bought * Parts

MeterTypeOK == event \in Events /\ used \in 0..((MaxUnits + 1) * Parts) /\ bought \in 0..MaxUnits /\ paid \in Nat

(* The quotes of single units add up to what the price list asks for the      *)
(* whole quantity, wherever the tiers' bounds fall and wherever the meter     *)
(* stood before (pricingCostMinor, calculateShopifyUsageEventQuoteMinor).     *)
PaidIsOwed ==
  IF event.mode = "FIXED" THEN paid = event.fixed * bought
  ELSE \/ bought = 0 /\ paid = 0
       \/ Reached(event, used) /\ paid * Parts = Owed(event, used) - Owed(event, First)

(* An event that the catalogue's validation accepts can be bought at any      *)
(* meter reading: a whole positive price within the safe integers is quoted.  *)
ValidIsQuoted ==
  LET fixed == event.mode = "FIXED"
      price == IF fixed THEN event.fixed * Parts ELSE Owed(event, used + Parts) - Owed(event, used)
      safe  == fixed \/ (Safe(Owed(event, used)) /\ Safe(Owed(event, used + Parts)))
  IN ValidEvent(event) => /\ fixed \/ Reached(event, used + Parts)
                          /\ price > 0 /\ Safe(price) /\ safe => Quote(event, used) * Parts = price

(* What holds of every price list and meter reading: what is quoted unit by   *)
(* unit is what the list asks for the whole, and a valid list can be quoted.  *)
MeterInv ==
  /\ MeterTypeOK
  /\ PaidIsOwed
  /\ ValidIsQuoted

=============================================================================
