-------------------------- MODULE MCPurchaseRequest --------------------------
(* Two instances that share the pricing and nothing else, checked in one run:*)
(* `part` names the one that moves.  In "request" packs of catalogue entries *)
(* that differ in credits and price are requested, of one offer by several   *)
(* requests at once or of several offers, under several plans, one at a time.*)
(* In "meter" every event of one or two tiers, well formed or not, and every *)
(* fixed one is bought unit by unit.                                         *)
EXTENDS PurchaseRequest, UsageMeter, TLC

VARIABLE part

Cheap == [mode |-> "FIXED", fixed |-> 1, tiers |-> <<>>]
Rising == [mode |-> "GRADUATED", fixed |-> 0,
           tiers |-> <<[upTo |-> 1, unit |-> 1, flat |-> 0], [upTo |-> NoLimit, unit |-> 2, flat |-> 0]>>]

TwoEntries == {[credits |-> 1, event |-> Cheap], [credits |-> 2, event |-> Rising]}

Tiers == [upTo : {NoLimit, 1, 2}, unit : 0..2, flat : 0..1]

EveryEvent ==
  [mode : Tiered, fixed : {0}, tiers : {<<t>> : t \in Tiers} \cup (Tiers \X Tiers)]
  \cup [mode : {"FIXED"}, fixed : 0..8, tiers : {<<>>}]

Main == CHOOSE o \in Offers : TRUE

\* p is free, q metered by a meter that is also sold as a pack.
Handle == [plan \in Plans |-> IF plan \in Metered THEN CHOOSE o \in Offers \ {Main} : TRUE ELSE NoHandle]

\* Only the main offer's entry is edited.
Edited == \A o \in Offers \ {Main} : catalogue[o] = [credits |-> 1, event |-> Cheap]

\* One offer of one entry under one plan without a meter of its own, not frozen.
Narrow ==
  /\ shopify.plan \notin Metered /\ shopify.metered /\ ~shopify.frozen
  /\ catalogue[Main].event = Rising
  /\ \A p \in purchases : p.offer = Main
  /\ \A c \in Callers : ~At(c, "idle") => calls[c].offer = Main

\* One request at a time, for one pack of each offer; a freeze or a move.
Single ==
  /\ shopify.frozen => shopify.moves = 0
  /\ \A c, d \in Callers : c # d => At(c, "idle") \/ At(d, "idle")
  /\ \A p, q \in purchases : p.offer = q.offer => p = q

MCInit ==
  /\ PackInit /\ MeterInit
  /\ Edited /\ shopify.cycle = Min(Cycles)
  /\ \/ part = "request" /\ event = Cheap /\ used = 0
     \/ part = "meter" /\ catalogue[Main].credits = 1 /\ shopify.plan \in Metered

MCNext ==
  \/ part = "request" /\ PackNext /\ Edited' /\ (Single' \/ Narrow') /\ UNCHANGED <<meter, part>>
  \/ part = "meter" /\ Buy /\ UNCHANGED <<packVars, part>>

MCSpec == MCInit /\ [][MCNext]_<<packVars, meter, part>>

Symmetric == Permutations(Callers) \cup Permutations(Ids)
=============================================================================
