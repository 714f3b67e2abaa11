---------------------------- MODULE MCPromotions ----------------------------
(* Promotions with two campaigns, of which the second is for a plan. Two tabs *)
(* race while the plan stays and no credit is taken; one tab sees the plan    *)
(* move and credits being spent.                                              *)
EXTENDS Promotions, TLC

CONSTANTS t1, t2, c1, c2, p1, p2

MCStartsAt == (c1 :> 1) @@ (c2 :> 2)
MCTarget == (c1 :> None) @@ (c2 :> p1)

Race ==
  /\ context = [state |-> "live", plan |-> p1]
  /\ \A c \in Campaigns : campaigns[c].quantity = MaxQuantity /\ grants[c].reserved + grants[c].committed = 0

OneTab == \E t \in Tabs : \A u \in Tabs \ {t} : At(u, "closed")

MCNext == Next /\ (OneTab' \/ Race')
MCSpec == Init /\ [][MCNext]_vars

Symmetric == Permutations({t1, t2})

=============================================================================
