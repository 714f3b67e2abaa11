----------------------------- MODULE CreditHold -----------------------------
(* What a shop is promised about the credits it bought: the free credits of   *)
(* a purchase are either spendable or held for a refund, never both; they     *)
(* change side all together; and the shop-wide total of held credits moves in *)
(* the same step as the purchase that makes it move.                          *)
(* RecoveryCreditRefund implements this specification.                        *)
EXTENDS Integers

CONSTANT Purchases

VARIABLES
    spendable,    \* spendable[p]: free credits of p a recovery may reserve
    held,         \* held[p]: free credits of p set aside for a refund
    total         \* the shop's refundingQuantity

vars == <<spendable, held, total>>

Init ==
    /\ spendable = [p \in Purchases |-> 0]
    /\ held = [p \in Purchases |-> 0]
    /\ total = 0

(* A bought pack becomes spendable.                                           *)
Award(p) ==
    /\ spendable[p] = 0
    /\ held[p] = 0
    /\ spendable'[p] \in Nat \ {0}
    /\ spendable' = [spendable EXCEPT ![p] = spendable'[p]]
    /\ UNCHANGED <<held, total>>

(* A refund request holds every spendable credit of the purchase.             *)
Hold(p) ==
    /\ spendable[p] > 0
    /\ held[p] = 0
    /\ spendable' = [spendable EXCEPT ![p] = 0]
    /\ held' = [held EXCEPT ![p] = spendable[p]]
    /\ total' = total + spendable[p]

(* The merchant takes the request back: all that is held is spendable again.  *)
Unhold(p) ==
    /\ spendable[p] = 0
    /\ held[p] > 0
    /\ spendable' = [spendable EXCEPT ![p] = held[p]]
    /\ held' = [held EXCEPT ![p] = 0]
    /\ total' = total - held[p]

(* A recovery takes a spendable credit, or gives it back unused; a credit     *)
(* given back after the purchase was withdrawn is held, not spendable.        *)
Take(p) ==
    /\ spendable[p] > 0
    /\ spendable' = [spendable EXCEPT ![p] = @ - 1]
    /\ UNCHANGED <<held, total>>

GiveBackSpendable(p) ==
    /\ held[p] = 0
    /\ spendable' = [spendable EXCEPT ![p] = @ + 1]
    /\ UNCHANGED <<held, total>>

GiveBackHeld(p) ==
    /\ spendable[p] = 0
    /\ held' = [held EXCEPT ![p] = @ + 1]
    /\ total' = total + 1
    /\ UNCHANGED spendable

(* A held credit is written off.                                              *)
WriteOff(p) ==
    /\ held[p] > 0
    /\ held' = [held EXCEPT ![p] = @ - 1]
    /\ total' = total - 1
    /\ UNCHANGED spendable

(* A refund is paid out: what was held is gone.                               *)
Settle(p) ==
    /\ held[p] > 0
    /\ held' = [held EXCEPT ![p] = 0]
    /\ total' = total - held[p]
    /\ UNCHANGED spendable

Next ==
    \E p \in Purchases :
        \/ Award(p)
        \/ Hold(p)
        \/ Unhold(p)
        \/ Take(p)
        \/ GiveBackSpendable(p)
        \/ GiveBackHeld(p)
        \/ WriteOff(p)
        \/ Settle(p)

Spec == Init /\ [][Next]_vars
=============================================================================
