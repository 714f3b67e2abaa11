---------------------- MODULE MCSubscriptionLifecycle ----------------------
(* An instance with two requests, of which either may be the callback's or  *)
(* the resumption's.                                                         *)
EXTENDS SubscriptionLifecycle, TLC

CONSTANTS a, b
Twins == Permutations(Calls)

\* The worker comes before the second request does, or after both are done.
MCNext == \/ MerchantMoves \/ (\E c \in Calls : Request(c)) \/ Ended
          \/ WorkerReconciles /\ (Over \/ \E c \in Calls : calls[c].at = "idle")
MCSpec == Init /\ [][MCNext]_vars
=============================================================================
