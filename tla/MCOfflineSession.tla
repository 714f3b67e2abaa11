-------------------------- MODULE MCOfflineSession --------------------------
(* OfflineSession on a few authentications of one shop.                       *)
EXTENDS OfflineSession, TLC

CallSymmetry == Permutations(Calls)
SessionSymmetry == Permutations(SessionIds)
Symmetry == CallSymmetry \cup SessionSymmetry
=============================================================================
