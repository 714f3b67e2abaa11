-------------------------- MODULE MCShopLifecycle --------------------------
(* ShopLifecycle with a few concurrent requests.                              *)
EXTENDS ShopLifecycle, TLC

Symmetry == Permutations(Visits)
=============================================================================
