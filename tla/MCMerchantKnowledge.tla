------------------------ MODULE MCMerchantKnowledge -------------------------
(* MerchantKnowledge with symmetric sources and uploads: a form uploads files *)
(* beside one web page under a plan that admits two sources at most, or three *)
(* web pages are edited and reordered while nothing has been uploaded.        *)
EXTENDS MerchantKnowledge, TLC

Used == {s \in Sources : sources[s] # NoSource}

Uploads ==
  /\ Cardinality(Used) <= 2 /\ plan.max <= 2
  /\ \A r \in revisions : r.input \in Assets \cup {CHOOSE u \in Urls : TRUE}

Pages == \A a \in Assets : assets[a] = NoAsset

MCNext == Next /\ (Pages' \/ Uploads')
MCSpec == Init /\ [][MCNext]_vars

Symmetric == Permutations(Sources) \cup Permutations(Assets)
=============================================================================
