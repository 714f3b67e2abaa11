-------------------------- MODULE MCStoreCategory ---------------------------
(* The merchant's pages: StoreCategory with symmetric tabs and categories,    *)
(* where a category is edited while one tab is open and the races of two tabs *)
(* leave the versions alone; and a browser of MerchantAccess under every      *)
(* status of a shop and a subscription that the policies tell apart.  The two *)
(* share no state: `part` names the one that moves.                           *)
EXTENDS StoreCategory, MerchantAccess, TLC

VARIABLE part

EverySubscription == SubscriptionRow

Unedited == \A c \in Categories : catalogue[c].version = 1
OneTab == \A t, u \in Tabs : t # u => At(t, "closed") \/ At(u, "closed")

MCInit ==
  /\ Init /\ BrowserInit
  /\ \/ part = "category" /\ shop.onboarded /\ subscription = NoSubscription
     \/ part = "browser"

MCNext ==
  \/ part = "category" /\ Next /\ (Unedited' \/ OneTab') /\ UNCHANGED <<browsing, part>>
  \/ part = "browser" /\ Browse /\ UNCHANGED <<vars, part>>

MCSpec == MCInit /\ [][MCNext]_<<vars, browsing, part>>

Symmetric == Permutations(Tabs) \cup Permutations(Categories)
=============================================================================
