-------------------------- MODULE MCRecoverySettings --------------------------
(***************************************************************************)
(* An instance of RecoverySettings that follows five stories of the page   *)
(* one by one, instead of their product.                                   *)
(***************************************************************************)
EXTENDS RecoverySettings, TLC

CONSTANTS t1, t2, d1, f1, f2

VARIABLE story

Symmetric == Permutations({t1, t2})

Sent == {r \in 1..MaxRequests : requests[r].at # "unsent"}
SentFrom(some) == \A r \in Sent : requests[r].form \in some

\* No process that writes has a clock that is behind.
OnTime == /\ settings' = settings \/ settings'.updatedAt >= clock
          /\ \A f \in Features : preferences'[f] = preferences[f] \/ preferences'[f].at = clock

\* A page stays open once it has sent.
Stays == \A r \in Sent : pages[requests[r].tab].at # "closed"

\* The policy and the delay are saved from two tabs, by processes whose clocks differ.
Policy == SentFrom({"recovery", "ai-response-delay"}) /\ sent <= 2 /\ refreshes = 0 /\ Stays

\* The delay is saved from two tabs, and the settings are refreshed at any time, by such processes.
Refreshed ==
  /\ SentFrom({"ai-response-delay"}) /\ sent <= 2 /\ Stays
  /\ standing = "live" /\ mapped = Features

\* One of two tabs sends its save of the delay again while the other one saves.
Retries == SentFrom({"ai-response-delay"}) /\ refreshes = 0 /\ Stays

\* The features are saved and saved again from two tabs.
Preferred ==
  /\ SentFrom({"features"}) /\ refreshes = 0 /\ Stays
  /\ \A r \in Sent : ~requests[r].large

\* One tab, any one form; the plan, the shop and the settings move, a body is too large; a save
\* ends in the instant in which it has read.
World ==
  /\ \E t \in Tabs : pages[t] = NoPage /\ \A r \in Sent : requests[r].tab # t
  /\ sent <= 2 /\ (lock = Free \/ lock.since = clock)
  /\ \E f \in Forms : SentFrom({f})
  /\ mapped \cup {f1} = Features /\ f2 \notin Enabled
  /\ \A r \in Sent : f2 \notin requests[r].value.enabled

Told == CASE story = "policy" -> Policy
          [] story = "refreshed" -> Refreshed
          [] story = "retries" -> Retries
          [] story = "features" -> Preferred
          [] story = "world" -> World

MCInit == Init /\ story \in {"policy", "refreshed", "retries", "features", "world"}
MCNext == Next /\ UNCHANGED story /\ Told' /\ (story \in {"policy", "refreshed"} \/ OnTime)
MCSpec == MCInit /\ [][MCNext]_<<vars, story>>
=============================================================================
