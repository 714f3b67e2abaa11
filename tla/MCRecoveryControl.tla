------------------------- MODULE MCRecoveryControl -------------------------
(* RecoveryControl with two tabs and two calls at the server, in either of    *)
(* two scenarios: several takeovers around one reply, while the scheduler and *)
(* the merchant's rights move; or several replies of one tab under one        *)
(* takeover, while the window opens and closes. A closed window without a     *)
(* follow-up due admits what one of the other gates admits.                   *)
EXTENDS RecoveryControl, TLC

Symmetry == Permutations(RecoveryTabs) \cup Permutations(Calls)

Takeovers == drafts <= 1 /\ keys <= 1 /\ gate # "closed"
Writes(t) == tab[t].body # 0 \/ tab[t].variant # 0 \/ tab[t].choices # 0
Messages == /\ conversation.revision <= 1 /\ gate \in {"open", "due"}
            /\ conversation.turn = NoTurn /\ (second.row => second.claim > 0)
            /\ \A t, u \in RecoveryTabs : Writes(t) /\ Writes(u) => t = u

MCNext == ControlNext /\ (Takeovers' \/ Messages')
MCSpec == ControlInit /\ [][MCNext]_controlVars
=============================================================================
