---------------------- MODULE RecoveryManagementProofs ----------------------
(* Proofs about what merchants do with recoveries: people who take one over  *)
(* and reply, and the settings page.                                         *)
EXTENDS RecoveryControl, RecoverySettings, FiniteSetTheorems, TLAPS

-----------------------------------------------------------------------------
(* Proofs about RecoveryControl, for any number of tabs, calls, takeovers,   *)
(* drafts and keys.  The chain of control events and the turns follow from   *)
(* the lock that a change takes on the row its snapshot has shown.  That a   *)
(* draft is sent once needs more: what ties a text to its key is spread over *)
(* the tab, the calls that carry it and the commands it has left behind, so  *)
(* the inductive invariant speaks of all uses of a text at once, and says    *)
(* which of them the tab still knows the key of: those since its choice of a *)
(* template last changed.                                                    *)

Requests ==
  [kind : {"control"}, target : Modes, revision : 0..MaxRevision]
  \cup [kind : Kinds, revision : 0..MaxRevision, key : 1..MaxKeys, draft : 1..MaxDrafts, choices : Nat]

Snapshots == [conversation : Conversations, second : Attempts, commands : SUBSET Commands]

Arrived == [pc : {"arrived"}, tab : RecoveryTabs \cup {"gone"}, request : Requests]

Begun == [pc : {"begun"}, tab : RecoveryTabs \cup {"gone"}, request : Requests, snap : Snapshots]

(* A call holds what it came with, and once it has begun what it has seen.    *)
CallsOK ==
  /\ DOMAIN call = Calls
  /\ \A c \in Calls : call[c].pc = "arrived" => call[c] \in Arrived
  /\ \A c \in Calls : call[c].pc = "begun" => call[c] \in Begun

-----------------------------------------------------------------------------
Sending(c) == call[c].pc # "free" /\ call[c].request.kind \in Kinds

(* A draft is used with a key, while its tab counts so many choices, by the   *)
(* command it became or by a call under way.                                  *)
Used(kind, draft, choices, key) ==
  \/ \E m \in commands : m.kind = kind /\ m.draft = draft /\ m.choices = choices /\ m.key = key
  \/ \E c \in Calls : /\ Sending(c)
                      /\ call[c].request.kind = kind /\ call[c].request.draft = draft
                      /\ call[c].request.choices = choices /\ call[c].request.key = key

IsText(draft) ==
  \/ \E t \in RecoveryTabs : tab[t].body = draft
  \/ \E choices \in Nat, key \in 1..MaxKeys : Used("HUMAN_TEXT", draft, choices, key)

IsTemplate(draft) ==
  \/ \E t \in RecoveryTabs : tab[t].variant = draft
  \/ \E choices \in Nat, key \in 1..MaxKeys : Used("RECOVERY_FOLLOW_UP_TEMPLATE", draft, choices, key)

(* What tabs show and send has been typed or chosen, one or the other.        *)
KindsApart ==
  \A draft \in 1..MaxDrafts :
    /\ IsText(draft) \/ IsTemplate(draft) => draft <= drafts
    /\ ~(IsText(draft) /\ IsTemplate(draft))

(* A text is used with one key, until the choice of a template changes.       *)
TextHasOneKey ==
  \A draft \in 1..MaxDrafts, choices \in Nat, key, last \in 1..MaxKeys :
    Used("HUMAN_TEXT", draft, choices, key) /\ Used("HUMAN_TEXT", draft, choices, last) => key = last

(* A tab that still shows a text knows the key it is used with since then.    *)
TabsKnowUses ==
  \A t \in RecoveryTabs, choices \in Nat, key \in 1..MaxKeys :
    tab[t].body # 0 /\ Used("HUMAN_TEXT", tab[t].body, choices, key) =>
      choices <= tab[t].choices /\ (choices = tab[t].choices => tab[t].key = key)

(* No two tabs show one text.                                                 *)
TextsApart == \A t, u \in RecoveryTabs : tab[t].body = tab[u].body /\ tab[t].body # 0 => t = u

KeysUnique == \A m, n \in commands : m.key = n.key => m = n

SendInv ==
  /\ KindsApart
  /\ TextHasOneKey
  /\ TabsKnowUses
  /\ TextsApart
  /\ KeysUnique

-----------------------------------------------------------------------------
(* Requests keep their shape, whatever happens to one call.                   *)
LEMMA CallsKept ==
  ASSUME CallsOK, NEW c \in Calls, NEW new, new.pc = "free" \/ new \in Arrived \/ new \in Begun,
         call' = [call EXCEPT ![c] = new]
  PROVE  CallsOK'
<1>1. DOMAIN call' = Calls /\ \A d \in Calls : call'[d] = IF d = c THEN new ELSE call[d]
  BY DEF CallsOK
<1>2. new \in Arrived => new.pc = "arrived"
  BY DEF Arrived
<1>3. new \in Begun => new.pc = "begun"
  BY DEF Begun
<1> QED  BY <1>1, <1>2, <1>3 DEF CallsOK

(* What a tab may hold.                                                       *)
Panels == [mode : Modes, revision : 0..MaxRevision, body : 0..MaxDrafts, variant : 0..MaxDrafts,
           key : 0..MaxKeys, choices : Nat]

(* A key is for a text or a template.                                         *)
KeyIsFor(panel) == panel.key # 0 => panel.body # 0 \/ panel.variant # 0

(* The parts of TypeOK and CallsOK that an answer touches.                    *)
LEMMA AnswerTypes ==
  ASSUME ControlTypeOK, CallsOK, NEW c \in Calls, NEW accepted \in BOOLEAN, Respond(c, accepted)
  PROVE  /\ CallsOK'
         /\ \A d \in Calls : call'[d].pc \in {"free", "arrived", "begun"}
         /\ tab' \in [RecoveryTabs -> Panels]
         /\ \A t \in RecoveryTabs : KeyIsFor(tab'[t])
         /\ UNCHANGED <<gate, drafts, keys>>
<1> DEFINE t == call[c].tab
           kind == call[c].request.kind
<1>1. call' = [call EXCEPT ![c] = [pc |-> "free"]] /\ UNCHANGED <<gate, drafts, keys>>
  BY DEF Respond
<1>2. CallsOK'
  BY <1>1, CallsKept
<1>3. \A d \in Calls : call'[d].pc \in {"free", "arrived", "begun"}
  BY <1>1 DEF CallsOK, ControlTypeOK
<1>4. tab \in [RecoveryTabs -> Panels] /\ \A u \in RecoveryTabs : KeyIsFor(tab[u])
  BY DEF ControlTypeOK, Panels, KeyIsFor
<1>5. CASE accepted /\ kind \in Kinds /\ t \in RecoveryTabs
  <2> DEFINE kept == AfterSend(tab[t])
  <2>1. tab' = [tab EXCEPT ![t] = kept]
    BY <1>5 DEF Respond
  <2>2. 0 \in 0..MaxDrafts /\ 0 \in 0..MaxKeys
    BY BoundsAssumption
  <2>3. tab[t] \in Panels
    BY <1>4, <1>5
  <2>4. kept \in Panels /\ KeyIsFor(kept)
    BY <2>2, <2>3 DEF AfterSend, Panels, KeyIsFor
  <2> HIDE DEF kept
  <2> QED  BY <1>1, <1>2, <1>3, <1>4, <1>5, <2>1, <2>4
<1>6. CASE ~(accepted /\ kind \in Kinds /\ t \in RecoveryTabs)
  <2>1. tab' = tab
    BY <1>6 DEF Respond
  <2> QED  BY <1>1, <1>2, <1>3, <1>4, <2>1
<1> QED  BY <1>5, <1>6

-----------------------------------------------------------------------------
(* Without a change of control the chain, the turn and the claim stay.        *)
ChainParts == ControlEventsChain /\ TurnOfThisControl /\ SecondAttemptHasOneOwner /\ IsFiniteSet(events)

LEMMA ChainUntouched ==
  ASSUME ChainParts, UNCHANGED server
  PROVE  ChainParts'
BY DEF ChainParts, ControlEventsChain, TurnOfThisControl, SecondAttemptHasOneOwner, server

(* What a tab does at home.                                                   *)
LEMMA TabTypes ==
  ASSUME ControlTypeOK, CallsOK, NEW t \in RecoveryTabs, NEW new \in Panels, KeyIsFor(new),
         tab' = [tab EXCEPT ![t] = new],
         UNCHANGED <<server, gate, call>>, drafts' \in 0..MaxDrafts, keys' \in 0..MaxKeys
  PROVE  ControlTypeOK' /\ CallsOK'
<1>1. CallsOK'
  BY DEF CallsOK
<1>2. tab' \in [RecoveryTabs -> Panels] /\ \A u \in RecoveryTabs : KeyIsFor(tab'[u])
  BY DEF ControlTypeOK, Panels, KeyIsFor
<1> QED  BY <1>1, <1>2 DEF ControlTypeOK, Panels, server, KeyIsFor

(* What a request does at the server without an answer.                       *)
LEMMA CallTypes ==
  ASSUME ControlTypeOK, CallsOK, NEW c \in Calls, NEW new, new \in Arrived \/ new \in Begun,
         call' = [call EXCEPT ![c] = new], UNCHANGED <<server, gate, drafts, keys>>,
         tab' \in [RecoveryTabs -> Panels], \A u \in RecoveryTabs : KeyIsFor(tab'[u])
  PROVE  ControlTypeOK' /\ CallsOK'
<1>1. CallsOK'
  BY CallsKept
<1>2. new.pc \in {"free", "arrived", "begun"}
  BY DEF Arrived, Begun
<1>3. \A d \in Calls : call'[d].pc \in {"free", "arrived", "begun"}
  BY <1>2 DEF ControlTypeOK, CallsOK
<1> QED  BY <1>1, <1>3 DEF ControlTypeOK, Panels, server, KeyIsFor

LEMMA RequestTyped ==
  ASSUME CallsOK, NEW c \in Calls, call[c].pc \in {"arrived", "begun"}
  PROVE  /\ call[c].request \in Requests
         /\ call[c].tab \in RecoveryTabs \cup {"gone"}
         /\ call[c].pc = "begun" => call[c].snap \in Snapshots
BY DEF CallsOK, Arrived, Begun

(* A request that is no change of control is what its command will be.        *)
LEMMA SendTyped ==
  ASSUME NEW r \in Requests, r.kind \in Kinds
  PROVE  r \in Commands
<1>1. r.kind # "control"
  BY DEF Kinds
<1> QED  BY <1>1 DEF Requests, Commands

LEMMA ControlTyped ==
  ASSUME NEW r \in Requests, r.kind = "control"
  PROVE  r.target \in Modes /\ r.revision \in 0..MaxRevision
<1>1. r \in [kind : {"control"}, target : Modes, revision : 0..MaxRevision]
  BY DEF Requests, Kinds
<1> QED  BY <1>1

(* One more change of control is one more link of the chain.                  *)
LEMMA ChangeLinks ==
  ASSUME ControlTypeOK, ChainParts, CallsOK, NEW c \in Calls, changeRecoveryControl(c)
  PROVE  /\ conversation' \in Conversations
         /\ events' \subseteq [from : Modes, to : Modes, revision : 0..MaxRevision]
         /\ ChainParts'
<1> DEFINE request == call[c].request
           link == [from |-> conversation.mode, to |-> request.target, revision |-> conversation.revision]
<1>1. /\ request.kind = "control" /\ call[c].pc = "begun"
      /\ conversation.revision < MaxRevision
      /\ conversation' = [mode |-> request.target, revision |-> conversation.revision + 1, turn |-> NoTurn]
      /\ events' = events \cup {link}
      /\ UNCHANGED <<second, commands>>
  BY DEF changeRecoveryControl
<1>2. conversation.mode # request.target
  BY DEF changeRecoveryControl, Locked, MayChange
<1>3. request \in Requests
  BY <1>1, RequestTyped
<1>4. request.target \in Modes
  BY <1>1, <1>3, ControlTyped
<1> HIDE DEF request
<1>5. /\ conversation.mode \in Modes /\ conversation.revision \in 0..MaxRevision
      /\ MaxRevision \in Nat
  BY BoundsAssumption DEF ControlTypeOK, Conversations
<1>6. conversation.revision + 1 \in 0..MaxRevision /\ NoTurn \in NoTurn..MaxRevision
  BY <1>1, <1>5 DEF NoTurn
<1>7. conversation' \in Conversations
  BY <1>1, <1>4, <1>6 DEF Conversations
<1>8. link \in [from : Modes, to : Modes, revision : 0..MaxRevision]
  BY <1>4, <1>5
<1>9. /\ link.from = conversation.mode /\ link.to = request.target
      /\ link.revision = conversation.revision
      /\ conversation'.mode = request.target /\ conversation'.revision = conversation.revision + 1
      /\ conversation'.turn = NoTurn
  BY <1>1
<1>10. events' = events \cup {link} /\ events \subseteq [from : Modes, to : Modes, revision : 0..MaxRevision]
  BY <1>1 DEF ControlTypeOK
<1> HIDE DEF link
<1>11. \A e \in events : e.revision \in 0..(conversation.revision - 1)
  BY DEF ChainParts, ControlEventsChain
<1>12. link \notin events
  BY <1>5, <1>9, <1>11
<1>13. Cardinality(events') = conversation.revision + 1 /\ IsFiniteSet(events')
  BY <1>10, <1>12, FS_AddElement DEF ChainParts, ControlEventsChain
<1>14. {e.revision : e \in events'} = 0..conversation.revision
  <2>1. link.revision = conversation.revision /\ events' = events \cup {link}
    BY <1>9, <1>10
  <2>2. {e.revision : e \in events'} = {e.revision : e \in events} \cup {conversation.revision}
    BY <2>1
  <2>3. {e.revision : e \in events} = 0..(conversation.revision - 1)
    BY DEF ChainParts, ControlEventsChain
  <2>4. (0..(conversation.revision - 1)) \cup {conversation.revision} = 0..conversation.revision
    BY <1>5
  <2> QED  BY <2>2, <2>3, <2>4
<1>15. \A e \in events' : e.from # e.to
  BY <1>2, <1>9, <1>10 DEF ChainParts, ControlEventsChain
<1>16. \A e, f \in events' : f.revision = e.revision + 1 => f.from = e.to
  BY <1>5, <1>9, <1>10, <1>11 DEF ChainParts, ControlEventsChain
<1>17. \A e \in events' : e.revision + 1 = conversation'.revision => e.to = conversation'.mode
  BY <1>5, <1>9, <1>10, <1>11
<1>18. conversation'.revision - 1 = conversation.revision
  BY <1>5, <1>9
<1>19. ControlEventsChain'
  BY <1>9, <1>13, <1>14, <1>15, <1>16, <1>17, <1>18 DEF ControlEventsChain
<1>20. TurnOfThisControl'
  BY <1>9 DEF TurnOfThisControl
<1>21. SecondAttemptHasOneOwner'
  BY <1>1 DEF ChainParts, SecondAttemptHasOneOwner
<1> QED  BY <1>7, <1>8, <1>10, <1>13, <1>19, <1>20, <1>21 DEF ChainParts

(* A command that claims the second attempt is the only follow-up.            *)
LEMMA AdmitClaims ==
  ASSUME ControlTypeOK, ChainParts, CallsOK, NEW c \in Calls, admitRecoveryHumanSend(c)
  PROVE  /\ second' \in Attempts /\ commands' \subseteq Commands
         /\ ChainParts'
<1> DEFINE request == call[c].request
           new == request
<1>1. /\ call[c].pc = "begun" /\ request.kind \in Kinds
      /\ commands' = commands \cup {new}
      /\ UNCHANGED <<conversation, events>>
      /\ IF request.kind = "HUMAN_TEXT" THEN UNCHANGED second
         ELSE SecondIsFree(c) /\ second' = [row |-> TRUE, claim |-> request.key]
  BY DEF admitRecoveryHumanSend
<1>2. new \in Commands
  BY <1>1, RequestTyped, SendTyped
<1>3. new.kind = request.kind /\ new.key = request.key
  OBVIOUS
<1>4. new.key \in 1..MaxKeys /\ MaxKeys \in Nat
  BY <1>2, BoundsAssumption DEF Commands
<1> HIDE DEF new, request
<1>5. ControlEventsChain' /\ TurnOfThisControl' /\ IsFiniteSet(events)'
  BY <1>1 DEF ChainParts, ControlEventsChain, TurnOfThisControl
<1>6. commands' \subseteq Commands
  BY <1>1, <1>2 DEF ControlTypeOK
<1>7. CASE request.kind = "HUMAN_TEXT"
  <2>1. UNCHANGED second /\ new.kind # "RECOVERY_FOLLOW_UP_TEMPLATE"
    BY <1>1, <1>3, <1>7
  <2>2. SecondAttemptHasOneOwner'
    BY <1>1, <2>1 DEF ChainParts, SecondAttemptHasOneOwner
  <2> QED  BY <1>5, <1>6, <2>1, <2>2 DEF ChainParts, ControlTypeOK
<1>8. CASE request.kind # "HUMAN_TEXT"
  <2>1. second.claim = 0 /\ second' = [row |-> TRUE, claim |-> request.key]
    BY <1>1, <1>8 DEF SecondIsFree
  <2>2. \A m \in commands : m.kind # "RECOVERY_FOLLOW_UP_TEMPLATE"
    <3>1. \A m \in commands : m.key \in 1..MaxKeys
      BY DEF ControlTypeOK, Commands
    <3> QED  BY <1>4, <2>1, <3>1 DEF ChainParts, SecondAttemptHasOneOwner
  <2>3. SecondAttemptHasOneOwner'
    BY <1>1, <1>3, <2>1, <2>2 DEF SecondAttemptHasOneOwner
  <2>4. request.key \in Scheduler..MaxKeys
    BY <1>3, <1>4 DEF Scheduler
  <2>5. second' \in Attempts
    BY <2>1, <2>4 DEF Attempts
  <2> QED  BY <1>5, <1>6, <2>3, <2>5 DEF ChainParts
<1> QED  BY <1>7, <1>8

ChainTyped == ControlTypeOK /\ CallsOK /\ ChainParts

LEMMA ChainInit == ASSUME ControlInit PROVE ChainTyped
<1>1. 0 \in 0..MaxRevision /\ NoTurn \in NoTurn..MaxRevision /\ 0 \in Scheduler..MaxKeys
      /\ 0 \in 0..MaxDrafts /\ 0 \in 0..MaxKeys
  BY BoundsAssumption DEF NoTurn, Scheduler
<1>2. conversation \in Conversations
  BY <1>1 DEF ControlInit, Conversations, Modes
<1>3. second \in Attempts
  BY <1>1 DEF ControlInit, Attempts
<1>4. NewTab \in Panels /\ KeyIsFor(NewTab)
  BY <1>1 DEF NewTab, Panels, KeyIsFor, Modes, Kinds
<1>5. tab \in [RecoveryTabs -> Panels] /\ \A t \in RecoveryTabs : KeyIsFor(tab[t])
  BY <1>4 DEF ControlInit
<1>6. ControlTypeOK
  BY <1>1, <1>2, <1>3, <1>5 DEF ControlInit, ControlTypeOK, Panels, Gates, KeyIsFor
<1>7. CallsOK
  BY DEF ControlInit, CallsOK
<1>8. Cardinality(events) = 0 /\ IsFiniteSet(events)
  BY FS_EmptySet DEF ControlInit
<1>9. events = {} /\ conversation.revision = 0 /\ conversation.turn = NoTurn /\ commands = {}
  BY DEF ControlInit
<1>10. {e.revision : e \in events} = 0..(conversation.revision - 1)
  BY <1>9
<1>11. ControlEventsChain
  BY <1>8, <1>9, <1>10 DEF ControlEventsChain
<1> QED  BY <1>6, <1>7, <1>8, <1>9, <1>11 DEF ChainTyped, ChainParts, TurnOfThisControl, SecondAttemptHasOneOwner

LEMMA ChainStep == ASSUME ChainTyped, [ControlNext]_controlVars PROVE ChainTyped'
<1> USE DEF ChainTyped
<1>0. tab \in [RecoveryTabs -> Panels] /\ \A t \in RecoveryTabs : KeyIsFor(tab[t])
  BY DEF ControlTypeOK, Panels, KeyIsFor
<1>1. ASSUME NEW t \in RecoveryTabs, Revalidate(t) PROVE ChainTyped'
  <2> DEFINE new == [tab[t] EXCEPT !.mode = conversation.mode, !.revision = conversation.revision]
  <2>1. tab' = [tab EXCEPT ![t] = new] /\ UNCHANGED <<server, gate, call, drafts, keys>>
    BY <1>1 DEF Revalidate
  <2>2. conversation.mode \in Modes /\ conversation.revision \in 0..MaxRevision
    BY DEF ControlTypeOK, Conversations
  <2>3. new \in Panels /\ KeyIsFor(new)
    BY <1>0, <2>2 DEF Panels, KeyIsFor
  <2> HIDE DEF new
  <2>4. drafts' \in 0..MaxDrafts /\ keys' \in 0..MaxKeys
    BY <2>1 DEF ControlTypeOK
  <2> QED  BY <2>1, <2>3, <2>4, TabTypes, ChainUntouched
<1>2. ASSUME NEW t \in RecoveryTabs, Type(t) \/ ChooseTemplate(t) \/ RetireTemplate(t) PROVE ChainTyped'
  <2> DEFINE typed == [tab[t] EXCEPT !.body = drafts + 1, !.key = 0]
             chosen == [tab[t] EXCEPT !.variant = drafts + 1, !.key = 0, !.choices = @ + 1]
             retired == [tab[t] EXCEPT !.variant = 0, !.key = 0, !.choices = @ + 1]
  <2>1. /\ UNCHANGED <<server, gate, call, keys>>
        /\ \/ /\ tab' = [tab EXCEPT ![t] = typed] \/ tab' = [tab EXCEPT ![t] = chosen]
              /\ drafts' = drafts + 1 /\ drafts < MaxDrafts
           \/ tab' = [tab EXCEPT ![t] = retired] /\ drafts' = drafts
    BY <1>2 DEF Type, ChooseTemplate, RetireTemplate
  <2>2. drafts < MaxDrafts => drafts + 1 \in 0..MaxDrafts
    BY BoundsAssumption DEF ControlTypeOK
  <2>3. 0 \in 0..MaxKeys /\ 0 \in 0..MaxDrafts /\ tab[t] \in Panels
    BY <1>0, BoundsAssumption
  <2>4. /\ drafts < MaxDrafts => typed \in Panels /\ chosen \in Panels
        /\ retired \in Panels
    <3>1. tab[t].choices + 1 \in Nat
      BY <2>3 DEF Panels
    <3>2. retired \in Panels
      BY <2>3, <3>1 DEF Panels
    <3>3. ASSUME drafts < MaxDrafts PROVE typed \in Panels
      BY <2>2, <2>3, <3>3 DEF Panels
    <3>4. ASSUME drafts < MaxDrafts PROVE chosen \in Panels
      BY <2>2, <2>3, <3>1, <3>4 DEF Panels
    <3> QED  BY <3>2, <3>3, <3>4
  <2>5. KeyIsFor(typed) /\ KeyIsFor(chosen) /\ KeyIsFor(retired)
    BY <2>3 DEF Panels, KeyIsFor
  <2>6. drafts' \in 0..MaxDrafts /\ keys' \in 0..MaxKeys
    BY <2>1, <2>2 DEF ControlTypeOK
  <2> HIDE DEF typed, chosen, retired
  <2>7. \E new \in Panels : KeyIsFor(new) /\ tab' = [tab EXCEPT ![t] = new]
    BY <2>1, <2>4, <2>5
  <2> QED  BY <2>1, <2>6, <2>7, TabTypes, ChainUntouched
<1>3. ASSUME NEW t \in RecoveryTabs, NEW c \in Calls, ChangeMode(t, c) PROVE ChainTyped'
  <2> DEFINE target == IF tab[t].mode = "AI" THEN "HUMAN" ELSE "AI"
             request == [kind |-> "control", target |-> target, revision |-> tab[t].revision]
  <2>1. call' = [call EXCEPT ![c] = [pc |-> "arrived", tab |-> t, request |-> request]]
        /\ UNCHANGED <<server, gate, tab, drafts, keys>>
    BY <1>3 DEF ChangeMode, SubmitCall
  <2>2. target \in Modes /\ tab[t].revision \in 0..MaxRevision
    BY <1>0 DEF Modes, Panels
  <2> HIDE DEF target
  <2>3. request \in Requests
    BY <2>2 DEF Requests
  <2> HIDE DEF request
  <2>4. [pc |-> "arrived", tab |-> t, request |-> request] \in Arrived
    BY <2>3 DEF Arrived
  <2> QED  BY <1>0, <2>1, <2>4, CallTypes, ChainUntouched
<1>4. ASSUME NEW t \in RecoveryTabs, NEW c \in Calls, NEW kind \in Kinds, Reply(t, c, kind) PROVE ChainTyped'
  <2>1. tab[t] \in Panels /\ DraftOf(t, kind) # 0
    BY <1>0, <1>4 DEF Reply, CanSend
  <2>2. DraftOf(t, kind) \in 1..MaxDrafts
    BY <2>1, BoundsAssumption DEF Panels, DraftOf
  <2>3. ASSUME NEW key \in 1..MaxKeys
        PROVE  [pc |-> "arrived", tab |-> t, request |-> SendRequest(t, kind, key)] \in Arrived
    <3>1. tab[t].revision \in 0..MaxRevision /\ tab[t].choices \in Nat
      BY <2>1 DEF Panels
    <3>2. SendRequest(t, kind, key) \in Requests
      BY <2>2, <3>1 DEF SendRequest, Requests
    <3> QED  BY <3>2 DEF Arrived
  <2>4. CASE tab[t].key # 0
    <3>1. tab[t].key \in 1..MaxKeys
      BY <2>1, <2>4, BoundsAssumption DEF Panels
    <3>2. /\ call' = [call EXCEPT ![c] = [pc |-> "arrived", tab |-> t, request |-> SendRequest(t, kind, tab[t].key)]]
          /\ UNCHANGED <<server, gate, tab, drafts, keys>>
      BY <1>4, <2>4 DEF Reply, SubmitCall
    <3> QED  BY <1>0, <2>3, <3>1, <3>2, CallTypes, ChainUntouched
  <2>5. CASE tab[t].key = 0
    <3> DEFINE new == [tab[t] EXCEPT !.key = keys + 1]
               going == [pc |-> "arrived", tab |-> t, request |-> SendRequest(t, kind, keys + 1)]
    <3>1. /\ call' = [call EXCEPT ![c] = going]
          /\ UNCHANGED <<server, gate, drafts>>
          /\ keys' = keys + 1 /\ keys < MaxKeys
          /\ tab' = [tab EXCEPT ![t] = new]
      BY <1>4, <2>5 DEF Reply, SubmitCall
    <3>2. keys + 1 \in 1..MaxKeys /\ keys + 1 \in 0..MaxKeys
      BY <3>1, BoundsAssumption DEF ControlTypeOK
    <3>3. new \in Panels /\ new.body = tab[t].body /\ new.variant = tab[t].variant
      BY <2>1, <3>2 DEF Panels
    <3>4. going \in Arrived
      BY <2>3, <3>2
    <3>5. going.pc = "arrived"
      OBVIOUS
    <3> HIDE DEF new, going
    <3>6. KeyIsFor(new)
      BY <2>1, <3>3 DEF KeyIsFor, DraftOf
    <3>7. tab' \in [RecoveryTabs -> Panels] /\ \A u \in RecoveryTabs : KeyIsFor(tab'[u])
      BY <1>0, <3>1, <3>3, <3>6
    <3>8. CallsOK'
      BY <3>1, <3>4, CallsKept
    <3>9. \A d \in Calls : call'[d].pc \in {"free", "arrived", "begun"}
      BY <3>1, <3>5 DEF ControlTypeOK, CallsOK
    <3> QED  BY <3>1, <3>2, <3>7, <3>8, <3>9, ChainUntouched DEF ControlTypeOK, Panels, KeyIsFor, server
  <2> QED  BY <2>4, <2>5
<1>5. ASSUME NEW c \in Calls, GiveUp(c) PROVE ChainTyped'
  <2> DEFINE new == [call[c] EXCEPT !.tab = "gone"]
  <2>1. /\ call' = [call EXCEPT ![c] = new] /\ UNCHANGED <<server, gate, tab, drafts, keys>>
        /\ call[c].pc \in {"arrived", "begun"}
    BY <1>5 DEF GiveUp
  <2>2. new \in Arrived \/ new \in Begun
    BY <2>1 DEF CallsOK, Arrived, Begun
  <2> HIDE DEF new
  <2> QED  BY <1>0, <2>1, <2>2, CallTypes, ChainUntouched
<1>6. ASSUME NEW c \in Calls, Begin(c) PROVE ChainTyped'
  <2> DEFINE new == [pc |-> "begun", tab |-> call[c].tab, request |-> call[c].request, snap |-> Snapshot]
  <2>1. /\ call' = [call EXCEPT ![c] = new] /\ UNCHANGED <<server, gate, tab, drafts, keys>>
        /\ call[c].pc = "arrived"
    BY <1>6 DEF Begin
  <2>2. Snapshot \in Snapshots
    BY DEF Snapshot, Snapshots, ControlTypeOK
  <2>3. new \in Begun
    BY <2>1, <2>2, RequestTyped DEF Begun
  <2> HIDE DEF new
  <2> QED  BY <1>0, <2>1, <2>3, CallTypes, ChainUntouched
<1>7. ASSUME NEW c \in Calls, TurnAway(c) \/ Refuse(c) \/ Replay(c) PROVE ChainTyped'
  <2>1. UNCHANGED server /\ (Respond(c, TRUE) \/ Respond(c, FALSE))
    BY <1>7 DEF TurnAway, Refuse, Replay
  <2> QED  BY <2>1, AnswerTypes, ChainUntouched DEF ControlTypeOK, Panels, server, KeyIsFor
<1>8. ASSUME NEW c \in Calls, changeRecoveryControl(c) PROVE ChainTyped'
  <2>1. Respond(c, TRUE) /\ UNCHANGED <<second, commands>>
    BY <1>8 DEF changeRecoveryControl
  <2> QED  BY <1>8, <2>1, AnswerTypes, ChangeLinks DEF ControlTypeOK, Panels, KeyIsFor
<1>9. ASSUME NEW c \in Calls, admitRecoveryHumanSend(c) PROVE ChainTyped'
  <2>1. Respond(c, TRUE) /\ UNCHANGED <<conversation, events>>
    BY <1>9 DEF admitRecoveryHumanSend
  <2> QED  BY <1>9, <2>1, AnswerTypes, AdmitClaims DEF ControlTypeOK, Panels, KeyIsFor
<1>10. ASSUME InboundMessage \/ TurnEnds PROVE ChainTyped'
  <2>1. /\ UNCHANGED <<events, second, commands, gate, call, tab, drafts, keys>>
        /\ \/ conversation.mode = "AI" /\ conversation' = [conversation EXCEPT !.turn = conversation.revision]
           \/ conversation' = [conversation EXCEPT !.turn = NoTurn]
    BY <1>10 DEF InboundMessage, TurnEnds
  <2>2. conversation.revision \in NoTurn..MaxRevision /\ NoTurn \in NoTurn..MaxRevision
    BY BoundsAssumption DEF ControlTypeOK, Conversations, NoTurn
  <2>3. conversation' \in Conversations
    BY <2>1, <2>2 DEF ControlTypeOK, Conversations
  <2>4. /\ conversation'.mode = conversation.mode /\ conversation'.revision = conversation.revision
        /\ \/ conversation'.turn = NoTurn
           \/ conversation.mode = "AI" /\ conversation'.turn = conversation.revision
    BY <2>1 DEF ControlTypeOK, Conversations
  <2>5. ControlEventsChain' /\ IsFiniteSet(events')
    BY <2>1, <2>4 DEF ChainParts, ControlEventsChain
  <2>6. TurnOfThisControl' /\ SecondAttemptHasOneOwner'
    BY <2>1, <2>4 DEF ChainParts, TurnOfThisControl, SecondAttemptHasOneOwner
  <2>7. ControlTypeOK' /\ CallsOK'
    BY <2>1, <2>3 DEF ControlTypeOK, CallsOK
  <2> QED  BY <2>5, <2>6, <2>7 DEF ChainParts
<1>11. ASSUME SchedulerActs PROVE ChainTyped'
  <2>1. /\ second.claim = 0 /\ UNCHANGED <<conversation, events, commands, gate, call, tab, drafts, keys>>
        /\ second' \in {[row |-> TRUE, claim |-> 0], [row |-> TRUE, claim |-> Scheduler]}
    BY <1>11 DEF SchedulerActs
  <2>2. 0 \in Scheduler..MaxKeys /\ Scheduler \in Scheduler..MaxKeys
    BY BoundsAssumption DEF Scheduler
  <2>3. second' \in Attempts
    <3>1. [row |-> TRUE, claim |-> 0] \in Attempts
      BY <2>2 DEF Attempts
    <3>2. [row |-> TRUE, claim |-> Scheduler] \in Attempts
      BY <2>2 DEF Attempts
    <3> QED  BY <2>1, <3>1, <3>2
  <2>4. \A m \in commands : m.key # 0
    BY DEF ControlTypeOK, Commands
  <2>5. SecondAttemptHasOneOwner'
    BY <2>1, <2>4 DEF ChainParts, SecondAttemptHasOneOwner
  <2>6. ControlEventsChain' /\ TurnOfThisControl' /\ IsFiniteSet(events')
    BY <2>1 DEF ChainParts, ControlEventsChain, TurnOfThisControl
  <2>7. ControlTypeOK' /\ CallsOK'
    BY <2>1, <2>3 DEF ControlTypeOK, CallsOK
  <2> QED  BY <2>5, <2>6, <2>7 DEF ChainParts
<1>12. ASSUME WorldChanges PROVE ChainTyped'
  <2>1. gate' \in Gates /\ UNCHANGED <<server, call, tab, drafts, keys>>
    BY <1>12 DEF WorldChanges
  <2> QED  BY <2>1, ChainUntouched DEF ControlTypeOK, CallsOK, server
<1>13. ASSUME UNCHANGED controlVars PROVE ChainTyped'
  <2>1. UNCHANGED <<server, gate, call, tab, drafts, keys>>
    BY <1>13 DEF controlVars
  <2> QED  BY <2>1, ChainUntouched DEF ControlTypeOK, CallsOK, server
<1> QED
  BY <1>1, <1>2, <1>3, <1>4, <1>5, <1>6, <1>7, <1>8, <1>9, <1>10, <1>11, <1>12, <1>13 DEF ControlNext

-----------------------------------------------------------------------------
(* The control events are one chain that ends where the conversation is, no   *)
(* turn outlives the control it was scheduled under, and the second attempt   *)
(* is claimed by one follow-up command or by the scheduler                    *)
(* (recovery-human-commands.server.ts).                                       *)
THEOREM ControlIsOneChain == ControlSpec => []ControlInv
<1>1. ChainTyped => ControlInv
  BY DEF ChainTyped, ChainParts, ControlInv
<1> QED  BY ChainInit, ChainStep, <1>1, PTL DEF ControlSpec

(* A command enters only while people hold the conversation, at the revision  *)
(* its tab had seen.                                                          *)
THEOREM SendsAlwaysUnderHumanControl == ControlSpec => SendsUnderHumanControl
<1> DEFINE Checked == \A m \in commands' \ commands :
                        conversation.mode = "HUMAN" /\ m.revision = conversation.revision
<1>1. ASSUME ChainTyped, ControlNext PROVE Checked
  <2>1. ASSUME NEW c \in Calls, admitRecoveryHumanSend(c) PROVE Checked
    <3>1. /\ call[c].snap.conversation = conversation
          /\ call[c].snap.conversation.revision = call[c].request.revision
          /\ call[c].snap.conversation.mode = "HUMAN"
          /\ commands' = commands \cup {call[c].request}
      BY <2>1 DEF admitRecoveryHumanSend, Locked, MaySend
    <3> QED  BY <3>1
  <2>2. ASSUME ~ \E c \in Calls : admitRecoveryHumanSend(c) PROVE commands' = commands
    <3>1. ASSUME NEW t \in RecoveryTabs, Revalidate(t) PROVE commands' = commands
      BY <3>1 DEF Revalidate, server
    <3>2. ASSUME NEW t \in RecoveryTabs, Type(t) \/ ChooseTemplate(t) \/ RetireTemplate(t) PROVE commands' = commands
      BY <3>2 DEF Type, ChooseTemplate, RetireTemplate, server
    <3>3. ASSUME NEW t \in RecoveryTabs, NEW c \in Calls, ChangeMode(t, c) PROVE commands' = commands
      BY <3>3 DEF ChangeMode, SubmitCall, server
    <3>4. ASSUME NEW t \in RecoveryTabs, NEW c \in Calls, NEW kind \in Kinds, Reply(t, c, kind)
          PROVE  commands' = commands
      BY <3>4 DEF Reply, SubmitCall, server
    <3>5. ASSUME NEW c \in Calls, GiveUp(c) \/ TurnAway(c) \/ Begin(c) \/ Refuse(c) \/ Replay(c)
          PROVE  commands' = commands
      BY <3>5 DEF GiveUp, TurnAway, Begin, Refuse, Replay, server
    <3>6. ASSUME NEW c \in Calls, changeRecoveryControl(c) PROVE commands' = commands
      BY <3>6 DEF changeRecoveryControl
    <3>7. ASSUME InboundMessage \/ TurnEnds \/ SchedulerActs \/ WorldChanges PROVE commands' = commands
      BY <3>7 DEF InboundMessage, TurnEnds, SchedulerActs, WorldChanges, server
    <3> QED  BY <1>1, <2>2, <3>1, <3>2, <3>3, <3>4, <3>5, <3>6, <3>7 DEF ControlNext
  <2> QED  BY <2>1, <2>2
<1>2. ChainTyped /\ [ControlNext]_controlVars => [Checked]_controlVars
  BY <1>1
<1> QED  BY ChainInit, ChainStep, <1>2, PTL DEF ControlSpec, SendsUnderHumanControl

-----------------------------------------------------------------------------
(* Of what is known about uses, the rest stays when no use is added.          *)
Shrinks ==
  \A kind \in Kinds, draft \in 1..MaxDrafts, choices \in Nat, key \in 1..MaxKeys :
    Used(kind, draft, choices, key)' => Used(kind, draft, choices, key)

LEMMA BothKinds == "HUMAN_TEXT" \in Kinds /\ "RECOVERY_FOLLOW_UP_TEMPLATE" \in Kinds
BY DEF Kinds

(* Nothing is sent, and each tab shows what it showed or nothing.             *)
LEMMA SendShrinks ==
  ASSUME SendInv, Shrinks, drafts' = drafts, KeysUnique', tab \in [RecoveryTabs -> Panels],
         \A t \in RecoveryTabs : /\ tab'[t].variant \in {0, tab[t].variant}
                                 /\ \/ /\ tab'[t].body = tab[t].body /\ tab'[t].key = tab[t].key
                                       /\ tab'[t].choices = tab[t].choices
                                    \/ tab'[t].body = 0
  PROVE  SendInv'
<1>1. \A t \in RecoveryTabs : tab[t].body # 0 => tab[t].body \in 1..MaxDrafts
  BY BoundsAssumption DEF Panels
<1>2. ASSUME NEW draft \in 1..MaxDrafts
      PROVE  (IsText(draft)' => IsText(draft)) /\ (IsTemplate(draft)' => IsTemplate(draft))
  <2>1. draft # 0
    BY <1>2
  <2> QED  BY <2>1, BothKinds DEF IsText, IsTemplate, Shrinks
<1>3. KindsApart'
  BY <1>2 DEF SendInv, KindsApart
<1>4. TextHasOneKey'
  BY BothKinds DEF SendInv, TextHasOneKey, Shrinks
<1>5. TabsKnowUses'
  <2>1. ASSUME NEW t \in RecoveryTabs, NEW choices \in Nat, NEW key \in 1..MaxKeys,
               tab'[t].body # 0, Used("HUMAN_TEXT", tab[t].body, choices, key)'
        PROVE  choices <= tab'[t].choices /\ (choices = tab'[t].choices => tab'[t].key = key)
    <3>1. PICK b \in 1..MaxDrafts : b = tab'[t].body /\ b = tab[t].body
      BY <1>1, <2>1
    <3>2. tab'[t].key = tab[t].key /\ tab'[t].choices = tab[t].choices
      BY <2>1
    <3>3. Used("HUMAN_TEXT", b, choices, key)
      BY <2>1, <3>1, BothKinds DEF Shrinks
    <3> QED  BY <2>1, <3>1, <3>2, <3>3 DEF SendInv, TabsKnowUses
  <2> QED  BY <2>1 DEF TabsKnowUses
<1>6. TextsApart'
  BY DEF SendInv, TextsApart
<1> QED  BY <1>3, <1>4, <1>5, <1>6 DEF SendInv

SameSending ==
  \A c \in Calls : Sending(c)' => Sending(c) /\ call'[c].request = call[c].request

LEMMA SendSame ==
  ASSUME ChainTyped, SendInv, SameSending, UNCHANGED <<commands, drafts>>,
         \A t \in RecoveryTabs : /\ tab'[t].body = tab[t].body /\ tab'[t].variant = tab[t].variant
                                 /\ tab'[t].key = tab[t].key /\ tab'[t].choices = tab[t].choices
  PROVE  SendInv'
<1>1. Shrinks
  BY DEF Shrinks, Used, SameSending
<1>2. KeysUnique'
  BY DEF SendInv, KeysUnique
<1>3. tab \in [RecoveryTabs -> Panels]
  BY DEF ChainTyped, ControlTypeOK, Panels
<1> QED  BY <1>1, <1>2, <1>3, SendShrinks

(* A new text is used by nobody yet; a choice that changes leaves all uses of *)
(* the tab's text behind.                                                     *)
LEMMA SendEdit ==
  ASSUME ChainTyped, SendInv, NEW t \in RecoveryTabs, Type(t) \/ ChooseTemplate(t) \/ RetireTemplate(t)
  PROVE  SendInv'
<1>1. UNCHANGED <<commands, call>>
  BY DEF Type, ChooseTemplate, RetireTemplate, server
<1>2. tab \in [RecoveryTabs -> Panels] /\ drafts \in 0..MaxDrafts /\ drafts + 1 # 0
  BY BoundsAssumption DEF ChainTyped, ControlTypeOK, Panels
<1>3. \A kind, draft, choices, key : Used(kind, draft, choices, key)' <=> Used(kind, draft, choices, key)
  BY <1>1 DEF Used, Sending
<1>4. \A u \in RecoveryTabs : /\ tab[u].body \in 0..MaxDrafts /\ tab[u].choices \in Nat
                              /\ tab[u].body # 0 => tab[u].body \in 1..MaxDrafts
  BY <1>2, BoundsAssumption DEF Panels
<1>5. \A u \in RecoveryTabs : tab[u].body <= drafts
  BY <1>2, <1>4 DEF SendInv, KindsApart, IsText
<1>6. \A draft \in 1..MaxDrafts, choices \in Nat, key \in 1..MaxKeys :
         Used("HUMAN_TEXT", draft, choices, key) => draft <= drafts
  BY DEF SendInv, KindsApart, IsText
<1>7. KeysUnique'
  BY <1>1 DEF SendInv, KeysUnique
<1>8. TextHasOneKey'
  BY <1>3 DEF SendInv, TextHasOneKey
<1>9. \A u \in RecoveryTabs : u # t => tab'[u] = tab[u]
  BY <1>2 DEF Type, ChooseTemplate, RetireTemplate
<1>10. CASE Type(t)
  <2>1. /\ tab'[t].body = drafts + 1 /\ tab'[t].variant = tab[t].variant
        /\ drafts' = drafts + 1 /\ drafts < MaxDrafts
    BY <1>2, <1>10 DEF Type, Panels
  <2>2. \A draft \in 1..MaxDrafts : /\ IsText(draft)' => IsText(draft) \/ draft = drafts + 1
                                    /\ IsTemplate(draft)' => IsTemplate(draft)
    BY <1>3, <1>9, <2>1 DEF IsText, IsTemplate
  <2>3. KindsApart'
    BY <1>2, <2>1, <2>2 DEF SendInv, KindsApart
  <2>4. drafts + 1 \in 1..MaxDrafts
    BY <1>2, <2>1, BoundsAssumption
  <2>5. TabsKnowUses'
    <3>1. ASSUME NEW u \in RecoveryTabs, NEW choices \in Nat, NEW key \in 1..MaxKeys,
                 tab'[u].body # 0, Used("HUMAN_TEXT", tab[u].body, choices, key)'
          PROVE  choices <= tab'[u].choices /\ (choices = tab'[u].choices => tab'[u].key = key)
      <4>1. PICK b : b = tab'[u].body
        OBVIOUS
      <4>2. Used("HUMAN_TEXT", b, choices, key)
        BY <1>3, <3>1, <4>1
      <4>3. u # t
        BY <1>2, <1>6, <2>1, <2>4, <4>1, <4>2
      <4> QED  BY <1>9, <3>1, <4>1, <4>2, <4>3 DEF SendInv, TabsKnowUses
    <3> QED  BY <3>1 DEF TabsKnowUses
  <2>6. TextsApart'
    BY <1>2, <1>4, <1>5, <1>9, <2>1 DEF SendInv, TextsApart
  <2> QED  BY <1>7, <1>8, <2>3, <2>5, <2>6 DEF SendInv
<1>11. CASE ChooseTemplate(t) \/ RetireTemplate(t)
  <2>1. /\ tab'[t].body = tab[t].body /\ tab'[t].choices = tab[t].choices + 1
        /\ \/ tab'[t].variant = drafts + 1 /\ drafts' = drafts + 1 /\ drafts < MaxDrafts
           \/ tab'[t].variant = 0 /\ drafts' = drafts
    BY <1>2, <1>11 DEF ChooseTemplate, RetireTemplate, Panels
  <2>2. \A draft \in 1..MaxDrafts :
          /\ IsText(draft)' => IsText(draft)
          /\ IsTemplate(draft)' => IsTemplate(draft) \/ (draft = drafts + 1 /\ drafts' = drafts + 1)
    BY <1>3, <1>9, <2>1 DEF IsText, IsTemplate
  <2>3. KindsApart'
    BY <1>2, <2>1, <2>2 DEF SendInv, KindsApart
  <2>4. TabsKnowUses'
    <3>1. ASSUME NEW u \in RecoveryTabs, NEW choices \in Nat, NEW key \in 1..MaxKeys,
                 tab'[u].body # 0, Used("HUMAN_TEXT", tab[u].body, choices, key)'
          PROVE  choices <= tab'[u].choices /\ (choices = tab'[u].choices => tab'[u].key = key)
      <4>1. PICK b : b = tab'[u].body
        OBVIOUS
      <4>2. Used("HUMAN_TEXT", b, choices, key) /\ b = tab[u].body /\ b # 0
        BY <1>3, <1>9, <2>1, <3>1, <4>1
      <4>3. choices <= tab[u].choices /\ (choices = tab[u].choices => tab[u].key = key)
        BY <3>1, <4>2 DEF SendInv, TabsKnowUses
      <4> QED  BY <1>4, <1>9, <2>1, <4>3
    <3> QED  BY <3>1 DEF TabsKnowUses
  <2>5. TextsApart'
    BY <1>9, <2>1 DEF SendInv, TextsApart
  <2> QED  BY <1>7, <1>8, <2>3, <2>4, <2>5 DEF SendInv
<1> QED  BY <1>10, <1>11

(* A text is sent with the key that its tab knows all its uses by, or with a  *)
(* new one when it has none.                                                  *)
LEMMA SendReply ==
  ASSUME ChainTyped, SendInv, NEW t \in RecoveryTabs, NEW c \in Calls, NEW kind \in Kinds, Reply(t, c, kind)
  PROVE  SendInv'
<1> DEFINE text == kind = "HUMAN_TEXT"
           draft == DraftOf(t, kind)
           key == IF tab[t].key # 0 THEN tab[t].key ELSE keys + 1
           request == SendRequest(t, kind, key)
           new == [pc |-> "arrived", tab |-> t, request |-> request]
<1>1. /\ call' = [call EXCEPT ![c] = new] /\ UNCHANGED <<commands, drafts>>
      /\ tab' = tab \/ tab' = [tab EXCEPT ![t].key = keys + 1]
      /\ draft # 0 /\ tab[t].key = 0 => keys < MaxKeys
  BY DEF Reply, SubmitCall, CanSend, server
<1>2. tab[t].key = 0 => tab' = [tab EXCEPT ![t].key = keys + 1]
  BY DEF Reply
<1>3. tab[t].key # 0 => tab' = tab
  BY DEF Reply
<1>4. tab \in [RecoveryTabs -> Panels] /\ keys \in 0..MaxKeys /\ draft # 0
  BY DEF ChainTyped, ControlTypeOK, Panels, Reply, CanSend
<1>5. draft = IF text THEN tab[t].body ELSE tab[t].variant
  BY DEF DraftOf
<1>6. /\ request.kind = kind /\ request.draft = draft /\ request.choices = tab[t].choices
      /\ request.key = key
  BY DEF SendRequest
<1>7. key \in 1..MaxKeys /\ tab[t].choices \in Nat
  BY <1>1, <1>4, BoundsAssumption DEF Panels
<1>8. draft \in 1..MaxDrafts
  BY <1>4, <1>5, BoundsAssumption DEF Panels
<1>9. \A u \in RecoveryTabs : /\ tab'[u].body = tab[u].body /\ tab'[u].variant = tab[u].variant
                              /\ tab'[u].choices = tab[u].choices
                              /\ u # t => tab'[u].key = tab[u].key
  BY <1>1, <1>4 DEF Panels
<1>10. tab'[t].key = key
  BY <1>2, <1>3, <1>4 DEF Panels
<1>11. PICK d, k, h : d = draft /\ k = key /\ h = tab[t].choices
  OBVIOUS
<1>12. call'[c] = new /\ \A e \in Calls : e # c => call'[e] = call[e]
  BY <1>1 DEF ChainTyped, CallsOK
<1>13. new.request = request
  OBVIOUS
<1> HIDE DEF new, request, draft, key
<1>14. \A other \in Kinds, e \in 1..MaxDrafts, choices \in Nat, last \in 1..MaxKeys :
         Used(other, e, choices, last)' =>
           \/ Used(other, e, choices, last)
           \/ other = kind /\ e = d /\ choices = h /\ last = k
  BY <1>1, <1>6, <1>11, <1>12, <1>13 DEF Used, Sending
<1>15. KindsApart'
  <2>1. \A e \in 1..MaxDrafts : (IsText(e)' => IsText(e)) /\ (IsTemplate(e)' => IsTemplate(e))
    <3>1. ASSUME NEW e \in 1..MaxDrafts, IsText(e)' PROVE IsText(e)
      <4>1. CASE \E u \in RecoveryTabs : tab'[u].body = e
        BY <1>9, <4>1 DEF IsText
      <4>2. ASSUME NEW choices \in Nat, NEW last \in 1..MaxKeys, Used("HUMAN_TEXT", e, choices, last)'
            PROVE  IsText(e)
        <5>1. Used("HUMAN_TEXT", e, choices, last) \/ ("HUMAN_TEXT" = kind /\ e = d)
          BY <1>14, <4>2, BothKinds
        <5> QED  BY <1>5, <1>11, <5>1 DEF IsText
      <4> QED  BY <3>1, <4>1, <4>2 DEF IsText
    <3>2. ASSUME NEW e \in 1..MaxDrafts, IsTemplate(e)' PROVE IsTemplate(e)
      <4>1. CASE \E u \in RecoveryTabs : tab'[u].variant = e
        BY <1>9, <4>1 DEF IsTemplate
      <4>2. ASSUME NEW choices \in Nat, NEW last \in 1..MaxKeys,
                   Used("RECOVERY_FOLLOW_UP_TEMPLATE", e, choices, last)'
            PROVE  IsTemplate(e)
        <5>1. Used("RECOVERY_FOLLOW_UP_TEMPLATE", e, choices, last)
              \/ ("RECOVERY_FOLLOW_UP_TEMPLATE" = kind /\ e = d)
          BY <1>14, <4>2, BothKinds
        <5> QED  BY <1>5, <1>11, <5>1 DEF IsTemplate
      <4> QED  BY <3>2, <4>1, <4>2 DEF IsTemplate
    <3> QED  BY <3>1, <3>2
  <2> QED  BY <1>1, <2>1 DEF SendInv, KindsApart
<1>16. ASSUME text, NEW choices \in Nat, NEW last \in 1..MaxKeys, Used("HUMAN_TEXT", d, choices, last)
       PROVE  choices <= tab[t].choices /\ (choices = tab[t].choices => last = k)
  <2>1. d = tab[t].body /\ d # 0
    BY <1>4, <1>5, <1>11, <1>16
  <2>2. choices <= tab[t].choices /\ (choices = tab[t].choices => tab[t].key = last)
    BY <1>16, <2>1 DEF SendInv, TabsKnowUses
  <2>3. tab[t].key = last => tab[t].key # 0
    BY <1>16
  <2> QED  BY <1>11, <2>2, <2>3 DEF key
<1>17. TextHasOneKey'
  <2>1. ASSUME NEW e \in 1..MaxDrafts, NEW choices \in Nat, NEW one \in 1..MaxKeys, NEW last \in 1..MaxKeys,
               Used("HUMAN_TEXT", e, choices, one)', Used("HUMAN_TEXT", e, choices, last)'
        PROVE  one = last
    <3>1. /\ Used("HUMAN_TEXT", e, choices, one) \/ (text /\ e = d /\ choices = h /\ one = k)
          /\ Used("HUMAN_TEXT", e, choices, last) \/ (text /\ e = d /\ choices = h /\ last = k)
      BY <1>14, <2>1, BothKinds
    <3> QED  BY <1>11, <1>16, <3>1 DEF SendInv, TextHasOneKey
  <2> QED  BY <2>1 DEF TextHasOneKey
<1>18. TabsKnowUses'
  <2>1. ASSUME NEW u \in RecoveryTabs, NEW choices \in Nat, NEW last \in 1..MaxKeys,
               tab'[u].body # 0, Used("HUMAN_TEXT", tab[u].body, choices, last)'
        PROVE  choices <= tab'[u].choices /\ (choices = tab'[u].choices => tab'[u].key = last)
    <3>1. PICK b \in 1..MaxDrafts : b = tab'[u].body /\ b = tab[u].body
      BY <1>4, <1>9, <2>1, BoundsAssumption DEF Panels
    <3>2. Used("HUMAN_TEXT", b, choices, last) \/ (text /\ b = d /\ choices = h /\ last = k)
      BY <1>14, <2>1, <3>1, BothKinds
    <3>3. CASE Used("HUMAN_TEXT", b, choices, last)
      <4>1. choices <= tab[u].choices /\ (choices = tab[u].choices => tab[u].key = last)
        BY <3>1, <3>3 DEF SendInv, TabsKnowUses
      <4>2. tab[u].key = last => tab[u].key # 0
        OBVIOUS
      <4> QED  BY <1>3, <1>9, <4>1, <4>2
    <3>4. CASE text /\ b = d /\ choices = h /\ last = k
      <4>1. tab[u].body = tab[t].body /\ tab[u].body # 0
        BY <1>4, <1>5, <1>11, <3>1, <3>4
      <4>2. u = t
        BY <4>1 DEF SendInv, TextsApart
      <4> QED  BY <1>7, <1>9, <1>10, <1>11, <3>4, <4>2
    <3> QED  BY <3>2, <3>3, <3>4
  <2> QED  BY <2>1 DEF TabsKnowUses
<1>19. TextsApart'
  BY <1>9 DEF SendInv, TextsApart
<1>20. KeysUnique'
  BY <1>1 DEF SendInv, KeysUnique
<1> QED  BY <1>15, <1>17, <1>18, <1>19, <1>20 DEF SendInv

(* The call that is answered ends; an admitted command takes over its use. A  *)
(* tab with an accepted send shows no text.                                   *)
LEMMA SendAnswer ==
  ASSUME ChainTyped, SendInv, NEW c \in Calls, NEW accepted \in BOOLEAN, Respond(c, accepted),
         \/ commands' = commands
         \/ /\ Sending(c) /\ commands' = commands \cup {call[c].request}
            /\ \A m \in commands : m.key # call[c].request.key
  PROVE  SendInv'
<1> DEFINE t == call[c].tab
           new == AfterSend(tab[t])
<1>1. /\ call' = [call EXCEPT ![c] = [pc |-> "free"]] /\ drafts' = drafts
      /\ tab' = tab \/ (t \in RecoveryTabs /\ tab' = [tab EXCEPT ![t] = new])
  BY DEF Respond
<1>2. call'[c].pc = "free" /\ \A d \in Calls : d # c => call'[d] = call[d]
  BY <1>1 DEF ChainTyped, CallsOK
<1>3. tab \in [RecoveryTabs -> Panels]
  BY DEF ChainTyped, ControlTypeOK, Panels
<1>4. t \in RecoveryTabs => new.body = 0 /\ new.variant = tab[t].variant
  BY <1>3 DEF AfterSend, Panels
<1> HIDE DEF new
<1>5. Shrinks
  BY <1>2 DEF Shrinks, Used, Sending
<1>6. KeysUnique'
  BY DEF SendInv, KeysUnique
<1>7. \A u \in RecoveryTabs : /\ tab'[u].variant \in {0, tab[u].variant}
                              /\ \/ /\ tab'[u].body = tab[u].body /\ tab'[u].key = tab[u].key
                                    /\ tab'[u].choices = tab[u].choices
                                 \/ tab'[u].body = 0
  BY <1>1, <1>3, <1>4
<1> QED  BY <1>1, <1>3, <1>5, <1>6, <1>7, SendShrinks

IInv == ChainTyped /\ SendInv

LEMMA SendInit == ASSUME ControlInit PROVE SendInv
<1>1. /\ commands = {} /\ drafts = 0
      /\ \A c \in Calls : call[c].pc = "free"
      /\ \A t \in RecoveryTabs : tab[t].body = 0 /\ tab[t].variant = 0
  BY DEF ControlInit, NewTab
<1>2. \A kind, draft, choices, key : ~Used(kind, draft, choices, key)
  BY <1>1 DEF Used, Sending
<1>3. \A draft \in 1..MaxDrafts : ~IsText(draft) /\ ~IsTemplate(draft)
  BY <1>1, <1>2 DEF IsText, IsTemplate
<1>4. KindsApart /\ TextHasOneKey /\ TabsKnowUses
  BY <1>2, <1>3 DEF KindsApart, TextHasOneKey, TabsKnowUses
<1>5. TextsApart /\ KeysUnique
  BY <1>1 DEF TextsApart, KeysUnique
<1> QED  BY <1>4, <1>5 DEF SendInv

LEMMA SendStep == ASSUME IInv, [ControlNext]_controlVars PROVE SendInv'
<1> USE DEF IInv
<1>0. tab \in [RecoveryTabs -> Panels]
  BY DEF ChainTyped, ControlTypeOK, Panels
<1>1. ASSUME NEW t \in RecoveryTabs, Revalidate(t) PROVE SendInv'
  <2>1. /\ tab' = [tab EXCEPT ![t].mode = conversation.mode, ![t].revision = conversation.revision]
        /\ UNCHANGED <<call, commands, drafts>>
    BY <1>1 DEF Revalidate, server
  <2>2. \A u \in RecoveryTabs : /\ tab'[u].body = tab[u].body /\ tab'[u].variant = tab[u].variant
                                /\ tab'[u].key = tab[u].key /\ tab'[u].choices = tab[u].choices
    BY <1>0, <2>1 DEF Panels
  <2>3. SameSending
    BY <2>1 DEF SameSending, Sending
  <2> QED  BY <2>1, <2>2, <2>3, SendSame
<1>2. ASSUME NEW c \in Calls, NEW t \in RecoveryTabs, ChangeMode(t, c) PROVE SendInv'
  <2>1. /\ UNCHANGED <<tab, commands, drafts>> /\ call'[c].request.kind = "control"
        /\ \A d \in Calls : d # c => call'[d] = call[d]
    BY <1>2 DEF ChangeMode, SubmitCall, ChainTyped, CallsOK, server
  <2> QED  BY <2>1, SendSame DEF SameSending, Sending, Kinds
<1>3. ASSUME NEW c \in Calls, GiveUp(c) \/ Begin(c) PROVE SendInv'
  <2>1. UNCHANGED <<tab, commands, drafts>> /\ call[c].pc # "free" /\ call'[c].request = call[c].request
        /\ \A d \in Calls : d # c => call'[d] = call[d]
    BY <1>3 DEF GiveUp, Begin, ChainTyped, CallsOK, Arrived, Begun, server
  <2> QED  BY <2>1, SendSame DEF SameSending, Sending
<1>4. ASSUME NEW c \in Calls, TurnAway(c) \/ Refuse(c) \/ Replay(c) \/ changeRecoveryControl(c) PROVE SendInv'
  <2>1. commands' = commands /\ (Respond(c, TRUE) \/ Respond(c, FALSE))
    BY <1>4 DEF TurnAway, Refuse, Replay, changeRecoveryControl, server
  <2> QED  BY <2>1, SendAnswer
<1>5. ASSUME NEW c \in Calls, admitRecoveryHumanSend(c) PROVE SendInv'
  <2>1. /\ commands' = commands \cup {call[c].request} /\ call[c].pc = "begun"
        /\ call[c].request.kind \in Kinds
        /\ \A m \in commands : m.key # call[c].request.key
        /\ Respond(c, TRUE)
    BY <1>5 DEF admitRecoveryHumanSend
  <2> QED  BY <2>1, SendAnswer DEF Sending
<1>6. ASSUME InboundMessage \/ TurnEnds \/ SchedulerActs \/ WorldChanges \/ UNCHANGED controlVars PROVE SendInv'
  <2>1. UNCHANGED <<call, tab, commands, drafts>>
    BY <1>6 DEF InboundMessage, TurnEnds, SchedulerActs, WorldChanges, controlVars, server
  <2>2. SameSending
    BY <2>1 DEF SameSending, Sending
  <2> QED  BY <2>1, <2>2, SendSame
<1> QED  BY <1>1, <1>2, <1>3, <1>4, <1>5, <1>6, SendReply, SendEdit DEF ControlNext

(* What the merchant typed or chose once is sent once, through retries beside *)
(* calls that still run, lost answers and new texts, until the choice of a    *)
(* template changes.                                                          *)
THEOREM DraftSentOnce == ControlSpec => []OneCommandPerDraft
<1>1. ControlInit => IInv
  BY ChainInit, SendInit DEF IInv
<1>2. IInv /\ [ControlNext]_controlVars => IInv'
  BY ChainStep, SendStep DEF IInv
<1>3. IInv => OneCommandPerDraft
  <2>1. ASSUME IInv, NEW m \in commands, NEW n \in commands, m.draft = n.draft, m.choices = n.choices
        PROVE  m = n
    <3>1. m \in Commands /\ n \in Commands
      BY <2>1 DEF IInv, ChainTyped, ControlTypeOK
    <3>2. /\ m.kind \in Kinds /\ m.draft \in 1..MaxDrafts /\ m.key \in 1..MaxKeys /\ m.choices \in Nat
          /\ n.kind \in Kinds /\ n.key \in 1..MaxKeys
      BY <3>1 DEF Commands
    <3>3. Used(m.kind, m.draft, m.choices, m.key) /\ Used(n.kind, m.draft, m.choices, n.key)
      BY <2>1 DEF Used
    <3>4. m.key = n.key => m = n
      BY <2>1 DEF IInv, SendInv, KeysUnique
    <3>5. CASE m.kind = "HUMAN_TEXT" /\ n.kind = "HUMAN_TEXT"
      BY <2>1, <3>2, <3>3, <3>4, <3>5 DEF IInv, SendInv, TextHasOneKey
    <3>6. CASE m.kind = "RECOVERY_FOLLOW_UP_TEMPLATE" /\ n.kind = "RECOVERY_FOLLOW_UP_TEMPLATE"
      BY <2>1, <3>4, <3>6 DEF IInv, ChainTyped, ChainParts, SecondAttemptHasOneOwner
    <3>7. CASE m.kind # n.kind
      <4>1. IsText(m.draft) /\ IsTemplate(m.draft)
        BY <3>2, <3>3, <3>7 DEF IsText, IsTemplate, Kinds
      <4> QED  BY <2>1, <3>2, <4>1 DEF IInv, SendInv, KindsApart
    <3> QED  BY <3>2, <3>5, <3>6, <3>7 DEF Kinds
  <2> QED  BY <2>1 DEF OneCommandPerDraft
<1> QED  BY <1>1, <1>2, <1>3, PTL DEF ControlSpec

-----------------------------------------------------------------------------
(* Proofs about RecoverySettings, for any number of tabs, discounts,         *)
(* features and requests.  A page holds what it was shown long before it     *)
(* saves it, and an answer what a save has left long before it is shown; so  *)
(* the invariant says of everything that holds a revision that it is not     *)
(* ahead of the rows, and that what goes with it is what the rows say as     *)
(* long as they have that revision.  That an operation writes once follows   *)
(* from what its retries can still find unchanged, which takes clocks that   *)
(* differ by less than a merchant needs to react to an answer.               *)

-----------------------------------------------------------------------------
Open == {"saving", "unknown"}
InFlight(q) == q.at \in {"sent", "authorized"}

Rows == [updatedAt : Nat, rewound : BOOLEAN, mode : {"NONE", "FIXED"},
         selection : SUBSET Discounts, delay : {0, 1}]

Preferred == [Features -> [enabled : BOOLEAN, at : Nat]]

WorldOK ==
  /\ clock \in 1..MaxClock
  /\ settings \in Rows /\ settings.updatedAt >= 1
  /\ settings.mode = "FIXED" => settings.selection # {} \/ settings.rewound
  /\ mapped \in SUBSET Features
  /\ preferences \in Preferred
  /\ \A f \in Features : /\ preferences[f].at <= clock
                         /\ preferences[f].enabled => preferences[f].at >= 1
  /\ sent \in 0..MaxRequests /\ writer \in 0..sent

(* What a page, a form, a request or an answer holds of the settings: unless  *)
(* the revision was rewound, its revision is not ahead of the row's, and if   *)
(* it is the row's, what goes with it is what the row says.                   *)
Fresh(revision, seen, row) ==
  ~row.rewound => \A u \in Nat : revision = <<u>> =>
    /\ u <= row.updatedAt
    /\ u = row.updatedAt => /\ seen.mode = row.mode /\ seen.selection = row.selection
                            /\ seen.delay = row.delay

Past(revision, row) == ~row.rewound => \A u \in Nat : revision = <<u>> => u < row.updatedAt

PageShape(p) ==
  p \in [at : {"closed", "opening", "reloading", "shown"}, due : BOOLEAN, updatedAt : Nat,
         read : Values, features : {p.features}]

PageOK(p, row) ==
  /\ PageShape(p)
  /\ p.at \in {"opening", "reloading"} => Fresh(<<p.updatedAt>>, [p.read EXCEPT !.selection = row.selection], row)

FormShape(g) ==
  g \in [phase : {"idle", "saving", "unknown", "saved", "error"}, error : {g.error}, attempt : Nat,
         operation : Nat, since : Nat, revision : {g.revision}, loaded : Nat, seen : Values,
         value : Values, known : SUBSET Features, frozen : Values]

FormOK(g, form, row, count, now) ==
  /\ FormShape(g)
  /\ g.attempt <= count /\ g.operation <= g.attempt
  /\ IF g.phase = "idle" THEN g.attempt = 0 ELSE g.attempt >= 1 /\ g.operation >= 1
  /\ g.since <= now
  /\ form # "features" => Fresh(g.revision, g.seen, row)

RequestShape(q) ==
  q \in [at : {"unsent", "sent", "authorized", "answered", "done"}, tab : Tabs \cup {"none"},
         form : Forms \cup {"none"}, operation : Nat, large : BOOLEAN, value : Values,
         revision : {q.revision}, seen : Values, reply : {q.reply}, wrote : BOOLEAN,
         new : {q.new}, result : Values]

RequestOK(r, q, row, count) ==
  /\ RequestShape(q)
  /\ r > count => q = Request
  /\ r <= count => q.at # "unsent" /\ q.tab \in Tabs /\ q.form \in Forms /\ q.operation \in 1..r
  /\ InFlight(q) => ~q.wrote
  /\ q.form # "features" => Fresh(q.revision, q.seen, row) /\ Fresh(q.new, q.result, row)

-----------------------------------------------------------------------------
(* The requests of one operation ask for the same.                            *)
SameIntent(q, p) ==
  q.operation = p.operation =>
    /\ q.form = p.form
    /\ InFlight(q) /\ InFlight(p) => q.value = p.value /\ q.revision = p.revision

IntentOf(g, t, form, q) ==
  q.operation = g.operation =>
    /\ q.tab = t /\ q.form = form
    /\ InFlight(q) => q.value = g.frozen /\ q.revision = g.revision

OperationsOK ==
  /\ \A r, s \in 1..sent : SameIntent(requests[r], requests[s])
  /\ \A t \in Tabs, form \in Forms : forms[t][form].phase \in Open =>
       /\ requests[forms[t][form].operation].operation = forms[t][form].operation
       /\ \A r \in 1..sent : IntentOf(forms[t][form], t, form, requests[r])

(* An operation that has written, or that was told of a conflict over the     *)
(* settings, holds a revision that is not the row's any more.                 *)
Spent(q) == q.wrote \/ (q.form # "features" /\ q.reply = "CONFLICT")

Pairs == (SUBSET Features) \X Preferred

Gone(form, revision, row, held) ==
  IF form = "features" THEN revision \in Pairs => revision[2] # held ELSE Past(revision, row)

OnceOK ==
  \A s \in 1..sent : Spent(requests[s]) =>
    /\ \A r \in 1..sent : InFlight(requests[r]) /\ requests[r].operation = requests[s].operation =>
         Gone(requests[r].form, requests[r].revision, settings, preferences)
    /\ \A t \in Tabs, form \in Forms :
         forms[t][form].phase \in Open /\ forms[t][form].operation = requests[s].operation =>
           Gone(form, forms[t][form].revision, settings, preferences)

(* What the writer of the preferences asks for again has been done.           *)
Done(value, held) == \A f \in value.shown \cap Features : held[f].enabled = (f \in value.enabled)

WriterOK ==
  writer # 0 =>
    /\ \A r \in 1..sent : InFlight(requests[r]) /\ requests[r].operation = writer /\ requests[r].form = "features" =>
         Done(requests[r].value, preferences)
    /\ \A t \in Tabs, form \in Forms :
         forms[t][form].phase \in Open /\ forms[t][form].operation = writer /\ form = "features" =>
           Done(forms[t][form].frozen, preferences)

-----------------------------------------------------------------------------
(* Who holds a revision of the features, and the first instant at which a     *)
(* request may write with it.                                                 *)
Holder(revision, from) == [revision |-> revision, from |-> from]

Loading == {t \in Tabs : pages[t].at \in {"opening", "reloading"}}
Asking == {r \in 1..MaxRequests : InFlight(requests[r]) /\ requests[r].form = "features"}
Telling == {r \in 1..MaxRequests : /\ requests[r].at = "answered" /\ requests[r].form = "features"
                                   /\ requests[r].reply = "ok"}

Holders ==
  {h \in {Holder(pages[t].features, clock + 1) : t \in Loading}
         \cup {Holder(forms[t][form].revision, forms[t][form].since + 1) : t \in Tabs, form \in Forms \cap {"features"}}
         \cup {Holder(requests[r].revision, clock) : r \in Asking}
         \cup {Holder(requests[r].new, clock + 1) : r \in Telling} : h.revision # <<>>}

Settled(f, K, held, now) ==
  /\ held[f].at < now
  /\ \A h \in K : h.revision[2] = held => held[f].at + 2 <= h.from

Dated(h, K, held, now) ==
  /\ h.revision \in Pairs
  /\ \A f \in Features :
       /\ h.revision[2][f].at + 1 <= h.from
       /\ \/ h.revision[2][f] = held[f]
          \/ h.revision[2][f].at < held[f].at
          \/ h.revision[2][f].at = held[f].at /\ Settled(f, K, held, now)

AllDated(K, held, now) == \A h \in K : Dated(h, K, held, now)

Writers == {r \in 1..MaxRequests : requests[r].wrote}
CountOK == settings.updatedAt <= MaxClock + Cardinality(Writers)

SettingsIInv ==
  /\ WorldOK
  /\ DOMAIN pages = Tabs /\ \A t \in Tabs : PageOK(pages[t], settings)
  /\ DOMAIN forms = Tabs /\ \A t \in Tabs : DOMAIN forms[t] = Forms
  /\ \A t \in Tabs, f \in Forms : FormOK(forms[t][f], f, settings, sent, clock)
  /\ DOMAIN requests = 1..MaxRequests
  /\ \A r \in 1..MaxRequests : RequestOK(r, requests[r], settings, sent)
  /\ OperationsOK /\ OnceOK /\ WriterOK /\ CountOK
  /\ SettledByLastAttempt
  /\ AllDated(Holders, preferences, clock)

(* A save of the policy or of the delay that has read: nobody but a refresh   *)
(* has written the row since.                                                 *)
HeldBy(r) ==
  LET q == requests[r]
      row == lock.row
  IN /\ r \in 1..sent /\ q.at = "authorized" /\ q.form # "features"
     /\ row \in Rows /\ row.updatedAt >= 1 /\ row.updatedAt <= MaxClock + Cardinality(Writers)
     /\ q.revision = <<row.updatedAt>>
     /\ q.form = "recovery" => ~(q.value.mode = "FIXED" /\ q.value.selection = {})
     /\ ~settings.rewound =>
          /\ row.updatedAt <= settings.updatedAt
          /\ q.seen.mode = settings.mode /\ q.seen.selection = settings.selection
          /\ q.seen.delay = settings.delay
          /\ \A s \in 1..sent : requests[s].operation = q.operation => ~Spent(requests[s])

LockOK == lock.by # 0 => HeldBy(lock.by)

-----------------------------------------------------------------------------
(* The settings move on: they are as before, rewound, or under a later        *)
(* revision.                                                                  *)
Advances(old, new) ==
  \/ new = old
  \/ new.rewound
  \/ new.updatedAt > old.updatedAt /\ new.rewound = old.rewound

LEMMA FreshKept ==
  ASSUME NEW old \in Rows, NEW new \in Rows, Advances(old, new), NEW revision, NEW seen,
         Fresh(revision, seen, old)
  PROVE  Fresh(revision, seen, new)
BY DEF Advances, Fresh, Rows

LEMMA PastKept ==
  ASSUME NEW old \in Rows, NEW new \in Rows, Advances(old, new), NEW revision, Past(revision, old)
  PROVE  Past(revision, new)
BY DEF Advances, Past, Rows

(* What the holders know of the preferences stays in order while these are    *)
(* not written: a holder has its revision from another, or has just read it.  *)
LEMMA DatesKept ==
  ASSUME NEW held \in Preferred, NEW now \in Nat, NEW next \in Nat, now <= next,
         \A f \in Features : held[f].at <= now,
         NEW K, NEW L, AllDated(K, held, now), \A h \in K : h.from \in Nat,
         \A h \in L : /\ h.revision \in Pairs /\ h.from \in Nat
                      /\ \/ h.revision[2] = held /\ h.from >= now + 1
                         \/ \E k \in K : h.revision[2] = k.revision[2] /\ h.from >= k.from
  PROVE  AllDated(L, held, next)
<1> SUFFICES ASSUME NEW h \in L PROVE Dated(h, L, held, next)
  BY DEF AllDated
<1>1. ASSUME NEW f \in Features, Settled(f, K, held, now) PROVE Settled(f, L, held, next)
  <2>1. held[f].at \in Nat /\ held[f].at < now
    BY <1>1 DEF Settled, Preferred
  <2>2. ASSUME NEW g \in L, g.revision[2] = held PROVE held[f].at + 2 <= g.from
    <3>1. CASE g.from >= now + 1
      BY <2>1, <3>1
    <3>2. CASE \E k \in K : g.revision[2] = k.revision[2] /\ g.from >= k.from
      <4>1. PICK k \in K : g.revision[2] = k.revision[2] /\ g.from >= k.from
        BY <3>2
      <4>2. held[f].at + 2 <= k.from
        BY <1>1, <2>2, <4>1 DEF Settled
      <4> QED  BY <2>1, <4>1, <4>2
    <3> QED  BY <2>2, <3>1, <3>2
  <2> QED  BY <2>1, <2>2 DEF Settled
<1>2. \A f \in Features : held[f].at \in Nat /\ h.revision[2][f].at \in Nat
  BY DEF Preferred, Pairs
<1>3. CASE h.revision[2] = held /\ h.from >= now + 1
  <2>1. \A f \in Features : h.revision[2][f] = held[f] /\ h.revision[2][f].at + 1 <= h.from
    BY <1>2, <1>3
  <2> QED  BY <2>1 DEF Dated
<1>4. CASE \E k \in K : h.revision[2] = k.revision[2] /\ h.from >= k.from
  <2>1. PICK k \in K : h.revision[2] = k.revision[2] /\ h.from >= k.from
    BY <1>4
  <2>2. Dated(k, K, held, now) /\ k.from \in Nat
    BY DEF AllDated
  <2> SUFFICES ASSUME NEW f \in Features
               PROVE  /\ h.revision[2][f].at + 1 <= h.from
                      /\ \/ h.revision[2][f] = held[f]
                         \/ h.revision[2][f].at < held[f].at
                         \/ h.revision[2][f].at = held[f].at /\ Settled(f, L, held, next)
    BY DEF Dated
  <2>3. h.revision[2][f].at + 1 <= k.from
    BY <2>1, <2>2 DEF Dated
  <2>4. \/ h.revision[2][f] = held[f]
        \/ h.revision[2][f].at < held[f].at
        \/ h.revision[2][f].at = held[f].at /\ Settled(f, K, held, now)
    BY <2>1, <2>2 DEF Dated
  <2>5. h.revision[2][f].at + 1 <= h.from
    BY <1>2, <2>1, <2>2, <2>3
  <2> QED  BY <1>1, <2>4, <2>5
<1> QED  BY <1>3, <1>4

(* A write by the holder k of what the preferences are: nobody has seen them  *)
(* as they are now, however often they were toggled, and the dates stay in    *)
(* order.                                                                     *)
LEMMA WriteIsNew ==
  ASSUME NEW held \in Preferred, NEW new \in Preferred, new # held,
         NEW now \in Nat, NEW at \in Nat, at <= now, now <= at + 1,
         \A f \in Features : new[f] = held[f] \/ (new[f].at = at /\ new[f].enabled # held[f].enabled),
         NEW K, AllDated(K, held, now), NEW k \in K, k.revision[2] = held, k.from <= now, k.from \in Nat
  PROVE  \A h \in K : h.revision[2] # new
<1> SUFFICES ASSUME NEW h \in K, h.revision[2] = new PROVE FALSE
  OBVIOUS
<1>1. PICK f \in Features : new[f] # held[f]
  <2>1. held = [f \in Features |-> held[f]] /\ new = [f \in Features |-> new[f]]
    BY DEF Preferred
  <2> QED  BY <2>1
<1>2. new[f].at = at /\ held[f].at \in Nat
  BY <1>1 DEF Preferred
<1>3. held[f].at + 1 <= k.from
  BY DEF AllDated, Dated
<1>4. held[f].at <= at
  BY <1>2, <1>3
<1>5. new[f].at < held[f].at \/ (new[f].at = held[f].at /\ Settled(f, K, held, now))
  BY <1>1 DEF AllDated, Dated
<1>6. Settled(f, K, held, now) => held[f].at + 2 <= k.from
  BY DEF Settled
<1> QED  BY <1>2, <1>4, <1>5, <1>6

LEMMA DatesAfterWrite ==
  ASSUME NEW held \in Preferred, NEW new \in Preferred, new # held,
         NEW now \in Nat, NEW at \in Nat, at <= now, now <= at + 1,
         \A f \in Features : new[f] = held[f] \/ (new[f].at = at /\ new[f].enabled # held[f].enabled),
         \A f \in Features : held[f].at <= now,
         NEW K, AllDated(K, held, now), NEW k \in K, k.revision[2] = held, k.from <= now,
         \A h \in K : h.from \in Nat,
         NEW L, \A h \in L : /\ h.revision \in Pairs /\ h.from \in Nat
                             /\ \/ h.revision[2] = new /\ h.from >= now + 1
                                \/ \E g \in K : h.revision[2] = g.revision[2] /\ h.from >= g.from
  PROVE  AllDated(L, new, now)
<1>1. \A h \in K : h.revision[2] # new
  BY WriteIsNew
<1>2. \A h \in L : h.revision[2] = new => h.from >= now + 1
  BY <1>1
<1>3. \A f \in Features : held[f].at \in Nat /\ new[f].at \in Nat /\ new[f].at <= now
  BY DEF Preferred
<1>4. ASSUME NEW f \in Features, new[f].at < now PROVE Settled(f, L, new, now)
  <2>1. ASSUME NEW h \in L, h.revision[2] = new PROVE new[f].at + 2 <= h.from
    BY <1>2, <1>3, <1>4, <2>1
  <2> QED  BY <1>4, <2>1 DEF Settled
<1>5. ASSUME NEW f \in Features, new[f] # held[f]
      PROVE  /\ held[f].at <= new[f].at
             /\ held[f].at = new[f].at => new[f].at < now
             /\ Settled(f, K, held, now) => held[f].at < new[f].at
  <2>1. new[f].at = at
    BY <1>5
  <2>2. held[f].at + 1 <= k.from /\ k.from \in Nat
    BY DEF AllDated, Dated
  <2>3. Settled(f, K, held, now) => held[f].at + 2 <= k.from
    BY DEF Settled
  <2> QED  BY <1>3, <2>1, <2>2, <2>3
<1> SUFFICES ASSUME NEW h \in L PROVE Dated(h, L, new, now)
  BY DEF AllDated
<1>6. \A f \in Features : h.revision[2][f].at \in Nat
  BY DEF Pairs, Preferred
<1>7. CASE h.revision[2] = new /\ h.from >= now + 1
  <2>1. \A f \in Features : h.revision[2][f] = new[f] /\ h.revision[2][f].at + 1 <= h.from
    BY <1>3, <1>7
  <2> QED  BY <2>1 DEF Dated
<1>8. CASE \E g \in K : h.revision[2] = g.revision[2] /\ h.from >= g.from
  <2>1. PICK g \in K : h.revision[2] = g.revision[2] /\ h.from >= g.from
    BY <1>8
  <2>2. Dated(g, K, held, now) /\ g.from \in Nat
    BY DEF AllDated
  <2> SUFFICES ASSUME NEW f \in Features
               PROVE  /\ h.revision[2][f].at + 1 <= h.from
                      /\ \/ h.revision[2][f] = new[f]
                         \/ h.revision[2][f].at < new[f].at
                         \/ h.revision[2][f].at = new[f].at /\ Settled(f, L, new, now)
    BY DEF Dated
  <2> DEFINE was == h.revision[2][f]
  <2>3. was.at + 1 <= g.from
    BY <2>1, <2>2 DEF Dated
  <2>4. \/ was = held[f]
        \/ was.at < held[f].at
        \/ was.at = held[f].at /\ Settled(f, K, held, now)
    BY <2>1, <2>2 DEF Dated
  <2>5. was.at + 1 <= h.from
    BY <1>6, <2>1, <2>2, <2>3
  <2>6. was.at \in Nat
    BY <1>6
  <2> HIDE DEF was
  <2>7. CASE new[f] = held[f]
    <3>1. Settled(f, K, held, now) => new[f].at < now
      BY <2>7 DEF Settled
    <3> QED  BY <1>4, <2>4, <2>5, <2>7, <3>1 DEF was
  <2>8. CASE new[f] # held[f]
    <3>1. \/ was.at = new[f].at /\ new[f].at < now
          \/ was.at < new[f].at
      BY <1>3, <1>5, <2>4, <2>6, <2>8
    <3> QED  BY <1>4, <2>5, <3>1 DEF was
  <2> QED  BY <2>7, <2>8
<1> QED  BY <1>7, <1>8

-----------------------------------------------------------------------------
LEMMA ValuesAreTyped ==
  /\ Nothing \in Values
  /\ WorldOK => Current \in Values
BY DEF Nothing, Values, WorldOK, Current, Rows, Enabled

LEMMA SettingsInitHolds == Init => SettingsIInv
<1> SUFFICES ASSUME Init PROVE SettingsIInv
  OBVIOUS
<1>1. WorldOK
  BY BoundsAreNaturals DEF Init, FirstSettings, WorldOK, Rows, Preferred
<1>2. DOMAIN pages = Tabs /\ \A t \in Tabs : pages[t] = NoPage
  BY DEF Init
<1>3. PageOK(NoPage, settings)
  BY ValuesAreTyped DEF PageOK, PageShape, NoPage
<1>4. DOMAIN forms = Tabs /\ \A t \in Tabs : DOMAIN forms[t] = Forms /\ \A f \in Forms : forms[t][f] = Unmounted
  BY DEF Init
<1>5. Unmounted.revision = <<>> /\ Unmounted.phase = "idle"
  BY DEF Unmounted
<1>6. \A seen, row : Fresh(<<>>, seen, row)
  BY DEF Fresh
<1>7. \A f \in Forms : FormOK(Unmounted, f, settings, sent, clock)
  <2>1. FormShape(Unmounted)
    BY ValuesAreTyped DEF FormShape, Unmounted
  <2> QED  BY <1>5, <1>6, <2>1 DEF FormOK, Init, Unmounted
<1>8. DOMAIN requests = 1..MaxRequests /\ \A r \in 1..MaxRequests : requests[r] = Request
  BY DEF Init
<1>9. /\ Request.revision = <<>> /\ Request.new = <<>> /\ Request.at = "unsent"
      /\ Request.wrote = FALSE
  BY DEF Request
<1>10. sent = 0 /\ writer = 0
  BY DEF Init
<1>11. \A r \in 1..MaxRequests : RequestOK(r, requests[r], settings, sent)
  <2>1. RequestShape(Request)
    BY ValuesAreTyped DEF RequestShape, Request
  <2> QED  BY <1>6, <1>8, <1>9, <1>10, <2>1 DEF RequestOK
<1>12. OperationsOK /\ OnceOK /\ WriterOK
  BY <1>4, <1>5, <1>10 DEF OperationsOK, OnceOK, WriterOK, Open
<1>13. CountOK
  <2>1. Writers = {}
    BY <1>8, <1>9 DEF Writers
  <2>2. Cardinality({}) = 0
    BY FS_EmptySet
  <2> QED  BY <2>1, <2>2, BoundsAreNaturals DEF CountOK, Init, FirstSettings
<1>14. SettledByLastAttempt
  BY <1>4, <1>5 DEF SettledByLastAttempt
<1>15. Holders = {}
  BY <1>2, <1>4, <1>5, <1>8, <1>9 DEF Holders, Holder, Loading, Asking, Telling, InFlight, NoPage
<1> QED
  BY <1>1, <1>2, <1>3, <1>4, <1>7, <1>8, <1>11, <1>12, <1>13, <1>14, <1>15 DEF SettingsIInv, AllDated

-----------------------------------------------------------------------------
(* A step that sends and saves nothing: requests are answered and settle,     *)
(* forms give up or forget.                                                   *)
SamePurpose(r) ==
  /\ requests'[r].operation = requests[r].operation
  /\ requests'[r].tab = requests[r].tab /\ requests'[r].form = requests[r].form
  /\ InFlight(requests'[r]) => /\ InFlight(requests[r]) /\ requests'[r].value = requests[r].value
                               /\ requests'[r].revision = requests[r].revision

SameRequest(r) == SamePurpose(r) /\ (Spent(requests'[r]) => Spent(requests[r]))

SameForm(t, form) ==
  forms'[t][form].phase \in Open =>
    /\ forms[t][form].phase \in Open
    /\ forms'[t][form].operation = forms[t][form].operation
    /\ forms'[t][form].frozen = forms[t][form].frozen
    /\ forms'[t][form].revision = forms[t][form].revision

LEMMA OperationsKept ==
  ASSUME SettingsIInv, sent' = sent,
         \A r \in 1..sent : SamePurpose(r), \A t \in Tabs, form \in Forms : SameForm(t, form)
  PROVE  OperationsOK'
<1>1. \A r, s \in 1..sent : SameIntent(requests'[r], requests'[s])
  BY DEF SettingsIInv, OperationsOK, SameIntent, SamePurpose
<1>2. ASSUME NEW t \in Tabs, NEW form \in Forms, forms'[t][form].phase \in Open
      PROVE  /\ requests'[forms'[t][form].operation].operation = forms'[t][form].operation
             /\ \A r \in 1..sent : IntentOf(forms'[t][form], t, form, requests'[r])
  <2> DEFINE g == forms[t][form]
  <2>1. /\ g.phase \in Open /\ forms'[t][form].operation = g.operation
        /\ forms'[t][form].frozen = g.frozen /\ forms'[t][form].revision = g.revision
    BY <1>2 DEF SameForm
  <2>2. g.operation \in 1..sent
    BY <2>1 DEF SettingsIInv, FormOK, FormShape, Open, WorldOK
  <2>3. requests[g.operation].operation = g.operation /\ \A r \in 1..sent : IntentOf(g, t, form, requests[r])
    BY <2>1 DEF SettingsIInv, OperationsOK
  <2> HIDE DEF g
  <2>4. requests'[g.operation].operation = g.operation
    BY <2>2, <2>3 DEF SamePurpose
  <2> QED  BY <2>1, <2>3, <2>4 DEF IntentOf, SamePurpose
<1> QED  BY <1>1, <1>2 DEF OperationsOK

LEMMA GoneKept ==
  ASSUME NEW old \in Rows, NEW new \in Rows, Advances(old, new), NEW form, NEW revision, NEW held,
         Gone(form, revision, old, held)
  PROVE  Gone(form, revision, new, held)
BY PastKept DEF Gone

LEMMA QuietKeeps ==
  ASSUME SettingsIInv, UNCHANGED <<sent, writer, preferences>>,
         settings' \in Rows, Advances(settings, settings'),
         \A r \in 1..sent : SameRequest(r), \A t \in Tabs, form \in Forms : SameForm(t, form)
  PROVE  OperationsOK' /\ OnceOK' /\ WriterOK'
<1>1. OperationsOK'
  BY OperationsKept DEF SameRequest
<1>2. OnceOK'
  <2> SUFFICES ASSUME NEW s \in 1..sent, Spent(requests'[s])
               PROVE  /\ \A r \in 1..sent : InFlight(requests'[r]) /\ requests'[r].operation = requests'[s].operation =>
                           Gone(requests'[r].form, requests'[r].revision, settings', preferences)
                      /\ \A t \in Tabs, form \in Forms :
                           forms'[t][form].phase \in Open /\ forms'[t][form].operation = requests'[s].operation =>
                             Gone(form, forms'[t][form].revision, settings', preferences)
    BY DEF OnceOK
  <2>1. Spent(requests[s]) /\ requests'[s].operation = requests[s].operation
    BY DEF SameRequest, SamePurpose
  <2>2. settings \in Rows
    BY DEF SettingsIInv, WorldOK
  <2>3. ASSUME NEW r \in 1..sent, InFlight(requests'[r]), requests'[r].operation = requests'[s].operation
        PROVE  Gone(requests'[r].form, requests'[r].revision, settings', preferences)
    <3>1. /\ InFlight(requests[r]) /\ requests[r].operation = requests[s].operation
          /\ requests'[r].form = requests[r].form /\ requests'[r].revision = requests[r].revision
      BY <2>1, <2>3 DEF SameRequest, SamePurpose
    <3>2. Gone(requests[r].form, requests[r].revision, settings, preferences)
      BY <2>1, <3>1 DEF SettingsIInv, OnceOK
    <3> QED  BY <2>2, <3>1, <3>2, GoneKept
  <2>4. ASSUME NEW t \in Tabs, NEW form \in Forms,
               forms'[t][form].phase \in Open, forms'[t][form].operation = requests'[s].operation
        PROVE  Gone(form, forms'[t][form].revision, settings', preferences)
    <3>1. /\ forms[t][form].phase \in Open /\ forms[t][form].operation = requests[s].operation
          /\ forms'[t][form].revision = forms[t][form].revision
      BY <2>1, <2>4 DEF SameForm
    <3>2. Gone(form, forms[t][form].revision, settings, preferences)
      BY <2>1, <3>1 DEF SettingsIInv, OnceOK
    <3> QED  BY <2>2, <3>1, <3>2, GoneKept
  <2> QED  BY <2>3, <2>4
<1>3. WriterOK'
  BY DEF SettingsIInv, WriterOK, SameRequest, SamePurpose, SameForm
<1> QED  BY <1>1, <1>2, <1>3

-----------------------------------------------------------------------------
(* Where a revision of the features comes from: a page reads it, a form has   *)
(* it from the page or from an answer, a request from the form, an answer     *)
(* from the rows that were saved.                                             *)
TakesPage(t) ==
  pages'[t].at \in {"opening", "reloading"} =>
    \/ pages[t].at \in {"opening", "reloading"} /\ pages'[t].features = pages[t].features
    \/ pages'[t].features = <<mapped, preferences>> /\ preferences' = preferences

TakesForm(t, form) ==
  \/ forms'[t][form].revision = <<>>
  \/ /\ forms'[t][form].revision = forms[t][form].revision
     /\ forms'[t][form].since \in Nat /\ forms'[t][form].since >= forms[t][form].since
  \/ /\ forms'[t][form].since = clock
     /\ \/ t \in Loading /\ forms'[t][form].revision = pages[t].features
        \/ \E r \in Telling : forms'[t][form].revision = requests[r].new

TakesRequest(r) ==
  InFlight(requests'[r]) /\ requests'[r].form = "features" =>
    \/ r \in Asking /\ requests'[r].revision = requests[r].revision
    \/ \E t \in Tabs, form \in Forms \cap {"features"} :
         requests'[r].revision = forms[t][form].revision /\ forms[t][form].since < clock

TakesAnswer(r) ==
  requests'[r].at = "answered" /\ requests'[r].form = "features" /\ requests'[r].reply = "ok" =>
    \/ r \in Telling /\ requests'[r].new = requests[r].new
    \/ requests'[r].new = <<mapped, preferences'>>

Takes ==
  /\ \A t \in Tabs : TakesPage(t)
  /\ \A t \in Tabs, form \in Forms \cap {"features"} : TakesForm(t, form)
  /\ \A r \in 1..MaxRequests : TakesRequest(r) /\ TakesAnswer(r)

LEMMA HoldersAre ==
  ASSUME SettingsIInv
  PROVE  /\ \A t \in Loading : pages[t].features # <<>> => Holder(pages[t].features, clock + 1) \in Holders
         /\ \A t \in Tabs, form \in Forms \cap {"features"} :
              forms[t][form].revision # <<>> => Holder(forms[t][form].revision, forms[t][form].since + 1) \in Holders
         /\ \A r \in Asking : requests[r].revision # <<>> => Holder(requests[r].revision, clock) \in Holders
         /\ \A r \in Telling : requests[r].new # <<>> => Holder(requests[r].new, clock + 1) \in Holders
         /\ \A h \in Holders : h.from \in Nat /\ h.revision \in Pairs
<1>1. clock \in Nat /\ \A t \in Tabs, form \in Forms : forms[t][form].since \in Nat
  BY BoundsAreNaturals DEF SettingsIInv, WorldOK, FormOK, FormShape
<1>2. \A h \in Holders : h.revision \in Pairs
  BY DEF SettingsIInv, AllDated, Dated
<1>3. \A h \in Holders : h.from \in Nat
  BY <1>1 DEF Holders, Holder
<1> QED  BY <1>2, <1>3 DEF Holders, Holder

LEMMA HoldersTake ==
  ASSUME SettingsIInv, Takes, clock' \in Nat, clock <= clock', preferences' \in Preferred
  PROVE  \A h \in Holders' :
           /\ h.revision \in Pairs /\ h.from \in Nat
           /\ \/ h.revision[2] = preferences' /\ h.from >= clock + 1
              \/ \E k \in Holders : h.revision[2] = k.revision[2] /\ h.from >= k.from
<1>1. /\ clock \in Nat /\ mapped \in SUBSET Features /\ preferences \in Preferred
      /\ \A t \in Tabs, form \in Forms : forms[t][form].since \in Nat
  BY BoundsAreNaturals DEF SettingsIInv, WorldOK, FormOK, FormShape
<1> DEFINE Known(h) == /\ h.revision \in Pairs /\ h.from \in Nat
                       /\ \/ h.revision[2] = preferences' /\ h.from >= clock + 1
                          \/ \E k \in Holders : h.revision[2] = k.revision[2] /\ h.from >= k.from
<1>2. ASSUME NEW k \in Holders, NEW from \in Nat, from >= k.from PROVE Known(Holder(k.revision, from))
  BY <1>2, HoldersAre DEF Holder
<1>3. \A from \in Nat : from >= clock + 1 => Known(Holder(<<mapped, preferences'>>, from))
  BY <1>1 DEF Holder, Pairs
<1> HIDE DEF Known
<1>4. ASSUME NEW t \in Loading', pages'[t].features # <<>> PROVE Known(Holder(pages'[t].features, clock' + 1))
  <2>1. t \in Tabs /\ TakesPage(t) /\ pages'[t].at \in {"opening", "reloading"}
    BY DEF Loading, Takes
  <2>2. CASE pages[t].at \in {"opening", "reloading"} /\ pages'[t].features = pages[t].features
    <3>1. Holder(pages[t].features, clock + 1) \in Holders
      BY <1>4, <2>1, <2>2, HoldersAre DEF Loading
    <3> QED  BY <1>1, <1>2, <2>2, <3>1 DEF Holder
  <2>3. CASE pages'[t].features = <<mapped, preferences>> /\ preferences' = preferences
    BY <1>1, <1>3, <2>3
  <2> QED  BY <2>1, <2>2, <2>3 DEF TakesPage
<1>5. ASSUME NEW t \in Tabs, NEW form \in Forms \cap {"features"}, forms'[t][form].revision # <<>>
      PROVE  Known(Holder(forms'[t][form].revision, forms'[t][form].since + 1))
  <2>1. TakesForm(t, form)
    BY DEF Takes
  <2>2. CASE /\ forms'[t][form].revision = forms[t][form].revision
             /\ forms'[t][form].since \in Nat /\ forms'[t][form].since >= forms[t][form].since
    <3>1. Holder(forms[t][form].revision, forms[t][form].since + 1) \in Holders
      BY <1>5, <2>2, HoldersAre
    <3> QED  BY <1>1, <1>2, <2>2, <3>1 DEF Holder
  <2>3. CASE forms'[t][form].since = clock /\ t \in Loading /\ forms'[t][form].revision = pages[t].features
    <3>1. Holder(pages[t].features, clock + 1) \in Holders
      BY <1>5, <2>3, HoldersAre
    <3> QED  BY <1>1, <1>2, <2>3, <3>1 DEF Holder
  <2>4. CASE forms'[t][form].since = clock /\ \E r \in Telling : forms'[t][form].revision = requests[r].new
    <3>1. PICK r \in Telling : forms'[t][form].revision = requests[r].new
      BY <2>4
    <3>2. Holder(requests[r].new, clock + 1) \in Holders
      BY <1>5, <3>1, HoldersAre
    <3> QED  BY <1>1, <1>2, <2>4, <3>1, <3>2 DEF Holder
  <2> QED  BY <1>5, <2>1, <2>2, <2>3, <2>4 DEF TakesForm
<1>6. ASSUME NEW r \in Asking', requests'[r].revision # <<>> PROVE Known(Holder(requests'[r].revision, clock'))
  <2>1. r \in 1..MaxRequests /\ TakesRequest(r) /\ InFlight(requests'[r]) /\ requests'[r].form = "features"
    BY DEF Asking, Takes
  <2>2. CASE r \in Asking /\ requests'[r].revision = requests[r].revision
    <3>1. Holder(requests[r].revision, clock) \in Holders
      BY <1>6, <2>2, HoldersAre
    <3> QED  BY <1>1, <1>2, <2>2, <3>1 DEF Holder
  <2>3. CASE \E t \in Tabs, form \in Forms \cap {"features"} :
               requests'[r].revision = forms[t][form].revision /\ forms[t][form].since < clock
    <3>1. PICK t \in Tabs, form \in Forms \cap {"features"} :
                 requests'[r].revision = forms[t][form].revision /\ forms[t][form].since < clock
      BY <2>3
    <3>2. Holder(forms[t][form].revision, forms[t][form].since + 1) \in Holders
      BY <1>6, <3>1, HoldersAre
    <3>3. clock' >= forms[t][form].since + 1
      BY <1>1, <3>1
    <3> QED  BY <1>2, <3>1, <3>2, <3>3 DEF Holder
  <2> QED  BY <2>1, <2>2, <2>3 DEF TakesRequest
<1>7. ASSUME NEW r \in Telling', requests'[r].new # <<>> PROVE Known(Holder(requests'[r].new, clock' + 1))
  <2>1. /\ r \in 1..MaxRequests /\ TakesAnswer(r)
        /\ requests'[r].at = "answered" /\ requests'[r].form = "features" /\ requests'[r].reply = "ok"
    BY DEF Telling, Takes
  <2>2. CASE r \in Telling /\ requests'[r].new = requests[r].new
    <3>1. Holder(requests[r].new, clock + 1) \in Holders
      BY <1>7, <2>2, HoldersAre
    <3> QED  BY <1>1, <1>2, <2>2, <3>1 DEF Holder
  <2>3. CASE requests'[r].new = <<mapped, preferences'>>
    BY <1>1, <1>3, <2>3
  <2> QED  BY <2>1, <2>2, <2>3 DEF TakesAnswer
<1>8. \A h \in Holders' : Known(h)
  <2> SUFFICES ASSUME NEW h \in Holders' PROVE Known(h)
    OBVIOUS
  <2>1. h.revision # <<>> /\
        \/ \E t \in Loading' : h = Holder(pages'[t].features, clock' + 1)
        \/ \E t \in Tabs, form \in Forms \cap {"features"} : h = Holder(forms'[t][form].revision, forms'[t][form].since + 1)
        \/ \E r \in Asking' : h = Holder(requests'[r].revision, clock')
        \/ \E r \in Telling' : h = Holder(requests'[r].new, clock' + 1)
    BY DEF Holders
  <2> QED  BY <1>4, <1>5, <1>6, <1>7, <2>1 DEF Holder
<1> QED  BY <1>8 DEF Known

(* The steps that leave the preferences as they are keep the dates in order.  *)
LEMMA DatesStay ==
  ASSUME SettingsIInv, Takes, clock' \in Nat, clock <= clock', preferences' = preferences
  PROVE  AllDated(Holders, preferences, clock)'
<1>1. preferences \in Preferred /\ clock \in Nat /\ \A f \in Features : preferences[f].at <= clock
  BY BoundsAreNaturals DEF SettingsIInv, WorldOK
<1>2. AllDated(Holders, preferences, clock) /\ \A h \in Holders : h.from \in Nat
  BY HoldersAre DEF SettingsIInv
<1>3. \A h \in Holders' :
           /\ h.revision \in Pairs /\ h.from \in Nat
           /\ \/ h.revision[2] = preferences /\ h.from >= clock + 1
              \/ \E k \in Holders : h.revision[2] = k.revision[2] /\ h.from >= k.from
  BY <1>1, HoldersTake
<1> DEFINE K == Holders
           L == Holders'
<1> HIDE DEF K, L
<1>4. AllDated(L, preferences, clock')
  BY <1>1, <1>2, <1>3, DatesKept DEF K, L
<1> QED  BY <1>4 DEF L

-----------------------------------------------------------------------------
Outcome(g, q) == q.at = "done" /\ q.reply = IF g.phase = "saved" THEN "ok" ELSE g.error

SameOutcome(t, form) ==
  forms'[t][form].phase \in {"saved", "error"} =>
    \/ /\ forms'[t][form].phase = forms[t][form].phase
       /\ forms'[t][form].attempt = forms[t][form].attempt
       /\ forms'[t][form].error = forms[t][form].error
    \/ Outcome(forms'[t][form], requests'[forms'[t][form].attempt])

EndedStays(r) ==
  requests[r].at = "done" => requests'[r].at = "done" /\ requests'[r].reply = requests[r].reply

LEMMA SettledStays ==
  ASSUME SettingsIInv, \A r \in 1..MaxRequests : EndedStays(r),
         \A t \in Tabs, form \in Forms : SameOutcome(t, form)
  PROVE  SettledByLastAttempt'
<1> SUFFICES ASSUME NEW t \in Tabs, NEW form \in Forms, forms'[t][form].phase \in {"saved", "error"}
             PROVE  Outcome(forms'[t][form], requests'[forms'[t][form].attempt])
  BY DEF SettledByLastAttempt, Outcome
<1>1. CASE /\ forms'[t][form].phase = forms[t][form].phase
           /\ forms'[t][form].attempt = forms[t][form].attempt
           /\ forms'[t][form].error = forms[t][form].error
  <2>1. forms[t][form].attempt \in 1..MaxRequests
    BY <1>1, BoundsAreNaturals DEF SettingsIInv, FormOK, FormShape, WorldOK
  <2>2. Outcome(forms[t][form], requests[forms[t][form].attempt])
    BY <1>1 DEF SettingsIInv, SettledByLastAttempt, Outcome
  <2> QED  BY <1>1, <2>1, <2>2 DEF Outcome, EndedStays
<1> QED  BY <1>1 DEF SameOutcome

(* A step of pages, forms and answers that leaves the rows alone and sends    *)
(* nothing.                                                                   *)
LEMMA QuietStep ==
  ASSUME SettingsIInv, UNCHANGED <<clock, mapped, rows, sent>>,
         DOMAIN pages' = Tabs, DOMAIN forms' = Tabs, DOMAIN requests' = 1..MaxRequests,
         \A t \in Tabs : PageOK(pages'[t], settings) /\ TakesPage(t) /\ DOMAIN forms'[t] = Forms,
         \A t \in Tabs, form \in Forms :
           /\ FormOK(forms'[t][form], form, settings, sent, clock)
           /\ SameForm(t, form) /\ SameOutcome(t, form)
           /\ form = "features" => TakesForm(t, form),
         \A r \in 1..MaxRequests :
           /\ RequestOK(r, requests'[r], settings, sent)
           /\ SameRequest(r) /\ requests'[r].wrote = requests[r].wrote /\ EndedStays(r)
           /\ TakesRequest(r) /\ TakesAnswer(r)
  PROVE  SettingsIInv'
<1>1. UNCHANGED <<settings, preferences, writer>> /\ settings \in Rows /\ preferences \in Preferred
      /\ sent \in 0..MaxRequests /\ clock \in Nat
  BY BoundsAreNaturals DEF rows, SettingsIInv, WorldOK
<1>2. WorldOK'
  BY <1>1 DEF SettingsIInv, WorldOK
<1>3. OperationsOK' /\ OnceOK' /\ WriterOK'
  <2>1. Advances(settings, settings')
    BY <1>1 DEF Advances
  <2>2. \A r \in 1..sent : SameRequest(r)
    BY <1>1, BoundsAreNaturals
  <2> QED  BY <1>1, <2>1, <2>2, QuietKeeps
<1>4. CountOK'
  <2>1. Writers' = Writers
    BY DEF Writers
  <2> QED  BY <1>1, <2>1 DEF SettingsIInv, CountOK
<1>5. SettledByLastAttempt'
  BY SettledStays
<1>6. AllDated(Holders, preferences, clock)'
  <2>1. Takes
    BY DEF Takes
  <2> QED  BY <1>1, <2>1, DatesStay
<1> QED  BY <1>1, <1>2, <1>3, <1>4, <1>5, <1>6 DEF SettingsIInv

(* What does not change stays as it is.                                       *)
LEMMA RequestStays ==
  ASSUME SettingsIInv, NEW r \in 1..MaxRequests, requests'[r] = requests[r]
  PROVE  /\ SameRequest(r) /\ SamePurpose(r) /\ EndedStays(r) /\ TakesRequest(r) /\ TakesAnswer(r)
         /\ requests'[r].wrote = requests[r].wrote
BY DEF SameRequest, SamePurpose, EndedStays, TakesRequest, TakesAnswer, Asking, Telling, Spent, InFlight

LEMMA FormStays ==
  ASSUME SettingsIInv, NEW t \in Tabs, NEW form \in Forms, forms'[t][form] = forms[t][form]
  PROVE  /\ FormOK(forms[t][form], form, settings, sent, clock)
         /\ SameForm(t, form) /\ SameOutcome(t, form) /\ TakesForm(t, form)
<1>1. FormOK(forms[t][form], form, settings, sent, clock) /\ forms[t][form].since \in Nat
  BY DEF SettingsIInv, FormOK, FormShape
<1> QED  BY <1>1 DEF SameForm, SameOutcome, TakesForm

LEMMA PageStays ==
  ASSUME SettingsIInv, NEW t \in Tabs, pages'[t] = pages[t]
  PROVE  PageOK(pages[t], settings) /\ TakesPage(t)
BY DEF SettingsIInv, TakesPage

-----------------------------------------------------------------------------
(* The clock, the plan and the standing of the shop.                          *)
LEMMA WorldStep ==
  ASSUME SettingsIInv, UNCHANGED <<rows, requests, sent, pages, forms>>,
         mapped' \in SUBSET Features, clock' \in 1..MaxClock, clock <= clock'
  PROVE  SettingsIInv'
<1>1. UNCHANGED <<settings, preferences, writer>>
  BY DEF rows
<1>2. clock \in Nat /\ clock' \in Nat
  BY BoundsAreNaturals DEF SettingsIInv, WorldOK
<1>3. WorldOK'
  <2>1. \A f \in Features : preferences[f].at \in Nat
    BY DEF SettingsIInv, WorldOK, Preferred
  <2>2. \A f \in Features : preferences[f].at <= clock'
    BY <1>2, <2>1 DEF SettingsIInv, WorldOK
  <2> QED  BY <1>1, <2>2 DEF SettingsIInv, WorldOK
<1>4. ASSUME NEW t \in Tabs, NEW form \in Forms
      PROVE  FormOK(forms[t][form], form, settings, sent, clock') /\ TakesForm(t, form)
  <2>1. FormOK(forms[t][form], form, settings, sent, clock) /\ forms[t][form].since \in Nat
    BY DEF SettingsIInv, FormOK, FormShape
  <2>2. forms[t][form].since <= clock'
    BY <1>2, <2>1 DEF FormOK
  <2> QED  BY <2>1, <2>2 DEF FormOK, TakesForm
<1>5. OperationsOK' /\ OnceOK' /\ WriterOK' /\ CountOK' /\ SettledByLastAttempt'
  BY <1>1 DEF SettingsIInv, OperationsOK, OnceOK, WriterOK, CountOK, Writers, SettledByLastAttempt
<1>6. AllDated(Holders, preferences, clock)'
  <2>1. Takes
    BY <1>4, PageStays, RequestStays DEF Takes
  <2>2. preferences \in Preferred
    BY DEF SettingsIInv, WorldOK
  <2> QED  BY <1>1, <1>2, <2>1, <2>2, DatesStay
<1> QED  BY <1>1, <1>3, <1>4, <1>5, <1>6 DEF SettingsIInv

(* The writes of the settings by others.                                      *)
LEMMA SettingsMove ==
  ASSUME SettingsIInv, UNCHANGED <<clock, mapped, preferences, writer, requests, sent, pages, forms>>,
         settings' \in Rows, settings'.updatedAt >= 1, Advances(settings, settings'),
         settings'.mode = "FIXED" => settings'.selection # {} \/ settings'.rewound,
         settings'.selection = settings.selection \/ settings'.rewound,
         settings'.updatedAt = settings.updatedAt \/ settings'.updatedAt <= MaxClock
  PROVE  SettingsIInv'
<1>1. settings \in Rows /\ preferences \in Preferred /\ clock \in Nat /\ sent \in 0..MaxRequests
  BY BoundsAreNaturals DEF SettingsIInv, WorldOK
<1>2. WorldOK'
  BY DEF SettingsIInv, WorldOK
<1>3. ASSUME NEW t \in Tabs PROVE PageOK(pages[t], settings')
  <2>1. PageOK(pages[t], settings)
    BY DEF SettingsIInv
  <2>2. CASE settings'.rewound
    BY <2>1, <2>2 DEF PageOK, Fresh
  <2>3. CASE settings'.selection = settings.selection
    BY <1>1, <2>1, <2>3, FreshKept DEF PageOK
  <2> QED  BY <2>2, <2>3
<1>4. \A t \in Tabs, form \in Forms : FormOK(forms[t][form], form, settings', sent, clock)
  BY <1>1, FreshKept DEF SettingsIInv, FormOK
<1>5. \A r \in 1..MaxRequests : RequestOK(r, requests[r], settings', sent)
  BY <1>1, FreshKept DEF SettingsIInv, RequestOK
<1>6. OperationsOK' /\ OnceOK' /\ WriterOK'
  <2>1. \A r \in 1..sent : SameRequest(r)
    BY <1>1, RequestStays, BoundsAreNaturals
  <2>2. \A t \in Tabs, form \in Forms : SameForm(t, form)
    BY FormStays
  <2> QED  BY <1>1, <2>1, <2>2, QuietKeeps
<1>7. CountOK'
  <2>1. Writers' = Writers /\ IsFiniteSet(Writers)
    <3>1. IsFiniteSet(1..MaxRequests) /\ Writers \subseteq 1..MaxRequests
      BY FS_Interval, BoundsAreNaturals DEF Writers
    <3>2. IsFiniteSet(Writers)
      BY <3>1, FS_Subset
    <3> QED  BY <3>2 DEF Writers
  <2>2. Cardinality(Writers) \in Nat
    BY <2>1, FS_CardinalityType
  <2>3. settings'.updatedAt \in Nat
    BY DEF Rows
  <2> QED  BY <2>1, <2>2, <2>3, BoundsAreNaturals DEF SettingsIInv, CountOK
<1>8. SettledByLastAttempt'
  BY DEF SettingsIInv, SettledByLastAttempt
<1>9. AllDated(Holders, preferences, clock)'
  <2>1. Takes
    BY FormStays, PageStays, RequestStays DEF Takes
  <2> QED  BY <1>1, <2>1, DatesStay
<1> QED  BY <1>2, <1>3, <1>4, <1>5, <1>6, <1>7, <1>8, <1>9 DEF SettingsIInv

LEMMA OthersKeep ==
  ASSUME SettingsIInv, Tick \/ Stand \/ (\E f \in Features : Map(f)) \/ Uninstall \/ Refresh
  PROVE  SettingsIInv'
<1>1. /\ settings \in Rows /\ settings.updatedAt >= 1 /\ clock \in 1..MaxClock /\ mapped \in SUBSET Features
      /\ settings.mode = "FIXED" => settings.selection # {} \/ settings.rewound
  BY DEF SettingsIInv, WorldOK
<1>2. CASE Tick
  BY <1>1, <1>2, WorldStep, BoundsAreNaturals DEF Tick
<1>3. CASE Stand
  BY <1>1, <1>3, WorldStep DEF Stand
<1>4. ASSUME NEW f \in Features, Map(f) PROVE SettingsIInv'
  <2>1. mapped' \in SUBSET Features /\ UNCHANGED <<clock, rows, requests, sent, pages, forms>>
    BY <1>1, <1>4 DEF Map
  <2> QED  BY <1>1, <2>1, WorldStep
<1>5. CASE Uninstall
  <2>1. settings' = [settings EXCEPT !.selection = {}, !.rewound = @ \/ settings.selection # {}]
    BY <1>5 DEF Uninstall
  <2>2. /\ settings'.updatedAt = settings.updatedAt /\ settings'.mode = settings.mode
        /\ settings'.selection = {} /\ settings'.delay = settings.delay
        /\ settings'.rewound = (settings.rewound \/ settings.selection # {})
    BY <1>1, <2>1 DEF Rows
  <2>3. settings' \in Rows
    <3>1. (settings.rewound \/ settings.selection # {}) \in BOOLEAN
      OBVIOUS
    <3> DEFINE b == settings.rewound \/ settings.selection # {}
    <3>2. settings' = [settings EXCEPT !.selection = {}, !.rewound = b]
      BY <2>1
    <3> HIDE DEF b
    <3> QED  BY <1>1, <3>1, <3>2 DEF Rows, b
  <2>4. Advances(settings, settings')
    <3>1. CASE settings.selection # {}
      BY <2>2, <3>1 DEF Advances
    <3>2. CASE settings.selection = {}
      <4>1. settings'.rewound = settings.rewound
        BY <1>1, <2>2, <3>2 DEF Rows
      <4> QED  BY <1>1, <2>2, <2>3, <3>2, <4>1 DEF Advances, Rows
    <3> QED  BY <3>1, <3>2
  <2> QED  BY <1>1, <1>5, <2>2, <2>3, <2>4, SettingsMove DEF Uninstall
<1>6. CASE Refresh
  <2>1. PICK now \in Instants :
              settings' = [settings EXCEPT !.updatedAt = now, !.rewound = @ \/ now <= settings.updatedAt]
    BY <1>6 DEF Refresh
  <2>2. now \in Nat /\ now >= 1 /\ now <= MaxClock
    BY <1>1, BoundsAreNaturals DEF Instants
  <2>3. /\ settings'.updatedAt = now /\ settings'.mode = settings.mode
        /\ settings'.selection = settings.selection /\ settings'.delay = settings.delay
        /\ settings'.rewound = (settings.rewound \/ now <= settings.updatedAt)
    BY <1>1, <2>1 DEF Rows
  <2>4. settings' \in Rows
    <3> DEFINE b == settings.rewound \/ now <= settings.updatedAt
    <3>1. b \in BOOLEAN /\ settings' = [settings EXCEPT !.updatedAt = now, !.rewound = b]
      BY <2>1
    <3> HIDE DEF b
    <3> QED  BY <1>1, <2>2, <3>1 DEF Rows
  <2>5. Advances(settings, settings')
    <3>1. CASE now <= settings.updatedAt
      BY <2>3, <3>1 DEF Advances
    <3>2. CASE ~(now <= settings.updatedAt)
      <4>1. settings'.rewound = settings.rewound
        BY <1>1, <2>3, <3>2 DEF Rows
      <4> QED  BY <1>1, <2>2, <2>3, <3>2, <4>1 DEF Advances, Rows
    <3> QED  BY <3>1, <3>2
  <2>6. settings'.mode = "FIXED" => settings'.selection # {} \/ settings'.rewound
    BY <1>1, <2>3
  <2> QED  BY <1>1, <1>6, <2>2, <2>3, <2>4, <2>5, <2>6, SettingsMove DEF Refresh
<1> QED  BY <1>2, <1>3, <1>4, <1>5, <1>6

-----------------------------------------------------------------------------
LEMMA UnmountedOK ==
  ASSUME SettingsIInv, NEW form \in Forms
  PROVE  FormOK(Unmounted, form, settings, sent, clock)
<1>1. FormShape(Unmounted)
  BY ValuesAreTyped DEF FormShape, Unmounted
<1>2. clock \in Nat /\ clock >= 0 /\ sent \in Nat
  BY BoundsAreNaturals DEF SettingsIInv, WorldOK
<1> QED  BY <1>1, <1>2 DEF FormOK, Fresh, Unmounted

(* A step of one tab, which leaves the other tabs and the requests alone.     *)
LEMMA TabStep ==
  ASSUME SettingsIInv, NEW t \in Tabs, UNCHANGED <<world, rows, requests, sent>>,
         DOMAIN pages' = Tabs, DOMAIN forms' = Tabs, DOMAIN forms'[t] = Forms,
         \A u \in Tabs \ {t} : pages'[u] = pages[u] /\ forms'[u] = forms[u],
         PageOK(pages'[t], settings), TakesPage(t),
         \A form \in Forms : /\ FormOK(forms'[t][form], form, settings, sent, clock)
                             /\ SameForm(t, form) /\ SameOutcome(t, form)
                             /\ form = "features" => TakesForm(t, form)
  PROVE  SettingsIInv'
<1>1. \A u \in Tabs : PageOK(pages'[u], settings) /\ TakesPage(u) /\ DOMAIN forms'[u] = Forms
  BY PageStays DEF SettingsIInv
<1>2. \A u \in Tabs, form \in Forms :
        /\ FormOK(forms'[u][form], form, settings, sent, clock)
        /\ SameForm(u, form) /\ SameOutcome(u, form)
        /\ form = "features" => TakesForm(u, form)
  <2>1. \A u \in Tabs \ {t}, form \in Forms : forms'[u][form] = forms[u][form]
    OBVIOUS
  <2>2. \A u \in Tabs \ {t}, form \in Forms :
          /\ FormOK(forms'[u][form], form, settings, sent, clock)
          /\ SameForm(u, form) /\ SameOutcome(u, form) /\ TakesForm(u, form)
    BY <2>1, FormStays
  <2> QED  BY <2>2
<1>3. \A r \in 1..MaxRequests :
        /\ RequestOK(r, requests'[r], settings, sent)
        /\ SameRequest(r) /\ requests'[r].wrote = requests[r].wrote /\ EndedStays(r)
        /\ TakesRequest(r) /\ TakesAnswer(r)
  BY RequestStays DEF SettingsIInv
<1>4. UNCHANGED <<clock, mapped, rows, sent>> /\ DOMAIN requests' = 1..MaxRequests
  BY DEF world, SettingsIInv
<1> QED  BY <1>1, <1>2, <1>3, <1>4, QuietStep

LEMMA DisposedKeeps ==
  ASSUME SettingsIInv, NEW t \in Tabs, Disposed(t), UNCHANGED <<world, rows, requests, sent>>
  PROVE  SettingsIInv'
<1>1. /\ DOMAIN pages' = Tabs /\ DOMAIN forms' = Tabs /\ DOMAIN forms'[t] = Forms
      /\ \A u \in Tabs \ {t} : pages'[u] = pages[u] /\ forms'[u] = forms[u]
      /\ pages'[t] = NoPage /\ \A form \in Forms : forms'[t][form] = Unmounted
  BY DEF Disposed, SettingsIInv
<1>2. PageOK(NoPage, settings) /\ TakesPage(t)
  BY <1>1, ValuesAreTyped DEF PageOK, PageShape, NoPage, TakesPage
<1>3. \A form \in Forms : /\ FormOK(Unmounted, form, settings, sent, clock)
                          /\ SameForm(t, form) /\ SameOutcome(t, form) /\ TakesForm(t, form)
  <2>1. Unmounted.phase = "idle" /\ Unmounted.revision = <<>>
    BY DEF Unmounted
  <2> SUFFICES ASSUME NEW form \in Forms
               PROVE  /\ FormOK(Unmounted, form, settings, sent, clock)
                      /\ SameForm(t, form) /\ SameOutcome(t, form) /\ TakesForm(t, form)
    OBVIOUS
  <2>2. forms'[t][form] = Unmounted
    BY <1>1
  <2>3. SameForm(t, form) /\ SameOutcome(t, form) /\ TakesForm(t, form)
    BY <2>1, <2>2 DEF SameForm, SameOutcome, TakesForm, Open
  <2> QED  BY <2>3, UnmountedOK
<1> QED  BY <1>1, <1>2, <1>3, TabStep

LEMMA ReadKeeps == ASSUME SettingsIInv, NEW t \in Tabs, Read(t) PROVE SettingsIInv'
<1>1. CASE ~Authorized
  BY <1>1, DisposedKeeps DEF Read
<1>2. CASE Authorized
  <2> DEFINE features == IF requireFeaturePlan THEN mapped ELSE {}
             read == [Current EXCEPT !.shown = features, !.enabled = @ \cap features]
  <2>1. PICK at \in {"opening", "reloading"} : pages' = [pages EXCEPT ![t] = loader(at)]
    BY <1>2 DEF Read
  <2>2. UNCHANGED <<forms, world, rows, requests, sent>>
    BY <1>2 DEF Read
  <2>3. /\ DOMAIN pages' = Tabs /\ pages'[t] = loader(at)
        /\ \A u \in Tabs \ {t} : pages'[u] = pages[u] /\ forms'[u] = forms[u]
    BY <2>1, <2>2 DEF SettingsIInv
  <2>4. read \in Values /\ read.mode = settings.mode /\ read.delay = settings.delay
    <3>1. mapped \in SUBSET Features /\ Current \in Values
      BY ValuesAreTyped DEF SettingsIInv, WorldOK
    <3>2. features \in SUBSET Features
      BY <3>1
    <3>3. read.mode = Current.mode /\ read.delay = Current.delay
      BY DEF Current
    <3> HIDE DEF features
    <3>4. read \in Values
      BY <3>1, <3>2 DEF Values
    <3> QED  BY <3>3, <3>4 DEF Current
  <2>5. /\ loader(at).at = at /\ loader(at).due = FALSE /\ loader(at).updatedAt = settings.updatedAt
        /\ loader(at).read = read /\ loader(at).features = <<mapped, preferences>>
        /\ PageShape(loader(at))
    <3>1. settings.updatedAt \in Nat
      BY DEF SettingsIInv, WorldOK, Rows
    <3>2. loader(at) = [at |-> at, due |-> FALSE, updatedAt |-> settings.updatedAt,
                        features |-> <<mapped, preferences>>, read |-> read]
      BY DEF loader, Revision
    <3> HIDE DEF read
    <3> QED  BY <2>4, <3>1, <3>2 DEF PageShape
  <2> HIDE DEF read
  <2>6. PageOK(loader(at), settings)
    <3> DEFINE seen == [read EXCEPT !.selection = settings.selection]
    <3>1. seen.mode = settings.mode /\ seen.delay = settings.delay /\ seen.selection = settings.selection
      BY <2>4 DEF Values
    <3> HIDE DEF seen
    <3>2. Fresh(<<settings.updatedAt>>, seen, settings)
      BY <3>1 DEF Fresh, SettingsIInv, WorldOK, Rows
    <3> QED  BY <2>5, <3>2 DEF PageOK, seen
  <2>7. TakesPage(t)
    BY <2>2, <2>3, <2>5 DEF TakesPage, rows
  <2>8. \A form \in Forms : /\ FormOK(forms'[t][form], form, settings, sent, clock)
                            /\ SameForm(t, form) /\ SameOutcome(t, form) /\ TakesForm(t, form)
    BY <2>2, FormStays
  <2> QED  BY <2>2, <2>3, <2>6, <2>7, <2>8, TabStep DEF SettingsIInv
<1> QED  BY <1>1, <1>2

(* The view: the forms that are mounted hold what the page has read; the      *)
(* others keep their operation.                                               *)
LEMMA ShowKeeps == ASSUME SettingsIInv, NEW t \in Tabs, Show(t) PROVE SettingsIInv'
<1> DEFINE page == pages[t]
           seen == [page.read EXCEPT !.selection = settings.selection]
           shown == [NoPage EXCEPT !.at = "shown", !.due = page.due]
<1>1. /\ t \in Loading
      /\ forms' = [forms EXCEPT ![t] = [f \in Forms |-> Mounted(t, f, seen)]]
      /\ pages' = [pages EXCEPT ![t] = shown]
      /\ UNCHANGED <<world, rows, requests, sent>>
  BY DEF Show, Loading
<1>2. /\ PageShape(page) /\ page.updatedAt \in Nat /\ page.due \in BOOLEAN
      /\ Fresh(<<page.updatedAt>>, seen, settings)
  BY <1>1 DEF SettingsIInv, PageOK, PageShape, Loading
<1>3. seen \in Values
  <2>1. page.read \in Values /\ settings.selection \in SUBSET Discounts
    BY <1>2 DEF PageShape, SettingsIInv, WorldOK, Rows
  <2> QED  BY <2>1 DEF Values
<1>4. PageOK(shown, settings) /\ shown.at = "shown"
  BY <1>2, ValuesAreTyped DEF PageOK, PageShape, NoPage
<1> HIDE DEF seen, shown
<1>5. /\ DOMAIN pages' = Tabs /\ DOMAIN forms' = Tabs /\ DOMAIN forms'[t] = Forms
      /\ pages'[t] = shown /\ \A form \in Forms : forms'[t][form] = Mounted(t, form, seen)
      /\ \A u \in Tabs \ {t} : pages'[u] = pages[u] /\ forms'[u] = forms[u]
  BY <1>1 DEF SettingsIInv
<1>6. clock \in Nat /\ sent \in Nat
  BY BoundsAreNaturals DEF SettingsIInv, WorldOK
<1>7. ASSUME NEW form \in Forms
      PROVE  /\ FormOK(forms'[t][form], form, settings, sent, clock)
             /\ SameForm(t, form) /\ SameOutcome(t, form)
             /\ form = "features" => TakesForm(t, form)
  <2> DEFINE old == forms[t][form]
             new == Idle(form, page, seen)
             kept(base) == [base EXCEPT !.value = Kept(old, seen), !.known = old.known]
             Shows(g) == /\ FormOK(g, form, settings, sent, clock)
                         /\ \/ g.phase = "idle"
                            \/ /\ g.phase = old.phase /\ g.operation = old.operation /\ g.frozen = old.frozen
                               /\ g.revision = old.revision /\ g.attempt = old.attempt /\ g.error = old.error
                         /\ form = "features" =>
                              \/ g.revision = <<>>
                              \/ g.revision = old.revision /\ g.since = old.since
                              \/ g.revision = page.features /\ g.since = clock
  <2>1. FormOK(old, form, settings, sent, clock) /\ FormShape(old)
    BY DEF SettingsIInv, FormOK
  <2>2. Shows(old)
    BY <2>1
  <2>3. Shows(Unmounted)
    BY UnmountedOK DEF Unmounted
  <2>4. Shows(new)
    <3>1. /\ new.phase = "idle" /\ new.since = clock /\ new.attempt = 0 /\ new.operation = 0
          /\ new.seen = seen /\ new.value = seen /\ new.known = seen.shown /\ new.frozen = Nothing
          /\ new.revision = IF form = "features" THEN page.features ELSE <<page.updatedAt>>
      BY DEF Idle, Unmounted
    <3>2. seen.shown \in SUBSET Features
      BY <1>3 DEF Values
    <3>3. FormShape(new)
      BY <1>2, <1>3, <1>6, <3>2, ValuesAreTyped DEF FormShape, Idle, Unmounted
    <3> HIDE DEF new
    <3>4. FormOK(new, form, settings, sent, clock)
      BY <1>2, <1>6, <3>1, <3>3 DEF FormOK
    <3> QED  BY <3>1, <3>4
  <2>5. ASSUME NEW base, Shows(base) PROVE Shows(kept(base))
    <3>1. FormShape(base)
      BY <2>5 DEF FormOK
    <3> DEFINE value == Kept(old, seen)
    <3>2. value \in Values
      <4>1. old.value.enabled \in SUBSET Features /\ seen.enabled \in SUBSET Features
        BY <1>3, <2>1 DEF FormShape, Values
      <4> DEFINE enabled == (old.value.enabled \cap old.known) \cup (seen.enabled \ old.known)
      <4>2. enabled \in SUBSET Features /\ value = [seen EXCEPT !.enabled = enabled]
        BY <4>1 DEF Kept
      <4> HIDE DEF enabled
      <4> QED  BY <1>3, <4>2 DEF Values
    <3>3. old.known \in SUBSET Features
      BY <2>1 DEF FormShape
    <3> HIDE DEF value
    <3>4. kept(base) = [base EXCEPT !.value = value, !.known = old.known]
      BY DEF value
    <3>5. /\ kept(base).phase = base.phase /\ kept(base).operation = base.operation
          /\ kept(base).frozen = base.frozen /\ kept(base).revision = base.revision
          /\ kept(base).attempt = base.attempt /\ kept(base).error = base.error
          /\ kept(base).since = base.since /\ kept(base).seen = base.seen
      BY <3>1, <3>4 DEF FormShape
    <3>6. FormShape(kept(base))
      BY <3>1, <3>2, <3>3, <3>4 DEF FormShape
    <3> HIDE DEF kept
    <3>7. FormOK(kept(base), form, settings, sent, clock)
      BY <2>5, <3>5, <3>6 DEF FormOK
    <3> QED  BY <2>5, <3>5, <3>7
  <2>6. Mounted(t, form, seen) \in {old, new, kept(Unmounted), kept(new), kept(old)}
    BY DEF Mounted
  <2> HIDE DEF kept
  <2>7. Shows(forms'[t][form])
    BY <1>5, <2>2, <2>3, <2>4, <2>5, <2>6
  <2>8. old.since \in Nat
    BY <2>1 DEF FormShape
  <2> QED  BY <1>1, <2>7, <2>8 DEF SameForm, SameOutcome, TakesForm, Open
<1>8. TakesPage(t)
  BY <1>4, <1>5 DEF TakesPage
<1> QED  BY <1>1, <1>4, <1>5, <1>7, <1>8, TabStep

LEMMA UnknownIs ==
  ASSUME SettingsIInv, NEW t \in Tabs, NEW form \in Forms, Unknown(t, form)
  PROVE  /\ DOMAIN forms' = Tabs /\ \A u \in Tabs : DOMAIN forms'[u] = Forms
         /\ \A u \in Tabs, other \in Forms : u # t \/ other # form => forms'[u][other] = forms[u][other]
         /\ forms'[t][form] = [forms[t][form] EXCEPT !.phase = "unknown", !.since = clock]
BY DEF Unknown, SettingsIInv

(* A form that waits, or that has given up waiting, for its last attempt.     *)
LEMMA UnknownKeeps ==
  ASSUME SettingsIInv, NEW t \in Tabs, NEW form \in Forms, Unknown(t, form), forms[t][form].phase \in Open
  PROVE  /\ FormOK(forms'[t][form], form, settings, sent, clock)
         /\ SameForm(t, form) /\ SameOutcome(t, form) /\ TakesForm(t, form)
<1> DEFINE old == forms[t][form]
           new == [old EXCEPT !.phase = "unknown", !.since = clock]
<1>1. forms'[t][form] = new
  BY UnknownIs
<1>2. clock \in Nat /\ FormOK(old, form, settings, sent, clock) /\ FormShape(old)
  BY BoundsAreNaturals DEF SettingsIInv, WorldOK, FormOK
<1>3. old.since \in Nat /\ old.since <= clock
  BY <1>2 DEF FormOK, FormShape
<1>4. /\ new.phase = "unknown" /\ new.since = clock /\ new.attempt = old.attempt
      /\ new.operation = old.operation /\ new.revision = old.revision /\ new.seen = old.seen
      /\ new.frozen = old.frozen
  BY <1>2 DEF FormShape
<1>5. FormShape(new)
  BY <1>2 DEF FormShape
<1> HIDE DEF new
<1>6. old.phase # "idle"
  BY DEF Open
<1>7. FormOK(new, form, settings, sent, clock)
  BY <1>2, <1>4, <1>5, <1>6 DEF FormOK
<1> QED  BY <1>1, <1>2, <1>3, <1>4, <1>7 DEF SameForm, SameOutcome, TakesForm

LEMMA TimeOutKeeps ==
  ASSUME SettingsIInv, NEW t \in Tabs, NEW form \in Forms, TimeOut(t, form) PROVE SettingsIInv'
<1>1. /\ forms[t][form].phase \in Open /\ Unknown(t, form)
      /\ UNCHANGED <<world, rows, requests, sent, pages>>
  BY DEF TimeOut, Open
<1>2. /\ DOMAIN forms' = Tabs /\ DOMAIN forms'[t] = Forms
      /\ \A u \in Tabs \ {t} : pages'[u] = pages[u] /\ forms'[u] = forms[u]
  <2>1. \A u \in Tabs \ {t} : forms'[u] = forms[u]
    BY <1>1 DEF Unknown, SettingsIInv
  <2> QED  BY <1>1, <2>1, UnknownIs
<1>3. ASSUME NEW other \in Forms
      PROVE  /\ FormOK(forms'[t][other], other, settings, sent, clock)
             /\ SameForm(t, other) /\ SameOutcome(t, other) /\ TakesForm(t, other)
  <2>1. CASE other = form
    BY <1>1, <2>1, UnknownKeeps
  <2>2. CASE other # form
    <3>1. Unknown(t, form)
      BY <1>1
    <3>2. forms'[t][other] = forms[t][other]
      BY <2>2, <3>1 DEF Unknown, SettingsIInv
    <3> QED  BY <3>2, FormStays
  <2> QED  BY <2>1, <2>2
<1>4. DOMAIN pages' = Tabs /\ PageOK(pages'[t], settings) /\ TakesPage(t)
  BY <1>1, PageStays DEF SettingsIInv
<1> QED  BY <1>1, <1>2, <1>3, <1>4, TabStep

-----------------------------------------------------------------------------
(* A request that has been dealt with.                                        *)
LEMMA EndedIs ==
  ASSUME SettingsIInv, NEW r \in 1..sent
  PROVE  LET q == requests[r] IN
         /\ Ended(q).at = "done" /\ Ended(q).operation = q.operation /\ Ended(q).tab = q.tab
         /\ Ended(q).form = q.form /\ Ended(q).reply = q.reply /\ Ended(q).wrote = q.wrote
         /\ Ended(q).revision = <<>> /\ Ended(q).new = <<>>
         /\ RequestOK(r, Ended(q), settings, sent)
<1> DEFINE q == requests[r]
<1>1. r \in 1..MaxRequests /\ sent \in Nat /\ r <= sent /\ ~(r > sent)
  BY BoundsAreNaturals DEF SettingsIInv, WorldOK
<1>2. /\ RequestShape(q) /\ q.tab \in Tabs /\ q.form \in Forms
      /\ q.operation \in 1..r
  BY <1>1 DEF SettingsIInv, RequestOK
<1>3. /\ Ended(q).at = "done" /\ Ended(q).operation = q.operation /\ Ended(q).tab = q.tab
      /\ Ended(q).form = q.form /\ Ended(q).reply = q.reply /\ Ended(q).wrote = q.wrote
      /\ Ended(q).revision = <<>> /\ Ended(q).new = <<>>
  BY DEF Ended, Request
<1>4. RequestShape(Ended(q))
  BY <1>2, ValuesAreTyped DEF RequestShape, Ended, Request
<1>5. RequestOK(r, Ended(q), settings, sent)
  BY <1>1, <1>2, <1>3, <1>4 DEF RequestOK, Fresh, InFlight
<1> QED  BY <1>3, <1>5

(* A request moves, the others stay.                                          *)
LEMMA AnsweredIs ==
  ASSUME SettingsIInv, NEW r \in 1..sent, NEW reply, NEW a, a = Answered(requests[r], reply)
  PROVE  /\ a.at = "answered" /\ a.reply = reply /\ a.operation = requests[r].operation
         /\ a.tab = requests[r].tab /\ a.form = requests[r].form /\ a.wrote = requests[r].wrote
         /\ a.revision = <<>> /\ RequestOK(r, a, settings, sent)
<1> DEFINE q == requests[r]
           e == Ended(q)
<1>1. /\ e.at = "done" /\ e.operation = q.operation /\ e.tab = q.tab
      /\ e.form = q.form /\ e.reply = q.reply /\ e.wrote = q.wrote
      /\ e.revision = <<>> /\ e.new = <<>> /\ RequestOK(r, e, settings, sent)
  BY EndedIs
<1>2. a = [e EXCEPT !.at = "answered", !.reply = reply]
  BY DEF Answered
<1> HIDE DEF e
<1>3. RequestShape(e) /\ sent \in Nat /\ ~(r > sent)
  BY <1>1, BoundsAreNaturals DEF RequestOK, SettingsIInv, WorldOK
<1>4. /\ a.at = "answered" /\ a.reply = reply /\ a.operation = e.operation /\ a.tab = e.tab
      /\ a.form = e.form /\ a.wrote = e.wrote /\ a.revision = e.revision /\ a.new = e.new
  BY <1>2, <1>3 DEF RequestShape
<1>5. RequestShape(a)
  BY <1>2, <1>3 DEF RequestShape
<1>6. RequestOK(r, a, settings, sent)
  BY <1>1, <1>3, <1>4, <1>5 DEF RequestOK, Fresh, InFlight
<1> QED  BY <1>1, <1>4, <1>6

LEMMA RequestTurns ==
  ASSUME SettingsIInv, NEW r \in 1..sent, NEW q, requests' = [requests EXCEPT ![r] = q],
         requests[r].at # "done",
         q.operation = requests[r].operation, q.tab = requests[r].tab, q.form = requests[r].form,
         InFlight(q) => /\ InFlight(requests[r]) /\ q.value = requests[r].value
                        /\ q.revision = requests[r].revision,
         q.at = "answered" /\ q.form = "features" /\ q.reply = "ok" => q.new = <<mapped, preferences'>>
  PROVE  /\ DOMAIN requests' = 1..MaxRequests /\ requests'[r] = q /\ r \in 1..MaxRequests
         /\ \A s \in 1..MaxRequests \ {r} : requests'[s] = requests[s]
         /\ \A s \in 1..MaxRequests : /\ SamePurpose(s) /\ EndedStays(s)
                                      /\ TakesRequest(s) /\ TakesAnswer(s)
<1>1. r \in 1..MaxRequests /\ DOMAIN requests = 1..MaxRequests
  BY BoundsAreNaturals DEF SettingsIInv, WorldOK
<1>2. requests'[r] = q /\ \A s \in 1..MaxRequests \ {r} : requests'[s] = requests[s]
  BY <1>1
<1>3. ASSUME NEW s \in 1..MaxRequests \ {r}
      PROVE  SamePurpose(s) /\ EndedStays(s) /\ TakesRequest(s) /\ TakesAnswer(s)
  BY <1>2, RequestStays
<1>4. SamePurpose(r) /\ EndedStays(r) /\ TakesRequest(r) /\ TakesAnswer(r)
  BY <1>1, <1>2 DEF SamePurpose, EndedStays, TakesRequest, TakesAnswer, Asking
<1> QED  BY <1>1, <1>2, <1>3, <1>4

LEMMA RequestMoves ==
  ASSUME SettingsIInv, NEW r \in 1..sent, NEW q, requests' = [requests EXCEPT ![r] = q],
         RequestOK(r, q, settings, sent), requests[r].at # "done",
         q.operation = requests[r].operation, q.tab = requests[r].tab, q.form = requests[r].form,
         q.wrote = requests[r].wrote,
         InFlight(q) => /\ InFlight(requests[r]) /\ q.value = requests[r].value
                        /\ q.revision = requests[r].revision,
         Spent(q) => Spent(requests[r]),
         q.at = "answered" => q.reply # "ok"
  PROVE  /\ DOMAIN requests' = 1..MaxRequests
         /\ \A s \in 1..MaxRequests :
              /\ RequestOK(s, requests'[s], settings, sent)
              /\ SameRequest(s) /\ requests'[s].wrote = requests[s].wrote /\ EndedStays(s)
              /\ TakesRequest(s) /\ TakesAnswer(s)
<1>1. /\ DOMAIN requests' = 1..MaxRequests /\ requests'[r] = q /\ r \in 1..MaxRequests
      /\ \A s \in 1..MaxRequests \ {r} : requests'[s] = requests[s]
      /\ \A s \in 1..MaxRequests : /\ SamePurpose(s) /\ EndedStays(s)
                                   /\ TakesRequest(s) /\ TakesAnswer(s)
  BY RequestTurns
<1>2. \A s \in 1..MaxRequests : /\ RequestOK(s, requests'[s], settings, sent)
                                /\ requests'[s].wrote = requests[s].wrote
                                /\ Spent(requests'[s]) => Spent(requests[s])
  <2> SUFFICES ASSUME NEW s \in 1..MaxRequests
               PROVE  /\ RequestOK(s, requests'[s], settings, sent)
                      /\ requests'[s].wrote = requests[s].wrote
                      /\ Spent(requests'[s]) => Spent(requests[s])
    OBVIOUS
  <2>1. CASE s = r
    BY <1>1, <2>1
  <2>2. CASE s # r
    <3>1. requests'[s] = requests[s]
      BY <1>1, <2>2
    <3> QED  BY <3>1 DEF SettingsIInv
  <2> QED  BY <2>1, <2>2
<1>3. ASSUME NEW s \in 1..MaxRequests PROVE SameRequest(s)
  BY <1>1, <1>2 DEF SameRequest
<1>4. ASSUME NEW s \in 1..MaxRequests
      PROVE  /\ RequestOK(s, requests'[s], settings, sent)
             /\ SameRequest(s) /\ requests'[s].wrote = requests[s].wrote /\ EndedStays(s)
             /\ TakesRequest(s) /\ TakesAnswer(s)
  BY <1>1, <1>2, <1>3
<1> QED  BY <1>1, <1>4

LEMMA SentRange == ASSUME SettingsIInv, NEW r \in 1..MaxRequests, requests[r].at # "unsent" PROVE r \in 1..sent
<1>1. sent \in Nat
  BY BoundsAreNaturals DEF SettingsIInv, WorldOK
<1>2. ~(r > sent)
  BY DEF SettingsIInv, RequestOK, Request
<1> QED  BY <1>1, <1>2

LEMMA AuthorizeKeeps ==
  ASSUME SettingsIInv, NEW r \in 1..MaxRequests, Authorize(r) PROVE SettingsIInv'
<1> DEFINE q == requests[r]
<1>1. /\ q.at = "sent" /\ UNCHANGED <<world, rows, sent, pages, forms>>
      /\ \/ requests' = [requests EXCEPT ![r] = Answered(q, "nothing")]
         \/ requests' = [requests EXCEPT ![r] = Answered(q, "unnamed")]
         \/ requests' = [requests EXCEPT ![r].at = "authorized"]
  BY DEF Authorize, Answer
<1>2. r \in 1..sent
  BY <1>1, SentRange
<1>3. RequestOK(r, q, settings, sent) /\ RequestShape(q)
  BY DEF SettingsIInv, RequestOK
<1>4. /\ DOMAIN requests' = 1..MaxRequests
      /\ \A s \in 1..MaxRequests :
              /\ RequestOK(s, requests'[s], settings, sent)
              /\ SameRequest(s) /\ requests'[s].wrote = requests[s].wrote /\ EndedStays(s)
              /\ TakesRequest(s) /\ TakesAnswer(s)
  <2>1. ASSUME NEW reply \in {"nothing", "unnamed"}, requests' = [requests EXCEPT ![r] = Answered(q, reply)]
        PROVE  <1>4!:
    <3> DEFINE a == Answered(q, reply)
    <3>9. a = Answered(requests[r], reply)
      OBVIOUS
    <3> HIDE DEF a
    <3>1. /\ a.at = "answered" /\ a.reply = reply /\ a.operation = q.operation /\ a.tab = q.tab
          /\ a.form = q.form /\ a.wrote = q.wrote /\ RequestOK(r, a, settings, sent)
      BY <1>2, <3>9, AnsweredIs
    <3>2. ~InFlight(a) /\ (Spent(a) => Spent(q)) /\ a.reply # "ok"
      BY <3>1 DEF InFlight, Spent
    <3>3. requests' = [requests EXCEPT ![r] = a]
      BY <2>1 DEF a
    <3> QED  BY <1>1, <1>2, <3>1, <3>2, <3>3, RequestMoves
  <2>2. ASSUME requests' = [requests EXCEPT ![r].at = "authorized"]
        PROVE  <1>4!:
    <3> DEFINE a == [q EXCEPT !.at = "authorized"]
    <3>1. /\ a.at = "authorized" /\ a.reply = q.reply /\ a.operation = q.operation /\ a.tab = q.tab
          /\ a.form = q.form /\ a.wrote = q.wrote /\ a.value = q.value /\ a.revision = q.revision
          /\ a.seen = q.seen /\ a.new = q.new /\ a.result = q.result /\ RequestShape(a)
      BY <1>3 DEF RequestShape
    <3>2. requests' = [requests EXCEPT ![r] = a]
      BY <2>2
    <3> HIDE DEF a
    <3>3. RequestOK(r, a, settings, sent)
      <4>1. sent \in Nat /\ ~(r > sent)
        BY <1>2, BoundsAreNaturals DEF SettingsIInv, WorldOK
      <4> QED  BY <1>1, <1>3, <3>1, <4>1 DEF RequestOK, InFlight
    <3>4. InFlight(a) /\ InFlight(q) /\ (Spent(a) => Spent(q))
      BY <1>1, <3>1 DEF InFlight, Spent
    <3> QED  BY <1>1, <1>2, <3>1, <3>2, <3>3, <3>4, RequestMoves
  <2> QED  BY <1>1, <2>1, <2>2
<1>5. \A t \in Tabs : PageOK(pages'[t], settings) /\ TakesPage(t) /\ DOMAIN forms'[t] = Forms
  BY <1>1, PageStays DEF SettingsIInv
<1>6. \A t \in Tabs, form \in Forms :
           /\ FormOK(forms'[t][form], form, settings, sent, clock)
           /\ SameForm(t, form) /\ SameOutcome(t, form)
           /\ form = "features" => TakesForm(t, form)
  BY <1>1, FormStays
<1>7. UNCHANGED <<clock, mapped, rows, sent>> /\ DOMAIN pages' = Tabs /\ DOMAIN forms' = Tabs
  BY <1>1 DEF world, SettingsIInv
<1> QED  BY <1>4, <1>5, <1>6, <1>7, QuietStep

(* The answer of the last attempt reaches its form, that of another nobody.   *)
LEMMA DeliverKeeps ==
  ASSUME SettingsIInv, NEW r \in 1..MaxRequests, Deliver(r) PROVE SettingsIInv'
<1> DEFINE q == requests[r]
           t == q.tab
           form == q.form
           old == forms[t][form]
           end == Ended(q)
<1>1. /\ q.at = "answered" /\ UNCHANGED <<world, rows, sent>>
      /\ requests' = [requests EXCEPT ![r] = end]
  BY DEF Deliver
<1>2. r \in 1..sent
  BY <1>1, SentRange
<1>3. /\ RequestShape(q) /\ t \in Tabs /\ form \in Forms
      /\ form # "features" => Fresh(q.new, q.result, settings)
  <2>1. r <= sent
    BY <1>2, BoundsAreNaturals DEF SettingsIInv, WorldOK
  <2> QED  BY <2>1 DEF SettingsIInv, RequestOK
<1>4. /\ DOMAIN requests' = 1..MaxRequests
      /\ \A s \in 1..MaxRequests :
              /\ RequestOK(s, requests'[s], settings, sent)
              /\ SameRequest(s) /\ requests'[s].wrote = requests[s].wrote /\ EndedStays(s)
              /\ TakesRequest(s) /\ TakesAnswer(s)
  <2>1. /\ end.at = "done" /\ end.reply = q.reply /\ end.operation = q.operation /\ end.tab = q.tab
        /\ end.form = q.form /\ end.wrote = q.wrote /\ RequestOK(r, end, settings, sent)
    BY <1>2, EndedIs
  <2> HIDE DEF end
  <2>2. ~InFlight(end) /\ (Spent(end) => Spent(q))
    BY <2>1 DEF InFlight, Spent
  <2> QED  BY <1>1, <1>2, <2>1, <2>2, RequestMoves
<1>5. requests'[r].at = "done" /\ requests'[r].reply = q.reply
  <2>1. end.at = "done" /\ end.reply = q.reply
    BY <1>2, EndedIs
  <2> QED  BY <1>1, <2>1 DEF SettingsIInv
<1>6. UNCHANGED <<clock, mapped, rows, sent>> /\ preferences' = preferences /\ clock \in Nat /\ sent \in Nat
  BY <1>1, BoundsAreNaturals DEF world, rows, SettingsIInv, WorldOK
<1>7. FormOK(old, form, settings, sent, clock) /\ FormShape(old)
  BY <1>3 DEF SettingsIInv, FormOK
<1>8. DOMAIN forms = Tabs /\ DOMAIN pages = Tabs /\ \A u \in Tabs : DOMAIN forms[u] = Forms
  BY DEF SettingsIInv
<1>9. ASSUME NEW new, forms' = [forms EXCEPT ![t][form] = new],
             DOMAIN pages' = Tabs, \A u \in Tabs : PageOK(pages'[u], settings) /\ TakesPage(u),
             FormOK(new, form, settings, sent, clock),
             new.phase \in Open => /\ old.phase \in Open /\ new.operation = old.operation
                                   /\ new.frozen = old.frozen /\ new.revision = old.revision,
             new.phase \in {"saved", "error"} =>
               new.attempt = r /\ q.reply = IF new.phase = "saved" THEN "ok" ELSE new.error,
             form = "features" => /\ new.since = clock
                                  /\ \/ new.revision = old.revision /\ old.since <= clock
                                     \/ r \in Telling /\ new.revision = q.new
      PROVE  SettingsIInv'
  <2>1. /\ DOMAIN forms' = Tabs /\ \A u \in Tabs : DOMAIN forms'[u] = Forms
        /\ \A u \in Tabs, other \in Forms : u # t \/ other # form => forms'[u][other] = forms[u][other]
        /\ forms'[t][form] = new
    BY <1>3, <1>8, <1>9
  <2>2. SameForm(t, form) /\ SameOutcome(t, form) /\ (form = "features" => TakesForm(t, form))
    <3>1. SameForm(t, form)
      BY <1>9, <2>1 DEF SameForm
    <3>2. SameOutcome(t, form)
      BY <1>5, <1>9, <2>1 DEF SameOutcome, Outcome
    <3>3. form = "features" => TakesForm(t, form)
      <4>1. CASE new.revision = old.revision /\ old.since <= clock
        BY <1>6, <1>7, <1>9, <2>1, <4>1 DEF TakesForm, FormShape
      <4>2. CASE r \in Telling /\ new.revision = q.new
        BY <1>9, <2>1, <4>2 DEF TakesForm
      <4> QED  BY <1>9, <4>1, <4>2
    <3> QED  BY <3>1, <3>2, <3>3
  <2>3. \A u \in Tabs, other \in Forms :
           /\ FormOK(forms'[u][other], other, settings, sent, clock)
           /\ SameForm(u, other) /\ SameOutcome(u, other)
           /\ other = "features" => TakesForm(u, other)
    <3> SUFFICES ASSUME NEW u \in Tabs, NEW other \in Forms
                 PROVE  /\ FormOK(forms'[u][other], other, settings, sent, clock)
                        /\ SameForm(u, other) /\ SameOutcome(u, other)
                        /\ other = "features" => TakesForm(u, other)
      OBVIOUS
    <3>1. CASE u = t /\ other = form
      BY <1>9, <2>1, <2>2, <3>1
    <3>2. CASE u # t \/ other # form
      <4>1. forms'[u][other] = forms[u][other]
        BY <2>1, <3>2
      <4> QED  BY <4>1, FormStays
    <3> QED  BY <3>1, <3>2
  <2> QED  BY <1>4, <1>6, <1>9, <2>1, <2>3, QuietStep
<1>10. \A u \in Tabs : UNCHANGED pages => PageOK(pages'[u], settings) /\ TakesPage(u)
  BY PageStays
<1>11. Awaited(r) => old.attempt = r
  BY DEF Awaited
<1>12. CASE ~Awaited(r)
  <2>1. UNCHANGED <<forms, pages>>
    BY <1>12 DEF Deliver
  <2>2. \A u \in Tabs, other \in Forms :
           /\ FormOK(forms'[u][other], other, settings, sent, clock)
           /\ SameForm(u, other) /\ SameOutcome(u, other)
           /\ other = "features" => TakesForm(u, other)
    BY <2>1, FormStays
  <2> QED  BY <1>4, <1>6, <1>8, <1>10, <2>1, <2>2, QuietStep
<1>13. CASE Awaited(r) /\ q.reply \in {"nothing", "unnamed"}
  <2>1. Unknown(t, form) /\ UNCHANGED pages
    BY <1>13 DEF Deliver
  <2>2. old.phase \in Open
    <3>1. r >= 1
      BY <1>2
    <3>2. old.phase # "idle"
      BY <1>7, <1>11, <1>13, <3>1 DEF FormOK
    <3>3. old.phase \notin {"saved", "error"}
      BY <1>1, <1>3, <1>11, <1>13 DEF SettingsIInv, SettledByLastAttempt
    <3> QED  BY <1>7, <3>2, <3>3 DEF FormShape, Open
  <2> DEFINE new == [old EXCEPT !.phase = "unknown", !.since = clock]
  <2>3. forms' = [forms EXCEPT ![t][form] = new]
    BY <2>1 DEF Unknown
  <2>4. forms'[t][form] = new
    BY <1>3, <1>8, <2>3
  <2>5. FormOK(new, form, settings, sent, clock)
    BY <1>3, <2>1, <2>2, <2>4, UnknownKeeps
  <2>6. /\ new.phase = "unknown" /\ new.since = clock /\ new.operation = old.operation
        /\ new.frozen = old.frozen /\ new.revision = old.revision /\ old.since <= clock
    BY <1>7 DEF FormShape, FormOK
  <2> HIDE DEF new
  <2> QED  BY <1>8, <1>9, <1>10, <2>1, <2>2, <2>3, <2>5, <2>6
<1>14. CASE Awaited(r) /\ q.reply = "ok"
  <2> DEFINE new == [old EXCEPT !.phase = "saved", !.since = clock, !.frozen = Nothing,
                                !.revision = q.new, !.seen = q.result]
             page == [pages[t] EXCEPT !.due = TRUE]
  <2>1. forms' = [forms EXCEPT ![t][form] = new] /\ pages' = [pages EXCEPT ![t] = page]
    BY <1>14 DEF Deliver
  <2>2. /\ new.phase = "saved" /\ new.since = clock /\ new.revision = q.new /\ new.seen = q.result
        /\ new.attempt = old.attempt /\ new.operation = old.operation
    BY <1>7 DEF FormShape
  <2>3. FormShape(new)
    <3>1. q.result \in Values
      BY <1>3 DEF RequestShape
    <3> QED  BY <1>6, <1>7, <3>1, ValuesAreTyped DEF FormShape
  <2> HIDE DEF new
  <2>4. old.attempt = r /\ r >= 1 /\ old.phase # "idle" /\ old.operation >= 1
    <3>1. old.attempt = r /\ r >= 1
      BY <1>2, <1>11, <1>14
    <3> QED  BY <1>7, <3>1 DEF FormOK
  <2>5. FormOK(new, form, settings, sent, clock)
    BY <1>3, <1>6, <1>7, <2>2, <2>3, <2>4 DEF FormOK
  <2>6. PageShape(pages[t]) /\ PageOK(pages[t], settings)
    BY <1>3 DEF SettingsIInv, PageOK
  <2>7. /\ PageShape(page) /\ page.at = pages[t].at /\ page.updatedAt = pages[t].updatedAt
        /\ page.read = pages[t].read /\ page.features = pages[t].features
    BY <2>6 DEF PageShape
  <2> HIDE DEF page
  <2>8. DOMAIN pages' = Tabs /\ pages'[t] = page /\ \A u \in Tabs \ {t} : pages'[u] = pages[u]
    BY <1>3, <1>8, <2>1
  <2>9. \A u \in Tabs : PageOK(pages'[u], settings) /\ TakesPage(u)
    <3>1. PageOK(pages'[t], settings) /\ TakesPage(t)
      BY <2>6, <2>7, <2>8 DEF PageOK, TakesPage
    <3> QED  BY <2>8, <3>1, PageStays
  <2>10. form = "features" => r \in Telling
    BY <1>1, <1>14 DEF Telling
  <2>11. new.phase \notin Open
    BY <2>2 DEF Open
  <2> QED  BY <1>9, <1>14, <2>1, <2>2, <2>4, <2>5, <2>8, <2>9, <2>10, <2>11
<1>15. CASE Awaited(r) /\ q.reply \notin {"nothing", "unnamed", "ok"}
  <2> DEFINE new == [old EXCEPT !.phase = "error", !.since = clock, !.frozen = Nothing, !.error = q.reply]
  <2>1. forms' = [forms EXCEPT ![t][form] = new] /\ UNCHANGED pages
    BY <1>15 DEF Deliver
  <2>2. /\ new.phase = "error" /\ new.since = clock /\ new.revision = old.revision /\ new.seen = old.seen
        /\ new.attempt = old.attempt /\ new.operation = old.operation /\ new.error = q.reply
        /\ old.since <= clock
    BY <1>7 DEF FormShape, FormOK
  <2>3. FormShape(new)
    BY <1>6, <1>7, ValuesAreTyped DEF FormShape
  <2> HIDE DEF new
  <2>4. old.attempt = r /\ r >= 1 /\ old.phase # "idle" /\ old.operation >= 1
    <3>1. old.attempt = r /\ r >= 1
      BY <1>2, <1>11, <1>15
    <3> QED  BY <1>7, <3>1 DEF FormOK
  <2>5. FormOK(new, form, settings, sent, clock)
    <3>1. /\ new.attempt <= sent /\ new.operation <= new.attempt /\ new.since <= clock
          /\ new.attempt >= 1 /\ new.operation >= 1 /\ new.phase # "idle"
      <4>1. old.attempt <= sent /\ old.operation <= old.attempt /\ clock \in Nat
        BY <1>7, BoundsAreNaturals DEF FormOK, SettingsIInv, WorldOK
      <4> QED  BY <2>2, <2>4, <4>1
    <3>2. form # "features" => Fresh(new.revision, new.seen, settings)
      BY <1>7, <2>2 DEF FormOK
    <3> QED  BY <2>3, <3>1, <3>2 DEF FormOK
  <2>6. new.phase \notin Open
    BY <2>2 DEF Open
  <2> QED  BY <1>8, <1>9, <1>10, <2>1, <2>2, <2>4, <2>5, <2>6
<1> QED  BY <1>12, <1>13, <1>14, <1>15

(* An operation is sent: a new one, or again one whose outcome is unknown.    *)
LEMMA SendKeeps ==
  ASSUME SettingsIInv, NEW t \in Tabs, NEW form \in Forms, NEW held, NEW large \in BOOLEAN,
         Send(t, form, held, large), UNCHANGED <<world, rows, pages>>, sent < MaxRequests,
         FormShape(held), held.since < clock,
         held.revision = forms[t][form].revision, held.seen = forms[t][form].seen,
         held.since = forms[t][form].since,
         \/ held.operation = sent + 1
         \/ held = forms[t][form] /\ forms[t][form].phase = "unknown"
  PROVE  SettingsIInv'
<1> DEFINE old == forms[t][form]
           id == sent + 1
           q == [requests[id] EXCEPT !.at = "sent", !.tab = t, !.form = form,
                   !.operation = held.operation, !.value = held.frozen, !.large = large,
                   !.revision = held.revision, !.seen = held.seen]
           new == [held EXCEPT !.phase = "saving", !.error = "none", !.attempt = id, !.since = clock]
           again == held = old /\ old.phase = "unknown"
<1>1. /\ sent' = id /\ requests' = [requests EXCEPT ![id] = q]
      /\ forms' = [forms EXCEPT ![t][form] = new]
  BY DEF Send
<1>2. /\ sent \in Nat /\ id \in 1..MaxRequests /\ id > sent /\ clock \in Nat /\ id \in Nat /\ id \notin 1..sent
      /\ MaxRequests \in Nat
  BY BoundsAreNaturals DEF SettingsIInv, WorldOK
<1>3. requests[id] = Request
  BY <1>2 DEF SettingsIInv, RequestOK
<1>4. /\ q.at = "sent" /\ q.tab = t /\ q.form = form /\ q.operation = held.operation /\ q.value = held.frozen
      /\ q.revision = held.revision /\ q.seen = held.seen /\ q.reply = "none" /\ q.wrote = FALSE /\ q.new = <<>>
  BY <1>3 DEF Request
<1>5. RequestShape(q)
  <2>1. held.operation \in Nat /\ held.frozen \in Values /\ held.seen \in Values
    BY DEF FormShape
  <2>2. q = [at |-> "sent", tab |-> t, form |-> form, operation |-> held.operation, large |-> large,
             value |-> held.frozen, revision |-> held.revision, seen |-> held.seen,
             reply |-> "none", wrote |-> FALSE, new |-> <<>>, result |-> Nothing]
    <3>1. q = [Request EXCEPT !.at = "sent", !.tab = t, !.form = form,
                 !.operation = held.operation, !.value = held.frozen, !.large = large,
                 !.revision = held.revision, !.seen = held.seen]
      BY <1>3
    <3> HIDE DEF q
    <3> QED  BY <3>1 DEF Request
  <2> HIDE DEF q
  <2> QED  BY <2>1, <2>2, ValuesAreTyped DEF RequestShape
<1>6. /\ new.phase = "saving" /\ new.attempt = id /\ new.since = clock /\ new.operation = held.operation
      /\ new.revision = held.revision /\ new.seen = held.seen /\ new.frozen = held.frozen
  BY DEF FormShape
<1>7. FormShape(new)
  BY <1>2 DEF FormShape
<1> HIDE DEF q, new, id
<1>8. FormOK(old, form, settings, sent, clock) /\ FormShape(old)
  BY DEF SettingsIInv, FormOK
<1>9. UNCHANGED <<clock, mapped, settings, preferences, writer, pages>>
  BY DEF world, rows
<1>10. /\ DOMAIN requests' = 1..MaxRequests /\ requests'[id] = q
       /\ \A r \in 1..MaxRequests : r # id => requests'[r] = requests[r]
  BY <1>1, <1>2 DEF SettingsIInv
<1>11. /\ DOMAIN forms' = Tabs /\ \A u \in Tabs : DOMAIN forms'[u] = Forms
       /\ \A u \in Tabs, other \in Forms : u # t \/ other # form => forms'[u][other] = forms[u][other]
       /\ forms'[t][form] = new
  BY <1>1 DEF SettingsIInv
<1>12. held.operation \in 1..id /\ (again => held.operation \in 1..sent)
  <2>1. ASSUME again PROVE held.operation \in 1..sent
    <3>1. old.operation >= 1 /\ old.operation <= old.attempt /\ old.attempt <= sent
          /\ old.operation \in Nat /\ old.attempt \in Nat
      BY <1>8, <2>1 DEF FormOK, FormShape
    <3> QED  BY <1>2, <2>1, <3>1
  <2>2. \A n \in 1..sent : n \in 1..id
    BY <1>2
  <2> QED  BY <1>2, <2>1, <2>2 DEF id
<1>13. \A s \in 1..sent : /\ s \in 1..MaxRequests /\ s # id /\ requests'[s] = requests[s]
                          /\ requests[s].operation \in 1..s /\ requests[s].operation # id
  <2> SUFFICES ASSUME NEW s \in 1..sent
               PROVE  /\ s \in 1..MaxRequests /\ s # id /\ requests'[s] = requests[s]
                      /\ requests[s].operation \in 1..s /\ requests[s].operation # id
    OBVIOUS
  <2>1. s \in 1..MaxRequests /\ s # id
    BY <1>2 DEF id
  <2>2. requests[s].operation \in 1..s
    BY <1>2, <2>1 DEF SettingsIInv, RequestOK
  <2> QED  BY <1>2, <1>10, <2>1, <2>2 DEF id
<1>14. \A r \in 1..id : r = id \/ r \in 1..sent
  BY <1>2 DEF id
<1>15. WorldOK'
  BY <1>1, <1>2, <1>9 DEF SettingsIInv, WorldOK, id
<1>16. \A u \in Tabs : PageOK(pages'[u], settings')
  BY <1>9 DEF SettingsIInv
<1>17. \A u \in Tabs, other \in Forms : FormOK(forms'[u][other], other, settings, id, clock)
  <2>1. FormOK(new, form, settings, id, clock)
    <3>1. held.operation >= 1 /\ held.operation <= id /\ id >= 1
      BY <1>2, <1>12
    <3> QED  BY <1>2, <1>6, <1>7, <1>8, <3>1 DEF FormOK
  <2>2. ASSUME NEW u \in Tabs, NEW other \in Forms PROVE FormOK(forms[u][other], other, settings, id, clock)
    <3>1. FormOK(forms[u][other], other, settings, sent, clock) /\ forms[u][other].attempt \in Nat
      BY DEF SettingsIInv, FormOK, FormShape
    <3>2. forms[u][other].attempt <= id
      BY <1>2, <3>1 DEF FormOK, id
    <3> QED  BY <3>1, <3>2 DEF FormOK
  <2> QED  BY <1>11, <2>1, <2>2
<1>18. \A r \in 1..MaxRequests : RequestOK(r, requests'[r], settings, id)
  <2>1. RequestOK(id, q, settings, id)
    BY <1>2, <1>4, <1>5, <1>8, <1>12 DEF RequestOK, FormOK, Fresh
  <2>2. ASSUME NEW r \in 1..MaxRequests, r # id PROVE RequestOK(r, requests[r], settings, id)
    <3>1. RequestOK(r, requests[r], settings, sent)
      BY DEF SettingsIInv
    <3>2. (r > id => r > sent) /\ (r <= id => r <= sent)
      BY <1>2, <2>2 DEF id
    <3> QED  BY <3>1, <3>2 DEF RequestOK
  <2> QED  BY <1>10, <2>1, <2>2
<1>19. OperationsOK'
  <2>1. ASSUME NEW s \in 1..sent PROVE SameIntent(q, requests[s]) /\ SameIntent(requests[s], q)
    <3>1. CASE held.operation = id
      BY <1>4, <1>13, <3>1 DEF SameIntent
    <3>2. CASE again
      <4>1. IntentOf(old, t, form, requests[s])
        BY <3>2 DEF SettingsIInv, OperationsOK, Open
      <4> QED  BY <1>4, <3>2, <4>1 DEF IntentOf, SameIntent
    <3> QED  BY <3>1, <3>2 DEF id
  <2>2. SameIntent(q, q)
    BY DEF SameIntent
  <2>3. \A r, s \in 1..id : SameIntent(requests'[r], requests'[s])
    <3>1. \A r, s \in 1..sent : SameIntent(requests[r], requests[s])
      BY DEF SettingsIInv, OperationsOK
    <3> QED  BY <1>10, <1>13, <1>14, <2>1, <2>2, <3>1
  <2>4. ASSUME NEW u \in Tabs, NEW other \in Forms, forms'[u][other].phase \in Open
        PROVE  /\ requests'[forms'[u][other].operation].operation = forms'[u][other].operation
               /\ \A r \in 1..id : IntentOf(forms'[u][other], u, other, requests'[r])
    <3>1. CASE u = t /\ other = form
      <4>1. forms'[u][other] = new
        BY <1>11, <3>1
      <4>2. requests'[held.operation].operation = held.operation
        <5>1. CASE held.operation = id
          BY <1>4, <1>10, <5>1
        <5>2. CASE again
          <6>1. requests[held.operation].operation = held.operation
            BY <5>2 DEF SettingsIInv, OperationsOK, Open
          <6> QED  BY <1>12, <1>13, <5>2, <6>1
        <5> QED  BY <5>1, <5>2 DEF id
      <4>3. IntentOf(new, t, form, q)
        BY <1>4, <1>6 DEF IntentOf
      <4>4. ASSUME NEW s \in 1..sent PROVE IntentOf(new, t, form, requests[s])
        <5>1. CASE held.operation = id
          BY <1>6, <1>13, <5>1 DEF IntentOf
        <5>2. CASE again
          <6>1. IntentOf(old, t, form, requests[s])
            BY <5>2 DEF SettingsIInv, OperationsOK, Open
          <6> QED  BY <1>6, <5>2, <6>1 DEF IntentOf
        <5> QED  BY <5>1, <5>2 DEF id
      <4> QED  BY <1>6, <1>10, <1>13, <1>14, <3>1, <4>1, <4>2, <4>3, <4>4
    <3>2. CASE u # t \/ other # form
      <4> DEFINE g == forms[u][other]
      <4>1. forms'[u][other] = g /\ g.phase \in Open
        BY <1>11, <2>4, <3>2
      <4>2. g.operation \in 1..sent
        <5>1. FormOK(g, other, settings, sent, clock)
          BY DEF SettingsIInv
        <5>2. /\ g.operation >= 1 /\ g.operation <= g.attempt /\ g.attempt <= sent
              /\ g.operation \in Nat /\ g.attempt \in Nat
          BY <4>1, <5>1 DEF FormOK, FormShape, Open
        <5> QED  BY <1>2, <5>2
      <4>3. requests[g.operation].operation = g.operation /\ \A s \in 1..sent : IntentOf(g, u, other, requests[s])
        BY <4>1 DEF SettingsIInv, OperationsOK
      <4> HIDE DEF g
      <4>4. q.operation # g.operation
        <5>1. CASE held.operation = id
          BY <1>2, <1>4, <4>2, <5>1
        <5>2. CASE again
          <6>1. /\ requests[old.operation].operation = old.operation
                /\ \A s \in 1..sent : IntentOf(old, t, form, requests[s])
            BY <5>2 DEF SettingsIInv, OperationsOK, Open
          <6>2. requests[old.operation].tab = t /\ requests[old.operation].form = form
            BY <1>12, <5>2, <6>1 DEF IntentOf
          <6>3. requests[g.operation].tab = u /\ requests[g.operation].form = other
            BY <4>2, <4>3 DEF IntentOf
          <6> QED  BY <1>4, <3>2, <5>2, <6>2, <6>3
        <5> QED  BY <5>1, <5>2 DEF id
      <4>5. IntentOf(g, u, other, q)
        BY <4>4 DEF IntentOf
      <4> QED  BY <1>10, <1>13, <1>14, <4>1, <4>2, <4>3, <4>5
    <3> QED  BY <3>1, <3>2
  <2> QED  BY <1>1, <2>3, <2>4 DEF OperationsOK
<1>20. InFlight(q) /\ ~Spent(q)
  BY <1>4 DEF InFlight, Spent
<1>21. OnceOK'
  <2> SUFFICES ASSUME NEW s \in 1..id, Spent(requests'[s])
               PROVE  /\ \A r \in 1..id : InFlight(requests'[r]) /\ requests'[r].operation = requests'[s].operation =>
                           Gone(requests'[r].form, requests'[r].revision, settings, preferences)
                      /\ \A u \in Tabs, other \in Forms :
                           forms'[u][other].phase \in Open /\ forms'[u][other].operation = requests'[s].operation =>
                             Gone(other, forms'[u][other].revision, settings, preferences)
    BY <1>1, <1>9 DEF OnceOK
  <2>1. s \in 1..sent /\ Spent(requests[s]) /\ requests'[s] = requests[s]
    BY <1>10, <1>13, <1>14, <1>20
  <2>2. /\ \A r \in 1..sent : InFlight(requests[r]) /\ requests[r].operation = requests[s].operation =>
              Gone(requests[r].form, requests[r].revision, settings, preferences)
        /\ \A u \in Tabs, other \in Forms :
              forms[u][other].phase \in Open /\ forms[u][other].operation = requests[s].operation =>
                Gone(other, forms[u][other].revision, settings, preferences)
    BY <2>1 DEF SettingsIInv, OnceOK
  <2>3. held.operation = requests[s].operation => Gone(form, held.revision, settings, preferences)
    <3>1. CASE held.operation = id
      BY <1>13, <2>1, <3>1
    <3>2. CASE again
      BY <2>2, <3>2 DEF Open
    <3> QED  BY <3>1, <3>2 DEF id
  <2>4. ASSUME NEW r \in 1..id, InFlight(requests'[r]), requests'[r].operation = requests'[s].operation
        PROVE  Gone(requests'[r].form, requests'[r].revision, settings, preferences)
    <3>1. CASE r = id
      BY <1>4, <1>10, <2>1, <2>3, <2>4, <3>1
    <3>2. CASE r \in 1..sent
      BY <1>13, <2>1, <2>2, <2>4, <3>2
    <3> QED  BY <1>14, <3>1, <3>2
  <2>5. ASSUME NEW u \in Tabs, NEW other \in Forms,
               forms'[u][other].phase \in Open, forms'[u][other].operation = requests'[s].operation
        PROVE  Gone(other, forms'[u][other].revision, settings, preferences)
    <3>1. CASE u = t /\ other = form
      BY <1>6, <1>11, <2>1, <2>3, <2>5, <3>1
    <3>2. CASE u # t \/ other # form
      <4>1. forms'[u][other] = forms[u][other]
        BY <1>11, <3>2
      <4> QED  BY <2>1, <2>2, <2>5, <4>1
    <3> QED  BY <3>1, <3>2
  <2> QED  BY <2>4, <2>5
<1>22. WriterOK'
  <2> SUFFICES ASSUME writer # 0
               PROVE  /\ \A r \in 1..id : InFlight(requests'[r]) /\ requests'[r].operation = writer
                           /\ requests'[r].form = "features" => Done(requests'[r].value, preferences)
                      /\ \A u \in Tabs, other \in Forms :
                           forms'[u][other].phase \in Open /\ forms'[u][other].operation = writer
                           /\ other = "features" => Done(forms'[u][other].frozen, preferences)
    BY <1>1, <1>9 DEF WriterOK
  <2>1. /\ \A r \in 1..sent : InFlight(requests[r]) /\ requests[r].operation = writer
              /\ requests[r].form = "features" => Done(requests[r].value, preferences)
        /\ \A u \in Tabs, other \in Forms :
              forms[u][other].phase \in Open /\ forms[u][other].operation = writer
              /\ other = "features" => Done(forms[u][other].frozen, preferences)
    BY DEF SettingsIInv, WriterOK
  <2>2. held.operation = writer /\ form = "features" => Done(held.frozen, preferences)
    <3>1. CASE held.operation = id
      BY <1>2, <3>1 DEF SettingsIInv, WorldOK, id
    <3>2. CASE again
      BY <2>1, <3>2 DEF Open
    <3> QED  BY <3>1, <3>2 DEF id
  <2>3. ASSUME NEW r \in 1..id, InFlight(requests'[r]), requests'[r].operation = writer, requests'[r].form = "features"
        PROVE  Done(requests'[r].value, preferences)
    <3>1. CASE r = id
      BY <1>4, <1>10, <2>2, <2>3, <3>1
    <3>2. CASE r \in 1..sent
      BY <1>13, <2>1, <2>3, <3>2
    <3> QED  BY <1>14, <3>1, <3>2
  <2>4. ASSUME NEW u \in Tabs, NEW other \in Forms,
               forms'[u][other].phase \in Open, forms'[u][other].operation = writer, other = "features"
        PROVE  Done(forms'[u][other].frozen, preferences)
    <3>1. CASE u = t /\ other = form
      BY <1>6, <1>11, <2>2, <2>4, <3>1
    <3>2. CASE u # t \/ other # form
      <4>1. forms'[u][other] = forms[u][other]
        BY <1>11, <3>2
      <4> QED  BY <2>1, <2>4, <4>1
    <3> QED  BY <3>1, <3>2
  <2> QED  BY <2>3, <2>4
<1>23. CountOK'
  <2>1. requests[id].wrote = FALSE
    BY <1>3 DEF Request
  <2>2. Writers' = Writers
    BY <1>4, <1>10, <2>1 DEF Writers
  <2> QED  BY <1>9, <2>2 DEF SettingsIInv, CountOK
<1>24. SettledByLastAttempt'
  <2>1. \A r \in 1..MaxRequests : EndedStays(r)
    BY <1>3, <1>10 DEF EndedStays, Request
  <2>2. \A u \in Tabs, other \in Forms : SameOutcome(u, other)
    BY <1>6, <1>11 DEF SameOutcome
  <2> QED  BY <2>1, <2>2, SettledStays
<1>25. AllDated(Holders, preferences, clock)'
  <2>1. \A u \in Tabs : TakesPage(u)
    BY <1>9, PageStays
  <2>2. ASSUME NEW u \in Tabs, NEW other \in Forms \cap {"features"} PROVE TakesForm(u, other)
    <3>1. CASE u = t /\ other = form
      <4>1. old.since \in Nat /\ old.since < clock
        BY <1>8 DEF FormShape
      <4> QED  BY <1>2, <1>6, <1>11, <3>1, <4>1 DEF TakesForm
    <3>2. CASE u # t \/ other # form
      <4>1. forms'[u][other] = forms[u][other]
        BY <1>11, <3>2
      <4> QED  BY <4>1, FormStays
    <3> QED  BY <3>1, <3>2
  <2>3. ASSUME NEW r \in 1..MaxRequests PROVE TakesRequest(r) /\ TakesAnswer(r)
    <3>1. CASE r = id
      BY <1>4, <1>10, <3>1 DEF TakesRequest, TakesAnswer
    <3>2. CASE r # id
      BY <1>10, <3>2, RequestStays
    <3> QED  BY <3>1, <3>2
  <2>4. preferences \in Preferred
    BY DEF SettingsIInv, WorldOK
  <2> QED  BY <1>2, <1>9, <2>1, <2>2, <2>3, <2>4, DatesStay DEF Takes
<1> QED
  BY <1>1, <1>9, <1>10, <1>11, <1>15, <1>16, <1>17, <1>18, <1>19, <1>21, <1>22, <1>23, <1>24, <1>25 DEF SettingsIInv

LEMMA FormsSend ==
  ASSUME SettingsIInv, NEW t \in Tabs, NEW form \in Forms, Submit(t, form) \/ Reconcile(t, form)
  PROVE  SettingsIInv'
<1> DEFINE old == forms[t][form]
<1>1. FormOK(old, form, settings, sent, clock) /\ FormShape(old) /\ sent \in Nat /\ clock \in Nat
  BY BoundsAreNaturals DEF SettingsIInv, FormOK, WorldOK
<1>2. CASE Submit(t, form)
  <2>1. PICK value \in Inputs(form, old.value), large \in {l \in BOOLEAN : l => form \in LargeForms} :
          Send(t, form, [old EXCEPT !.operation = sent + 1, !.value = value, !.frozen = value,
                           !.known = @ \cup Toggled(old.value, value)], large)
    BY <1>2 DEF Submit
  <2> DEFINE known == old.known \cup Toggled(old.value, value)
             held == [old EXCEPT !.operation = sent + 1, !.value = value, !.frozen = value, !.known = known]
  <2>2. large \in BOOLEAN
    OBVIOUS
  <2>3. old.value \in Values /\ old.known \in SUBSET Features
    BY <1>1 DEF FormShape
  <2>4. value \in Values
    <3> DEFINE v == old.value
    <3>1. v \in Values /\ value \in Inputs(form, v)
      BY <2>1, <2>3
    <3> HIDE DEF v
    <3>2. CASE form = "recovery"
      <4>1. PICK p \in {"NONE", "FIXED"} \X SUBSET Discounts : value = [v EXCEPT !.mode = p[1], !.selection = p[2]]
        BY <3>1, <3>2 DEF Inputs
      <4> QED  BY <3>1, <4>1 DEF Values
    <3>3. CASE form = "ai-response-delay"
      BY <3>1, <3>3 DEF Inputs, Values
    <3>4. CASE form = "features"
      <4>1. PICK f \in v.shown : value = [v EXCEPT !.enabled = (@ \ {f}) \cup ({f} \ @)]
        BY <3>1, <3>4 DEF Inputs
      <4>2. f \in Features
        BY <3>1, <4>1 DEF Values
      <4> QED  BY <3>1, <4>1, <4>2 DEF Values
    <3> QED  BY <3>2, <3>3, <3>4, FormsAreForms
  <2>5. known \in SUBSET Features
    BY <2>3, <2>4 DEF Toggled, Values
  <2>6. Send(t, form, held, large)
    BY <2>1
  <2> HIDE DEF known
  <2>7. FormShape(held)
    <3> DEFINE id == sent + 1
    <3>1. id \in Nat /\ held = [old EXCEPT !.operation = id, !.value = value, !.frozen = value, !.known = known]
      BY <1>1
    <3> HIDE DEF id, held
    <3> QED  BY <1>1, <2>4, <2>5, <3>1 DEF FormShape
  <2>8. held.operation = sent + 1 /\ held.revision = old.revision /\ held.seen = old.seen /\ held.since = old.since
    BY <1>1 DEF FormShape
  <2> HIDE DEF held
  <2>9. old.since < clock /\ sent < MaxRequests /\ UNCHANGED <<world, rows, pages>>
    BY <1>1, <1>2 DEF Submit, FormShape
  <2> QED  BY <2>2, <2>6, <2>7, <2>8, <2>9, SendKeeps
<1>3. CASE Reconcile(t, form)
  <2> DEFINE large == requests[old.operation].large
  <2>1. /\ Send(t, form, old, large) /\ old.phase = "unknown"
        /\ sent < MaxRequests /\ UNCHANGED <<world, rows, pages>>
    BY <1>3 DEF Reconcile
  <2>2. old.since < clock
    BY <1>1, <1>3 DEF Reconcile, FormShape
  <2>3. large \in BOOLEAN
    <3>1. old.operation \in 1..MaxRequests
      BY <1>1, <2>1, BoundsAreNaturals DEF FormOK, FormShape, SettingsIInv, WorldOK
    <3> QED  BY <3>1 DEF SettingsIInv, RequestOK, RequestShape
  <2> HIDE DEF large
  <2> QED  BY <1>1, <2>1, <2>2, <2>3, SendKeeps
<1> QED  BY <1>2, <1>3

-----------------------------------------------------------------------------
(* What a save starts from.                                                   *)
LEMMA SaveIs ==
  ASSUME SettingsIInv, NEW r \in 1..MaxRequests, requests[r].at = "authorized"
  PROVE  LET q == requests[r] IN
         /\ r \in 1..sent /\ q.at = "authorized" /\ InFlight(q) /\ ~q.wrote
         /\ q.tab \in Tabs /\ q.form \in Forms /\ q.operation \in 1..r /\ q.value \in Values
         /\ q.form # "features" => Fresh(q.revision, q.seen, settings)
         /\ \A s \in 1..sent : InFlight(requests[s]) /\ requests[s].operation = q.operation =>
              requests[s].form = q.form /\ requests[s].value = q.value /\ requests[s].revision = q.revision
         /\ \A t \in Tabs, form \in Forms : forms[t][form].phase \in Open /\ forms[t][form].operation = q.operation =>
              form = q.form /\ forms[t][form].frozen = q.value /\ forms[t][form].revision = q.revision
<1> DEFINE q == requests[r]
<1>1. q.at = "authorized" /\ InFlight(q)
  BY DEF InFlight
<1>2. r \in 1..sent /\ r <= sent
  <2>1. r \in 1..sent
    BY <1>1, SentRange
  <2> QED  BY <2>1, BoundsAreNaturals DEF SettingsIInv, WorldOK
<1>3. RequestOK(r, q, settings, sent)
  BY DEF SettingsIInv
<1>4. /\ ~q.wrote /\ q.tab \in Tabs /\ q.form \in Forms /\ q.operation \in 1..r /\ q.value \in Values
      /\ q.form # "features" => Fresh(q.revision, q.seen, settings)
  BY <1>1, <1>2, <1>3 DEF RequestOK, RequestShape
<1>6. ASSUME NEW s \in 1..sent, InFlight(requests[s]), requests[s].operation = q.operation
      PROVE  requests[s].form = q.form /\ requests[s].value = q.value /\ requests[s].revision = q.revision
  <2>1. SameIntent(requests[s], requests[r])
    BY <1>2 DEF SettingsIInv, OperationsOK
  <2> QED  BY <1>1, <1>6, <2>1 DEF SameIntent
<1>7. ASSUME NEW t \in Tabs, NEW form \in Forms, forms[t][form].phase \in Open, forms[t][form].operation = q.operation
      PROVE  form = q.form /\ forms[t][form].frozen = q.value /\ forms[t][form].revision = q.revision
  <2>1. IntentOf(forms[t][form], t, form, requests[r])
    BY <1>2, <1>7 DEF SettingsIInv, OperationsOK
  <2> QED  BY <1>1, <1>7, <2>1 DEF IntentOf
<1> QED  BY <1>1, <1>2, <1>4, <1>6, <1>7

Elsewhere == UNCHANGED <<clock, mapped, sent, pages, forms>>

Refused(r, reply) ==
  LET q == requests[r]
  IN /\ q.at = "authorized" /\ reply # "ok"
     /\ requests' = [requests EXCEPT ![r] = Answered(q, reply)]
     /\ Elsewhere /\ UNCHANGED <<settings, preferences, writer>>
     /\ q.form # "features" /\ reply = "CONFLICT" => q.revision # <<settings.updatedAt>>

(* A save that is refused: it may be told of a conflict, which spends its     *)
(* operation.                                                                 *)
LEMMA SaveRefused ==
  ASSUME SettingsIInv, NEW r \in 1..MaxRequests, NEW reply, Refused(r, reply) PROVE SettingsIInv'
<1> DEFINE q == requests[r]
           a == Answered(q, reply)
<1>1. /\ r \in 1..sent /\ q.at = "authorized" /\ InFlight(q) /\ ~q.wrote /\ q.form \in Forms
      /\ q.form # "features" => Fresh(q.revision, q.seen, settings)
      /\ \A s \in 1..sent : InFlight(requests[s]) /\ requests[s].operation = q.operation =>
           requests[s].form = q.form /\ requests[s].value = q.value /\ requests[s].revision = q.revision
      /\ \A t \in Tabs, form \in Forms : forms[t][form].phase \in Open /\ forms[t][form].operation = q.operation =>
           form = q.form /\ forms[t][form].frozen = q.value /\ forms[t][form].revision = q.revision
      /\ UNCHANGED <<clock, mapped, sent, pages, forms>>
  BY SaveIs DEF Refused, Elsewhere
<1>2. requests' = [requests EXCEPT ![r] = a] /\ UNCHANGED <<settings, preferences, writer>> /\ reply # "ok"
  BY DEF Refused
<1>3. /\ a.at = "answered" /\ a.reply = reply /\ a.operation = q.operation /\ a.tab = q.tab
      /\ a.form = q.form /\ a.wrote = q.wrote /\ RequestOK(r, a, settings, sent)
  <2>1. a = Answered(requests[r], reply) /\ r \in 1..sent
    BY <1>1
  <2> HIDE DEF a
  <2> QED  BY <2>1, AnsweredIs
<1> HIDE DEF a
<1>4. ~InFlight(a) /\ a.reply # "ok"
  BY <1>2, <1>3 DEF InFlight
<1>5. /\ DOMAIN requests' = 1..MaxRequests /\ requests'[r] = a
      /\ \A s \in 1..MaxRequests \ {r} : requests'[s] = requests[s]
      /\ \A s \in 1..MaxRequests : /\ SamePurpose(s) /\ EndedStays(s)
                                   /\ TakesRequest(s) /\ TakesAnswer(s)
  BY <1>1, <1>2, <1>3, <1>4, RequestTurns
<1>6. \A s \in 1..sent : s \in 1..MaxRequests
  BY BoundsAreNaturals DEF SettingsIInv, WorldOK
<1>7. \A t \in Tabs, form \in Forms : SameForm(t, form) /\ SameOutcome(t, form) /\ TakesForm(t, form)
  BY <1>1, FormStays
<1>8. OperationsOK'
  BY <1>1, <1>5, <1>6, <1>7, OperationsKept
<1>9. q.form # "features" /\ reply = "CONFLICT" => Past(q.revision, settings)
  <2> SUFFICES ASSUME q.form # "features", reply = "CONFLICT" PROVE Past(q.revision, settings)
    OBVIOUS
  <2>1. q.revision # <<settings.updatedAt>>
    BY DEF Refused
  <2>2. Fresh(q.revision, q.seen, settings) /\ settings.updatedAt \in Nat
    BY <1>1 DEF SettingsIInv, WorldOK, Rows
  <2> QED  BY <2>1, <2>2 DEF Fresh, Past
<1>10. OnceOK'
  <2> SUFFICES ASSUME NEW s \in 1..sent, Spent(requests'[s])
               PROVE  /\ \A p \in 1..sent : InFlight(requests'[p]) /\ requests'[p].operation = requests'[s].operation =>
                           Gone(requests'[p].form, requests'[p].revision, settings, preferences)
                      /\ \A t \in Tabs, form \in Forms :
                           forms[t][form].phase \in Open /\ forms[t][form].operation = requests'[s].operation =>
                             Gone(form, forms[t][form].revision, settings, preferences)
    BY <1>1, <1>2 DEF OnceOK
  <2>1. requests'[s].operation = requests[s].operation
    BY <1>5, <1>6 DEF SamePurpose
  <2>2. \A p \in 1..sent : InFlight(requests'[p]) =>
          requests'[p] = requests[p] /\ InFlight(requests[p])
    BY <1>4, <1>5, <1>6
  <2>3. CASE Spent(requests[s])
    <3>1. /\ \A p \in 1..sent : InFlight(requests[p]) /\ requests[p].operation = requests[s].operation =>
                Gone(requests[p].form, requests[p].revision, settings, preferences)
          /\ \A t \in Tabs, form \in Forms :
                forms[t][form].phase \in Open /\ forms[t][form].operation = requests[s].operation =>
                  Gone(form, forms[t][form].revision, settings, preferences)
      BY <2>3 DEF SettingsIInv, OnceOK
    <3> QED  BY <2>1, <2>2, <3>1
  <2>4. CASE ~Spent(requests[s])
    <3>1. s = r
      BY <1>5, <1>6, <2>4
    <3>2. q.form # "features" /\ Past(q.revision, settings)
      BY <1>1, <1>3, <1>5, <1>9, <3>1 DEF Spent
    <3> QED  BY <1>1, <2>1, <2>2, <3>1, <3>2 DEF Gone
  <2> QED  BY <2>3, <2>4
<1>11. WriterOK'
  BY <1>1, <1>2, <1>4, <1>5, <1>6 DEF SettingsIInv, WriterOK
<1>12. \A s \in 1..MaxRequests : RequestOK(s, requests'[s], settings, sent) /\ requests'[s].wrote = requests[s].wrote
  <2>1. \A s \in 1..MaxRequests \ {r} : RequestOK(s, requests'[s], settings, sent)
    BY <1>5 DEF SettingsIInv
  <2> QED  BY <1>3, <1>5, <2>1
<1>13. CountOK'
  <2>1. Writers' = Writers
    BY <1>12 DEF Writers
  <2> QED  BY <1>2, <2>1 DEF SettingsIInv, CountOK
<1>14. SettledByLastAttempt'
  BY <1>5, <1>7, SettledStays
<1>15. AllDated(Holders, preferences, clock)'
  <2>1. Takes
    BY <1>1, <1>5, <1>7, PageStays DEF Takes
  <2>2. clock \in Nat
    BY BoundsAreNaturals DEF SettingsIInv, WorldOK
  <2> QED  BY <1>1, <1>2, <2>1, <2>2, DatesStay
<1>16. WorldOK'
  BY <1>1, <1>2 DEF SettingsIInv, WorldOK
<1> QED
  BY <1>1, <1>2, <1>5, <1>8, <1>10, <1>11, <1>12, <1>13, <1>14, <1>15, <1>16 DEF SettingsIInv

(* A save that is accepted, with its answer a, and what it writes at the      *)
(* instant now.                                                               *)
Told(r, a) ==
  LET q == requests[r]
  IN /\ q.at = "authorized" /\ Elsewhere
     /\ requests' = [requests EXCEPT ![r] = a]
     /\ a.at = "answered" /\ a.reply = "ok" /\ a.operation = q.operation
     /\ a.tab = q.tab /\ a.form = q.form /\ a.revision = <<>>
     /\ a.form = "features" => a.new = <<mapped, preferences'>>
     /\ a.result = Current'
     /\ Current' \in Values => RequestShape(a)

SavesPreferences(r, now, a) ==
  LET q == requests[r]
  IN /\ Told(r, a) /\ q.form = "features" /\ FeaturesReply(q.value, q.revision) = "ok"
     /\ settings' = settings /\ preferences' = PreferencesWith(q.value, now)
     /\ writer' = IF preferences' = preferences THEN writer ELSE q.operation
     /\ a.wrote = (preferences' # preferences)

SavesSettings(r, now, a) ==
  LET q == requests[r]
      same == Same(q.form, q.value)
  IN /\ lock.by = r /\ Told(r, a) /\ UNCHANGED <<preferences, writer>>
     /\ settings' = IF same THEN settings ELSE SettingsWith(q.form, q.value, now)
     /\ a.wrote = ~same
     /\ a.new = <<IF same THEN lock.row.updatedAt ELSE settings'.updatedAt>>

\* The answer b with what the save has to say.
Saying(b, wrote, new, result) == [b EXCEPT !.wrote = wrote, !.new = new, !.result = result]

Tells(r, b, wrote, new, result, a) ==
  /\ requests[r].at = "authorized" /\ Elsewhere /\ b = Answered(requests[r], "ok")
  /\ wrote \in BOOLEAN /\ result = Current'
  /\ requests[r].form = "features" => new = <<mapped, preferences'>>
  /\ a = Saying(b, wrote, new, result) /\ requests' = [requests EXCEPT ![r] = a]

LEMMA AnswerTells ==
  ASSUME SettingsIInv, NEW r \in 1..MaxRequests,
         NEW b, NEW wrote, NEW new, NEW result, NEW a, Tells(r, b, wrote, new, result, a)
  PROVE  Told(r, a) /\ a.wrote = wrote /\ a.new = new
<1> DEFINE q == requests[r]
<1>1. r \in 1..sent
  BY SaveIs DEF Tells
<1>2. /\ b.at = "answered" /\ b.reply = "ok" /\ b.operation = q.operation /\ b.tab = q.tab
      /\ b.form = q.form /\ b.revision = <<>> /\ RequestOK(r, b, settings, sent)
  BY <1>1, AnsweredIs DEF Tells
<1>3. RequestShape(b)
  BY <1>2 DEF RequestOK
<1>4. /\ a.at = "answered" /\ a.reply = "ok" /\ a.operation = q.operation /\ a.tab = q.tab
      /\ a.form = q.form /\ a.revision = <<>> /\ a.wrote = wrote /\ a.new = new /\ a.result = result
  BY <1>2, <1>3 DEF RequestShape, Saying, Tells
<1>5. result \in Values => RequestShape(a)
  BY <1>3 DEF RequestShape, Saying, Tells
<1> QED  BY <1>4, <1>5 DEF Told, Tells

LEMMA PreferencesSaid ==
  ASSUME SettingsIInv, NEW r \in 1..MaxRequests, SaveFeatures(r),
         FeaturesReply(requests[r].value, requests[r].revision) = "ok"
  PROVE  \E now \in Instants : \E a : SavesPreferences(r, now, a)
<1> DEFINE q == requests[r]
           wrote == preferences' # preferences
           new == Revision("features")'
           result == Current'
<1>1. q.at = "authorized" /\ q.form = "features" /\ Elsewhere /\ settings' = settings
  BY DEF SaveFeatures, Elsewhere, world
<1>2. PICK now \in Instants :
        /\ preferences' = PreferencesWith(q.value, now)
        /\ writer' = IF preferences' = preferences THEN writer ELSE q.operation
        /\ requests' = [requests EXCEPT ![r] = [Answered(@, "ok") EXCEPT
             !.wrote = wrote, !.new = new, !.result = result]]
  BY DEF SaveFeatures
<1>3. new = <<mapped, preferences'>> /\ wrote \in BOOLEAN /\ result = Current'
  BY <1>1 DEF Revision, Elsewhere
<1> HIDE DEF wrote, new, result
<1>4. PICK a, b, w, n, c :
        /\ b = Answered(requests[r], "ok") /\ w = wrote /\ n = new /\ c = result
        /\ a = Saying(b, w, n, c)
        /\ requests' = [requests EXCEPT ![r] = a]
  BY <1>2 DEF Saying
<1>5. Told(r, a) /\ a.wrote = w
  <2>1. Tells(r, b, w, n, c, a)
    BY <1>1, <1>3, <1>4 DEF Tells
  <2> QED  BY <2>1, AnswerTells
<1>6. SavesPreferences(r, now, a)
  BY <1>1, <1>2, <1>4, <1>5 DEF SavesPreferences, wrote
<1> QED  BY <1>6

LEMMA SettingsSaid ==
  ASSUME SettingsIInv, LockOK, NEW r \in 1..MaxRequests, Save(r)
  PROVE  \/ Refused(r, "INVALID_INPUT")
         \/ \E now \in Since : \E a : SavesSettings(r, now, a)
<1> DEFINE q == requests[r]
           same == Same(q.form, q.value)
<1>1. lock.by = r /\ Elsewhere /\ UNCHANGED <<preferences, writer>>
  BY DEF Save, Elsewhere
<1>2. q.at = "authorized" /\ q.form # "features"
  BY <1>1 DEF LockOK, HeldBy
<1>3. CASE Answer(r, "INVALID_INPUT") /\ UNCHANGED settings
  BY <1>1, <1>2, <1>3 DEF Refused, Answer
<1>4. CASE \E now \in Since :
             /\ settings' = IF same THEN settings ELSE SettingsWith(q.form, q.value, now)
             /\ requests' = [requests EXCEPT ![r] = [Answered(@, "ok") EXCEPT !.wrote = ~same,
                  !.new = <<IF same THEN lock.row.updatedAt ELSE settings'.updatedAt>>, !.result = Current']]
  <2> DEFINE new == <<IF same THEN lock.row.updatedAt ELSE settings'.updatedAt>>
             result == Current'
             wrote == ~same
  <2>1. PICK now \in Since :
             /\ settings' = IF same THEN settings ELSE SettingsWith(q.form, q.value, now)
             /\ requests' = [requests EXCEPT ![r] = [Answered(@, "ok") EXCEPT !.wrote = wrote,
                  !.new = new, !.result = result]]
    BY <1>4
  <2>2. wrote \in BOOLEAN /\ result = Current'
    OBVIOUS
  <2> HIDE DEF wrote, new, result
  <2>3. PICK a, b, w, n, c :
          /\ b = Answered(requests[r], "ok") /\ w = wrote /\ n = new /\ c = result
          /\ a = Saying(b, w, n, c)
          /\ requests' = [requests EXCEPT ![r] = a]
    BY <2>1 DEF Saying
  <2>4. Told(r, a) /\ a.wrote = w /\ a.new = n
    <3>1. Tells(r, b, w, n, c, a)
      BY <1>1, <1>2, <2>2, <2>3 DEF Tells
    <3> QED  BY <3>1, AnswerTells
  <2>5. SavesSettings(r, now, a)
    BY <1>1, <2>1, <2>3, <2>4 DEF SavesSettings, wrote, new
  <2> QED  BY <2>5
<1> QED  BY <1>3, <1>4 DEF Save

LEMMA SavedMoves ==
  ASSUME SettingsIInv, NEW r \in 1..MaxRequests, NEW a, Told(r, a)
  PROVE  /\ DOMAIN requests' = 1..MaxRequests /\ requests'[r] = a /\ ~InFlight(a)
         /\ \A s \in 1..MaxRequests \ {r} : requests'[s] = requests[s]
         /\ \A s \in 1..MaxRequests : SamePurpose(s)
         /\ \A s \in 1..sent : s \in 1..MaxRequests
         /\ OperationsOK' /\ SettledByLastAttempt' /\ Takes
<1> DEFINE q == requests[r]
<1>1. /\ r \in 1..sent /\ q.at = "authorized" /\ UNCHANGED <<clock, mapped, sent, pages, forms>>
  BY SaveIs DEF Told, Elsewhere
<1>2. /\ requests' = [requests EXCEPT ![r] = a]
      /\ a.at = "answered" /\ a.operation = q.operation /\ a.tab = q.tab /\ a.form = q.form
      /\ a.form = "features" => a.new = <<mapped, preferences'>>
  BY DEF Told
<1>3. ~InFlight(a)
  BY <1>2 DEF InFlight
<1>4. /\ DOMAIN requests' = 1..MaxRequests /\ requests'[r] = a
      /\ \A s \in 1..MaxRequests \ {r} : requests'[s] = requests[s]
      /\ \A s \in 1..MaxRequests : /\ SamePurpose(s) /\ EndedStays(s)
                                   /\ TakesRequest(s) /\ TakesAnswer(s)
  BY <1>1, <1>2, <1>3, RequestTurns
<1>5. \A s \in 1..sent : s \in 1..MaxRequests
  BY BoundsAreNaturals DEF SettingsIInv, WorldOK
<1>6. \A t \in Tabs, form \in Forms : SameForm(t, form) /\ SameOutcome(t, form) /\ TakesForm(t, form)
  BY <1>1, FormStays
<1>7. OperationsOK'
  BY <1>1, <1>4, <1>5, <1>6, OperationsKept
<1>8. SettledByLastAttempt'
  BY <1>4, <1>6, SettledStays
<1>9. Takes
  BY <1>1, <1>4, <1>6, PageStays DEF Takes
<1> QED  BY <1>3, <1>4, <1>5, <1>7, <1>8, <1>9

(* A save of the policy or of the delay: the row is under a later revision    *)
(* than the one that the save has read, and, unless it was rewound, than the  *)
(* one that the row had.                                                      *)
LEMMA SettingsAdvance ==
  ASSUME SettingsIInv, LockOK, NEW r \in 1..MaxRequests, NEW now \in Since, NEW a, SavesSettings(r, now, a)
  PROVE  LET q == requests[r] IN
         /\ HeldBy(r)
         /\ settings' \in Rows /\ settings'.updatedAt >= 1 /\ Advances(settings, settings')
         /\ settings'.mode = "FIXED" => settings'.selection # {} \/ settings'.rewound
         /\ \/ settings' = settings /\ a.wrote = FALSE /\ a.new = <<lock.row.updatedAt>>
            \/ /\ a.wrote = TRUE /\ a.new = <<settings'.updatedAt>>
               /\ settings'.updatedAt > lock.row.updatedAt
               /\ settings'.rewound \/ settings'.updatedAt > settings.updatedAt
               /\ settings'.updatedAt <= clock \/ settings'.updatedAt = lock.row.updatedAt + 1
<1> DEFINE q == requests[r]
           row == lock.row
           new == With(q.form, q.value, settings)
           at == Advanced(now)
           back == settings.rewound \/ (settings.updatedAt # row.updatedAt /\ at <= settings.updatedAt)
<1>1. HeldBy(r)
  BY DEF SavesSettings, LockOK
<1>2. /\ settings \in Rows /\ settings.updatedAt \in Nat /\ settings.updatedAt >= 1
      /\ settings.mode = "FIXED" => settings.selection # {} \/ settings.rewound
  BY DEF SettingsIInv, WorldOK, Rows
<1>3. row \in Rows /\ row.updatedAt \in Nat
  BY <1>1 DEF HeldBy, Rows
<1>4. now \in Nat /\ now <= clock /\ clock \in Nat
  BY BoundsAreNaturals DEF Since, SettingsIInv, WorldOK
<1>5. at \in Nat /\ at > row.updatedAt /\ (at <= clock \/ at = row.updatedAt + 1)
  BY <1>3, <1>4 DEF Advanced
<1>6. CASE Same(q.form, q.value)
  <2>1. settings' = settings /\ a.wrote = FALSE /\ a.new = <<lock.row.updatedAt>>
    BY <1>6 DEF SavesSettings
  <2> QED  BY <1>1, <1>2, <2>1 DEF Advances
<1>7. CASE ~Same(q.form, q.value)
  <2>1. /\ new \in Rows
        /\ new.mode = "FIXED" => new.selection # {} \/ settings.rewound
    <3>1. q.value \in Values
      BY <1>1, SaveIs DEF HeldBy
    <3>2. CASE q.form = "recovery"
      <4>1. q.value.mode \in {"NONE", "FIXED"} /\ q.value.selection \in SUBSET Discounts
        BY <3>1 DEF Values
      <4>2. new = [settings EXCEPT !.mode = q.value.mode, !.selection = q.value.selection]
        BY <3>2 DEF With
      <4> HIDE DEF new
      <4>3. new.mode = q.value.mode /\ new.selection = q.value.selection
        BY <1>2, <4>2 DEF Rows
      <4> QED  BY <1>1, <1>2, <3>2, <4>1, <4>2, <4>3 DEF Rows, HeldBy
    <3>3. CASE q.form # "recovery"
      <4>1. q.value.delay \in {0, 1}
        BY <3>1 DEF Values
      <4>2. new = [settings EXCEPT !.delay = q.value.delay]
        BY <3>3 DEF With
      <4> HIDE DEF new
      <4>3. new.mode = settings.mode /\ new.selection = settings.selection
        BY <1>2, <4>2 DEF Rows
      <4> QED  BY <1>2, <4>1, <4>2, <4>3 DEF Rows
    <3> QED  BY <3>2, <3>3
  <2>2. new.rewound = settings.rewound
    BY <1>2 DEF With, Rows
  <2>3. settings' = [new EXCEPT !.updatedAt = at, !.rewound = back] /\ back \in BOOLEAN
    BY <1>7, <2>2 DEF SavesSettings, SettingsWith
  <2> HIDE DEF new, at, back
  <2>4. /\ settings'.updatedAt = at /\ settings'.mode = new.mode /\ settings'.selection = new.selection
        /\ settings'.rewound = back /\ settings' \in Rows
    BY <1>5, <2>1, <2>3 DEF Rows
  <2>5. a.wrote = TRUE /\ a.new = <<settings'.updatedAt>>
    BY <1>7 DEF SavesSettings
  <2>6. ~back => at > settings.updatedAt /\ settings.rewound = FALSE
    BY <1>2, <1>3, <1>5 DEF back, Rows
  <2>7. settings.rewound => back
    BY DEF back
  <2>8. Advances(settings, settings')
    <3>1. CASE settings'.rewound
      BY <3>1 DEF Advances
    <3>2. CASE ~settings'.rewound
      <4>1. ~back /\ settings'.rewound = FALSE
        BY <2>4, <3>2 DEF Rows
      <4> QED  BY <2>4, <2>6, <4>1 DEF Advances
    <3> QED  BY <3>1, <3>2
  <2>9. settings'.mode = "FIXED" => settings'.selection # {} \/ settings'.rewound
    BY <2>1, <2>4, <2>7
  <2> QED  BY <1>1, <1>2, <1>3, <1>5, <2>4, <2>5, <2>6, <2>8, <2>9
<1> QED  BY <1>6, <1>7

LEMMA WritersAreFinite ==
  ASSUME SettingsIInv
  PROVE  /\ IsFiniteSet(Writers) /\ Cardinality(Writers) \in Nat
         /\ IsFiniteSet(1..MaxRequests) /\ Cardinality(1..MaxRequests) = MaxRequests
         /\ Writers \subseteq 1..MaxRequests
<1>1. MaxRequests \in Nat
  BY BoundsAreNaturals
<1>2. IsFiniteSet(1..MaxRequests) /\ Cardinality(1..MaxRequests) = MaxRequests
  <2>1. 1 \in Int /\ MaxRequests \in Int
    BY <1>1
  <2>2. IsFiniteSet(1..MaxRequests) /\ Cardinality(1..MaxRequests) = IF 1 > MaxRequests THEN 0 ELSE MaxRequests - 1 + 1
    BY <2>1, FS_Interval
  <2> QED  BY <1>1, <2>2
<1>3. Writers \subseteq 1..MaxRequests
  BY DEF Writers
<1>4. IsFiniteSet(Writers)
  BY <1>2, <1>3, FS_Subset
<1>5. Cardinality(Writers) \in Nat
  BY <1>4, FS_CardinalityType
<1> QED  BY <1>2, <1>3, <1>4, <1>5

LEMMA SaveSettingsKeeps ==
  ASSUME SettingsIInv, LockOK, NEW r \in 1..MaxRequests, NEW now \in Since, NEW a, SavesSettings(r, now, a)
  PROVE  SettingsIInv'
<1> DEFINE q == requests[r]
<1>1. Told(r, a) /\ UNCHANGED <<preferences, writer>>
  BY DEF SavesSettings
<1>2. /\ r \in 1..sent /\ InFlight(q) /\ ~q.wrote /\ q.tab \in Tabs /\ q.form \in Forms /\ q.operation \in 1..r
      /\ UNCHANGED <<clock, mapped, sent, pages, forms>>
      /\ \A s \in 1..sent : InFlight(requests[s]) /\ requests[s].operation = q.operation =>
           requests[s].form = q.form /\ requests[s].value = q.value /\ requests[s].revision = q.revision
      /\ \A t \in Tabs, form \in Forms : forms[t][form].phase \in Open /\ forms[t][form].operation = q.operation =>
           form = q.form /\ forms[t][form].frozen = q.value /\ forms[t][form].revision = q.revision
  BY <1>1, SaveIs DEF Told, Elsewhere
<1>3. /\ DOMAIN requests' = 1..MaxRequests /\ requests'[r] = a /\ ~InFlight(a)
      /\ \A s \in 1..MaxRequests \ {r} : requests'[s] = requests[s]
      /\ \A s \in 1..MaxRequests : SamePurpose(s)
      /\ \A s \in 1..sent : s \in 1..MaxRequests
      /\ OperationsOK' /\ SettledByLastAttempt' /\ Takes
  BY <1>1, SavedMoves
<1>4. /\ HeldBy(r)
      /\ settings' \in Rows /\ settings'.updatedAt >= 1 /\ Advances(settings, settings')
      /\ settings'.mode = "FIXED" => settings'.selection # {} \/ settings'.rewound
      /\ \/ settings' = settings /\ a.wrote = FALSE /\ a.new = <<lock.row.updatedAt>>
         \/ /\ a.wrote = TRUE /\ a.new = <<settings'.updatedAt>>
            /\ settings'.updatedAt > lock.row.updatedAt
            /\ settings'.rewound \/ settings'.updatedAt > settings.updatedAt
            /\ settings'.updatedAt <= clock \/ settings'.updatedAt = lock.row.updatedAt + 1
  BY SettingsAdvance
<1>5. /\ q.form # "features" /\ lock.row.updatedAt \in Nat /\ q.revision = <<lock.row.updatedAt>>
      /\ lock.row.updatedAt <= MaxClock + Cardinality(Writers)
      /\ ~settings.rewound => lock.row.updatedAt <= settings.updatedAt
  BY <1>4 DEF HeldBy, Rows
<1>6. settings \in Rows /\ clock \in 1..MaxClock /\ preferences \in Preferred
  BY DEF SettingsIInv, WorldOK
<1>7. a.form = q.form /\ a.operation = q.operation /\ a.reply = "ok" /\ a.result = Current'
      /\ a.at = "answered" /\ a.tab = q.tab /\ a.revision = <<>>
  BY <1>1 DEF Told
<1>8. WorldOK'
  BY <1>1, <1>2, <1>4 DEF SettingsIInv, WorldOK
<1>9. ASSUME NEW t \in Tabs PROVE PageOK(pages[t], settings')
  <2>1. PageOK(pages[t], settings)
    BY DEF SettingsIInv
  <2>2. CASE settings' = settings
    BY <2>1, <2>2
  <2>3. CASE settings'.rewound
    BY <2>1, <2>3 DEF PageOK, Fresh
  <2>4. CASE settings'.updatedAt > settings.updatedAt /\ settings'.rewound = settings.rewound
    <3>1. \A seen, new : Fresh(<<pages[t].updatedAt>>, seen, settings) => Fresh(<<pages[t].updatedAt>>, new, settings')
      BY <1>4, <1>6, <2>4 DEF Fresh, Rows
    <3> QED  BY <2>1, <3>1 DEF PageOK
  <2> QED  BY <1>4, <2>2, <2>3, <2>4 DEF Advances
<1>10. \A t \in Tabs, form \in Forms : FormOK(forms[t][form], form, settings', sent, clock)
  BY <1>4, <1>6, FreshKept DEF SettingsIInv, FormOK
<1>11. \A s \in 1..MaxRequests : RequestOK(s, requests'[s], settings', sent)
  <2>1. ASSUME NEW s \in 1..MaxRequests \ {r} PROVE RequestOK(s, requests[s], settings', sent)
    BY <1>4, <1>6, FreshKept DEF SettingsIInv, RequestOK
  <2>2. RequestOK(r, a, settings', sent)
    <3>1. Current' \in Values
      BY <1>1, <1>2, <1>4, <1>6 DEF Current, Values, Rows, Enabled, SettingsIInv, WorldOK
    <3>2. RequestShape(a)
      BY <1>1, <3>1 DEF Told
    <3>3. sent \in Nat /\ ~(r > sent)
      BY <1>2, BoundsAreNaturals DEF SettingsIInv, WorldOK
    <3>4. Fresh(a.new, a.result, settings')
      <4>1. Current'.mode = settings'.mode /\ Current'.selection = settings'.selection /\ Current'.delay = settings'.delay
        BY DEF Current
      <4> QED  BY <1>4, <1>5, <1>7, <4>1 DEF Fresh, Rows
    <3>5. \A row : Fresh(<<>>, a.seen, row)
      BY DEF Fresh
    <3> QED  BY <1>2, <1>3, <1>7, <3>2, <3>3, <3>4, <3>5 DEF RequestOK, InFlight
  <2> QED  BY <1>3, <2>1, <2>2
<1>12. OnceOK'
  <2> SUFFICES ASSUME NEW s \in 1..sent, Spent(requests'[s])
               PROVE  /\ \A p \in 1..sent : InFlight(requests'[p]) /\ requests'[p].operation = requests'[s].operation =>
                           Gone(requests'[p].form, requests'[p].revision, settings', preferences)
                      /\ \A t \in Tabs, form \in Forms :
                           forms[t][form].phase \in Open /\ forms[t][form].operation = requests'[s].operation =>
                             Gone(form, forms[t][form].revision, settings', preferences)
    BY <1>1, <1>2 DEF OnceOK
  <2>1. requests'[s].operation = requests[s].operation
    BY <1>3 DEF SamePurpose
  <2>2. \A p \in 1..sent : InFlight(requests'[p]) =>
          requests'[p] = requests[p] /\ InFlight(requests[p])
    BY <1>3
  <2>3. CASE Spent(requests[s])
    <3>1. /\ \A p \in 1..sent : InFlight(requests[p]) /\ requests[p].operation = requests[s].operation =>
                Gone(requests[p].form, requests[p].revision, settings, preferences)
          /\ \A t \in Tabs, form \in Forms :
                forms[t][form].phase \in Open /\ forms[t][form].operation = requests[s].operation =>
                  Gone(form, forms[t][form].revision, settings, preferences)
      BY <2>3 DEF SettingsIInv, OnceOK
    <3>2. \A form, revision : Gone(form, revision, settings, preferences) => Gone(form, revision, settings', preferences)
      BY <1>4, <1>6, GoneKept
    <3> QED  BY <2>1, <2>2, <3>1, <3>2
  <2>4. CASE ~Spent(requests[s])
    <3>1. s = r
      BY <1>3, <2>4
    <3>2. a.wrote
      BY <1>3, <1>7, <3>1 DEF Spent
    <3>3. Past(q.revision, settings')
      BY <1>4, <1>5, <3>2 DEF Past, Rows
    <3> QED  BY <1>2, <1>5, <2>1, <2>2, <3>1, <3>3 DEF Gone
  <2> QED  BY <2>3, <2>4
<1>13. WriterOK'
  BY <1>1, <1>2, <1>3, <1>7 DEF SettingsIInv, WriterOK
<1>14. CountOK'
  <2>1. CASE settings' = settings /\ a.wrote = FALSE
    <3>1. Writers' = Writers
      <4>1. \A s \in 1..MaxRequests : requests'[s].wrote <=> requests[s].wrote
        BY <1>2, <1>3, <2>1
      <4> QED  BY <4>1 DEF Writers
    <3> QED  BY <2>1, <3>1 DEF SettingsIInv, CountOK
  <2>2. CASE a.wrote = TRUE /\ (settings'.updatedAt <= clock \/ settings'.updatedAt = lock.row.updatedAt + 1)
    <3> DEFINE W == Writers
               V == Writers'
    <3>1. V = W \cup {r} /\ r \notin W
      BY <1>2, <1>3, <2>2 DEF Writers
    <3>2. IsFiniteSet(W) /\ Cardinality(W) \in Nat /\ lock.row.updatedAt <= MaxClock + Cardinality(W)
      BY <1>5, WritersAreFinite
    <3> HIDE DEF W, V
    <3>3. Cardinality(V) = Cardinality(W) + 1
      BY <3>1, <3>2, FS_AddElement
    <3>4. settings'.updatedAt <= MaxClock + Cardinality(V)
      BY <1>4, <1>5, <1>6, <2>2, <3>2, <3>3, BoundsAreNaturals DEF Rows
    <3> QED  BY <3>4 DEF CountOK, V
  <2> QED  BY <1>4, <2>1, <2>2
<1>15. AllDated(Holders, preferences, clock)'
  BY <1>1, <1>2, <1>3, <1>6, BoundsAreNaturals, DatesStay
<1> QED
  BY <1>1, <1>2, <1>3, <1>8, <1>9, <1>10, <1>11, <1>12, <1>13, <1>14, <1>15 DEF SettingsIInv

(* A save of the features: it writes what it was asked for under the revision *)
(* of the preferences that it holds, or finds it done.                        *)
LEMMA PreferencesAdvance ==
  ASSUME SettingsIInv, NEW r \in 1..MaxRequests, NEW now \in Instants, NEW a, SavesPreferences(r, now, a)
  PROVE  LET q == requests[r] IN
         /\ settings' = settings /\ preferences' \in Preferred
         /\ now \in Nat /\ now >= 1 /\ now <= clock /\ clock <= now + 1
         /\ \A f \in Features : \/ preferences'[f] = preferences[f]
                                \/ /\ preferences'[f].at = now
                                   /\ preferences'[f].enabled # preferences[f].enabled
         /\ Done(q.value, preferences')
         /\ preferences' # preferences => q.revision = <<mapped, preferences>>
<1> DEFINE q == requests[r]
           value == q.value
           change == Changes(value)
<1>1. settings' = settings /\ preferences' = PreferencesWith(value, now)
  BY DEF SavesPreferences
<1>2. change # {} => q.revision = <<mapped, preferences>>
  BY DEF SavesPreferences, FeaturesReply, Revision
<1>3. preferences \in Preferred /\ clock \in Nat /\ mapped \in SUBSET Features
  BY BoundsAreNaturals DEF SettingsIInv, WorldOK
<1>4. now \in Nat /\ now >= 1 /\ now <= clock /\ clock <= now + 1
  <2>1. now \in 1..clock /\ clock <= now + MaxSkew /\ MaxSkew \in Nat
    BY BoundsAreNaturals DEF Instants
  <2> QED  BY <1>3, <2>1, SkewBelowReaction
<1>5. value \in Values
  BY SaveIs DEF SavesPreferences, Told
<1>6. value.shown \in SUBSET Features /\ value.enabled \in SUBSET Features
  BY <1>5 DEF Values
<1> HIDE DEF value
<1>7. \A f : f \in change <=> f \in value.shown /\ (f \in value.enabled) # preferences[f].enabled
  BY DEF Changes
<1> HIDE DEF change
<1>8. preferences' = [f \in Features |-> IF f \in change THEN [enabled |-> f \in value.enabled, at |-> now]
                                        ELSE preferences[f]]
  BY <1>1 DEF PreferencesWith, change
<1>9. \A f \in Features : f \in change => /\ preferences'[f].at = now
                                          /\ preferences'[f].enabled = (f \in value.enabled)
                                          /\ preferences'[f] = [enabled |-> f \in value.enabled, at |-> now]
  BY <1>8
<1>10. \A f \in Features : f \notin change => preferences'[f] = preferences[f]
  BY <1>8
<1>11. preferences' \in Preferred
  <2>1. \A f \in Features : [enabled |-> f \in value.enabled, at |-> now] \in [enabled : BOOLEAN, at : Nat]
    BY <1>4
  <2>2. \A f \in Features : preferences[f] \in [enabled : BOOLEAN, at : Nat]
    BY <1>3 DEF Preferred
  <2>3. \A f \in Features : preferences'[f] \in [enabled : BOOLEAN, at : Nat]
    BY <1>9, <1>10, <2>1, <2>2
  <2> QED  BY <1>8, <2>3 DEF Preferred
<1>12. ASSUME NEW f \in Features
       PROVE  \/ preferences'[f] = preferences[f]
              \/ preferences'[f].at = now /\ preferences'[f].enabled # preferences[f].enabled
  BY <1>7, <1>9, <1>10
<1>13. Done(value, preferences')
  <2> SUFFICES ASSUME NEW f \in value.shown \cap Features
               PROVE  preferences'[f].enabled = (f \in value.enabled)
    BY DEF Done
  <2>1. CASE f \in change
    BY <1>9, <2>1
  <2>2. CASE f \notin change
    <3>1. preferences[f].enabled = (f \in value.enabled)
      BY <1>7, <2>2
    <3> QED  BY <1>10, <2>2, <3>1
  <2> QED  BY <2>1, <2>2
<1>14. preferences' # preferences => change # {}
  <2> SUFFICES ASSUME change = {} PROVE preferences' = preferences
    OBVIOUS
  <2>1. preferences' = [f \in Features |-> preferences[f]]
    BY <1>8
  <2> QED  BY <1>3, <2>1 DEF Preferred
<1> QED  BY <1>1, <1>2, <1>4, <1>11, <1>12, <1>13, <1>14 DEF value

(* Nobody has seen the preferences as such a save leaves them.                *)
LEMMA PreferencesAreNew ==
  ASSUME SettingsIInv, NEW r \in 1..MaxRequests, NEW now \in Instants, NEW a, SavesPreferences(r, now, a),
         preferences' # preferences
  PROVE  /\ \A h \in Holders : h.revision[2] # preferences'
         /\ AllDated(Holders, preferences, clock)'
<1> DEFINE q == requests[r]
           K == Holders
           L == Holders'
           held == preferences
           new == preferences'
           k == Holder(q.revision, clock)
<1>1. /\ now \in Nat /\ now <= clock /\ clock <= now + 1 /\ new \in Preferred
      /\ \A f \in Features : new[f] = held[f] \/ (new[f].at = now /\ new[f].enabled # held[f].enabled)
      /\ q.revision = <<mapped, held>>
  BY PreferencesAdvance
<1>2. held \in Preferred /\ clock \in Nat /\ (\A f \in Features : held[f].at <= clock) /\ clock' = clock
  BY BoundsAreNaturals DEF SettingsIInv, WorldOK, SavesPreferences, Told, Elsewhere
<1>3. AllDated(K, held, clock) /\ \A h \in K : h.from \in Nat
  BY HoldersAre DEF SettingsIInv
<1>4. k \in K /\ k.revision[2] = held /\ k.from = clock
  <2>1. r \in Asking /\ requests[r].revision # <<>>
    BY SaveIs, <1>1 DEF Asking, SavesPreferences, Told
  <2>2. k \in K
    BY <2>1, HoldersAre
  <2> QED  BY <1>1, <2>2 DEF Holder
<1>5. \A h \in L : /\ h.revision \in Pairs /\ h.from \in Nat
                   /\ \/ h.revision[2] = new /\ h.from >= clock + 1
                      \/ \E g \in K : h.revision[2] = g.revision[2] /\ h.from >= g.from
  <2>1. Takes
    BY SavedMoves DEF SavesPreferences
  <2> QED  BY <1>1, <1>2, <2>1, HoldersTake
<1>6. new # held
  OBVIOUS
<1> HIDE DEF K, L, held, new, k
<1>7. k.from <= clock /\ k.from \in Nat
  BY <1>2, <1>4
<1>8. \A h \in K : h.revision[2] # new
  BY <1>1, <1>2, <1>3, <1>4, <1>6, <1>7, WriteIsNew
<1>9. AllDated(L, new, clock)
  BY <1>1, <1>2, <1>3, <1>4, <1>5, <1>6, <1>7, DatesAfterWrite
<1> QED  BY <1>2, <1>8, <1>9 DEF K, L, new

LEMMA SavePreferencesKeeps ==
  ASSUME SettingsIInv, NEW r \in 1..MaxRequests, NEW now \in Instants, NEW a, SavesPreferences(r, now, a)
  PROVE  SettingsIInv'
<1> DEFINE q == requests[r]
<1>1. Told(r, a)
  BY DEF SavesPreferences
<1>2. /\ r \in 1..sent /\ InFlight(q) /\ ~q.wrote /\ q.tab \in Tabs /\ q.form \in Forms /\ q.operation \in 1..r
      /\ UNCHANGED <<clock, mapped, sent, pages, forms>>
      /\ \A s \in 1..sent : InFlight(requests[s]) /\ requests[s].operation = q.operation =>
           requests[s].form = q.form /\ requests[s].value = q.value /\ requests[s].revision = q.revision
      /\ \A t \in Tabs, form \in Forms : forms[t][form].phase \in Open /\ forms[t][form].operation = q.operation =>
           form = q.form /\ forms[t][form].frozen = q.value /\ forms[t][form].revision = q.revision
  BY <1>1, SaveIs DEF Told, Elsewhere
<1>3. /\ DOMAIN requests' = 1..MaxRequests /\ requests'[r] = a /\ ~InFlight(a)
      /\ \A s \in 1..MaxRequests \ {r} : requests'[s] = requests[s]
      /\ \A s \in 1..MaxRequests : SamePurpose(s)
      /\ \A s \in 1..sent : s \in 1..MaxRequests
      /\ OperationsOK' /\ SettledByLastAttempt' /\ Takes
  BY <1>1, SavedMoves
<1>4. /\ settings' = settings /\ preferences' \in Preferred
      /\ now \in Nat /\ now >= 1 /\ now <= clock
      /\ \A f \in Features : \/ preferences'[f] = preferences[f]
                             \/ preferences'[f].at = now /\ preferences'[f].enabled # preferences[f].enabled
      /\ Done(q.value, preferences')
  BY PreferencesAdvance
<1>5. /\ writer' = (IF preferences' = preferences THEN writer ELSE q.operation)
      /\ q.form = "features" /\ a.form = "features" /\ a.operation = q.operation /\ a.reply = "ok"
      /\ a.wrote = (preferences' # preferences) /\ a.result = Current' /\ a.at = "answered" /\ a.tab = q.tab
  BY DEF SavesPreferences, Told
<1>6. settings \in Rows /\ clock \in 1..MaxClock /\ preferences \in Preferred
  BY DEF SettingsIInv, WorldOK
<1>7. \A s \in 1..sent : InFlight(requests'[s]) => requests'[s] = requests[s] /\ InFlight(requests[s])
  BY <1>3
<1>8. WorldOK'
  <2>1. \A f \in Features : preferences'[f].at <= clock /\ (preferences'[f].enabled => preferences'[f].at >= 1)
    BY <1>4 DEF SettingsIInv, WorldOK
  <2>2. writer' \in 0..sent
    BY <1>2, <1>5, BoundsAreNaturals DEF SettingsIInv, WorldOK
  <2> QED  BY <1>2, <1>4, <2>1, <2>2 DEF SettingsIInv, WorldOK
<1>9. \A s \in 1..MaxRequests : RequestOK(s, requests'[s], settings, sent)
  <2>1. \A s \in 1..MaxRequests \ {r} : RequestOK(s, requests'[s], settings, sent)
    BY <1>3 DEF SettingsIInv
  <2>2. RequestOK(r, a, settings, sent)
    <3>1. Current' \in Values
      BY <1>2, <1>4, <1>6 DEF Current, Values, Rows, Enabled, SettingsIInv, WorldOK
    <3>2. RequestShape(a)
      BY <1>1, <3>1 DEF Told
    <3>3. sent \in Nat /\ ~(r > sent)
      BY <1>2, BoundsAreNaturals DEF SettingsIInv, WorldOK
    <3> QED  BY <1>2, <1>5, <3>2, <3>3 DEF RequestOK, InFlight
  <2> QED  BY <1>3, <2>1, <2>2
<1>10. CASE preferences' = preferences
  <2>1. writer' = writer /\ a.wrote = FALSE
    BY <1>5, <1>10
  <2>2. \A s \in 1..MaxRequests : requests'[s].wrote = requests[s].wrote
    <3>1. q.wrote = FALSE
      BY <1>2 DEF SettingsIInv, RequestOK, RequestShape
    <3> QED  BY <1>3, <2>1, <3>1
  <2>3. \A s \in 1..sent : SameRequest(s)
    <3> SUFFICES ASSUME NEW s \in 1..sent, Spent(requests'[s]) PROVE Spent(requests[s])
      BY <1>3 DEF SameRequest
    <3>1. s # r
      BY <1>3, <1>5, <2>1 DEF Spent
    <3> QED  BY <1>3, <3>1
  <2>4. \A t \in Tabs, form \in Forms : SameForm(t, form)
    BY <1>2, FormStays
  <2>5. OnceOK' /\ WriterOK'
    BY <1>2, <1>4, <1>6, <1>10, <2>1, <2>3, <2>4, QuietKeeps DEF Advances
  <2>6. CountOK'
    <3>1. Writers' = Writers
      BY <2>2 DEF Writers
    <3> QED  BY <1>4, <3>1 DEF SettingsIInv, CountOK
  <2>7. AllDated(Holders, preferences, clock)'
    BY <1>2, <1>3, <1>6, <1>10, BoundsAreNaturals, DatesStay
  <2> QED  BY <1>2, <1>3, <1>4, <1>8, <1>9, <2>5, <2>6, <2>7 DEF SettingsIInv
<1>11. CASE preferences' # preferences
  <2>1. (\A h \in Holders : h.revision[2] # preferences') /\ AllDated(Holders, preferences, clock)'
    BY <1>11, PreferencesAreNew
  <2>2. ASSUME NEW s \in 1..sent, InFlight(requests'[s])
        PROVE  Gone("features", requests[s].revision, settings, preferences')
               \/ requests[s].form # "features"
    <3> SUFFICES ASSUME requests[s].form = "features", requests[s].revision \in Pairs
                 PROVE  requests[s].revision[2] # preferences'
      BY DEF Gone
    <3>1. s \in Asking /\ requests[s].revision # <<>>
      <4>1. s \in 1..MaxRequests /\ InFlight(requests[s])
        BY <1>3, <1>7, <2>2
      <4>2. requests[s].revision # <<>>
        <5>1. PICK shown \in SUBSET Features, held \in Preferred : requests[s].revision = <<shown, held>>
          BY DEF Pairs
        <5> QED  BY <5>1
      <4> QED  BY <4>1, <4>2 DEF Asking
    <3>2. Holder(requests[s].revision, clock) \in Holders
      BY <3>1, HoldersAre
    <3> QED  BY <2>1, <3>2 DEF Holder
  <2>3. ASSUME NEW t \in Tabs, "features" \in Forms
        PROVE  Gone("features", forms[t]["features"].revision, settings, preferences')
    <3> SUFFICES ASSUME forms[t]["features"].revision \in Pairs
                 PROVE  forms[t]["features"].revision[2] # preferences'
      BY DEF Gone
    <3>1. forms[t]["features"].revision # <<>>
      BY DEF Pairs
    <3>2. Holder(forms[t]["features"].revision, forms[t]["features"].since + 1) \in Holders
      BY <2>3, <3>1, HoldersAre
    <3> QED  BY <2>1, <3>2 DEF Holder
  <2>4. OnceOK'
    <3> SUFFICES ASSUME NEW s \in 1..sent, Spent(requests'[s])
                 PROVE  /\ \A p \in 1..sent : InFlight(requests'[p]) /\ requests'[p].operation = requests'[s].operation =>
                             Gone(requests'[p].form, requests'[p].revision, settings, preferences')
                        /\ \A t \in Tabs, form \in Forms :
                             forms[t][form].phase \in Open /\ forms[t][form].operation = requests'[s].operation =>
                               Gone(form, forms[t][form].revision, settings, preferences')
      BY <1>2, <1>4 DEF OnceOK
    <3>1. requests'[s].operation = requests[s].operation
      BY <1>3 DEF SamePurpose
    <3>2. \A form, revision : form # "features" /\ Gone(form, revision, settings, preferences) =>
            Gone(form, revision, settings, preferences')
      BY DEF Gone
    <3>3. CASE Spent(requests[s])
      <4>1. /\ \A p \in 1..sent : InFlight(requests[p]) /\ requests[p].operation = requests[s].operation =>
                  Gone(requests[p].form, requests[p].revision, settings, preferences)
            /\ \A t \in Tabs, form \in Forms :
                  forms[t][form].phase \in Open /\ forms[t][form].operation = requests[s].operation =>
                    Gone(form, forms[t][form].revision, settings, preferences)
        BY <3>3 DEF SettingsIInv, OnceOK
      <4> QED  BY <1>7, <2>2, <2>3, <3>1, <3>2, <4>1
    <3>4. CASE ~Spent(requests[s])
      <4>1. s = r
        BY <1>3, <3>4
      <4>2. requests'[s].operation = q.operation /\ q.form = "features"
        BY <1>5, <3>1, <4>1
      <4>3. ASSUME NEW p \in 1..sent, InFlight(requests'[p]), requests'[p].operation = requests'[s].operation
            PROVE  Gone(requests'[p].form, requests'[p].revision, settings, preferences')
        <5>1. requests'[p] = requests[p] /\ InFlight(requests[p]) /\ requests[p].operation = q.operation
          BY <1>7, <4>2, <4>3
        <5>2. requests[p].form = "features"
          BY <1>2, <4>2, <5>1
        <5> QED  BY <2>2, <4>3, <5>1, <5>2
      <4>4. ASSUME NEW t \in Tabs, NEW form \in Forms,
                   forms[t][form].phase \in Open, forms[t][form].operation = requests'[s].operation
            PROVE  Gone(form, forms[t][form].revision, settings, preferences')
        <5>1. form = "features"
          BY <1>2, <4>2, <4>4
        <5> QED  BY <2>3, <5>1
      <4> QED  BY <4>3, <4>4
    <3> QED  BY <3>3, <3>4
  <2>5. WriterOK'
    <3> SUFFICES ASSUME writer' # 0
                 PROVE  /\ \A s \in 1..sent : InFlight(requests'[s]) /\ requests'[s].operation = writer'
                             /\ requests'[s].form = "features" => Done(requests'[s].value, preferences')
                        /\ \A t \in Tabs, form \in Forms :
                             forms[t][form].phase \in Open /\ forms[t][form].operation = writer'
                             /\ form = "features" => Done(forms[t][form].frozen, preferences')
      BY <1>2 DEF WriterOK
    <3>1. writer' = q.operation
      BY <1>5, <1>11
    <3> QED  BY <1>2, <1>4, <1>7, <3>1
  <2>6. CountOK'
    <3> DEFINE W == Writers
               V == Writers'
    <3>1. W \subseteq V /\ V \subseteq 1..MaxRequests
      BY <1>2, <1>3, <1>5, <1>11 DEF Writers
    <3>2. /\ IsFiniteSet(1..MaxRequests) /\ Cardinality(W) \in Nat
          /\ settings.updatedAt <= MaxClock + Cardinality(W)
      BY WritersAreFinite DEF SettingsIInv, CountOK
    <3> HIDE DEF W, V
    <3>3. IsFiniteSet(V) /\ Cardinality(V) \in Nat
      BY <3>1, <3>2, FS_Subset, FS_CardinalityType
    <3>4. Cardinality(W) <= Cardinality(V)
      BY <3>1, <3>3, FS_Subset
    <3>5. settings'.updatedAt <= MaxClock + Cardinality(V)
      BY <1>4, <1>6, <3>2, <3>3, <3>4, BoundsAreNaturals DEF Rows
    <3> QED  BY <3>5 DEF CountOK, V
  <2> QED  BY <1>2, <1>3, <1>4, <1>8, <1>9, <2>1, <2>4, <2>5, <2>6 DEF SettingsIInv
<1> QED  BY <1>10, <1>11

LEMMA SaveFeaturesKeeps ==
  ASSUME SettingsIInv, NEW r \in 1..MaxRequests, SaveFeatures(r) PROVE SettingsIInv'
<1> DEFINE q == requests[r]
           reply == FeaturesReply(q.value, q.revision)
<1>1. q.at = "authorized" /\ q.form = "features" /\ Elsewhere /\ settings' = settings
  BY DEF SaveFeatures, Elsewhere, world
<1>2. CASE reply = "ok"
  BY <1>2, PreferencesSaid, SavePreferencesKeeps
<1>3. CASE reply # "ok"
  <2>1. requests' = [requests EXCEPT ![r] = Answered(q, reply)] /\ UNCHANGED <<preferences, writer>>
    BY <1>3 DEF SaveFeatures, Answer
  <2>2. Refused(r, reply)
    BY <1>1, <1>3, <2>1 DEF Refused
  <2> HIDE DEF reply
  <2> QED  BY <2>2, SaveRefused
<1> QED  BY <1>2, <1>3

LEMMA CheckRefuses ==
  ASSUME NEW r \in 1..MaxRequests, Check(r), lock' = lock
  PROVE  \E reply : Refused(r, reply)
<1> DEFINE q == requests[r]
           reply == SettingsReply(q.form, q.value, q.revision)
<1>1. q.at = "authorized" /\ q.form # "features" /\ Elsewhere /\ UNCHANGED <<settings, preferences, writer>>
  BY DEF Check, Elsewhere, rows
<1>2. lock = Free /\ r # 0
  BY DEF Check
<1>3. CASE reply # "ok" /\ Answer(r, reply)
  <2>1. requests' = [requests EXCEPT ![r] = Answered(q, reply)] /\ reply # "ok"
    BY <1>3 DEF Answer
  <2>2. reply = "CONFLICT" => q.revision # <<settings.updatedAt>>
    BY DEF SettingsReply
  <2> HIDE DEF reply
  <2>3. Refused(r, reply)
    BY <1>1, <2>1, <2>2 DEF Refused
  <2> QED  BY <2>3
<1>4. CASE Answer(r, "INVALID_INPUT")
  <2>1. Refused(r, "INVALID_INPUT")
    BY <1>1, <1>4 DEF Refused, Answer
  <2> QED  BY <2>1
<1>5. CASE lock' = [by |-> r, since |-> clock, row |-> settings]
  <2>1. lock'.by = r /\ lock.by = 0
    BY <1>2, <1>5 DEF Free
  <2> QED  BY <1>2, <2>1
<1> QED  BY <1>3, <1>4, <1>5 DEF Check

LEMMA CheckLocks ==
  ASSUME SettingsIInv, NEW r \in 1..MaxRequests, Check(r), lock' # lock
  PROVE  /\ UNCHANGED <<clock, mapped, settings, preferences, writer, requests, sent, pages, forms>>
         /\ lock' = [by |-> r, since |-> clock, row |-> settings]
         /\ requests[r].at = "authorized" /\ requests[r].form # "features"
         /\ SettingsReply(requests[r].form, requests[r].value, requests[r].revision) = "ok"
BY DEF Check, rows

LEMMA SettingsNextKeeps == SettingsIInv /\ LockOK /\ [Next]_vars => SettingsIInv'
<1> SUFFICES ASSUME SettingsIInv, LockOK, [Next]_vars PROVE SettingsIInv'
  OBVIOUS
<1>1. ASSUME NEW t \in Tabs, InTab(t) PROVE SettingsIInv'
  <2>1. CASE Read(t)
    BY <2>1, ReadKeeps
  <2>2. CASE Show(t)
    BY <2>2, ShowKeeps
  <2>3. CASE Leave(t)
    BY <2>3, DisposedKeeps DEF Leave
  <2>4. ASSUME NEW f \in Forms, Submit(t, f) \/ Reconcile(t, f) PROVE SettingsIInv'
    BY <2>4, FormsSend
  <2>5. ASSUME NEW f \in Forms, TimeOut(t, f) PROVE SettingsIInv'
    BY <2>5, TimeOutKeeps
  <2> QED  BY <1>1, <2>1, <2>2, <2>3, <2>4, <2>5 DEF InTab
<1>2. clock \in 1..MaxClock /\ mapped \in SUBSET Features /\ clock <= clock
  BY BoundsAreNaturals DEF SettingsIInv, WorldOK
<1>3. ASSUME NEW r \in 1..MaxRequests, OfRequest(r) PROVE SettingsIInv'
  <2>1. CASE Authorize(r)
    BY <2>1, AuthorizeKeeps
  <2>2. CASE SaveFeatures(r)
    BY <2>2, SaveFeaturesKeeps
  <2>3. CASE Check(r)
    <3>1. CASE lock' = lock
      BY <2>3, <3>1, CheckRefuses, SaveRefused
    <3>2. CASE lock' # lock
      <4>1. UNCHANGED <<rows, requests, sent, pages, forms, mapped, clock>>
        BY <2>3, <3>2, CheckLocks DEF rows
      <4> QED  BY <1>2, <4>1, WorldStep
    <3> QED  BY <3>1, <3>2
  <2>4. CASE Save(r)
    BY <2>4, SettingsSaid, SaveRefused, SaveSettingsKeeps
  <2>5. CASE Deliver(r)
    BY <2>5, DeliverKeeps
  <2> QED  BY <1>3, <2>1, <2>2, <2>3, <2>4, <2>5 DEF OfRequest
<1>4. CASE Tick \/ Stand \/ (\E f \in Features : Map(f)) \/ Uninstall \/ Refresh
  BY <1>4, OthersKeep
<1>5. CASE UNCHANGED vars \/ Abort
  <2>1. UNCHANGED <<rows, requests, sent, pages, forms, mapped, clock>>
    BY <1>5 DEF vars, rows, Abort
  <2> QED  BY <1>2, <2>1, WorldStep
<1> QED  BY <1>1, <1>3, <1>4, <1>5 DEF Next

-----------------------------------------------------------------------------
(* What is written, and every conflict, comes from a save, and only a save    *)
(* moves a request that has come to it.                                       *)
Saves(r) == SaveFeatures(r) \/ Check(r) \/ Save(r)

Untouched(r) ==
  /\ requests'[r].wrote = requests[r].wrote
  /\ requests'[r].reply = "CONFLICT" => requests[r].reply = "CONFLICT"
  /\ r <= sent => requests'[r].operation = requests[r].operation /\ requests'[r].form = requests[r].form
  /\ requests[r].at = "authorized" => requests'[r] = requests[r]

LEMMA OnlySaves ==
  ASSUME SettingsIInv, [Next]_vars, NEW r \in 1..MaxRequests, ~Saves(r)
  PROVE  Untouched(r)
<1>1. CASE requests'[r] = requests[r]
  BY <1>1 DEF Untouched
<1> SUFFICES ASSUME requests'[r] # requests[r] PROVE Untouched(r)
  BY <1>1
<1>2. RequestShape(requests[r]) /\ DOMAIN requests = 1..MaxRequests
  BY DEF SettingsIInv, RequestOK
<1>3. ASSUME NEW t \in Tabs, InTab(t) PROVE Untouched(r)
  <2>1. PICK f \in Forms : Submit(t, f) \/ Reconcile(t, f)
    BY <1>3 DEF InTab, Read, Show, Leave, TimeOut
  <2> DEFINE id == sent + 1
  <2>2. PICK held, large : Send(t, f, held, large)
    <3>1. CASE Submit(t, f)
      BY <3>1 DEF Submit
    <3>2. CASE Reconcile(t, f)
      BY <3>2 DEF Reconcile
    <3> QED  BY <2>1, <3>1, <3>2
  <2>3. requests' = [requests EXCEPT ![id] = [@ EXCEPT !.at = "sent", !.tab = t, !.form = f,
          !.operation = held.operation, !.value = held.frozen, !.large = large,
          !.revision = held.revision, !.seen = held.seen]]
    BY <2>2 DEF Send
  <2>4. sent \in Nat /\ ~(id <= sent)
    BY BoundsAreNaturals DEF SettingsIInv, WorldOK
  <2> HIDE DEF id
  <2>5. id = r
    BY <1>2, <2>3
  <2>6. requests[r] = Request
    BY <2>4, <2>5 DEF SettingsIInv, RequestOK
  <2> DEFINE q == requests[r]
  <2>7. requests'[r] = [q EXCEPT !.at = "sent", !.tab = t, !.form = f,
            !.operation = held.operation, !.value = held.frozen, !.large = large,
            !.revision = held.revision, !.seen = held.seen]
    BY <1>2, <2>3, <2>5
  <2>8. RequestShape(q) /\ q.at # "authorized"
    BY <1>2, <2>6 DEF Request
  <2> HIDE DEF q
  <2>9. requests'[r].wrote = q.wrote /\ requests'[r].reply = q.reply
    BY <2>7, <2>8 DEF RequestShape
  <2> QED  BY <2>4, <2>5, <2>8, <2>9 DEF Untouched, q
<1>4. ASSUME NEW s \in 1..MaxRequests, OfRequest(s) PROVE Untouched(r)
  <2>1. \E q : requests' = [requests EXCEPT ![s] = q] \/ requests' = requests
    BY <1>4 DEF OfRequest, Authorize, SaveFeatures, Check, Save, Deliver, Answer
  <2>2. s = r
    BY <1>2, <2>1
  <2>3. requests[r].at \in {"sent", "answered"}
    BY <1>4, <2>2 DEF OfRequest, Saves, Authorize, Deliver
  <2>4. r \in 1..sent
    BY <2>3, SentRange
  <2>5. CASE Authorize(r)
    <3>1. CASE \E reply \in {"nothing", "unnamed"} : requests' = [requests EXCEPT ![r] = Answered(requests[r], reply)]
      <4>1. PICK reply \in {"nothing", "unnamed"} : requests' = [requests EXCEPT ![r] = Answered(requests[r], reply)]
        BY <3>1
      <4> DEFINE a == Answered(requests[r], reply)
      <4>2. a = Answered(requests[r], reply) /\ requests'[r] = a
        BY <1>2, <4>1
      <4> HIDE DEF a
      <4>3. a.wrote = requests[r].wrote /\ a.reply = reply /\ a.operation = requests[r].operation /\ a.form = requests[r].form
        BY <2>4, <4>2, AnsweredIs
      <4> QED  BY <2>3, <4>1, <4>2, <4>3 DEF Untouched
    <3>2. CASE requests' = [requests EXCEPT ![r].at = "authorized"]
      <4>1. /\ requests'[r].wrote = requests[r].wrote /\ requests'[r].reply = requests[r].reply
            /\ requests'[r].operation = requests[r].operation /\ requests'[r].form = requests[r].form
        BY <1>2, <3>2 DEF RequestShape
      <4> QED  BY <2>3, <4>1 DEF Untouched
    <3> QED  BY <2>5, <3>1, <3>2 DEF Authorize, Answer
  <2>6. CASE Deliver(r)
    <3>1. requests'[r] = Ended(requests[r])
      BY <1>2, <2>6 DEF Deliver
    <3>2. /\ requests'[r].wrote = requests[r].wrote /\ requests'[r].reply = requests[r].reply
          /\ requests'[r].operation = requests[r].operation /\ requests'[r].form = requests[r].form
      BY <2>4, <3>1, EndedIs
    <3> QED  BY <2>3, <3>2 DEF Untouched
  <2> QED  BY <1>4, <2>2, <2>5, <2>6 DEF OfRequest, Saves
<1>5. CASE Tick \/ Stand \/ (\E f \in Features : Map(f)) \/ Uninstall \/ Refresh \/ Abort \/ UNCHANGED vars
  BY <1>5 DEF Tick, Stand, Map, Uninstall, Refresh, Abort, vars
<1> QED  BY <1>3, <1>4, <1>5 DEF Next

(* While a save has the lock, the others only refresh the settings.           *)
LEMMA HeldSettings ==
  ASSUME SettingsIInv, [Next]_vars, lock' = lock, lock # Free
  PROVE  /\ \A r \in 1..MaxRequests : ~Saves(r)
         /\ ~settings'.rewound =>
              /\ ~settings.rewound /\ settings'.updatedAt >= settings.updatedAt
              /\ settings'.mode = settings.mode /\ settings'.selection = settings.selection
              /\ settings'.delay = settings.delay
<1>1. settings \in Rows /\ settings.updatedAt \in Nat
  BY DEF SettingsIInv, WorldOK, Rows
<1>2. \A r \in 1..MaxRequests : ~Saves(r)
  BY DEF Saves, SaveFeatures, Check, Save
<1>3. CASE settings' = settings
  BY <1>1, <1>2, <1>3
<1>4. CASE Refresh
  <2>1. PICK now \in Instants :
              settings' = [settings EXCEPT !.updatedAt = now, !.rewound = @ \/ now <= settings.updatedAt]
    BY <1>4 DEF Refresh
  <2>2. now \in Nat
    BY BoundsAreNaturals DEF Instants
  <2>3. /\ settings'.updatedAt = now /\ settings'.mode = settings.mode
        /\ settings'.selection = settings.selection /\ settings'.delay = settings.delay
        /\ settings'.rewound = (settings.rewound \/ now <= settings.updatedAt)
    BY <1>1, <2>1 DEF Rows
  <2>4. ~settings'.rewound => settings.rewound = FALSE /\ ~(now <= settings.updatedAt)
    BY <1>1, <2>3 DEF Rows
  <2> QED  BY <1>1, <1>2, <2>2, <2>3, <2>4
<1>5. ASSUME NEW t \in Tabs, InTab(t) PROVE settings' = settings
  BY <1>5 DEF InTab, Read, Show, Leave, TimeOut, Submit, Reconcile, rows
<1>6. ASSUME NEW r \in 1..MaxRequests, OfRequest(r) PROVE settings' = settings
  BY <1>2, <1>6 DEF OfRequest, Saves, Authorize, Deliver, rows
<1>7. CASE Tick \/ Stand \/ (\E f \in Features : Map(f)) \/ UNCHANGED vars
  BY <1>3, <1>7 DEF Tick, Stand, Map, rows, vars
<1>8. ~Uninstall /\ ~Abort
  BY DEF Uninstall, Abort
<1> QED  BY <1>3, <1>4, <1>5, <1>6, <1>7, <1>8 DEF Next

(* What a save has read stands until it writes, but for refreshes.            *)
LEMMA HeldStays ==
  ASSUME SettingsIInv, LockOK, [Next]_vars, lock' = lock, lock.by # 0
  PROVE  HeldBy(lock.by)'
<1>1. PICK r : r = lock.by
  OBVIOUS
<1> DEFINE q == requests[r]
<1>2. HeldBy(r) /\ lock # Free /\ r \in 1..MaxRequests /\ sent \in Nat
  BY <1>1, BoundsAreNaturals DEF LockOK, Free, HeldBy, SettingsIInv, WorldOK
<1>3. /\ \A s \in 1..MaxRequests : ~Saves(s)
      /\ ~settings'.rewound =>
           /\ ~settings.rewound /\ settings'.updatedAt >= settings.updatedAt
           /\ settings'.mode = settings.mode /\ settings'.selection = settings.selection
           /\ settings'.delay = settings.delay
  BY <1>2, HeldSettings
<1>4. \A s \in 1..MaxRequests : Untouched(s)
  BY <1>3, OnlySaves
<1>5. requests'[r] = q
  BY <1>2, <1>4 DEF Untouched, HeldBy
<1>6. Writers' = Writers
  BY <1>4 DEF Writers, Untouched
<1>7. sent' \in Nat /\ sent <= sent' /\ sent' <= MaxRequests /\ \A s \in 1..sent' : s > sent => requests[s] = Request
  <2>1. sent' = sent \/ (sent' = sent + 1 /\ sent < MaxRequests)
    <3>1. ASSUME NEW t \in Tabs, InTab(t) PROVE sent' = sent \/ (sent' = sent + 1 /\ sent < MaxRequests)
      BY <3>1 DEF InTab, Read, Show, Leave, TimeOut, Submit, Reconcile, Send
    <3>2. ASSUME NEW s \in 1..MaxRequests, OfRequest(s) PROVE sent' = sent
      BY <1>3, <3>2 DEF OfRequest, Saves, Authorize, Deliver
    <3>3. CASE Tick \/ Stand \/ (\E f \in Features : Map(f)) \/ Uninstall \/ Refresh \/ Abort \/ UNCHANGED vars
      BY <3>3 DEF Tick, Stand, Map, Uninstall, Refresh, Abort, vars
    <3> QED  BY <3>1, <3>2, <3>3 DEF Next
  <2>2. sent <= MaxRequests /\ MaxRequests \in Nat
    BY <1>2, BoundsAreNaturals DEF SettingsIInv, WorldOK
  <2>3. sent' \in Nat /\ sent <= sent' /\ sent' <= MaxRequests
    BY <1>2, <2>1, <2>2
  <2>4. \A s \in 1..MaxRequests : s > sent => requests[s] = Request
    BY DEF SettingsIInv, RequestOK
  <2> QED  BY <1>2, <2>2, <2>3, <2>4
<1>8. ASSUME ~settings.rewound, NEW s \in 1..sent', requests'[s].operation = q.operation
      PROVE  ~Spent(requests'[s])
  <2>1. s \in 1..MaxRequests /\ MaxRequests \in Nat
    BY <1>7, BoundsAreNaturals
  <2>2. Untouched(s)
    BY <1>4, <2>1
  <2>3. CASE s > sent
    <3>1. requests[s] = Request
      BY <1>7, <2>3
    <3>2. requests'[s].wrote = FALSE /\ requests'[s].reply # "CONFLICT"
      BY <2>2, <3>1 DEF Untouched, Request
    <3> QED  BY <3>2 DEF Spent
  <2>4. CASE s <= sent
    <3>1. s \in 1..sent
      BY <1>2, <2>1, <2>4
    <3>2. requests[s].operation = q.operation /\ requests'[s].form = requests[s].form
      BY <1>8, <2>2, <2>4 DEF Untouched
    <3>3. ~Spent(requests[s])
      BY <1>2, <1>8, <3>1, <3>2 DEF HeldBy
    <3> QED  BY <2>2, <3>2, <3>3 DEF Untouched, Spent
  <2> QED  BY <1>2, <2>1, <2>3, <2>4
<1>9. r \in 1..sent'
  BY <1>2, <1>7 DEF HeldBy
<1>10. /\ q.at = "authorized" /\ q.form # "features"
       /\ lock.row \in Rows /\ lock.row.updatedAt >= 1 /\ lock.row.updatedAt <= MaxClock + Cardinality(Writers)
       /\ q.revision = <<lock.row.updatedAt>>
       /\ q.form = "recovery" => ~(q.value.mode = "FIXED" /\ q.value.selection = {})
       /\ ~settings.rewound =>
            /\ lock.row.updatedAt <= settings.updatedAt
            /\ q.seen.mode = settings.mode /\ q.seen.selection = settings.selection
            /\ q.seen.delay = settings.delay
  BY <1>2 DEF HeldBy
<1>11. ~settings'.rewound => lock.row.updatedAt <= settings'.updatedAt
  <2>1. settings.updatedAt \in Nat /\ lock.row.updatedAt \in Nat
    BY <1>10 DEF SettingsIInv, WorldOK, Rows
  <2>2. settings'.updatedAt \in Nat
    <3>1. SettingsIInv'
      BY SettingsNextKeeps
    <3> QED  BY <3>1 DEF SettingsIInv, WorldOK, Rows
  <2> QED  BY <1>3, <1>10, <2>1, <2>2
<1> DEFINE w == requests'[r]
<1>12. w = q
  BY <1>5
<1> HIDE DEF w
<1>13. HeldBy(r)'
  BY <1>3, <1>6, <1>8, <1>9, <1>10, <1>11, <1>12 DEF HeldBy, w
<1> QED  BY <1>1, <1>13

LEMMA LockNextKeeps == SettingsIInv /\ LockOK /\ [Next]_vars => LockOK'
<1> SUFFICES ASSUME SettingsIInv, LockOK, [Next]_vars, lock'.by # 0 PROVE HeldBy(lock.by)'
  BY DEF LockOK
<1>1. CASE lock' = lock
  BY <1>1, HeldStays
<1>2. CASE lock' # lock
  <2>1. lock' # Free
    BY DEF Free
  <2>2. PICK r \in 1..MaxRequests : Check(r)
    <3>1. ASSUME NEW t \in Tabs, InTab(t) PROVE FALSE
      BY <1>2, <3>1 DEF InTab, Read, Show, Leave, TimeOut, Submit, Reconcile, world
    <3>2. ASSUME NEW s \in 1..MaxRequests, OfRequest(s) PROVE Check(s)
      BY <1>2, <2>1, <3>2 DEF OfRequest, Authorize, SaveFeatures, Save, Deliver, world
    <3>3. CASE Tick \/ Stand \/ (\E f \in Features : Map(f)) \/ Uninstall \/ Refresh \/ Abort \/ UNCHANGED vars
      BY <1>2, <2>1, <3>3 DEF Tick, Stand, Map, Uninstall, Refresh, Abort, vars
    <3> QED  BY <3>1, <3>2, <3>3 DEF Next
  <2> DEFINE q == requests[r]
  <2>3. /\ UNCHANGED <<settings, requests, sent>>
        /\ lock' = [by |-> r, since |-> clock, row |-> settings]
        /\ q.at = "authorized" /\ q.form # "features"
        /\ SettingsReply(q.form, q.value, q.revision) = "ok"
    BY <1>2, <2>2, CheckLocks
  <2>4. lock'.by = r /\ lock'.row = settings
    BY <2>3
  <2>5. /\ q.revision = <<settings.updatedAt>>
        /\ q.form = "recovery" => ~(q.value.mode = "FIXED" /\ q.value.selection = {})
    BY <2>3 DEF SettingsReply
  <2>6. /\ r \in 1..sent /\ InFlight(q) /\ Fresh(q.revision, q.seen, settings)
        /\ \A s \in 1..sent : requests[s].operation = q.operation => SameIntent(requests[s], requests[r])
    BY <2>3, SaveIs DEF SettingsIInv, OperationsOK
  <2>7. settings \in Rows /\ settings.updatedAt \in Nat /\ settings.updatedAt >= 1
        /\ settings.updatedAt <= MaxClock + Cardinality(Writers)
    BY DEF SettingsIInv, WorldOK, Rows, CountOK
  <2>8. ~settings.rewound => /\ q.seen.mode = settings.mode /\ q.seen.selection = settings.selection
                             /\ q.seen.delay = settings.delay
    BY <2>5, <2>6, <2>7 DEF Fresh
  <2>9. ASSUME ~settings.rewound, NEW s \in 1..sent, requests[s].operation = q.operation, Spent(requests[s])
        PROVE  FALSE
    <3>1. Gone(q.form, q.revision, settings, preferences)
      BY <2>6, <2>9 DEF SettingsIInv, OnceOK
    <3>2. Past(q.revision, settings)
      BY <2>3, <3>1 DEF Gone
    <3> QED  BY <2>5, <2>7, <2>9, <3>2 DEF Past
  <2>10. Writers' = Writers
    BY <2>3 DEF Writers
  <2>11. HeldBy(r)'
    BY <2>3, <2>4, <2>5, <2>6, <2>7, <2>8, <2>9, <2>10 DEF HeldBy
  <2> QED  BY <2>4, <2>11
<1> QED  BY <1>1, <1>2

SettingsLockInv == SettingsIInv /\ LockOK

LEMMA SettingsLockHolds == Spec => []SettingsLockInv
<1>1. Init => SettingsLockInv
  BY SettingsInitHolds DEF SettingsLockInv, LockOK, Init, Free
<1>2. SettingsLockInv /\ [Next]_vars => SettingsLockInv'
  BY SettingsNextKeeps, LockNextKeeps DEF SettingsLockInv
<1> QED  BY <1>1, <1>2, PTL DEF Spec

(* Who writes the settings has the lock, and what it has read stands.         *)
LEMMA WriterHolds ==
  ASSUME SettingsIInv, LockOK, [Next]_vars, NEW r \in 1..MaxRequests, Writes(r)
  PROVE  \/ requests[r].form = "features" /\ SaveFeatures(r)
         \/ Save(r) /\ HeldBy(r)
<1>1. Saves(r)
  BY OnlySaves DEF Writes, Untouched
<1>2. CASE SaveFeatures(r)
  BY <1>2 DEF SaveFeatures
<1>3. CASE Save(r)
  <2>1. lock.by = r /\ r # 0
    BY <1>3 DEF Save
  <2> QED  BY <1>3, <2>1 DEF LockOK
<1>4. CASE Check(r)
  <2>1. CASE lock' # lock
    BY <1>4, <2>1, CheckLocks DEF Writes
  <2>2. CASE lock' = lock
    <3>1. PICK reply : Refused(r, reply)
      BY <1>4, <2>2, CheckRefuses
    <3> DEFINE a == Answered(requests[r], reply)
    <3>2. a = Answered(requests[r], reply) /\ requests'[r] = a /\ r \in 1..sent
      BY <3>1, SaveIs DEF Refused, SettingsIInv
    <3> HIDE DEF a
    <3>3. a.wrote = requests[r].wrote
      BY <3>2, AnsweredIs
    <3> QED  BY <3>2, <3>3 DEF Writes
  <2> QED  BY <2>1, <2>2
<1> QED  BY <1>1, <1>2, <1>3, <1>4 DEF Saves

LEMMA SettingsIInvSays == SettingsIInv => SettingsInv
<1> SUFFICES ASSUME SettingsIInv PROVE SettingsInv
  OBVIOUS
<1>1. settings.updatedAt \in 1..(MaxClock + MaxRequests) /\ settings.delay \in {0, 1}
  <2>1. Cardinality(Writers) <= MaxRequests
    BY WritersAreFinite, FS_Subset
  <2>2. settings.updatedAt \in Nat /\ settings.updatedAt >= 1 /\ settings.updatedAt <= MaxClock + Cardinality(Writers)
    BY DEF SettingsIInv, WorldOK, CountOK, Rows
  <2>3. Cardinality(Writers) \in Nat
    BY WritersAreFinite
  <2>4. settings.delay \in {0, 1}
    BY DEF SettingsIInv, WorldOK, Rows
  <2> QED  BY <2>1, <2>2, <2>3, <2>4, BoundsAreNaturals
<1>2. settings.mode = "FIXED" => settings.selection # {} \/ settings.rewound
  BY DEF SettingsIInv, WorldOK
<1>3. Current \in Values
  BY ValuesAreTyped DEF SettingsIInv
<1>4. \A f \in Features : preferences[f].enabled => preferences[f].at \in 1..clock
  <2>1. \A f \in Features : preferences[f].at \in Nat
    BY DEF SettingsIInv, WorldOK, Preferred
  <2> QED  BY <2>1, BoundsAreNaturals DEF SettingsIInv, WorldOK
<1>5. \A r \in 1..MaxRequests : requests[r].at = "unsent" <=> r > sent
  <2>1. sent \in Nat
    BY BoundsAreNaturals DEF SettingsIInv, WorldOK
  <2> QED  BY <2>1 DEF SettingsIInv, RequestOK, Request
<1>6. \A t \in Tabs, f \in Forms : forms[t][f].attempt <= sent /\ forms[t][f].operation <= forms[t][f].attempt
  BY DEF SettingsIInv, FormOK
<1> QED  BY <1>1, <1>2, <1>3, <1>4, <1>5, <1>6 DEF SettingsInv, TypeOK, SettingsIInv

(* However the tabs load, save and retry, the rows are typed, the requests    *)
(* and forms are numbered as they are sent, and a form that no longer saves   *)
(* tells the outcome of its last attempt.                                     *)
THEOREM SettingsAlwaysHolds == Spec => []SettingsInv
<1>1. SettingsLockInv => SettingsInv
  BY SettingsIInvSays DEF SettingsLockInv
<1> QED  BY <1>1, SettingsLockHolds, PTL

(* A save of the policy or of the delay replaces only values that its         *)
(* merchant was shown, though the settings may be refreshed between its read  *)
(* and its write: no save of another tab or form is lost, as long as every    *)
(* write leaves a later revision than the one it replaces.                    *)
THEOREM NoUpdateLost == Spec => NoLostUpdate
<1> DEFINE Replaces(r) ==
             Writes(r) /\ requests[r].form # "features" /\ ~settings.rewound =>
               \A field \in {"mode", "selection", "delay"} : requests[r].seen[field] = settings[field]
           A == \A r \in 1..MaxRequests : Replaces(r)
<1>1. SettingsLockInv /\ [Next]_vars => [A]_vars
  <2> SUFFICES ASSUME SettingsIInv, LockOK, [Next]_vars, NEW r \in 1..MaxRequests,
                      Writes(r), requests[r].form # "features", ~settings.rewound
               PROVE  \A field \in {"mode", "selection", "delay"} : requests[r].seen[field] = settings[field]
    BY DEF SettingsLockInv
  <2>1. HeldBy(r)
    BY WriterHolds
  <2> QED  BY <2>1 DEF HeldBy
<1> HIDE DEF A
<1>2. Spec => [][A]_vars
  BY <1>1, SettingsLockHolds, PTL DEF Spec
<1> QED  BY <1>2 DEF NoLostUpdate, A

LEMMA OnceWritten ==
  ASSUME SettingsIInv, LockOK, [Next]_vars, NEW r \in 1..MaxRequests, NEW s \in (1..MaxRequests) \ {r},
         Writes(r), requests[s].operation = requests[r].operation, ~settings.rewound
  PROVE  /\ ~requests[s].wrote
         /\ requests[r].form # "features" => requests[s].reply # "CONFLICT"
<1> DEFINE q == requests[r]
<1>1. \/ q.form = "features" /\ SaveFeatures(r)
      \/ Save(r) /\ HeldBy(r)
  BY WriterHolds
<1>2. q.at = "authorized"
  BY <1>1 DEF SaveFeatures, HeldBy
<1>3. r \in 1..sent /\ InFlight(q) /\ q.operation \in 1..r
  BY <1>2, SaveIs
<1>4. s \in 1..sent
  <2>1. requests[s].at # "unsent"
    <3>1. RequestOK(s, requests[s], settings, sent) /\ sent \in Nat
      BY BoundsAreNaturals DEF SettingsIInv, WorldOK
    <3>2. Request.operation = 0 /\ requests[s].operation # 0
      BY <1>3 DEF Request
    <3>3. s <= sent
      BY <3>1, <3>2 DEF RequestOK
    <3> QED  BY <3>1, <3>3 DEF RequestOK
  <2> QED  BY <2>1, SentRange
<1>5. requests[s].form = q.form
  BY <1>3, <1>4 DEF SettingsIInv, OperationsOK, SameIntent
<1>6. ~Spent(requests[s])
  <2> SUFFICES ASSUME Spent(requests[s]) PROVE FALSE
    OBVIOUS
  <2>1. Gone(q.form, q.revision, settings, preferences)
    BY <1>3, <1>4 DEF SettingsIInv, OnceOK
  <2>2. CASE Save(r) /\ HeldBy(r)
    BY <1>4, <2>2 DEF HeldBy
  <2>3. CASE q.form = "features" /\ SaveFeatures(r)
    <3>1. PICK now, a : now \in Instants /\ SavesPreferences(r, now, a)
      <4>1. FeaturesReply(q.value, q.revision) = "ok"
        <5> DEFINE reply == FeaturesReply(q.value, q.revision)
                   a == Answered(requests[r], reply)
        <5> SUFFICES ASSUME reply # "ok" PROVE FALSE
          OBVIOUS
        <5>1. requests'[r] = a /\ a = Answered(requests[r], reply)
          BY <2>3 DEF SaveFeatures, Answer, SettingsIInv
        <5> HIDE DEF a, reply
        <5>2. a.wrote = requests[r].wrote
          BY <1>3, <5>1, AnsweredIs
        <5> QED  BY <5>1, <5>2 DEF Writes
      <4> QED  BY <2>3, <4>1, PreferencesSaid
    <3>2. preferences' # preferences /\ q.revision = <<mapped, preferences>>
      <4>1. requests'[r] = a /\ a.wrote = (preferences' # preferences)
        BY <3>1, SavedMoves DEF SavesPreferences
      <4>2. preferences' # preferences
        BY <4>1 DEF Writes
      <4> QED  BY <3>1, <4>2, PreferencesAdvance
    <3>3. q.revision \in Pairs /\ q.revision[2] = preferences
      <4>1. preferences \in Preferred /\ mapped \in SUBSET Features
        BY DEF SettingsIInv, WorldOK
      <4>2. <<mapped, preferences>> \in Pairs
        BY <4>1 DEF Pairs
      <4> QED  BY <3>2, <4>2
    <3> QED  BY <2>1, <2>3, <3>3 DEF Gone
  <2> QED  BY <1>1, <2>2, <2>3
<1> QED  BY <1>5, <1>6 DEF Spent

LEMMA NotToldOfItsOwn ==
  ASSUME SettingsIInv, LockOK, [Next]_vars, NEW r \in 1..MaxRequests,
         requests'[r].reply = "CONFLICT", requests[r].reply = "none", requests[r].form = "features"
  PROVE  writer # requests[r].operation
<1> DEFINE q == requests[r]
           value == q.value
           reply == FeaturesReply(value, q.revision)
<1>1. SaveFeatures(r)
  <2>1. Saves(r)
    BY OnlySaves DEF Untouched
  <2>2. ~Check(r)
    BY DEF Check
  <2>3. ~Save(r)
    <3>1. Save(r) => lock.by = r /\ r # 0
      BY DEF Save
    <3> QED  BY <3>1 DEF LockOK, HeldBy
  <2> QED  BY <2>1, <2>2, <2>3 DEF Saves
<1>2. q.at = "authorized" /\ r \in 1..sent /\ InFlight(q) /\ q.operation \in 1..r /\ value \in Values
  BY <1>1, SaveIs DEF SaveFeatures
<1>3. reply = "CONFLICT"
  <2>1. CASE reply = "ok"
    <3>1. PICK now, a : now \in Instants /\ SavesPreferences(r, now, a)
      BY <1>1, <2>1, PreferencesSaid
    <3>2. requests'[r] = a /\ a.reply = "ok"
      BY <3>1, SavedMoves DEF SavesPreferences, Told
    <3> QED  BY <3>2
  <2>2. CASE reply # "ok"
    <3> DEFINE a == Answered(requests[r], reply)
    <3>1. requests'[r] = a /\ a = Answered(requests[r], reply)
      BY <1>1, <2>2 DEF SaveFeatures, Answer, SettingsIInv
    <3> HIDE DEF a, reply
    <3>2. a.reply = reply
      BY <1>2, <3>1, AnsweredIs
    <3> QED  BY <3>1, <3>2
  <2> QED  BY <2>1, <2>2
<1>4. Changes(value) # {}
  BY <1>3 DEF FeaturesReply
<1>5. PICK f \in value.shown : (f \in value.enabled) # preferences[f].enabled
  BY <1>4 DEF Changes
<1>6. f \in Features
  BY <1>2, <1>5 DEF Values
<1> SUFFICES ASSUME writer = q.operation PROVE FALSE
  OBVIOUS
<1>7. Done(value, preferences)
  <2>1. writer # 0
    BY <1>2
  <2> QED  BY <1>2, <2>1 DEF SettingsIInv, WriterOK
<1>8. preferences[f].enabled = (f \in value.enabled)
  BY <1>5, <1>6, <1>7 DEF Done
<1> QED  BY <1>5, <1>8

(* However many times an operation is sent, it takes effect at most once, and *)
(* never after one of its requests was answered with a conflict; and what an  *)
(* operation has saved of the features is not told as changed elsewhere when  *)
(* it is sent again.                                                          *)
THEOREM AlwaysTakesEffectOnce == Spec => TakesEffectOnce
<1> DEFINE Once(r) ==
             /\ \A q \in (1..MaxRequests) \ {r} :
                  Writes(r) /\ requests[q].operation = requests[r].operation /\ ~settings.rewound =>
                    /\ ~requests[q].wrote
                    /\ requests[r].form # "features" => requests[q].reply # "CONFLICT"
             /\ requests'[r].reply = "CONFLICT" /\ requests[r].reply = "none" /\ requests[r].form = "features" =>
                  writer # requests[r].operation
           A == \A r \in 1..MaxRequests : Once(r)
<1>1. SettingsLockInv /\ [Next]_vars => [A]_vars
  BY OnceWritten, NotToldOfItsOwn DEF SettingsLockInv
<1> HIDE DEF A
<1>2. Spec => [][A]_vars
  BY <1>1, SettingsLockHolds, PTL DEF Spec
<1> QED  BY <1>2 DEF TakesEffectOnce, A
=============================================================================
