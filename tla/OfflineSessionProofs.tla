------------------------ MODULE OfflineSessionProofs ------------------------
(* Proofs about OfflineSession, for any number of authentications, session    *)
(* ids, token requests and credentials. A commit installs the transaction's   *)
(* draft, so the inductive invariant says what the draft and the binding may  *)
(* hold compared with the committed rows, while the lock keeps these still.   *)
EXTENDS OfflineSession, TLAPS

(* The lock's holder is at work or about to settle.                           *)
HolderWorks == lock # NoCall => lock \in Calls /\ pc[lock] \in {"work", "settle"}

(* A transaction starts with a binding that has seen nothing.                 *)
IdleBinding == lock = NoCall => pending = {} /\ requests = [i \in Slots |-> Unsent]

(* The draft has a row only under the binding's session id.                   *)
DraftBound == \A id \in SessionIds : draft[id] # 0 => sessionId = id

(* Nothing the binding could store or has stored is older than a row.         *)
BindingAhead ==
    lock # NoCall =>
        \A id \in SessionIds :
            /\ persisted >= session[id]
            /\ draft[id] # 0 => draft[id] >= session[id]
            /\ \A token \in pending : token >= session[id]
            /\ \A i \in Slots : requests[i].issued # 0 => requests[i].issued >= session[id]

(* A call that did not come to install works on a committed row.              *)
SessionPathBound ==
    lock # NoCall /\ path[lock] # "installation" =>
        sessionId \in SessionIds /\ session[sessionId] # 0

IndInv ==
    /\ TypeOK
    /\ OneOfflineSession
    /\ HolderWorks
    /\ IdleBinding
    /\ DraftBound
    /\ BindingAhead
    /\ SessionPathBound

(* The requests a binding starts with and adds.                               *)
LEMMA NewRequests ==
    /\ Unsent \in Request /\ Unsent.issued = 0
    /\ \A refresh \in BOOLEAN : Asked(refresh) \in Request /\ Asked(refresh).issued = 0
BY BoundsAssumption DEF Request, Unsent, Asked

(* The initial states satisfy the invariant.                                  *)
LEMMA InitIndInv == Init => IndInv
<1>. SUFFICES ASSUME Init PROVE IndInv
  OBVIOUS
<1>1. /\ session \in [SessionIds -> 0..issued]
      /\ \A id, other \in SessionIds : session[id] # 0 /\ session[other] # 0 => id = other
      /\ issued \in 0..MaxTokens
  BY BoundsAssumption DEF Init, NoRows
<1>2. TypeOK
  <2>1. NoRows \in [SessionIds -> 0..issued]
    BY <1>1, BoundsAssumption DEF NoRows
  <2>2. [i \in Slots |-> Unsent] \in [Slots -> Request]
    BY NewRequests
  <2>3. 0 \in 0..MaxRequests /\ 0 \in 0..issued
    BY <1>1, BoundsAssumption
  <2>4. /\ pc \in [Calls -> {"hint", "wait", "work", "settle", "done"}]
        /\ path \in [Calls -> {"none", "session", "installation"}]
        /\ answer \in [Calls -> Answers]
    BY DEF Init, Answers
  <2>5. \A i \in Slots : requests[i].issued <= issued
    BY <1>1, NewRequests, BoundsAssumption DEF Init
  <2>. QED  BY <1>1, <2>1, <2>2, <2>3, <2>4, <2>5 DEF Init, TypeOK
<1>3. OneOfflineSession
  BY <1>1 DEF OneOfflineSession, Rows
<1>4. DraftBound
  BY DEF Init, NoRows, DraftBound
<1>5. HolderWorks /\ IdleBinding /\ BindingAhead /\ SessionPathBound
  BY DEF Init, HolderWorks, IdleBinding, BindingAhead, SessionPathBound
<1>. QED  BY <1>2, <1>3, <1>4, <1>5 DEF IndInv

-----------------------------------------------------------------------------
(* Type correctness, step by step.                                            *)

(* Clearing the binding leaves everything of its kind.                        *)
LEMMA ResetType ==
    ASSUME TypeOK, ResetBinding, UNCHANGED issued
    PROVE  /\ draft' \in [SessionIds -> 0..issued']
           /\ sessionId' \in SessionIds \cup {NoSession}
           /\ persisted' \in 0..issued'
           /\ pending' \subseteq 1..issued'
           /\ stored' \in BOOLEAN
           /\ tokenOutcome' \in {"none", "rejected", "unknown", "succeeded"}
           /\ sent' \in 0..MaxRequests
           /\ requests' \in [Slots -> Request]
           /\ \A i \in Slots : requests'[i].issued <= issued'
           /\ result' \in {"none", "value", "redirect", "response", "error"}
<1>1. issued' \in Nat
  BY BoundsAssumption DEF TypeOK
<1>2. NoRows \in [SessionIds -> 0..issued']
  BY <1>1 DEF NoRows
<1>3. [i \in Slots |-> Unsent] \in [Slots -> Request]
  BY NewRequests
<1>4. 0 \in 0..MaxRequests /\ 0 \in 0..issued'
  BY <1>1, BoundsAssumption
<1>5. \A i \in Slots : [j \in Slots |-> Unsent][i].issued <= issued'
  BY <1>1, NewRequests
<1>. QED  BY <1>2, <1>3, <1>4, <1>5 DEF ResetBinding

(* However a transaction ends, what it leaves is of its kind.                 *)
LEMMA EndType ==
    ASSUME TypeOK, NEW c \in Calls, NEW code \in Answers, NEW events,
           End(c, code, events), session' \in {session, draft}
    PROVE  TypeOK'
<1>1. UNCHANGED <<shopStatus, issued, surface, path>>
  BY DEF End
<1>2. session' \in [SessionIds -> 0..issued']
  BY <1>1 DEF TypeOK
<1>3. /\ pc' \in [Calls -> {"hint", "wait", "work", "settle", "done"}]
      /\ answer' \in [Calls -> Answers]
      /\ lock' \in Calls \cup {NoCall}
  BY DEF End, TypeOK
<1>4. ResetBinding
  BY DEF End
<1>. QED  BY <1>1, <1>2, <1>3, <1>4, ResetType DEF TypeOK

LEMMA HintType ==
    ASSUME TypeOK, NEW c \in Calls, Hint(c)
    PROVE  TypeOK'
<1>1. ASSUME NEW code \in Answers, Refuse(c, code)
      PROVE  /\ pc' \in [Calls -> {"hint", "wait", "work", "settle", "done"}]
             /\ path' \in [Calls -> {"none", "session", "installation"}]
             /\ answer' \in [Calls -> Answers]
  BY <1>1 DEF Refuse, TypeOK
<1>2. ASSUME NEW kind \in {"session", "installation"}, Wait(c, kind)
      PROVE  /\ pc' \in [Calls -> {"hint", "wait", "work", "settle", "done"}]
             /\ path' \in [Calls -> {"none", "session", "installation"}]
             /\ answer' \in [Calls -> Answers]
  BY <1>2 DEF Wait, TypeOK
<1>3. (\E code \in Answers : Refuse(c, code)) \/ (\E kind \in {"session", "installation"} : Wait(c, kind))
  <2>1. "INVALID_SESSION" \in Answers /\ "SESSION_MISSING" \in Answers
        /\ "SESSION_IDENTITY_CONFLICT" \in Answers
    BY DEF Answers
  <2>. QED  BY <2>1 DEF Hint
<1>4. UNCHANGED <<shopState, issued, surface, lock, binding, report>>
  BY DEF Hint
<1>. QED  BY <1>1, <1>2, <1>3, <1>4 DEF TypeOK, shopState, binding

(* What Acquire does when it opens the transaction.                           *)
LEMMA AcquireOpens ==
    ASSUME TypeOK, NEW c \in Calls, Acquire(c), ~Refuse(c, "SESSION_MISSING")
    PROVE  /\ lock = NoCall /\ lock' = c /\ draft' = session /\ path' = path
           /\ pc' = [pc EXCEPT ![c] = "work"]
           /\ UNCHANGED <<shopState, issued, surface, answer, pending, stored,
                          tokenOutcome, sent, requests, result>>
           /\ path[c] # "installation" => Rows(session) # {}
           /\ \/ Rows(session) = {} /\ sessionId' = NoSession /\ persisted' = 0
              \/ \E id \in Rows(session) : sessionId' = id /\ persisted' = session[id]
BY DEF Acquire

LEMMA AcquireType ==
    ASSUME TypeOK, NEW c \in Calls, Acquire(c)
    PROVE  TypeOK'
<1>0. "SESSION_MISSING" \in Answers
  BY DEF Answers
<1>1. CASE Refuse(c, "SESSION_MISSING") /\ UNCHANGED <<lock, binding, report>>
  BY <1>0, <1>1 DEF TypeOK, Acquire, Refuse, shopState, binding
<1>2. CASE ~Refuse(c, "SESSION_MISSING")
  <2>1. persisted' \in 0..issued /\ sessionId' \in SessionIds \cup {NoSession}
    <3>1. CASE sessionId' = NoSession /\ persisted' = 0
      BY <3>1, BoundsAssumption DEF TypeOK
    <3>2. ASSUME NEW id \in Rows(session), sessionId' = id, persisted' = session[id]
          PROVE  persisted' \in 0..issued /\ sessionId' \in SessionIds
      BY <3>2 DEF Rows, TypeOK
    <3>. QED  BY <1>2, <3>1, <3>2, AcquireOpens
  <2>2. pc' \in [Calls -> {"hint", "wait", "work", "settle", "done"}]
    BY <1>2, AcquireOpens DEF TypeOK
  <2>. QED  BY <1>2, <2>1, <2>2, AcquireOpens DEF TypeOK, shopState
<1>. QED  BY <1>1, <1>2 DEF Acquire, Refuse, TypeOK

(* The request in flight is one of the slots.                                 *)
LEMMA InFlightSlot ==
    ASSUME TypeOK, InFlight
    PROVE  sent \in Slots /\ requests[sent] \in Request
BY BoundsAssumption DEF TypeOK, InFlight, Slots

(* A change to one request keeps them all of their kind.                      *)
LEMMA RequestsType ==
    ASSUME TypeOK, issued' \in 0..MaxTokens, issued' >= issued,
           NEW k \in Slots, NEW request \in Request, request.issued <= issued',
           requests' = [requests EXCEPT ![k] = request]
    PROVE  /\ requests' \in [Slots -> Request]
           /\ \A i \in Slots : requests'[i].issued <= issued'
<1>1. requests \in [Slots -> Request]
  BY DEF TypeOK
<1>2. \A i \in Slots : requests'[i] = IF i = k THEN request ELSE requests[i]
  BY <1>1
<1>3. ASSUME NEW i \in Slots PROVE requests[i].issued <= issued'
  <2>1. requests[i].issued \in 0..MaxTokens
    BY <1>1 DEF Request
  <2>. QED  BY <2>1, BoundsAssumption DEF TypeOK
<1>. QED  BY <1>1, <1>2, <1>3

LEMMA SdkType ==
    ASSUME TypeOK, NEW c \in Calls, SdkStep(c)
    PROVE  TypeOK'
<1>0. issued \in Nat /\ issued <= MaxTokens /\ MaxTokens \in Nat
  BY BoundsAssumption DEF TypeOK
<1>1. CASE SendTokenRequest(c)
  <2>1. sent + 1 \in Slots /\ sent' \in 0..MaxRequests
    BY <1>1, BoundsAssumption DEF SendTokenRequest, TypeOK, Slots
  <2>2. PICK refresh \in BOOLEAN : requests' = [requests EXCEPT ![sent + 1] = Asked(refresh)]
    BY <1>1 DEF SendTokenRequest
  <2>3. issued' = issued
    BY <1>1 DEF SendTokenRequest
  <2>4. /\ requests' \in [Slots -> Request]
        /\ \A i \in Slots : requests'[i].issued <= issued'
    <3>1. issued' \in 0..MaxTokens /\ issued' >= issued
      BY <1>0, <2>3
    <3>2. Asked(refresh) \in Request /\ Asked(refresh).issued <= issued'
      BY <1>0, <2>3, NewRequests
    <3>. QED  BY <2>1, <2>2, <3>1, <3>2, RequestsType
  <2>. QED  BY <1>1, <2>1, <2>3, <2>4 DEF SendTokenRequest, DuringWork, TypeOK, shopState, callState
<1>2. CASE ShopifyIssues(c)
  <2>1. sent \in Slots /\ requests[sent] \in Request
    BY <1>2, InFlightSlot DEF ShopifyIssues
  <2>2. issued' \in 0..MaxTokens /\ issued' = issued + 1
    BY <1>0, <1>2 DEF ShopifyIssues
  <2>3. [requests[sent] EXCEPT !.issued = issued + 1] \in Request
    BY <2>1, <2>2 DEF Request
  <2>4. /\ requests' \in [Slots -> Request]
        /\ \A i \in Slots : requests'[i].issued <= issued'
    <3>1. [requests[sent] EXCEPT !.issued = issued + 1].issued = issued'
      BY <2>1, <2>2 DEF Request
    <3>2. requests' = [requests EXCEPT ![sent] = [requests[sent] EXCEPT !.issued = issued + 1]]
      BY <1>2 DEF ShopifyIssues
    <3>3. issued' >= issued /\ [requests[sent] EXCEPT !.issued = issued + 1].issued <= issued'
      BY <1>0, <2>2, <3>1
    <3>. QED  BY <2>1, <2>2, <2>3, <3>2, <3>3, RequestsType
  <2>5. /\ session' \in [SessionIds -> 0..issued']
        /\ draft' \in [SessionIds -> 0..issued']
        /\ persisted' \in 0..issued'
        /\ pending' \subseteq 1..issued'
    BY <1>0, <1>2, <2>2 DEF ShopifyIssues, DuringWork, TypeOK, shopState
  <2>. QED  BY <1>2, <2>2, <2>4, <2>5 DEF ShopifyIssues, DuringWork, TypeOK, shopState, callState
<1>3. ASSUME NEW outcome \in {"rejected", "unknown", "succeeded"}, InFlight,
             SettleRequest(outcome), UNCHANGED pending,
             tokenOutcome' \in {"none", "rejected", "unknown", "succeeded"}
      PROVE  TypeOK'
  <2>1. sent \in Slots /\ requests[sent] \in Request
    BY <1>3, InFlightSlot
  <2>2. /\ [requests[sent] EXCEPT !.outcome = outcome] \in Request
        /\ [requests[sent] EXCEPT !.outcome = outcome].issued = requests[sent].issued
    BY <2>1 DEF Request
  <2>3. requests' = [requests EXCEPT ![sent] = [requests[sent] EXCEPT !.outcome = outcome]]
    BY <1>3 DEF SettleRequest
  <2>4. issued' = issued /\ requests[sent].issued <= issued
    BY <1>3, <2>1 DEF SettleRequest, TypeOK
  <2>5. /\ requests' \in [Slots -> Request]
        /\ \A i \in Slots : requests'[i].issued <= issued'
    <3>1. issued' \in 0..MaxTokens /\ issued' >= issued
      BY <1>0, <2>4
    <3>2. [requests[sent] EXCEPT !.outcome = outcome].issued <= issued'
      BY <2>2, <2>4
    <3>. QED  BY <2>1, <2>2, <2>3, <3>1, <3>2, RequestsType
  <2>. QED  BY <1>3, <2>4, <2>5 DEF SettleRequest, DuringWork, TypeOK, shopState, callState
<1>4. CASE TokenRejected(c)
  BY <1>3, <1>4 DEF TokenRejected
<1>5. CASE TokenAnswerLost(c)
  BY <1>3, <1>5 DEF TokenAnswerLost, TypeOK
<1>6. CASE TokenBodyLost(c)
  BY <1>3, <1>6 DEF TokenBodyLost
<1>7. CASE TokenReceived(c)
  <2>1. sent \in Slots /\ requests[sent] \in Request
    BY <1>7, InFlightSlot DEF TokenReceived
  <2>2. requests[sent].issued \in 1..issued
    BY <1>0, <1>7, <2>1 DEF TokenReceived, TypeOK, Request
  <2>3. DEFINE request == [requests[sent] EXCEPT !.outcome = "succeeded",
                                                 !.fingerprint = requests[sent].issued]
  <2>4. request \in Request /\ request.issued = requests[sent].issued
    BY <2>1 DEF Request
  <2>5. requests' = [requests EXCEPT ![sent] = request]
    BY <1>7, <2>1 DEF TokenReceived, TypeOK
  <2>6. issued' = issued
    BY <1>7 DEF TokenReceived
  <2>7. /\ requests' \in [Slots -> Request]
        /\ \A i \in Slots : requests'[i].issued <= issued'
    <3>. HIDE DEF request
    <3>1. issued' \in 0..MaxTokens /\ issued' >= issued
      BY <1>0, <2>6
    <3>2. request.issued <= issued'
      BY <1>0, <2>2, <2>4, <2>6
    <3>. QED  BY <2>1, <2>4, <2>5, <3>1, <3>2, RequestsType
  <2>8. pending' \subseteq 1..issued'
    BY <1>7, <2>2, <2>6 DEF TokenReceived, TypeOK
  <2>. QED  BY <1>7, <2>6, <2>7, <2>8 DEF TokenReceived, DuringWork, TypeOK, shopState, callState
<1>8. CASE StoreSession(c)
  <2>1. PICK id \in SessionIds, token \in 1..issued : MayStore(id, token) /\ Store(id, token)
    BY <1>8 DEF StoreSession
  <2>2. issued' = issued
    BY <1>8 DEF StoreSession
  <2>3. ASSUME NEW i \in Slots
        PROVE  /\ [requests[i] EXCEPT !.persisted = TRUE] \in Request
               /\ [requests[i] EXCEPT !.persisted = TRUE].issued = requests[i].issued
               /\ requests[i] \in Request
    BY DEF TypeOK, Request
  <2>4. requests' \in [Slots -> Request]
    BY <2>1, <2>3 DEF Store
  <2>5. \A i \in Slots : requests'[i].issued = requests[i].issued
    BY <2>1, <2>3 DEF Store
  <2>6. \A i \in Slots : requests'[i].issued <= issued'
    BY <2>2, <2>5 DEF TypeOK
  <2>7. /\ draft' \in [SessionIds -> 0..issued']
        /\ sessionId' \in SessionIds \cup {NoSession}
        /\ persisted' \in 0..issued'
        /\ pending' \subseteq 1..issued'
    BY <1>0, <2>1, <2>2 DEF Store, TypeOK
  <2>. QED  BY <1>8, <2>1, <2>2, <2>4, <2>6, <2>7
            DEF StoreSession, Store, DuringWork, TypeOK, shopState, callState
<1>9. CASE DeleteSession(c)
  BY <1>0, <1>9 DEF DeleteSession, DuringWork, TypeOK, shopState, callState
<1>10. CASE AuthenticateEnds(c)
  BY <1>10 DEF AuthenticateEnds, TypeOK, shopState
<1>. QED  BY <1>1, <1>2, <1>4, <1>5, <1>6, <1>7, <1>8, <1>9, <1>10 DEF SdkStep

LEMMA TypeStep ==
    ASSUME TypeOK, [Next]_vars
    PROVE  TypeOK'
<1>1. CASE UNCHANGED vars
  BY <1>1 DEF vars, shopState, callState, binding, TypeOK
<1>2. ASSUME NEW c \in Calls, CoordinationStep(c)
      PROVE  TypeOK'
  <2>1. CASE Hint(c)
    BY <2>1, HintType
  <2>2. CASE Acquire(c)
    BY <2>2, AcquireType
  <2>3. CASE Commit(c)
    BY <2>3, EndType DEF Commit, Answers
  <2>4. CASE CommitFails(c)
    BY <2>4, EndType DEF CommitFails, Answers
  <2>5. CASE RollBack(c)
    BY <2>5, EndType DEF RollBack, RefusalCode, Answers
  <2>6. CASE Abort(c)
    BY <2>6, EndType DEF Abort, Answers
  <2>. QED  BY <1>2, <2>1, <2>2, <2>3, <2>4, <2>5, <2>6 DEF CoordinationStep
<1>3. CASE Lifecycle
  <2>1. session' \in [SessionIds -> 0..issued] /\ issued' = issued
    BY <1>3, BoundsAssumption
    DEF Lifecycle, Uninstall, Redact, SetShopStatus, LifecycleOnly, NoRows, TypeOK
  <2>. QED  BY <1>3, <2>1
            DEF Lifecycle, Uninstall, Redact, SetShopStatus, LifecycleOnly, TypeOK, callState, binding
<1>. QED  BY <1>1, <1>2, <1>3, SdkType DEF Next

-----------------------------------------------------------------------------
(* The invariant, action by action.                                           *)

(* A call outside the lock does not disturb what the lock protects.           *)
LEMMA HintStep ==
    ASSUME IndInv, NEW c \in Calls, Hint(c)
    PROVE  IndInv'
<1>1. UNCHANGED <<shopState, issued, surface, lock, binding, report>> /\ pc[c] = "hint"
  BY DEF Hint
<1>2. \A d \in Calls : d # c => pc'[d] = pc[d] /\ path'[d] = path[d]
  BY DEF Hint, Refuse, Wait, IndInv, TypeOK
<1>3. lock # NoCall => lock \in Calls /\ lock # c
  BY <1>1 DEF IndInv, HolderWorks
<1>4. HolderWorks' /\ SessionPathBound'
  BY <1>1, <1>2, <1>3 DEF IndInv, HolderWorks, SessionPathBound, shopState, binding
<1>5. OneOfflineSession' /\ IdleBinding' /\ DraftBound' /\ BindingAhead'
  BY <1>1 DEF IndInv, OneOfflineSession, Rows, IdleBinding, DraftBound, BindingAhead, shopState, binding
<1>. QED  BY <1>4, <1>5, HintType DEF IndInv

(* The transaction opens on the one row there is, which is not older than     *)
(* itself, with nothing pending.                                              *)
LEMMA AcquireStep ==
    ASSUME IndInv, NEW c \in Calls, Acquire(c)
    PROVE  IndInv'
<1>1. TypeOK /\ TypeOK'
  BY AcquireType DEF IndInv
<1>2. CASE Refuse(c, "SESSION_MISSING")
  <2>1. lock = NoCall
    BY DEF Acquire
  <2>2. UNCHANGED <<lock, binding, session, path>>
    BY <1>1, <1>2 DEF Acquire, Refuse, TypeOK, shopState
  <2>. QED  BY <1>1, <2>1, <2>2 DEF IndInv, OneOfflineSession, Rows, HolderWorks, IdleBinding,
                                     DraftBound, BindingAhead, SessionPathBound, binding
<1>3. CASE ~Refuse(c, "SESSION_MISSING")
  <2>. USE <1>1, <1>3, AcquireOpens
  <2>1. lock' = c /\ c # NoCall /\ session' = session /\ draft' = session
    BY NamesAssumption DEF shopState
  <2>2. HolderWorks' /\ IdleBinding' /\ OneOfflineSession'
    BY <2>1 DEF IndInv, HolderWorks, IdleBinding, OneOfflineSession, Rows, TypeOK
  <2>3. pending' = {} /\ requests' = [i \in Slots |-> Unsent]
    BY DEF IndInv, IdleBinding
  <2>4. CASE Rows(session) = {} /\ sessionId' = NoSession /\ persisted' = 0
    <3>1. \A id \in SessionIds : session'[id] = 0 /\ draft'[id] = 0
      BY <2>1, <2>4 DEF Rows
    <3>. QED  BY <1>1, <2>1, <2>2, <2>3, <2>4, <3>1, NewRequests
              DEF IndInv, DraftBound, BindingAhead, SessionPathBound
  <2>5. CASE \E id \in Rows(session) : sessionId' = id /\ persisted' = session[id]
    <3>1. PICK id \in Rows(session) : sessionId' = id /\ persisted' = session[id]
      BY <2>5
    <3>2. /\ id \in SessionIds /\ session[id] # 0
          /\ \A other \in SessionIds : session[other] # 0 => other = id
      BY <3>1 DEF IndInv, OneOfflineSession, Rows
    <3>3. DraftBound' /\ SessionPathBound'
      BY <2>1, <3>1, <3>2 DEF DraftBound, SessionPathBound
    <3>4. \A other \in SessionIds : session[other] \in Nat /\ session[id] >= session[other]
      BY <3>2, BoundsAssumption DEF TypeOK
    <3>5. BindingAhead'
      BY <2>1, <2>3, <3>1, <3>4, NewRequests DEF BindingAhead
    <3>. QED  BY <2>2, <3>3, <3>5 DEF IndInv
  <2>. QED  BY <2>4, <2>5
<1>. QED  BY <1>2, <1>3

(* The end of a transaction frees the lock and clears the binding; only a     *)
(* commit changes the rows, to those of the draft.                            *)
LEMMA EndStep ==
    ASSUME IndInv, NEW c \in Calls, NEW code \in Answers, NEW events,
           End(c, code, events), session' \in {session, draft}
    PROVE  IndInv'
<1>1. lock' = NoCall /\ ResetBinding
  BY DEF End
<1>2. OneOfflineSession'
  BY DEF IndInv, OneOfflineSession, DraftBound, Rows
<1>3. IdleBinding' /\ DraftBound'
  BY <1>1 DEF ResetBinding, IdleBinding, DraftBound, NoRows
<1>4. HolderWorks' /\ BindingAhead' /\ SessionPathBound'
  BY <1>1 DEF HolderWorks, BindingAhead, SessionPathBound
<1>. QED  BY <1>2, <1>3, <1>4, EndType DEF IndInv

(* While the SDK works, the rows, the calls and the lock stand still: what is *)
(* left to show of a step is what it makes of the binding.                    *)
LEMMA WorkStep ==
    ASSUME IndInv, NEW c \in Calls, Working(c), SdkStep(c), HolderWorks',
           UNCHANGED <<session, path, lock>>,
           DraftBound', BindingAhead',
           sessionId = NoSession \/ sessionId' = sessionId
    PROVE  IndInv'
<1>1. TypeOK'
  BY SdkType DEF IndInv
<1>2. OneOfflineSession' /\ IdleBinding'
  BY NamesAssumption DEF IndInv, OneOfflineSession, Rows, IdleBinding, Working
<1>3. SessionPathBound'
  BY NamesAssumption DEF IndInv, SessionPathBound
<1>. QED  BY <1>1, <1>2, <1>3 DEF IndInv

LEMMA SdkInv ==
    ASSUME IndInv, NEW c \in Calls, SdkStep(c)
    PROVE  IndInv'
<1>1. Working(c) /\ c # NoCall
  BY NamesAssumption DEF SdkStep, SendTokenRequest, ShopifyIssues, TokenRejected, TokenAnswerLost,
     TokenBodyLost, TokenReceived, StoreSession, DeleteSession, AuthenticateEnds
<1>2. UNCHANGED <<session, path, lock, answer>>
  BY DEF SdkStep, SendTokenRequest, ShopifyIssues, TokenRejected, TokenAnswerLost,
     TokenBodyLost, TokenReceived, StoreSession, DeleteSession, AuthenticateEnds, SettleRequest,
     DuringWork, shopState, callState
<1>3. HolderWorks'
  <2>1. pc' = pc \/ pc' = [pc EXCEPT ![c] = "settle"]
    BY DEF SdkStep, SendTokenRequest, ShopifyIssues, TokenRejected, TokenAnswerLost,
       TokenBodyLost, TokenReceived, StoreSession, DeleteSession, AuthenticateEnds, SettleRequest,
       DuringWork, callState
  <2>. QED  BY <1>1, <1>2, <2>1 DEF IndInv, TypeOK, HolderWorks, Working
<1>4. /\ \A id \in SessionIds : /\ session[id] \in Nat /\ draft[id] \in Nat
                                /\ session[id] <= issued
      /\ issued \in Nat /\ MaxTokens \in Nat
      /\ requests \in [Slots -> Request]
      /\ \A i \in Slots : requests[i].issued \in Nat
  BY BoundsAssumption DEF IndInv, TypeOK, Request
<1>5. /\ \A id \in SessionIds :
            /\ persisted >= session[id]
            /\ draft[id] # 0 => draft[id] >= session[id]
            /\ \A token \in pending : token >= session[id]
            /\ \A i \in Slots : requests[i].issued # 0 => requests[i].issued >= session[id]
      /\ DraftBound
  BY <1>1 DEF IndInv, BindingAhead, Working
<1>6. CASE SendTokenRequest(c)
  <2>1. UNCHANGED <<draft, sessionId, persisted, pending>>
    BY <1>6 DEF SendTokenRequest
  <2>2. \A i \in Slots : requests'[i].issued \in {requests[i].issued, 0}
    BY <1>4, <1>6, NewRequests DEF SendTokenRequest
  <2>3. DraftBound' /\ BindingAhead'
    BY <1>2, <1>5, <2>1, <2>2 DEF DraftBound, BindingAhead
  <2>. QED  BY <1>1, <1>2, <1>3, <2>1, <2>3, WorkStep
<1>7. CASE ShopifyIssues(c)
  <2>1. UNCHANGED <<draft, sessionId, persisted, pending>>
    BY <1>7 DEF ShopifyIssues
  <2>2. sent \in Slots
    BY <1>7, InFlightSlot DEF IndInv, ShopifyIssues
  <2>3. \A i \in Slots : requests'[i].issued \in {requests[i].issued, issued + 1}
    BY <1>4, <1>7, <2>2 DEF ShopifyIssues, Request
  <2>4. \A i \in Slots, id \in SessionIds :
            requests'[i].issued # 0 => requests'[i].issued >= session[id]
    BY <1>4, <1>5, <2>3
  <2>5. DraftBound' /\ BindingAhead'
    BY <1>2, <1>5, <2>1, <2>4 DEF DraftBound, BindingAhead
  <2>. QED  BY <1>1, <1>2, <1>3, <2>1, <2>5, WorkStep
<1>8. CASE TokenRejected(c) \/ TokenAnswerLost(c) \/ TokenBodyLost(c)
  <2>1. UNCHANGED <<draft, sessionId, persisted, pending>>
    BY <1>8 DEF TokenRejected, TokenAnswerLost, TokenBodyLost, SettleRequest
  <2>2. \A i \in Slots : requests'[i].issued = requests[i].issued
    BY <1>4, <1>8 DEF TokenRejected, TokenAnswerLost, TokenBodyLost, SettleRequest, Request
  <2>3. DraftBound' /\ BindingAhead'
    BY <1>2, <1>5, <2>1, <2>2 DEF DraftBound, BindingAhead
  <2>. QED  BY <1>1, <1>2, <1>3, <2>1, <2>3, WorkStep
<1>9. CASE TokenReceived(c)
  <2>1. UNCHANGED <<draft, sessionId, persisted>>
    BY <1>9 DEF TokenReceived
  <2>2. sent \in Slots /\ requests[sent].issued # 0
        /\ pending' = pending \cup {requests[sent].issued}
    BY <1>9, InFlightSlot DEF IndInv, TokenReceived
  <2>3. \A i \in Slots : requests'[i].issued = requests[i].issued
    BY <1>4, <1>9 DEF TokenReceived, Request
  <2>4. DraftBound' /\ BindingAhead'
    BY <1>2, <1>5, <2>1, <2>2, <2>3 DEF DraftBound, BindingAhead
  <2>. QED  BY <1>1, <1>2, <1>3, <2>1, <2>4, WorkStep
<1>10. CASE StoreSession(c)
  <2>1. PICK id \in SessionIds, token \in 1..issued : MayStore(id, token) /\ Store(id, token)
    BY <1>10 DEF StoreSession
  <2>2. /\ draft' = [draft EXCEPT ![id] = token]
        /\ sessionId' = IF sessionId = NoSession THEN id ELSE sessionId
        /\ persisted' = token /\ pending' = {}
        /\ sessionId \in {NoSession, id}
        /\ token = persisted \/ token \in pending
    BY <2>1 DEF Store, MayStore
  <2>3. \A other \in SessionIds : draft'[other] = IF other = id THEN token ELSE draft[other]
    BY <2>2 DEF IndInv, TypeOK
  <2>4. \A i \in Slots : requests'[i].issued = requests[i].issued
    BY <1>4, <2>1 DEF Store, Request
  <2>5. DraftBound'
    BY <1>5, <2>2, <2>3, NamesAssumption DEF DraftBound
  <2>6. BindingAhead'
    BY <1>2, <1>4, <1>5, <2>2, <2>3, <2>4 DEF BindingAhead
  <2>. QED  BY <1>1, <1>2, <1>3, <2>2, <2>5, <2>6, WorkStep
<1>11. CASE DeleteSession(c)
  <2>1. /\ UNCHANGED <<sessionId, persisted, pending, requests>>
        /\ draft' = [draft EXCEPT ![sessionId] = 0]
    BY <1>11 DEF DeleteSession
  <2>2. \A id \in SessionIds : draft'[id] \in {draft[id], 0}
    BY <2>1 DEF IndInv, TypeOK
  <2>3. DraftBound' /\ BindingAhead'
    BY <1>2, <1>5, <2>1, <2>2 DEF DraftBound, BindingAhead
  <2>. QED  BY <1>1, <1>2, <1>3, <2>1, <2>3, WorkStep
<1>12. CASE AuthenticateEnds(c)
  <2>1. UNCHANGED <<draft, sessionId, persisted, pending, requests>>
    BY <1>12 DEF AuthenticateEnds
  <2>2. DraftBound' /\ BindingAhead'
    BY <1>2, <1>5, <2>1 DEF DraftBound, BindingAhead
  <2>. QED  BY <1>1, <1>2, <1>3, <2>1, <2>2, WorkStep
<1>. QED  BY <1>6, <1>7, <1>8, <1>9, <1>10, <1>11, <1>12 DEF SdkStep

(* An uninstall, a redaction and a change of status find the lock free.       *)
LEMMA LifecycleStep ==
    ASSUME IndInv, Lifecycle
    PROVE  IndInv'
<1>1. TypeOK'
  BY TypeStep DEF IndInv, Next
<1>2. UNCHANGED <<lock, pc, path, binding>>
  BY DEF Lifecycle, Uninstall, Redact, SetShopStatus, LifecycleOnly, callState
<1>3. session' = session \/ (lock = NoCall /\ session' = NoRows)
  BY DEF Lifecycle, Uninstall, Redact, SetShopStatus
<1>4. OneOfflineSession'
  BY <1>3 DEF IndInv, OneOfflineSession, Rows, NoRows
<1>5. HolderWorks' /\ IdleBinding' /\ DraftBound'
  BY <1>2 DEF IndInv, HolderWorks, IdleBinding, DraftBound, binding
<1>6. BindingAhead' /\ SessionPathBound'
  BY <1>2, <1>3 DEF IndInv, BindingAhead, SessionPathBound, binding
<1>. QED  BY <1>1, <1>4, <1>5, <1>6 DEF IndInv

(* A transaction ends with one of the codes, and with the rows of before or   *)
(* of its draft.                                                              *)
LEMMA Ends ==
    ASSUME NEW c \in Calls,
           Commit(c) \/ CommitFails(c) \/ RollBack(c) \/ Abort(c)
    PROVE  /\ \E code \in Answers, events \in {CommittedEvents, FailedEvents("THROWN"),
                     FailedEvents(RefusalCode), FailedEvents("ABORTED")} : End(c, code, events)
           /\ session' = session \/ (session' = draft /\ lock = c)
BY DEF Commit, CommitFails, RollBack, Abort, RefusalCode, Answers

LEMMA IndInvStep ==
    ASSUME IndInv, [Next]_vars
    PROVE  IndInv'
<1>1. CASE UNCHANGED vars
  <2>1. TypeOK'
    BY <1>1, TypeStep DEF IndInv
  <2>. QED  BY <1>1, <2>1 DEF IndInv, vars, shopState, callState, binding, OneOfflineSession, Rows,
                     HolderWorks, IdleBinding, DraftBound, BindingAhead, SessionPathBound
<1>2. ASSUME NEW c \in Calls, CoordinationStep(c)
      PROVE  IndInv'
  <2>1. CASE Hint(c)
    BY <2>1, HintStep
  <2>2. CASE Acquire(c)
    BY <2>2, AcquireStep
  <2>3. CASE Commit(c) \/ CommitFails(c) \/ RollBack(c) \/ Abort(c)
    <3>1. PICK code \in Answers, events \in {CommittedEvents, FailedEvents("THROWN"),
                     FailedEvents(RefusalCode), FailedEvents("ABORTED")} : End(c, code, events)
      BY <2>3, Ends
    <3>2. session' \in {session, draft}
      BY <2>3, Ends
    <3>. QED  BY <3>1, <3>2, EndStep
  <2>. QED  BY <1>2, <2>1, <2>2, <2>3 DEF CoordinationStep
<1>. QED  BY <1>1, <1>2, SdkInv, LifecycleStep DEF Next

(* The inductive invariant holds in every reachable state: what the lock's    *)
(* holder has in its draft and binding stays tied to the committed rows,      *)
(* because no uninstall, redaction or other authentication gets in between.   *)
THEOREM Invariance == Spec => []IndInv
<1>1. Init => IndInv
  BY InitIndInv
<1>2. IndInv /\ [Next]_vars => IndInv'
  BY IndInvStep
<1>. QED  BY <1>1, <1>2, PTL DEF Spec

(* Rows, bindings, calls and requests are always of their kinds, and no row,  *)
(* draft or binding holds credentials Shopify has not issued.                 *)
THEOREM TypeCorrect == Spec => []TypeOK
<1>1. IndInv => TypeOK
  BY DEF IndInv
<1>. QED  BY <1>1, Invariance, PTL

(* The shop never has two offline rows, for any number of authentications     *)
(* and possible session ids.                                                  *)
THEOREM AlwaysOneOfflineSession == Spec => []OneOfflineSession
<1>1. IndInv => OneOfflineSession
  BY DEF IndInv
<1>. QED  BY <1>1, Invariance, PTL

-----------------------------------------------------------------------------
(* What a step may do to the rows.                                            *)

(* Only the lifecycle, which clears them, and a commit change the rows.       *)
LEMMA RowsChange ==
    ASSUME IndInv, [Next]_vars, session' # session
    PROVE  \/ session' = NoRows
           \/ lock \in Calls /\ session' = draft
<1>1. CASE UNCHANGED vars
  BY <1>1 DEF vars, shopState
<1>2. ASSUME NEW c \in Calls, SdkStep(c) \/ CoordinationStep(c)
      PROVE  lock \in Calls /\ session' = draft
  <2>1. CASE SdkStep(c)
    BY <2>1 DEF SdkStep, SendTokenRequest, ShopifyIssues, TokenRejected, TokenAnswerLost,
       TokenBodyLost, TokenReceived, StoreSession, DeleteSession, AuthenticateEnds, SettleRequest,
       DuringWork, shopState
  <2>2. CASE Hint(c) \/ Acquire(c)
    BY <2>2 DEF Hint, Acquire, shopState
  <2>3. CASE Commit(c) \/ CommitFails(c) \/ RollBack(c) \/ Abort(c)
    BY <2>3, Ends
  <2>. QED  BY <1>2, <2>1, <2>2, <2>3 DEF CoordinationStep
<1>3. CASE Lifecycle
  BY <1>3 DEF Lifecycle, Uninstall, Redact, SetShopStatus
<1>. QED  BY <1>1, <1>2, <1>3 DEF Next

(* No step replaces a row's credentials by older ones, whichever session      *)
(* object the SDK stores.                                                     *)
THEOREM AlwaysForward == Spec => CredentialsMoveForward
<1>1. IndInv /\ [Next]_vars =>
        [\A id \in SessionIds :
          session[id] # 0 /\ session'[id] # 0 => session'[id] >= session[id]]_vars
  <2>. SUFFICES ASSUME IndInv, [Next]_vars, NEW id \in SessionIds,
                       session[id] # 0, session'[id] # 0
                PROVE  session'[id] >= session[id]
    OBVIOUS
  <2>1. session[id] \in Nat
    BY BoundsAssumption DEF IndInv, TypeOK
  <2>2. CASE session' = session
    BY <2>1, <2>2
  <2>3. CASE session' = NoRows
    BY <2>3 DEF NoRows
  <2>4. CASE lock \in Calls /\ session' = draft
    BY <2>4, NamesAssumption DEF IndInv, BindingAhead
  <2>. QED  BY <2>2, <2>3, <2>4, RowsChange
<1>. QED  BY <1>1, Invariance, PTL DEF Spec, CredentialsMoveForward

(* No step brings back a row that an uninstall or a redaction has removed,    *)
(* except the commit of an authentication that came to install.               *)
THEOREM AlwaysByInstallation == Spec => OnlyInstallationCreates
<1>1. IndInv /\ [Next]_vars =>
        [\A id \in SessionIds :
          session[id] = 0 /\ session'[id] # 0 => path[lock] = "installation"]_vars
  <2>. SUFFICES ASSUME IndInv, [Next]_vars, NEW id \in SessionIds,
                       session[id] = 0, session'[id] # 0
                PROVE  path[lock] = "installation"
    OBVIOUS
  <2>1. lock \in Calls /\ session' = draft
    BY RowsChange DEF NoRows
  <2>2. sessionId = id
    BY <2>1 DEF IndInv, DraftBound
  <2>. QED  BY <2>1, <2>2, NamesAssumption DEF IndInv, SessionPathBound
<1>. QED  BY <1>1, Invariance, PTL DEF Spec, OnlyInstallationCreates

-----------------------------------------------------------------------------
(* What the refresh events say.                                               *)

(* Shopify rejects no request it has granted; a fingerprint is that of the    *)
(* credentials granted.                                                       *)
GrantedKnown ==
    \A i \in Slots :
        /\ requests[i].issued # 0 => requests[i].outcome \in {"none", "unknown", "succeeded"}
        /\ requests[i].fingerprint # 0 => requests[i].fingerprint = requests[i].issued

(* Credentials reach the binding in the order Shopify issued them, and what   *)
(* the binding has stored is nowhere behind them.                             *)
StoredInOrder ==
    /\ \A i \in Slots : requests[i].persisted =>
          requests[i].fingerprint # 0 /\ requests[i].issued <= persisted
    /\ \A token \in pending : token >= persisted
    /\ InFlight /\ requests[sent].issued # 0 => requests[sent].issued >= persisted
    /\ \A id \in SessionIds : draft[id] # 0 => draft[id] >= persisted

RefreshInv == GrantedKnown /\ StoredInOrder

(* A binding that has seen no request satisfies both.                         *)
LEMMA FreshBinding ==
    ASSUME TypeOK', requests' = [i \in Slots |-> Unsent], pending' = {},
           \A id \in SessionIds : draft'[id] # 0 => draft'[id] >= persisted'
    PROVE  RefreshInv'
<1>1. \A i \in Slots : /\ requests'[i].issued = 0 /\ requests'[i].fingerprint = 0
                       /\ requests'[i].persisted = FALSE /\ requests'[i].outcome = "unsent"
  BY DEF Unsent
<1>2. sent' > 0 => sent' \in Slots
  BY BoundsAssumption DEF TypeOK, Slots
<1>3. ~InFlight'
  BY <1>1, <1>2 DEF InFlight
<1>. QED  BY <1>1, <1>3 DEF RefreshInv, GrantedKnown, StoredInOrder

LEMMA RefreshUnchanged ==
    ASSUME RefreshInv, UNCHANGED binding
    PROVE  RefreshInv'
BY DEF RefreshInv, GrantedKnown, StoredInOrder, InFlight, binding

(* A settled request is granted or not as before, and no longer in flight.    *)
LEMMA RefreshSettled ==
    ASSUME TypeOK, RefreshInv, NEW outcome \in {"unknown", "succeeded", "rejected"}, InFlight,
           SettleRequest(outcome), UNCHANGED pending,
           outcome = "rejected" => requests[sent].issued = 0
    PROVE  RefreshInv'
<1>1. sent \in Slots /\ requests \in [Slots -> Request]
  BY InFlightSlot DEF TypeOK
<1>2. UNCHANGED <<draft, persisted, sent>>
  BY DEF SettleRequest
<1>3. \A i \in Slots : /\ requests'[i].issued = requests[i].issued
                       /\ requests'[i].fingerprint = requests[i].fingerprint
                       /\ requests'[i].persisted = requests[i].persisted
                       /\ requests'[i].outcome = IF i = sent THEN outcome ELSE requests[i].outcome
  BY <1>1 DEF SettleRequest, Request
<1>4. GrantedKnown'
  BY <1>3 DEF RefreshInv, GrantedKnown
<1>5. ~InFlight'
  BY <1>1, <1>2, <1>3 DEF InFlight
<1>. QED  BY <1>2, <1>3, <1>4, <1>5 DEF RefreshInv, StoredInOrder

LEMMA RefreshStep ==
    ASSUME IndInv, RefreshInv, [Next]_vars
    PROVE  RefreshInv'
<1>1. TypeOK /\ TypeOK' /\ IndInv'
  BY IndInvStep DEF IndInv
<1>2. /\ \A id \in SessionIds : draft[id] \in Nat
      /\ issued \in Nat /\ persisted \in Nat /\ persisted <= issued
      /\ requests \in [Slots -> Request]
      /\ \A i \in Slots : requests[i].issued \in Nat /\ requests[i].fingerprint \in Nat
  BY <1>1, BoundsAssumption DEF TypeOK, Request
<1>3. CASE UNCHANGED binding
  BY <1>3, RefreshUnchanged
<1>4. ASSUME NEW c \in Calls, SendTokenRequest(c)
      PROVE  RefreshInv'
  <2>1. UNCHANGED <<draft, persisted, pending>> /\ sent' = sent + 1 /\ sent + 1 \in Slots
    BY <1>1, <1>4, BoundsAssumption DEF SendTokenRequest, TypeOK, Slots
  <2>2. PICK refresh \in BOOLEAN : requests' = [requests EXCEPT ![sent + 1] = Asked(refresh)]
    BY <1>4 DEF SendTokenRequest
  <2>3. /\ requests'[sent'] = Asked(refresh)
        /\ \A i \in Slots : requests'[i] = requests[i] \/ requests'[i] = Asked(refresh)
    BY <1>2, <2>1, <2>2
  <2>4. /\ Asked(refresh).issued = 0 /\ Asked(refresh).fingerprint = 0
        /\ Asked(refresh).persisted = FALSE
    BY DEF Asked
  <2>. QED  BY <2>1, <2>3, <2>4 DEF RefreshInv, GrantedKnown, StoredInOrder
<1>5. ASSUME NEW c \in Calls, ShopifyIssues(c)
      PROVE  RefreshInv'
  <2>1. UNCHANGED <<draft, persisted, pending, sent>>
    BY <1>5 DEF ShopifyIssues
  <2>2. sent \in Slots /\ requests[sent].outcome = "none" /\ requests[sent].issued = 0
    BY <1>1, <1>5, InFlightSlot DEF ShopifyIssues, InFlight
  <2>3. \A i \in Slots :
            /\ requests'[i].issued = IF i = sent THEN issued + 1 ELSE requests[i].issued
            /\ requests'[i].fingerprint = requests[i].fingerprint
            /\ requests'[i].persisted = requests[i].persisted
            /\ requests'[i].outcome = requests[i].outcome
    BY <1>2, <1>5, <2>2 DEF ShopifyIssues, Request
  <2>4. ~requests[sent].persisted /\ requests[sent].fingerprint = 0
    BY <1>2, <2>2 DEF RefreshInv, GrantedKnown, StoredInOrder
  <2>. QED  BY <1>2, <2>1, <2>2, <2>3, <2>4 DEF RefreshInv, GrantedKnown, StoredInOrder
<1>6. ASSUME NEW c \in Calls, TokenRejected(c) \/ TokenAnswerLost(c) \/ TokenBodyLost(c)
      PROVE  RefreshInv'
  BY <1>1, <1>6, RefreshSettled DEF TokenRejected, TokenAnswerLost, TokenBodyLost
<1>7. ASSUME NEW c \in Calls, TokenReceived(c)
      PROVE  RefreshInv'
  <2>1. UNCHANGED <<draft, persisted, sent>>
    BY <1>7 DEF TokenReceived
  <2>2. /\ InFlight /\ sent \in Slots /\ requests[sent].issued # 0
        /\ pending' = pending \cup {requests[sent].issued}
    BY <1>1, <1>7, InFlightSlot DEF TokenReceived
  <2>3. \A i \in Slots :
            /\ requests'[i].issued = requests[i].issued
            /\ requests'[i].fingerprint =
                  IF i = sent THEN requests[i].issued ELSE requests[i].fingerprint
            /\ requests'[i].persisted = requests[i].persisted
            /\ requests'[i].outcome = IF i = sent THEN "succeeded" ELSE requests[i].outcome
    BY <1>2, <1>7, <2>2 DEF TokenReceived, Request
  <2>4. GrantedKnown'
    BY <2>2, <2>3 DEF RefreshInv, GrantedKnown
  <2>5. ~InFlight'
    BY <2>1, <2>2, <2>3 DEF InFlight
  <2>. QED  BY <2>1, <2>2, <2>3, <2>4, <2>5 DEF RefreshInv, StoredInOrder
<1>8. ASSUME NEW c \in Calls, StoreSession(c)
      PROVE  RefreshInv'
  <2>1. PICK id \in SessionIds, token \in 1..issued : MayStore(id, token) /\ Store(id, token)
    BY <1>8 DEF StoreSession
  <2>2. /\ persisted' = token /\ pending' = {} /\ sent' = sent /\ ~InFlight
        /\ token \in Nat /\ token # 0 /\ token >= persisted
    BY <1>2, <1>8, <2>1 DEF StoreSession, Store, MayStore, RefreshInv, StoredInOrder
  <2>3. \A i \in Slots :
            /\ requests'[i].issued = requests[i].issued
            /\ requests'[i].fingerprint = requests[i].fingerprint
            /\ requests'[i].outcome = requests[i].outcome
            /\ requests'[i].persisted => requests[i].persisted \/ requests[i].fingerprint = token
    BY <1>2, <2>1 DEF Store, Request
  <2>4. GrantedKnown'
    BY <2>3 DEF RefreshInv, GrantedKnown
  <2>5. \A i \in Slots : requests'[i].persisted =>
            requests'[i].fingerprint # 0 /\ requests'[i].issued <= persisted'
    BY <1>2, <2>2, <2>3 DEF RefreshInv, GrantedKnown, StoredInOrder
  <2>6. sent > 0 => sent \in Slots
    BY <1>1, BoundsAssumption DEF TypeOK, Slots
  <2>7. ~InFlight'
    BY <2>2, <2>3, <2>6 DEF InFlight
  <2>8. \A other \in SessionIds : draft'[other] # 0 => draft'[other] >= persisted'
    <3>1. sessionId' = id /\ draft'[id] = token
      BY <1>1, <2>1 DEF Store, MayStore, TypeOK
    <3>. QED  BY <1>1, <2>2, <3>1 DEF IndInv, DraftBound
  <2>. QED  BY <2>2, <2>4, <2>5, <2>7, <2>8 DEF RefreshInv, StoredInOrder
<1>9. ASSUME NEW c \in Calls, DeleteSession(c)
      PROVE  RefreshInv'
  <2>1. UNCHANGED <<persisted, pending, sent, requests>> /\ draft' = [draft EXCEPT ![sessionId] = 0]
    BY <1>9 DEF DeleteSession
  <2>2. \A id \in SessionIds : draft'[id] \in {draft[id], 0}
    BY <1>1, <2>1 DEF TypeOK
  <2>. QED  BY <2>1, <2>2 DEF RefreshInv, GrantedKnown, StoredInOrder, InFlight
<1>10. ASSUME NEW c \in Calls, AuthenticateEnds(c)
       PROVE  RefreshInv'
  BY <1>10 DEF AuthenticateEnds, RefreshInv, GrantedKnown, StoredInOrder, InFlight
<1>11. ASSUME NEW c \in Calls, Acquire(c)
       PROVE  RefreshInv'
  <2>1. CASE Refuse(c, "SESSION_MISSING")
    BY <1>1, <1>3, <1>11, <2>1 DEF Acquire, Refuse, TypeOK
  <2>2. CASE ~Refuse(c, "SESSION_MISSING")
    <3>1. /\ requests' = [i \in Slots |-> Unsent] /\ pending' = {} /\ draft' = session
          /\ \/ Rows(session) = {}
             \/ \E id \in Rows(session) : persisted' = session[id]
      BY <1>1, <1>11, <2>2, AcquireOpens DEF IndInv, IdleBinding
    <3>2. \A id \in SessionIds : session[id] \in Nat
      BY <1>1, BoundsAssumption DEF TypeOK
    <3>3. \A id \in SessionIds : draft'[id] # 0 => draft'[id] >= persisted'
      BY <3>1, <3>2 DEF IndInv, OneOfflineSession, Rows
    <3>. QED  BY <1>1, <3>1, <3>3, FreshBinding
  <2>. QED  BY <2>1, <2>2
<1>12. ASSUME NEW c \in Calls, Commit(c) \/ CommitFails(c) \/ RollBack(c) \/ Abort(c)
       PROVE  RefreshInv'
  <2>1. ResetBinding
    BY <1>12, Ends DEF End
  <2>. QED  BY <1>1, <2>1, FreshBinding DEF ResetBinding, NoRows
<1>13. ASSUME NEW c \in Calls, Hint(c)
       PROVE  UNCHANGED binding
  BY <1>13 DEF Hint
<1>14. CASE Lifecycle
  BY <1>3, <1>14 DEF Lifecycle, Uninstall, Redact, SetShopStatus, LifecycleOnly
<1>15. UNCHANGED vars => UNCHANGED binding
  BY DEF vars
<1>. QED  BY <1>3, <1>4, <1>5, <1>6, <1>7, <1>8, <1>9, <1>10, <1>11, <1>12, <1>13, <1>14, <1>15
          DEF Next, SdkStep, CoordinationStep

(* A refresh that failed after it was granted is reported as unknown.         *)
LEMMA FailureTold ==
    ASSUME TypeOK, GrantedKnown, NEW i \in Slots,
           NEW code \in {"none", "THROWN", "ABORTED", RefusalCode}
    PROVE  /\ FailureOf(code, FinalOutcome(i)) # "COMMITTED"
           /\ requests[i].issued # 0 => FailureOf(code, FinalOutcome(i)) = "UNKNOWN"
BY DEF FailureOf, FinalOutcome, GrantedKnown

LEMMA EventsTold ==
    ASSUME IndInv, RefreshInv, [Next]_vars, report' # report, NEW event \in report'
    PROVE  /\ event.outcome = "COMMITTED" =>
                  \A id \in Rows(session') : session'[id] >= event.issued
           /\ event.issued # 0 /\ event.outcome # "COMMITTED" => event.outcome = "UNKNOWN"
<1>1. TypeOK /\ GrantedKnown
  BY DEF IndInv, RefreshInv
<1>2. PICK c \in Calls : Commit(c) \/ CommitFails(c) \/ RollBack(c) \/ Abort(c)
  <2>1. report' # {}
    OBVIOUS
  <2>2. ~UNCHANGED vars /\ ~Lifecycle
    BY DEF vars, Lifecycle, Uninstall, Redact, SetShopStatus, LifecycleOnly
  <2>3. \A c \in Calls : ~SdkStep(c)
    BY DEF SdkStep, SendTokenRequest, ShopifyIssues, TokenRejected, TokenAnswerLost,
       TokenBodyLost, TokenReceived, StoreSession, DeleteSession, AuthenticateEnds,
       SettleRequest, DuringWork
  <2>4. \A c \in Calls : ~Hint(c) /\ ~Acquire(c)
    BY <2>1 DEF Hint, Acquire
  <2>. QED  BY <2>2, <2>3, <2>4 DEF Next, CoordinationStep
<1>3. CASE Commit(c)
  <2>1. report' = CommittedEvents /\ session' = draft
    BY <1>3 DEF Commit, End
  <2>2. PICK i \in Refreshes :
            event = Event(i, IF requests[i].persisted /\ FinalOutcome(i) = "succeeded"
                             THEN "COMMITTED" ELSE FailureOf("none", FinalOutcome(i)))
    BY <2>1 DEF CommittedEvents
  <2>3. i \in Slots
    BY DEF Refreshes
  <2>4. CASE requests[i].persisted /\ FinalOutcome(i) = "succeeded"
    <3>1. event.outcome = "COMMITTED" /\ event.issued = requests[i].issued
      BY <2>2, <2>4 DEF Event
    <3>2. requests[i].issued <= persisted
      BY <2>3, <2>4 DEF RefreshInv, StoredInOrder
    <3>3. /\ requests[i].issued \in Nat /\ persisted \in Nat
          /\ \A id \in SessionIds : draft[id] \in Nat
      BY <1>1, <2>3, BoundsAssumption DEF TypeOK, Request
    <3>4. \A id \in Rows(draft) : draft[id] >= persisted
      BY DEF Rows, RefreshInv, StoredInOrder
    <3>. QED  BY <2>1, <3>1, <3>2, <3>3, <3>4 DEF Rows
  <2>5. CASE ~(requests[i].persisted /\ FinalOutcome(i) = "succeeded")
    <3>1. event.outcome = FailureOf("none", FinalOutcome(i)) /\ event.issued = requests[i].issued
      BY <2>2, <2>5 DEF Event
    <3>. QED  BY <1>1, <2>3, <3>1, FailureTold
  <2>. QED  BY <2>4, <2>5
<1>4. CASE CommitFails(c) \/ RollBack(c) \/ Abort(c)
  <2>1. PICK code \in {"THROWN", "ABORTED", RefusalCode} : report' = FailedEvents(code)
    BY <1>4 DEF CommitFails, RollBack, Abort, End
  <2>2. PICK i \in Refreshes : event = Event(i, FailureOf(code, FinalOutcome(i)))
    BY <2>1 DEF FailedEvents
  <2>3. /\ i \in Slots
        /\ event.outcome = FailureOf(code, FinalOutcome(i)) /\ event.issued = requests[i].issued
    BY <2>2 DEF Refreshes, Event
  <2>. QED  BY <1>1, <2>3, FailureTold
<1>. QED  BY <1>2, <1>3, <1>4

(* The refresh events never call credentials Shopify granted rejected or      *)
(* cancelled, and never call a refresh committed that left older credentials  *)
(* in the row, however many requests an authentication makes.                 *)
THEOREM EventsAlwaysTell == Spec => EventsTellTheOutcome
<1>1. Init => RefreshInv
  <2>. SUFFICES ASSUME Init PROVE RefreshInv
    OBVIOUS
  <2>1. ~InFlight
    BY DEF Init, InFlight
  <2>2. \A i \in Slots : /\ requests[i].issued = 0 /\ requests[i].fingerprint = 0
                         /\ requests[i].persisted = FALSE
    BY DEF Init, Unsent
  <2>3. pending = {} /\ \A id \in SessionIds : draft[id] = 0
    BY DEF Init, NoRows
  <2>. QED  BY <2>1, <2>2, <2>3 DEF RefreshInv, GrantedKnown, StoredInOrder
<1>2. Spec => []RefreshInv
  <2>1. IndInv /\ RefreshInv /\ [Next]_vars => RefreshInv'
    BY RefreshStep
  <2>. QED  BY <1>1, <2>1, Invariance, PTL DEF Spec
<1>3. IndInv /\ RefreshInv /\ [Next]_vars =>
        [report' # report =>
          \A event \in report' :
             /\ event.outcome = "COMMITTED" =>
                   \A id \in Rows(session') : session'[id] >= event.issued
             /\ event.issued # 0 /\ event.outcome # "COMMITTED" =>
                   event.outcome = "UNKNOWN"]_vars
  BY EventsTold
<1>. QED  BY <1>2, <1>3, Invariance, PTL DEF Spec, EventsTellTheOutcome
=============================================================================
