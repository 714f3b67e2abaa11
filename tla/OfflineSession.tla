--------------------------- MODULE OfflineSession ---------------------------
(* The offline Shopify session of one shop, as                                *)
(* app/services/shopify-offline-coordination.server.ts and                    *)
(* app/services/shopify-session-storage.server.ts coordinate it: every        *)
(* authentication runs the Shopify SDK inside a locked transaction, the SDK   *)
(* may ask Shopify for new credentials (which retires the old ones at once)   *)
(* and store them, and the transaction commits only for some of its results.  *)
(* Uninstalls and redactions take the same lock.                              *)
EXTENDS Integers

CONSTANTS
    Calls,        \* authentications
    NoCall,       \* the lock is free
    SessionIds,   \* ids of offline session rows of the shop
    NoSession,    \* stands for the absence of a session id
    MaxRequests,  \* bound: token requests in one authentication
    MaxTokens     \* bound: credentials Shopify issues

ASSUME NamesAssumption == NoCall \notin Calls /\ NoSession \notin SessionIds
ASSUME BoundsAssumption == MaxRequests \in Nat /\ MaxTokens \in Nat \ {0}

VARIABLES
    shopStatus,    \* Shop.status, "NONE" without a row
    session,       \* the credentials in each row, 0 without a row
    issued,        \* how many credentials Shopify has issued: the last is valid
    surface,       \* how each authentication was asked for
    pc,            \* the next step of each call
    path,          \* the lock each call takes
    answer,        \* what the call answered
    lock,          \* the call in its transaction
    draft,         \* the rows as that transaction sees them
    sessionId,     \* binding.sessionId
    persisted,     \* binding.persistedCredentialFingerprint, 0 for null
    pending,       \* binding.pendingCredentialFingerprints
    stored,        \* binding.successfulOfflineStores > 0
    tokenOutcome,  \* binding.tokenOutcome
    sent,          \* how many token requests the binding has seen
    requests,      \* each of them
    result,        \* what the SDK's authentication came to
    report         \* the terminal refresh events of the call that last ended

shopState == <<shopStatus, session>>
callState == <<pc, path, answer>>
binding == <<draft, sessionId, persisted, pending, stored, tokenOutcome, sent,
             requests, result>>
vars == <<shopState, issued, surface, callState, lock, binding, report>>

-----------------------------------------------------------------------------
(* A credential pair stands for its fingerprint; pairs are numbered as        *)
(* Shopify issues them.                                                       *)
Tokens == 1..MaxTokens

Slots == 1..MaxRequests

(* fingerprint and persisted are SdkRefreshAttempt's; only a refresh_token    *)
(* grant has an attempt and is reported. issued is what Shopify did with the  *)
(* request, which the app may never learn.                                    *)
Request == [refresh : BOOLEAN, issued : 0..MaxTokens, fingerprint : 0..MaxTokens,
            persisted : BOOLEAN,
            outcome : {"unsent", "none", "rejected", "unknown", "succeeded"}]

Unsent == [refresh |-> FALSE, issued |-> 0, fingerprint |-> 0, persisted |-> FALSE,
           outcome |-> "unsent"]

Asked(refresh) == [refresh |-> refresh, issued |-> 0, fingerprint |-> 0,
                   persisted |-> FALSE, outcome |-> "none"]

InFlight == sent > 0 /\ requests[sent].outcome = "none"

Rows(table) == {id \in SessionIds : table[id] # 0}

(* The webhook surface and the OAuth callback may install a session.          *)
IsBootstrapRequest(c) == surface[c] \in {"webhook", "oauth"}

NoRows == [id \in SessionIds |-> 0]

ResetBinding ==
    /\ draft' = NoRows
    /\ sessionId' = NoSession
    /\ persisted' = 0
    /\ pending' = {}
    /\ stored' = FALSE
    /\ tokenOutcome' = "none"
    /\ sent' = 0
    /\ requests' = [i \in Slots |-> Unsent]
    /\ result' = "none"

-----------------------------------------------------------------------------
(* withShopHint: the shop and its sessions are read without a lock.           *)

Refuse(c, code) ==
    /\ pc' = [pc EXCEPT ![c] = "done"]
    /\ answer' = [answer EXCEPT ![c] = code]
    /\ UNCHANGED path

Wait(c, kind) ==
    /\ pc' = [pc EXCEPT ![c] = "wait"]
    /\ path' = [path EXCEPT ![c] = kind]
    /\ UNCHANGED answer

Hint(c) ==
    /\ pc[c] = "hint"
    /\ UNCHANGED <<shopState, issued, surface, lock, binding, report>>
    /\ \/ /\ shopStatus \notin {"NONE", "ACTIVE"}
          /\ ~IsBootstrapRequest(c)
          /\ Refuse(c, "INVALID_SESSION")
       \/ /\ shopStatus = "ACTIVE"
          /\ \E id, other \in Rows(session) : id # other
          /\ Refuse(c, "SESSION_IDENTITY_CONFLICT")
       \/ /\ shopStatus = "ACTIVE"
          /\ Rows(session) # {}
          /\ \A id, other \in Rows(session) : id = other
          /\ Wait(c, "session")
       \/ /\ shopStatus = "ACTIVE"
          /\ Rows(session) = {}
          /\ ~IsBootstrapRequest(c)
          /\ Refuse(c, "SESSION_MISSING")
       \/ /\ shopStatus = "NONE"
          /\ surface[c] = "unauthenticated"
          /\ Refuse(c, "SESSION_MISSING")
       \/ /\ shopStatus = "NONE" \/ Rows(session) = {} \/ shopStatus # "ACTIVE"
          /\ IsBootstrapRequest(c) \/ (shopStatus = "NONE" /\ surface[c] = "admin")
          /\ Wait(c, "installation")

(* The shared package's lock opens a transaction and finds the shop's row in  *)
(* it (a session lock may also insist on an active shop);                     *)
(* runWithShopifySessionBinding takes the row's fingerprint.                  *)
Acquire(c) ==
    /\ pc[c] = "wait"
    /\ lock = NoCall
    /\ UNCHANGED <<shopState, issued, surface>>
    /\ \/ /\ path[c] = "session"
          /\ shopStatus # "ACTIVE" \/ Rows(session) = {}
          /\ Refuse(c, "SESSION_MISSING")
          /\ UNCHANGED <<lock, binding, report>>
       \/ /\ path[c] = "installation" \/ Rows(session) # {}
          /\ pc' = [pc EXCEPT ![c] = "work"]
          /\ lock' = c
          /\ draft' = session
          /\ IF Rows(session) = {}
             THEN sessionId' = NoSession /\ persisted' = 0
             ELSE \E id \in Rows(session) : sessionId' = id /\ persisted' = session[id]
          /\ report' = {}
          /\ UNCHANGED <<path, answer, pending, stored, tokenOutcome, sent, requests,
                         result>>

-----------------------------------------------------------------------------
(* The SDK at work, through the app's fetch and session storage.              *)

Working(c) == lock = c /\ pc[c] = "work"

DuringWork == <<shopState, surface, callState, lock, report>>

(* A token request leaves for Shopify.                                        *)
SendTokenRequest(c) ==
    /\ Working(c)
    /\ ~InFlight
    /\ sent < MaxRequests
    /\ sent' = sent + 1
    /\ \E refresh \in BOOLEAN : requests' = [requests EXCEPT ![sent + 1] = Asked(refresh)]
    /\ UNCHANGED <<DuringWork, issued, draft, sessionId, persisted, pending, stored,
                   tokenOutcome, result>>

(* Shopify grants it: from now on only the new credentials are good.          *)
ShopifyIssues(c) ==
    /\ Working(c)
    /\ InFlight
    /\ requests[sent].issued = 0
    /\ issued < MaxTokens
    /\ issued' = issued + 1
    /\ requests' = [requests EXCEPT ![sent].issued = issued + 1]
    /\ UNCHANGED <<DuringWork, draft, sessionId, persisted, pending, stored,
                   tokenOutcome, sent, result>>

SettleRequest(outcome) ==
    /\ requests' = [requests EXCEPT ![sent].outcome = outcome]
    /\ UNCHANGED <<DuringWork, issued, draft, sessionId, persisted, stored, sent, result>>

(* Shopify answers 4xx.                                                       *)
TokenRejected(c) ==
    /\ Working(c)
    /\ InFlight
    /\ requests[sent].issued = 0
    /\ tokenOutcome' = "rejected"
    /\ SettleRequest("rejected")
    /\ UNCHANGED pending

(* No answer within the network budget, or a 5xx: whether credentials were    *)
(* issued is unknown. A request that got no answer leaves the outcome of an   *)
(* earlier one of the same binding in place.                                  *)
TokenAnswerLost(c) ==
    /\ Working(c)
    /\ InFlight
    /\ tokenOutcome' \in {"unknown", IF tokenOutcome = "none" THEN "unknown" ELSE tokenOutcome}
    /\ SettleRequest("unknown")
    /\ UNCHANGED pending

(* Shopify answers 2xx, but the body cannot be read, or read as credentials.  *)
TokenBodyLost(c) ==
    /\ Working(c)
    /\ InFlight
    /\ requests[sent].issued # 0
    /\ tokenOutcome' \in {"unknown", "succeeded"}
    /\ SettleRequest("succeeded")
    /\ UNCHANGED pending

(* Shopify answers 2xx with the credentials: recordShopifyOAuthCredentialResponse. *)
TokenReceived(c) ==
    /\ Working(c)
    /\ InFlight
    /\ requests[sent].issued # 0
    /\ tokenOutcome' = "succeeded"
    /\ pending' = pending \cup {requests[sent].issued}
    /\ requests' = [requests EXCEPT ![sent].outcome = "succeeded",
                                    ![sent].fingerprint = requests[sent].issued]
    /\ UNCHANGED <<DuringWork, issued, draft, sessionId, persisted, stored, sent, result>>

(* Slip: any credentials the SDK holds are stored.                            *)
MayStoreAny(id, token) ==
    /\ sessionId \in {NoSession, id}
    /\ draft[id] # 0 => sessionId = id /\ draft[id] = persisted
    /\ draft[id] = 0 => sessionId = NoSession

(* What storeSession accepts: the row the binding is about, unchanged since   *)
(* the binding saw it, with credentials it holds or that came from Shopify    *)
(* under this lock. A refusal changes nothing.                                *)
MayStore(id, token) ==
    /\ sessionId \in {NoSession, id}
    /\ draft[id] # 0 => sessionId = id /\ draft[id] = persisted
    /\ draft[id] = 0 => sessionId = NoSession
    /\ token = persisted \/ token \in pending

(* Slip: the binding does not take on the row it creates.                     *)
StoreUnbound(id, token) ==
    /\ draft' = [draft EXCEPT ![id] = token]
    /\ requests' = [i \in Slots |->
            IF token \in pending /\ requests[i].fingerprint = token
            THEN [requests[i] EXCEPT !.persisted = TRUE] ELSE requests[i]]
    /\ sessionId' = sessionId
    /\ stored' = TRUE
    /\ persisted' = token
    /\ pending' = {}

Store(id, token) ==
    /\ draft' = [draft EXCEPT ![id] = token]
    /\ requests' = [i \in Slots |->
            IF token \in pending /\ requests[i].fingerprint = token
            THEN [requests[i] EXCEPT !.persisted = TRUE] ELSE requests[i]]
    /\ sessionId' = IF sessionId = NoSession THEN id ELSE sessionId
    /\ stored' = TRUE
    /\ persisted' = token
    /\ pending' = {}

(* The SDK stores a session: it may hold any credentials issued to the app,   *)
(* be it from an earlier lock.                                                *)
StoreSession(c) ==
    /\ Working(c)
    /\ ~InFlight
    /\ \E id \in SessionIds, token \in 1..issued :
          MayStore(id, token) /\ Store(id, token)
    /\ UNCHANGED <<DuringWork, issued, tokenOutcome, sent, result>>

(* deleteSession, and deleteSessions of one id.                               *)
DeleteSession(c) ==
    /\ Working(c)
    /\ ~InFlight
    /\ sessionId # NoSession
    /\ draft[sessionId] # 0
    /\ draft' = [draft EXCEPT ![sessionId] = 0]
    /\ UNCHANGED <<DuringWork, issued, sessionId, persisted, pending, stored,
                   tokenOutcome, sent, requests, result>>

(* The SDK returns a value, a redirect or another response, or fails.         *)
AuthenticateEnds(c) ==
    /\ Working(c)
    /\ ~InFlight
    /\ result' \in {"value", "redirect", "response", "error"}
    /\ pc' = [pc EXCEPT ![c] = "settle"]
    /\ UNCHANGED <<shopState, surface, path, answer, lock, report, issued, draft,
                   sessionId, persisted, pending, stored, tokenOutcome, sent, requests>>

-----------------------------------------------------------------------------
(* invokeInLock: the end of the transaction and the refresh events.           *)

(* sdkRefreshFailure.                                                         *)
FailureOf(code, outcome) ==
    IF outcome \in {"unknown", "succeeded"} \/ code = "REFRESH_OUTCOME_UNKNOWN"
    THEN "UNKNOWN"
    ELSE IF code = "REFRESH_REJECTED" \/ outcome = "rejected" THEN "REJECTED"
    ELSE IF code = "ABORTED" THEN "CANCELLED"
    ELSE "UNAVAILABLE"

(* An aborted fetch leaves its request with an unknown outcome.               *)
FinalOutcome(i) == IF requests[i].outcome = "none" THEN "unknown" ELSE requests[i].outcome

Event(i, outcome) == [issued |-> requests[i].issued, outcome |-> outcome]

Refreshes == {i \in Slots : i <= sent /\ requests[i].refresh}

FailedEvents(code) == {Event(i, FailureOf(code, FinalOutcome(i))) : i \in Refreshes}

(* After the commit only.                                                     *)
CommittedEvents ==
    {Event(i, IF requests[i].persisted /\ FinalOutcome(i) = "succeeded"
              THEN "COMMITTED" ELSE FailureOf("none", FinalOutcome(i))) : i \in Refreshes}

End(c, code, events) ==
    /\ pc' = [pc EXCEPT ![c] = "done"]
    /\ answer' = [answer EXCEPT ![c] = code]
    /\ lock' = NoCall
    /\ report' = events
    /\ ResetBinding
    /\ UNCHANGED <<shopStatus, issued, surface, path>>

(* A value commits, and a redirect does if a session was stored.              *)
MayCommit == result = "value" \/ (result = "redirect" /\ stored)

Commit(c) ==
    /\ lock = c
    /\ pc[c] = "settle"
    /\ MayCommit
    /\ session' = draft
    /\ End(c, IF result = "value" THEN "AUTHENTICATED" ELSE "REDIRECTED", CommittedEvents)

(* Slip: the events are those of a commit that never was.                     *)
CommitFailsUnnoticed(c) ==
    /\ lock = c
    /\ pc[c] = "settle"
    /\ MayCommit
    /\ UNCHANGED session
    /\ End(c, "THROWN", CommittedEvents)

(* The transaction is lost as it commits: the database or the process died.   *)
CommitFails(c) ==
    /\ lock = c
    /\ pc[c] = "settle"
    /\ MayCommit
    /\ UNCHANGED session
    /\ End(c, "THROWN", FailedEvents("THROWN"))

(* Any other result rolls back, under a code that says what became of the     *)
(* credentials.                                                               *)
RefusalCode ==
    IF tokenOutcome \in {"succeeded", "unknown"} THEN "REFRESH_OUTCOME_UNKNOWN"
    ELSE IF tokenOutcome = "rejected" THEN "REFRESH_REJECTED"
    ELSE "THROWN"

RollBack(c) ==
    /\ lock = c
    /\ pc[c] = "settle"
    /\ ~MayCommit
    /\ UNCHANGED session
    /\ End(c, RefusalCode, FailedEvents(RefusalCode))

(* Slip: the signal does not reach a request in flight.                       *)
AbortIdle(c) ==
    /\ Working(c)
    /\ ~InFlight
    /\ UNCHANGED session
    /\ End(c, "ABORTED", FailedEvents("ABORTED"))

(* The caller goes away or fifteen seconds pass while the SDK is at work: it  *)
(* is not waited for, what it does later is refused, and the transaction is   *)
(* rolled back (CANCELLED or DEADLINE).                                       *)
Abort(c) ==
    /\ Working(c)
    /\ UNCHANGED session
    /\ End(c, "ABORTED", FailedEvents("ABORTED"))

-----------------------------------------------------------------------------
(* The shop's lifecycle, under the same lock.                                 *)

LifecycleOnly == <<issued, surface, callState, lock, binding, report>>

(* Slip: the uninstall does not wait for the lock.                            *)
UninstallUnlocked ==
    /\ shopStatus \in {"ACTIVE", "SUSPENDED"}
    /\ shopStatus' = "UNINSTALLED"
    /\ session' = NoRows
    /\ UNCHANGED LifecycleOnly

(* ShopService.markUninstalled.                                               *)
Uninstall ==
    /\ lock = NoCall
    /\ shopStatus \in {"ACTIVE", "SUSPENDED"}
    /\ shopStatus' = "UNINSTALLED"
    /\ session' = NoRows
    /\ UNCHANGED LifecycleOnly

(* The shop/redact webhook.                                                   *)
Redact ==
    /\ lock = NoCall
    /\ shopStatus' = "NONE"
    /\ session' = NoRows
    /\ UNCHANGED LifecycleOnly

(* A shop is created by its first authenticated request, reactivated by the   *)
(* reinstall worker, suspended by an operator.                                *)
SetShopStatus ==
    /\ \/ shopStatus = "NONE" /\ Rows(session) # {} /\ shopStatus' = "ACTIVE"
       \/ shopStatus = "UNINSTALLED" /\ Rows(session) # {} /\ shopStatus' = "ACTIVE"
       \/ shopStatus = "ACTIVE" /\ shopStatus' = "SUSPENDED"
    /\ UNCHANGED <<session, LifecycleOnly>>

-----------------------------------------------------------------------------
(* A shop that was never installed, or one with its session.                  *)
Init ==
    /\ \/ shopStatus = "NONE" /\ session = NoRows /\ issued = 0
       \/ /\ shopStatus = "ACTIVE"
          /\ issued = 1
          /\ \E id \in SessionIds : session = [NoRows EXCEPT ![id] = 1]
    /\ surface \in [Calls -> {"admin", "oauth", "webhook", "unauthenticated"}]
    /\ pc = [c \in Calls |-> "hint"]
    /\ path = [c \in Calls |-> "none"]
    /\ answer = [c \in Calls |-> "none"]
    /\ lock = NoCall
    /\ draft = NoRows
    /\ sessionId = NoSession
    /\ persisted = 0
    /\ pending = {}
    /\ stored = FALSE
    /\ tokenOutcome = "none"
    /\ sent = 0
    /\ requests = [i \in Slots |-> Unsent]
    /\ result = "none"
    /\ report = {}

(* Shopify's side of a request, and the SDK's own steps.                      *)
SdkStep(c) ==
    \/ SendTokenRequest(c)
    \/ ShopifyIssues(c)
    \/ TokenRejected(c)
    \/ TokenAnswerLost(c)
    \/ TokenBodyLost(c)
    \/ TokenReceived(c)
    \/ StoreSession(c)
    \/ DeleteSession(c)
    \/ AuthenticateEnds(c)

CoordinationStep(c) ==
    \/ Hint(c)
    \/ Acquire(c)
    \/ Commit(c)
    \/ CommitFails(c)
    \/ RollBack(c)
    \/ Abort(c)

Lifecycle == Uninstall \/ Redact \/ SetShopStatus

Next ==
    \/ \E c \in Calls : SdkStep(c) \/ CoordinationStep(c)
    \/ Lifecycle

(* The app's own steps and its deadline come; Shopify and the SDK may hang.   *)
Fairness == \A c \in Calls : WF_vars(CoordinationStep(c))

Spec == Init /\ [][Next]_vars /\ Fairness

-----------------------------------------------------------------------------
(* Properties.                                                                *)

Answers == {"none", "AUTHENTICATED", "REDIRECTED", "THROWN", "INVALID_SESSION",
            "SESSION_MISSING", "SESSION_IDENTITY_CONFLICT", "ABORTED",
            "REFRESH_OUTCOME_UNKNOWN", "REFRESH_REJECTED"}

(* Rows, bindings and calls are of their kinds, and nothing holds credentials *)
(* Shopify has not issued.                                                    *)
TypeOK ==
    /\ shopStatus \in {"NONE", "ACTIVE", "SUSPENDED", "UNINSTALLED"}
    /\ issued \in 0..MaxTokens
    /\ session \in [SessionIds -> 0..issued]
    /\ draft \in [SessionIds -> 0..issued]
    /\ surface \in [Calls -> {"admin", "oauth", "webhook", "unauthenticated"}]
    /\ pc \in [Calls -> {"hint", "wait", "work", "settle", "done"}]
    /\ path \in [Calls -> {"none", "session", "installation"}]
    /\ answer \in [Calls -> Answers]
    /\ lock \in Calls \cup {NoCall}
    /\ sessionId \in SessionIds \cup {NoSession}
    /\ persisted \in 0..issued
    /\ pending \subseteq 1..issued
    /\ stored \in BOOLEAN
    /\ tokenOutcome \in {"none", "rejected", "unknown", "succeeded"}
    /\ sent \in 0..MaxRequests
    /\ requests \in [Slots -> Request]
    /\ \A i \in Slots : requests[i].issued <= issued
    /\ result \in {"none", "value", "redirect", "response", "error"}

(* A shop never has two offline rows, whichever installations, callbacks and  *)
(* uninstalls race: with two, every later authentication is refused.          *)
OneOfflineSession == \A id, other \in Rows(session) : id = other

(* A row's credentials are never replaced by older ones, which Shopify has    *)
(* retired: an SDK that still holds a session object from an earlier lock     *)
(* cannot store it over what another authentication has refreshed since.      *)
CredentialsMoveForward ==
    [][\A id \in SessionIds :
          session[id] # 0 /\ session'[id] # 0 => session'[id] >= session[id]]_vars

(* Only an installation creates a row: an authentication that used the        *)
(* session before an uninstall does not bring it back afterwards.             *)
OnlyInstallationCreates ==
    [][\A id \in SessionIds :
          session[id] = 0 /\ session'[id] # 0 => path[lock] = "installation"]_vars

(* The refresh events tell what became of new credentials: COMMITTED leaves   *)
(* no older credentials in the rows (not even the first of two refreshes,     *)
(* stored after the second), and credentials Shopify issued that did not get  *)
(* there are reported UNKNOWN, never rejected or cancelled.                   *)
EventsTellTheOutcome ==
    [][report' # report =>
          \A event \in report' :
             /\ event.outcome = "COMMITTED" =>
                   \A id \in Rows(session') : session'[id] >= event.issued
             /\ event.issued # 0 /\ event.outcome # "COMMITTED" =>
                   event.outcome = "UNKNOWN"]_vars

(* Every authentication is answered, though Shopify or the SDK hang.          *)
EveryCallAnswers == <>(\A c \in Calls : pc[c] = "done")

(* What tests/unit/shopify-offline-coordination.test.ts promises: when the    *)
(* SDK fails after Shopify accepted a refresh, the outcome is unknown. So a   *)
(* call that answers REFRESH_REJECTED has had no request accepted.            *)
AcceptedIsNotRejected ==
    [][\A c \in Calls :
          answer[c] # "REFRESH_REJECTED" /\ answer'[c] = "REFRESH_REJECTED" =>
              \A i \in Slots : requests[i].outcome # "succeeded"]_vars
=============================================================================
