--------------------------- MODULE RecoveryControl ---------------------------
(* One recovery's conversation under the control of people: browser tabs that *)
(* take it over, hand it back and send replies or the one follow-up template  *)
(* (app/routes/app/recovery-detail/), and the serializable transactions that  *)
(* admit their commands (recovery-human-commands.server.ts). A transaction    *)
(* reads from the snapshot of its first statement and takes its locks later.  *)
EXTENDS Integers, FiniteSets

CONSTANTS
    RecoveryTabs, \* browser tabs that show the recovery
    Calls,        \* slots for requests that the server works on
    MaxRevision,  \* bound: changes of control
    MaxDrafts,    \* bound: texts or templates the merchant chooses
    MaxKeys       \* bound: idempotency keys the tabs draw

ASSUME BoundsAssumption == {MaxRevision, MaxDrafts, MaxKeys} \subseteq Nat \ {0}
ASSUME GoneIsNoTab == "gone" \notin RecoveryTabs

VARIABLES
    conversation,  \* controlMode, controlRevision, pendingAiControlRevision
    events,        \* the ConversationControlEvent rows
    gate,          \* what the admission asks about: recovery, merchant, window
    second,        \* the outreach attempt of sequence 2: row, and who claimed it
    commands,      \* the MerchantConversationSendCommand rows
    call,          \* the requests at the server
    tab,           \* the tabs' own state
    drafts,        \* texts and templates chosen so far
    keys           \* idempotency keys drawn so far

server == <<conversation, events, second, commands>>
controlVars == <<server, gate, call, tab, drafts, keys>>

-----------------------------------------------------------------------------
NoTurn == -1
Scheduler == -1     \* the scheduled follow-up holds the claim
Modes == {"AI", "HUMAN"}
Kinds == {"HUMAN_TEXT", "RECOVERY_FOLLOW_UP_TEMPLATE"}

Conversations == [mode : Modes, revision : 0..MaxRevision, turn : NoTurn..MaxRevision]

(* refused: the recovery is terminal, or the shop is not active with a live   *)
(* plan that has the recovery feature, or it is restricted. Otherwise: the    *)
(* customer service window is open, closed, or closed with the follow-up due. *)
Gates == {"refused", "open", "closed", "due"}

(* 0: no row yet, or a row that nobody claimed.                               *)
Attempts == [row : BOOLEAN, claim : Scheduler..MaxKeys]

(* draft identifies the normalized text or the template, and the row's id is  *)
(* the key's number: one row for a key. choices is history: how often the     *)
(* sending tab's choice of a template had changed.                            *)
Commands == [kind : Kinds, revision : 0..MaxRevision, key : 1..MaxKeys, draft : 1..MaxDrafts, choices : Nat]

(* The gate moves on its own, so when a transaction reads it does not matter. *)
Snapshot == [conversation |-> conversation, second |-> second, commands |-> commands]

(* The panel before the merchant has typed anything: a text and a template,   *)
(* and one key for both.                                                      *)
NewTab == [mode |-> "AI", revision |-> 0, body |-> 0, variant |-> 0, key |-> 0, choices |-> 0]

ControlInit ==
    /\ conversation = [mode |-> "AI", revision |-> 0, turn |-> NoTurn]
    /\ events = {}
    /\ gate = "open"
    /\ second = [row |-> FALSE, claim |-> 0]
    /\ commands = {}
    /\ call = [c \in Calls |-> [pc |-> "free"]]
    /\ tab = [t \in RecoveryTabs |-> NewTab]
    /\ drafts = 0
    /\ keys = 0

-----------------------------------------------------------------------------
(* onRefresh: the tab revalidates and sees the conversation as it is.         *)
Revalidate(t) ==
    /\ tab' = [tab EXCEPT ![t].mode = conversation.mode, ![t].revision = conversation.revision]
    /\ tab' # tab
    /\ UNCHANGED <<server, gate, call, drafts, keys>>

(* controlGate and sendGate: one change of control and one send of the tab at *)
(* a time. A tab that gave up waiting no longer owns its call.                *)
Waits(t, kinds) ==
    \E c \in Calls : call[c].pc # "free" /\ call[c].tab = t /\ call[c].request.kind \in kinds

(* The composer is there in human control, and its fields are disabled while  *)
(* a send is under way; which field the window leaves is not modelled.        *)
Composes(t) == tab[t].mode = "HUMAN" /\ ~Waits(t, Kinds)

(* onBodyChange and onVariantChange forget the key, which is the other        *)
(* field's as well.                                                           *)
Type(t) ==
    /\ drafts < MaxDrafts /\ Composes(t)
    /\ drafts' = drafts + 1
    /\ tab' = [tab EXCEPT ![t].body = drafts + 1, ![t].key = 0]
    /\ UNCHANGED <<server, gate, call, keys>>

ChooseTemplate(t) ==
    /\ drafts < MaxDrafts /\ Composes(t)
    /\ drafts' = drafts + 1
    /\ tab' = [tab EXCEPT ![t].variant = drafts + 1, ![t].key = 0, ![t].choices = @ + 1]
    /\ UNCHANGED <<server, gate, call, keys>>

(* The chosen template has left the catalogue, at any time: the choice and    *)
(* the key go, the text stays. So does choosing none.                         *)
RetireTemplate(t) ==
    /\ tab[t].variant # 0
    /\ tab' = [tab EXCEPT ![t].variant = 0, ![t].key = 0, ![t].choices = @ + 1]
    /\ UNCHANGED <<server, gate, call, drafts, keys>>

SubmitCall(t, c, request) ==
    /\ call[c].pc = "free"
    /\ call' = [call EXCEPT ![c] = [pc |-> "arrived", tab |-> t, request |-> request]]
    /\ UNCHANGED <<server, gate, drafts>>

ChangeMode(t, c) ==
    /\ ~Waits(t, {"control"})
    /\ LET target == IF tab[t].mode = "AI" THEN "HUMAN" ELSE "AI"
       IN SubmitCall(t, c, [kind |-> "control", target |-> target, revision |-> tab[t].revision])
    /\ UNCHANGED <<tab, keys>>

DraftOf(t, kind) == IF kind = "HUMAN_TEXT" THEN tab[t].body ELSE tab[t].variant

(* The composer enables the button of a field that is filled in.              *)
CanSend(t, kind) == Composes(t) /\ DraftOf(t, kind) # 0

SendRequest(t, kind, key) ==
    [kind |-> kind, revision |-> tab[t].revision, key |-> key, draft |-> DraftOf(t, kind),
     choices |-> tab[t].choices]

(* Slip: every click draws a key of its own.                                  *)
ReplyFreshKey(t, c, kind) ==
    /\ CanSend(t, kind)
    /\ keys < MaxKeys
    /\ keys' = keys + 1
    /\ SubmitCall(t, c, SendRequest(t, kind, keys + 1))
    /\ tab' = [tab EXCEPT ![t].key = keys + 1]

(* reply: idempotencyKey.current ??= crypto.randomUUID().                     *)
Reply(t, c, kind) ==
    /\ CanSend(t, kind)
    /\ IF tab[t].key # 0
       THEN UNCHANGED <<keys, tab>> /\ SubmitCall(t, c, SendRequest(t, kind, tab[t].key))
       ELSE /\ keys < MaxKeys
            /\ keys' = keys + 1
            /\ tab' = [tab EXCEPT ![t].key = keys + 1]
            /\ SubmitCall(t, c, SendRequest(t, kind, keys + 1))

(* The browser loses the connection; the server goes on with the call.        *)
GiveUp(c) ==
    /\ call[c].pc \in {"arrived", "begun"} /\ call[c].tab \in RecoveryTabs
    /\ call' = [call EXCEPT ![c].tab = "gone"]
    /\ UNCHANGED <<server, gate, tab, drafts, keys>>

-----------------------------------------------------------------------------
(* The first statement of the transaction fixes what all its reads see.       *)
Begin(c) ==
    /\ call[c].pc = "arrived"
    /\ call' = [call EXCEPT ![c] = [pc |-> "begun", tab |-> call[c].tab,
                                    request |-> call[c].request, snap |-> Snapshot]]
    /\ UNCHANGED <<server, gate, tab, drafts, keys>>

(* Slip: the rows are read without their locks.                               *)
LockedNever(c) == call[c].snap.conversation = call[c].snap.conversation

(* FOR UPDATE on the conversation fails when its row changed after the        *)
(* snapshot; so does writing an attempt that changed.                         *)
Locked(c) == call[c].snap.conversation = conversation

Allowed == gate # "refused"

(* What the tab has after an accepted send of either kind: no key and no      *)
(* text. A chosen template stays chosen. After an error all stay for a retry. *)
AfterSend(kept) == [kept EXCEPT !.key = 0, !.body = 0]

(* A command answers its tab, if it still waits.                              *)
Respond(c, accepted) ==
    LET t == call[c].tab
    IN /\ call' = [call EXCEPT ![c] = [pc |-> "free"]]
       /\ tab' = IF accepted /\ call[c].request.kind \in Kinds /\ t \in RecoveryTabs
                 THEN [tab EXCEPT ![t] = AfterSend(@)] ELSE tab
       /\ UNCHANGED <<gate, drafts, keys>>

(* A foreign origin or a body of the wrong shape or size.                     *)
TurnAway(c) ==
    /\ call[c].pc = "arrived"
    /\ Respond(c, FALSE)
    /\ UNCHANGED server

(* Refusals, conflict_retry and internal_error: nothing is written.           *)
Refuse(c) ==
    /\ call[c].pc = "begun"
    /\ Respond(c, FALSE)
    /\ UNCHANGED server

MayChange(c) ==
    LET snap == call[c].snap  request == call[c].request
    IN /\ request.target = "HUMAN" => Allowed
       /\ snap.conversation.revision = request.revision
       /\ snap.conversation.mode # request.target

changeRecoveryControl(c) ==
    LET request == call[c].request
    IN /\ call[c].pc = "begun" /\ request.kind = "control"
       /\ Locked(c) /\ MayChange(c) /\ conversation.revision < MaxRevision
       /\ conversation' = [mode |-> request.target, revision |-> conversation.revision + 1,
                           turn |-> NoTurn]
       /\ events' = events \cup {[from |-> conversation.mode, to |-> request.target,
                                  revision |-> conversation.revision]}
       /\ Respond(c, TRUE)
       /\ UNCHANGED <<second, commands>>

(* A key that is known already replays its command, or conflicts when the     *)
(* payload differs.                                                           *)
Payload(r) == [kind |-> r.kind, revision |-> r.revision, key |-> r.key, draft |-> r.draft]

Replay(c) ==
    /\ call[c].pc = "begun" /\ call[c].request.kind \in Kinds
    /\ Locked(c)
    /\ \E m \in call[c].snap.commands : Payload(m) = Payload(call[c].request)
    /\ Respond(c, TRUE)
    /\ UNCHANGED server

MaySend(c) ==
    LET snap == call[c].snap  request == call[c].request
    IN /\ \A m \in snap.commands : m.key # request.key
       /\ Allowed
       /\ snap.conversation.revision = request.revision
       /\ snap.conversation.mode = "HUMAN"
       /\ gate = IF request.kind = "HUMAN_TEXT" THEN "open" ELSE "due"

(* The updateMany finds the attempt unclaimed, as the snapshot did; creating  *)
(* it fails on (recovery, sequence) when another did so meanwhile.            *)
SecondIsFree(c) == call[c].snap.second = second /\ second.claim = 0

(* The unique index on (shop, key) refuses what the snapshot did not show.    *)
admitRecoveryHumanSend(c) ==
    LET request == call[c].request
    IN /\ call[c].pc = "begun" /\ request.kind \in Kinds
       /\ Locked(c) /\ MaySend(c)
       /\ \A m \in commands : m.key # request.key
       /\ IF request.kind = "HUMAN_TEXT" THEN UNCHANGED second
          ELSE SecondIsFree(c) /\ second' = [row |-> TRUE, claim |-> request.key]
       /\ commands' = commands \cup {request}
       /\ Respond(c, TRUE)
       /\ UNCHANGED <<conversation, events>>

-----------------------------------------------------------------------------
(* Outside this code: the customer writes, which schedules an AI turn under   *)
(* the current revision; the turn ends; the scheduler prepares and claims the *)
(* second attempt; the recovery, the merchant's rights and the window change. *)
InboundMessage ==
    /\ conversation.mode = "AI"
    /\ conversation' = [conversation EXCEPT !.turn = conversation.revision]
    /\ UNCHANGED <<events, second, commands, gate, call, tab, drafts, keys>>

TurnEnds ==
    /\ conversation.turn # NoTurn
    /\ conversation' = [conversation EXCEPT !.turn = NoTurn]
    /\ UNCHANGED <<events, second, commands, gate, call, tab, drafts, keys>>

SchedulerActs ==
    /\ second.claim = 0
    /\ second' \in {[row |-> TRUE, claim |-> 0], [row |-> TRUE, claim |-> Scheduler]}
    /\ UNCHANGED <<conversation, events, commands, gate, call, tab, drafts, keys>>

WorldChanges ==
    /\ gate' \in Gates \ {gate}
    /\ UNCHANGED <<server, call, tab, drafts, keys>>

ControlNext ==
    \/ \E t \in RecoveryTabs : Revalidate(t) \/ Type(t) \/ ChooseTemplate(t) \/ RetireTemplate(t)
    \/ \E t \in RecoveryTabs, c \in Calls :
          \/ ChangeMode(t, c)
          \/ \E kind \in Kinds : Reply(t, c, kind)
    \/ \E c \in Calls :
          \/ GiveUp(c) \/ TurnAway(c) \/ Begin(c) \/ Refuse(c)
          \/ changeRecoveryControl(c) \/ Replay(c) \/ admitRecoveryHumanSend(c)
    \/ InboundMessage \/ TurnEnds \/ SchedulerActs \/ WorldChanges

ControlSpec == ControlInit /\ [][ControlNext]_controlVars

-----------------------------------------------------------------------------
(* The variables stay within their types; a key a tab holds is for a text or  *)
(* a template.                                                                *)
ControlTypeOK ==
    /\ conversation \in Conversations
    /\ events \subseteq [from : Modes, to : Modes, revision : 0..MaxRevision]
    /\ gate \in Gates /\ second \in Attempts
    /\ commands \subseteq Commands
    /\ \A c \in Calls : call[c].pc \in {"free", "arrived", "begun"}
    /\ tab \in [RecoveryTabs -> [mode : Modes, revision : 0..MaxRevision, body : 0..MaxDrafts,
                                 variant : 0..MaxDrafts, key : 0..MaxKeys, choices : Nat]]
    /\ \A t \in RecoveryTabs : tab[t].key # 0 => tab[t].body # 0 \/ tab[t].variant # 0
    /\ drafts \in 0..MaxDrafts /\ keys \in 0..MaxKeys

(* The control events are one chain: event r leads from revision r to r + 1,  *)
(* each starts in the mode the one before ended in, and the last is where the *)
(* conversation is, whichever tabs raced for the control.                     *)
ControlEventsChain ==
    /\ {e.revision : e \in events} = 0..(conversation.revision - 1)
    /\ Cardinality(events) = conversation.revision
    /\ \A e \in events : e.from # e.to
    /\ \A e, f \in events : f.revision = e.revision + 1 => f.from = e.to
    /\ \A e \in events : e.revision + 1 = conversation.revision => e.to = conversation.mode

(* The AI never keeps a turn that was scheduled under an earlier control.     *)
TurnOfThisControl ==
    conversation.turn # NoTurn => conversation.mode = "AI"
                                  /\ conversation.turn = conversation.revision

(* The second attempt has one owner: it is claimed by the follow-up command   *)
(* that exists, and by no two, and never together with the scheduler.         *)
SecondAttemptHasOneOwner ==
    \A m \in commands :
        m.kind = "RECOVERY_FOLLOW_UP_TEMPLATE" => second.row /\ second.claim = m.key

(* What the merchant typed or chose once is sent once while the choice of a   *)
(* template stays: retries after a lost answer, even beside the call that     *)
(* still runs or after the other field was sent, add no second command. A     *)
(* choice that changes or is retired forgets the key of the text too.         *)
OneCommandPerDraft ==
    \A m, n \in commands : m.draft = n.draft /\ m.choices = n.choices => m = n

(* A command enters only while people hold the conversation, at the revision  *)
(* the tab had seen: no control change slips between its checks and its       *)
(* commit.                                                                    *)
SendsUnderHumanControl ==
    [][\A m \in commands' \ commands :
          conversation.mode = "HUMAN" /\ m.revision = conversation.revision]_controlVars

(* What holds of a conversation, whichever tabs and retries race for it: one  *)
(* chain of control, no turn of an earlier control, one second attempt.       *)
ControlInv ==
  /\ ControlTypeOK
  /\ ControlEventsChain
  /\ TurnOfThisControl
  /\ SecondAttemptHasOneOwner

=============================================================================
