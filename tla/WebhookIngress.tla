--------------------------- MODULE WebhookIngress ---------------------------
(***************************************************************************)
(* The generic webhook route and what it publishes (services/webhooks):    *)
(* a delivery is classified, its shop is looked up, its payload is         *)
(* normalized and one job is added to a BullMQ queue within a deadline,    *)
(* which does not cancel the add.  Shopify delivers again what was not     *)
(* answered with 200 in time; the shop comes and goes; Redis hangs.        *)
(*                                                                         *)
(* Authentication is done.  A delivery is one of Events, with its topic    *)
(* and the fields of its payload that decide; redeliveries keep its id.    *)
(* A job carries the event; the envelope's other fields are left out.      *)
(***************************************************************************)
EXTENDS Naturals

CONSTANTS
  Requests,   \* the requests that are handled at a time
  Events,
  Topic,      \* the topic of an event
  Subject,    \* the order of an ORDER_COMPLETED, the event itself otherwise
  Fields,     \* the payload's and the headers' fields that are well-formed
  None,
  MaxTries,   \* bound: Shopify's deliveries of an event
  MaxMoves,   \* bound: installations and uninstallations
  MaxCrashes  \* bound: ends of the process

Topics == {"CHECKOUT_CREATED", "CHECKOUT_UPDATED", "CART_ACTIVITY", "ORDER_COMPLETED",
           "DISCOUNT", "CONSENT", "OTHER"}
FieldNames == {"deliveryId", "sameDeliveryId", "token", "orderId", "created_at", "updated_at",
               "apiVersion", "customer_id"}

ASSUME TopicIsKnown == Topic \in [Events -> Topics]
ASSUME FieldsAreKnown == Fields \in [Events -> SUBSET FieldNames]
ASSUME NoneIsNoJob == \A e \in Events : [of |-> Subject[e]] # None

VARIABLES
  shop,        \* the Shop row: "none", "ACTIVE" or "UNINSTALLED"
  requests,    \* the handlers of ingestShopifyWebhook
  retained,    \* the jobs BullMQ retains: id, event, "waiting" or "failed"
  lateAdds,    \* Queue.add commands whose caller has given up
  processed,   \* subjects a worker has completed a job of
  deliveries,  \* Shopify: how far each delivery is
  moves, crashes

ingressVars == <<shop, requests, retained, lateAdds, processed, deliveries, moves, crashes>>

-----------------------------------------------------------------------------
\* wasActive, wasInactive: the shop's states since the request arrived.
IdleRequest == [at |-> "idle", event |-> None, try |-> 0, id |-> None, late |-> FALSE,
                outcome |-> "none", wasActive |-> FALSE, wasInactive |-> FALSE]

At(r, step) == requests[r].at = step
Becomes(r, next) == requests' = [requests EXCEPT ![r] = next]

Outcomes == {"QUEUE_ACCEPTED", "IGNORED", "IGNORED_SHOP", "REJECTED", "PUBLICATION_FAILED"}
Acknowledges == {"QUEUE_ACCEPTED", "IGNORED", "IGNORED_SHOP"}   \* status 200

Answered(r, outcome) == [requests[r] EXCEPT !.at = "answered", !.outcome = outcome]
Answer(r, outcome) == Becomes(r, Answered(r, outcome))

IngressInit ==
  /\ shop \in {"none", "ACTIVE"}
  /\ requests = [r \in Requests |-> IdleRequest]
  /\ retained = {} /\ lateAdds = {} /\ processed = {}
  /\ deliveries = [e \in Events |-> [state |-> "due", tries |-> 0, outcome |-> "none"]]
  /\ moves = 0 /\ crashes = 0

-----------------------------------------------------------------------------
(* Slip: the job of an order is named by its delivery. *)
JobIdOfDelivery(e) == [of |-> e]

\* The deterministic ids: an order's job is named by the order, another by the delivery.
JobId(e) == [of |-> Subject[e]]

\* parseShopifyWebhookMetadata
MetadataParses(e) == {"deliveryId", "sameDeliveryId"} \subseteq Fields[e]

\* The fields an event cannot do without; the others are hints.
OrderNormalizes(e) == "orderId" \in Fields[e] /\ Fields[e] \cap {"created_at", "updated_at"} # {}
CheckoutNormalizes(e) == "token" \in Fields[e]
CartNormalizes(e) == "token" \in Fields[e]

Normalizes(e) ==
  /\ Topic[e] = "ORDER_COMPLETED" => OrderNormalizes(e)
  /\ Topic[e] \in {"CHECKOUT_CREATED", "CHECKOUT_UPDATED"} => CheckoutNormalizes(e)
  /\ Topic[e] = "CART_ACTIVITY" => CartNormalizes(e)

ConsentParses(e) == Topic[e] = "CONSENT" => {"apiVersion", "customer_id"} \subseteq Fields[e]

\* The topics that are looked at before the database is.
Supported(e) == Topic[e] # "OTHER"

Receive(r, e) ==
  /\ At(r, "idle") /\ deliveries[e].state = "due"
  /\ deliveries' = [deliveries EXCEPT ![e].state = "sent", ![e].tries = @ + 1]
  /\ LET received == [IdleRequest EXCEPT !.at = "shop", !.event = e, !.try = deliveries[e].tries + 1,
                        !.wasActive = shop = "ACTIVE", !.wasInactive = shop # "ACTIVE"]
     IN Becomes(r,
          IF ~MetadataParses(e) THEN [received EXCEPT !.at = "answered", !.outcome = "REJECTED"]
          ELSE IF ~Supported(e) THEN [received EXCEPT !.at = "answered", !.outcome = "IGNORED"]
          ELSE received)
  /\ UNCHANGED <<shop, retained, lateAdds, processed, moves, crashes>>

Served == shop = "ACTIVE"

\* The lookup, the checks of the payload, and the publication as far as Queue.add.
ReadShop(r) ==
  /\ At(r, "shop")
  /\ LET e == requests[r].event
     IN IF ~Served THEN Answer(r, "IGNORED_SHOP")
        ELSE IF ~(ConsentParses(e) /\ Normalizes(e)) THEN Answer(r, "REJECTED")
        ELSE Becomes(r, [requests[r] EXCEPT !.at = "adding", !.id = JobId(e)])
  /\ UNCHANGED <<shop, retained, lateAdds, processed, deliveries, moves, crashes>>

Retained(id) == \E job \in retained : job.id = id

\* BullMQ: an add of an id that is retained has no effect.
Executed(id, event) ==
  retained' = IF Retained(id) THEN retained
              ELSE retained \cup {[id |-> id, event |-> event, state |-> "waiting"]}

Add(r) ==
  /\ At(r, "adding")
  /\ Executed(requests[r].id, requests[r].event)
  /\ Becomes(r, [requests[r] EXCEPT !.at = "added"])
  /\ UNCHANGED <<shop, lateAdds, processed, deliveries, moves, crashes>>

\* withinPublicationDeadline compares the time when the add settles.
Settled(r) == IF requests[r].late THEN "PUBLICATION_FAILED" ELSE "QUEUE_ACCEPTED"

Settle(r) ==
  /\ At(r, "added")
  /\ Answer(r, Settled(r))
  /\ UNCHANGED <<shop, retained, lateAdds, processed, deliveries, moves, crashes>>

Failed == "PUBLICATION_FAILED"

\* Redis fails the add, before or after it has executed it.
AddFails(r) ==
  /\ requests[r].at \in {"adding", "added"}
  /\ Answer(r, Failed)
  /\ UNCHANGED <<shop, retained, lateAdds, processed, deliveries, moves, crashes>>

DeadlinePasses(r) ==
  /\ requests[r].at \in {"adding", "added"} /\ ~requests[r].late
  /\ Becomes(r, [requests[r] EXCEPT !.late = TRUE])
  /\ UNCHANGED <<shop, retained, lateAdds, processed, deliveries, moves, crashes>>

(* Slip: the deadline is armed once the queue has answered. *)
ArmedAfterAdd(r) == At(r, "added")

Armed(r) == requests[r].at \in {"adding", "added"}

\* The timer rejects the publication; an add that Redis has not executed stays under way.
TimerFires(r) ==
  /\ Armed(r) /\ requests[r].late
  /\ Answer(r, "PUBLICATION_FAILED")
  /\ lateAdds' = IF At(r, "adding")
       THEN lateAdds \cup {[id |-> requests[r].id, event |-> requests[r].event]} ELSE lateAdds
  /\ UNCHANGED <<shop, retained, processed, deliveries, moves, crashes>>

LateAdd(add) ==
  /\ lateAdds' = lateAdds \ {add}
  /\ Executed(add.id, add.event) \/ UNCHANGED retained
  /\ UNCHANGED <<shop, requests, processed, deliveries, moves, crashes>>

-----------------------------------------------------------------------------
(* External: Shopify, the worker, the shop's lifecycle, the process. *)
Redelivered(delivery) ==
  [delivery EXCEPT !.state = IF delivery.tries < MaxTries THEN "due" ELSE "dropped"]

\* The answer reaches Shopify, unless it has stopped waiting for it.
Respond(r) ==
  /\ At(r, "answered")
  /\ LET e == requests[r].event
         heard == deliveries[e].state = "sent" /\ deliveries[e].tries = requests[r].try
     IN deliveries' = [deliveries EXCEPT ![e] =
          IF ~heard THEN @
          ELSE IF requests[r].outcome \in Acknowledges
          THEN [@ EXCEPT !.state = "acknowledged", !.outcome = requests[r].outcome]
          ELSE Redelivered(@)]
  /\ Becomes(r, IdleRequest)
  /\ UNCHANGED <<shop, retained, lateAdds, processed, moves, crashes>>

ShopifyTimesOut(e) ==
  /\ deliveries[e].state = "sent"
  /\ deliveries' = [deliveries EXCEPT ![e] = Redelivered(@)]
  /\ UNCHANGED <<shop, requests, retained, lateAdds, processed, moves, crashes>>

Crash ==
  /\ crashes < MaxCrashes /\ crashes' = crashes + 1
  /\ requests' = [r \in Requests |-> IdleRequest]
  /\ lateAdds' = lateAdds \cup {[id |-> requests[r].id, event |-> requests[r].event] :
                                  r \in {s \in Requests : At(s, "adding")}}
  /\ UNCHANGED <<shop, retained, processed, deliveries, moves>>

Move ==
  /\ moves < MaxMoves /\ moves' = moves + 1
  /\ shop' = IF shop = "ACTIVE" THEN "UNINSTALLED" ELSE "ACTIVE"
  /\ requests' = [r \in Requests |->
       [requests[r] EXCEPT !.wasActive = ~At(r, "idle") /\ (@ \/ shop' = "ACTIVE"),
                           !.wasInactive = ~At(r, "idle") /\ (@ \/ shop' # "ACTIVE")]]
  /\ UNCHANGED <<retained, lateAdds, processed, deliveries, crashes>>

\* removeOnComplete, and removeOnFail = false after three attempts
Work(job) ==
  /\ job.state = "waiting"
  /\ \/ /\ retained' = retained \ {job}
        /\ processed' = processed \cup {Subject[job.event]}
     \/ /\ retained' = (retained \ {job}) \cup {[job EXCEPT !.state = "failed"]}
        /\ UNCHANGED processed
  /\ UNCHANGED <<shop, requests, lateAdds, deliveries, moves, crashes>>

\* What the server itself does with a request, whatever Redis does.
Handle(r) == ReadShop(r) \/ DeadlinePasses(r) \/ TimerFires(r) \/ Respond(r)

IngressNext ==
  \/ \E r \in Requests :
       \/ Handle(r) \/ Add(r) \/ Settle(r) \/ AddFails(r)
       \/ \E e \in Events : Receive(r, e)
  \/ \E add \in lateAdds : LateAdd(add)
  \/ \E e \in Events : ShopifyTimesOut(e)
  \/ \E job \in retained : Work(job)
  \/ Crash \/ Move

IngressSpec == IngressInit /\ [][IngressNext]_ingressVars /\ \A r \in Requests : WF_ingressVars(Handle(r))

-----------------------------------------------------------------------------
(* Types, and one retained job per id (BullMQ). *)
IngressTypeOK ==
  /\ shop \in {"none", "ACTIVE", "UNINSTALLED"}
  /\ \A r \in Requests :
       /\ requests[r].at \in {"idle", "shop", "adding", "added", "answered"}
       /\ (requests[r].at \in {"adding", "added"}) => requests[r].id # None
       /\ (requests[r].at = "answered") = (requests[r].outcome \in Outcomes)
  /\ \A job, other \in retained : job.id = other.id => job = other

(* An order, or another delivery, is waiting or failed at most once, although *)
(* an add that timed out is executed late, beside its retry, beside the adds  *)
(* of a second delivery of the same order, or after the process has ended.    *)
QueuedOnce == \A job, other \in retained : Subject[job.event] = Subject[other.event] => job = other

(* What Shopify will not deliver again because it was accepted is in the      *)
(* queue, retained there as failed, or was worked off.                        *)
AcceptedIsQueued ==
  \A e \in Events : deliveries[e].outcome = "QUEUE_ACCEPTED" =>
    Subject[e] \in processed \/ \E job \in retained : Subject[job.event] = Subject[e]

(* "HTTP is 200 only after acceptance within budget"                          *)
(* (docs/shopify-webhook-publication.md), whichever of the timer's callback   *)
(* and the add's settlement runs first.                                       *)
AcceptedWithinBudget ==
  \A r \in Requests : requests[r].outcome = "QUEUE_ACCEPTED" => ~requests[r].late

(* A delivery that waits, is published or is discarded on account of its      *)
(* shop is so by a state the shop was in while its request was handled.       *)
DecidedByShop ==
  \A r \in Requests :
    /\ requests[r].at \in {"adding", "added"} \/ requests[r].outcome = "QUEUE_ACCEPTED" =>
         requests[r].wasActive
    /\ requests[r].outcome = "IGNORED_SHOP" => requests[r].wasInactive

(* Every request is answered, also while Redis never answers: whatever comes  *)
(* in, there is a time again at which no request is under way.                *)
RequestIsAnswered == []<>(\A r \in Requests : At(r, "idle"))

(* What holds of the deliveries and the queue, whenever an add is executed    *)
(* and whichever process handled it.                                          *)
IngressInv ==
  /\ IngressTypeOK
  /\ QueuedOnce
  /\ AcceptedIsQueued
  /\ AcceptedWithinBudget
  /\ DecidedByShop

=============================================================================
