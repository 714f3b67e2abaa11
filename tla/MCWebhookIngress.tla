-------------------------- MODULE MCWebhookIngress --------------------------
(* WebhookIngress with two requests: two deliveries of one order, or one      *)
(* delivery of another kind, well-formed or not; the events that do not       *)
(* happen are over from the start.  Beside it, in the same run, the scanning  *)
(* of every document of up to two members, where 9 is beyond the integers of  *)
(* a double: the two share no state, and `part` names the one that moves.     *)
EXTENDS WebhookIngress, ConsentIdentity, TLC

VARIABLE part

CONSTANTS r1, r2, e1, e2, e3, e4, e5, e6, e7, o1

MCHeaders == {"deliveryId", "sameDeliveryId"}

\* e1 and e2 are deliveries of the order o1; the others are a checkout, a consent
\* without its customer, an unsupported topic, an order without a time, and a
\* cart of which the delivery ids disagree.
MCTopic == (e1 :> "ORDER_COMPLETED") @@ (e2 :> "ORDER_COMPLETED")
           @@ (e3 :> "CHECKOUT_UPDATED") @@ (e4 :> "CONSENT") @@ (e5 :> "OTHER")
           @@ (e6 :> "ORDER_COMPLETED") @@ (e7 :> "CART_ACTIVITY")
MCSubject == [e \in Events |-> IF e \in {e1, e2} THEN o1 ELSE e]
MCFields == (e1 :> MCHeaders \cup {"orderId", "updated_at"}) @@ (e2 :> MCHeaders \cup {"orderId", "updated_at"})
            @@ (e3 :> MCHeaders \cup {"token"}) @@ (e4 :> MCHeaders \cup {"apiVersion"})
            @@ (e5 :> MCHeaders) @@ (e6 :> MCHeaders \cup {"orderId"}) @@ (e7 :> {"deliveryId", "token"})

MCNames == {<<>>, <<"k">>, <<"b", "u">>, <<"lbrace", "b", "q", "k">>, <<"a">>, <<"9">>}
MCNumbers == {<<"1">>, <<"9">>, <<"1", ".", "9">>}
MCRounded == ("1" :> "1") @@ ("8" :> "8") @@ ("9" :> "8")

Happening(events) ==
  /\ requests = [r \in Requests |-> IdleRequest]
  /\ retained = {} /\ lateAdds = {} /\ processed = {}
  /\ deliveries = [e \in Events |-> [state |-> IF e \in events THEN "due" ELSE "dropped",
                                     tries |-> 0, outcome |-> "none"]]
  /\ moves = 0 /\ crashes = 0

\* An empty string is only a member's value.
EmptyIsAValue ==
  \A n \in DOMAIN document :
    LET value == document[n].value
    IN /\ document[n].key # <<>>
       /\ value.kind \in {"array", "object"} /\ value.of.kind = "string" => value.of.chars # <<>>
       /\ value.kind = "object" => value.key # <<>>

MCInit ==
  \/ /\ part = "ingress" /\ document = <<>> /\ ScanInit
     /\ \E events \in {{e1, e2}} \cup {{e} : e \in Events \ {e1, e2}} : Happening(events)
     /\ shop \in {"none", "ACTIVE"}
  \/ /\ part = "consent" /\ ScanInit /\ EmptyIsAValue
     /\ Happening({}) /\ shop = "none"

\* Which of two idle handlers takes a request makes no difference: r1 does.
FirstIdle == At(r2, "idle") /\ requests'[r2].at # "idle" => ~At(r1, "idle")

\* The shop stays while two deliveries race.
Racing == deliveries[e1].state # "dropped" \/ deliveries[e1].tries > 0

MCNext ==
  \/ /\ part = "ingress" /\ IngressNext /\ FirstIdle /\ (Racing => UNCHANGED shop)
     /\ UNCHANGED <<scan, part>>
  \/ /\ part = "consent" /\ Scan
     /\ UNCHANGED <<ingressVars, part>>

MCSpec == MCInit /\ [][MCNext]_<<ingressVars, scan, part>> /\ \A r \in Requests : WF_ingressVars(Handle(r))

=============================================================================
