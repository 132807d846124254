------------------------------ MODULE MCWebhooks ------------------------------
(***************************************************************************)
(* Webhooks for TLC: the delivery to the subscriptions of a collection,    *)
(* and the dead letters of one of them with an operator who pages through  *)
(* them.  What delivery contributes to the ring is that letters arrive and *)
(* runtimes are replaced, which the ring models itself: a behaviour moves  *)
(* one of the two and leaves the other where it began.                     *)
(***************************************************************************)
EXTENDS WebhookDelivery, DeadLetterRing, TLC

CONSTANTS s1, s2, all, deletes, elsewhere, here, there

VARIABLE part  \* the part that moves

(* Declared for every operation, for deletes only, or for another           *)
(* collection.                                                              *)
AcceptedOperations ==
    all :> {"upsert", "delete"} @@ deletes :> {"delete"} @@ elsewhere :> {"upsert"}

(* The collection is declared as here or there; `elsewhere` never matches,  *)
(* `deletes` only here.                                                     *)
MatchingPlaces == {<<all, here>>, <<all, there>>, <<deletes, here>>}

On(d1, d2) ==
    [on |-> TRUE, decl |-> s1 :> d1 @@ s2 :> d2, place |-> here, rest |-> 1]

Redeclarations ==
    {On(all, deletes), [On(all, deletes) EXCEPT !.rest = 2], On(deletes, all),
     On(elsewhere, Undeclared), [On(all, all) EXCEPT !.on = FALSE]}

Moved == {On(all, deletes), [On(all, deletes) EXCEPT !.place = there]}

PartInit ==
    /\ part \in {"delivery", "ring"} /\ DeliveryInit /\ RingInit
    /\ config = On(all, deletes)

PartNext ==
    \/ part = "delivery" /\ DeliveryNext /\ UNCHANGED <<part, ringVars>>
    \/ part = "ring" /\ RingNext /\ UNCHANGED <<part, deliveryVars>>

(* A delivery that stays as it began owes nothing.                          *)
Moving == part = "delivery"

PartSpec ==
    /\ PartInit /\ [][PartNext]_<<part, deliveryVars, ringVars>>
    /\ WF_deliveryVars(Moving /\ Rebind)
    /\ \A s \in Subs : WF_deliveryVars(Moving /\ Drain(s))
=============================================================================
