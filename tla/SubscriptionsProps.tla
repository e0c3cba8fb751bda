------------------------- MODULE SubscriptionsProps -------------------------
(* What the ways to pay promise to a workspace. *)
EXTENDS Subscriptions

\* A subscription of Stripe pays for the workspace whose customer bought it and for no other, whichever
\* way a method is chosen and whatever a user may bill for.
StripeStaysHome ==
    \A w \in Workspaces : CurrentMethod(w) # None /\ rows[sub[w]].kind = "stripe" => rows[sub[w]].of = w

\* Whoever pays at Stripe is the customer of a workspace, so that the webhook finds where the subscription
\* belongs: two requests may make two customers, but only one of them is ever sent to the checkout.
PaymentFindsWorkspace ==
    \A p \in Payments : payer[p] # None => WorkspaceOf(payer[p]) # {}

\* The money for the activation is given back and the customer gets a subscription, although the process may
\* die at any step: until then Stripe delivers the events of the payment.
PaymentNotForgotten ==
    \A p \in Payments : payer[p] # None =>
        /\ p \in refunded \/ [type |-> "succeeded", id |-> p] \in hooks
        /\ [type |-> "completed", id |-> p] \in hooks \/ \E a \in AtStripe : buyer[a] = payer[p]

=============================================================================
