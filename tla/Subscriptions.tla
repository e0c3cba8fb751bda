--------------------------- MODULE Subscriptions ---------------------------
(***************************************************************************)
(* How a workspace comes to a payment method and loses it: the checkout at *)
(* Stripe and its webhooks, the subscription at the AWS Marketplace, the   *)
(* choice of a method and of a tier by the user, and the handlers of       *)
(* SubscriptionCreated and SubscriptionCancelled in CloudAccountService.   *)
(*                                                                         *)
(* Stripe, its customers and the marketplace are the environment.  Stripe  *)
(* delivers an event until it is answered with success, in any order, and  *)
(* sometimes again.  Every step of a task is one call or one transaction.  *)
(*                                                                         *)
(* All rows are active: nothing that commits ever makes one inactive (see  *)
(* Billing).  Entries and usage are modelled in Billing, the accounts that *)
(* are switched on and off in AccountLimits, the cycle of a tier in        *)
(* Workspace.                                                              *)
(***************************************************************************)
EXTENDS Integers, FiniteSets

CONSTANTS
    Workspaces, Users,
    Tasks,        \* requests, webhooks and domain events that are handled at the same time
    Tiers, Paid,  \* product tiers, and those that are paid
    None,
    MaxRows,      \* bound: rows ever made in the table subscriptions
    MaxCustomers, MaxPayments, MaxAtStripe,  \* bounds: what is ever made at Stripe
    MaxAsks,      \* bound: what users ask for and do
    MaxAgain,     \* bound: events and messages that are delivered again
    MaxCrashes

ASSUME TierAssumption == Paid \subseteq Tiers /\ Paid # Tiers
ASSUME NameAssumption == None \notin Workspaces \cup Users \cup Tiers /\ Workspaces \cap Users = {}
ASSUME BoundAssumption ==
    {MaxRows, MaxCustomers, MaxPayments, MaxAtStripe, MaxAsks, MaxAgain, MaxCrashes} \subseteq Nat

Subs == 1..MaxRows
Customers == 1..MaxCustomers
Payments == 1..MaxPayments
AtStripe == 1..MaxAtStripe

VARIABLES
    rows,       \* subscriptions: None for an id without a row
    made,       \* rows that were ever made
    sub, tier, hold,    \* subscription_id, tier and payment_on_hold_since of each workspace
    customer, desired,  \* stripe_customers: its customer_id and desired_product_tier
    preferred,  \* aws_tier_preferences
    customers,  \* customers made at Stripe
    checkouts, portals, \* customers who were sent to the checkout, and to the portal
    payer, refunded,    \* the customer of each activation payment, and those that were given back
    buyer, alive,       \* the customer of each subscription made at Stripe, and those not cancelled
    hooks,      \* events Stripe still delivers
    events,     \* SubscriptionCreated and SubscriptionCancelled, not yet handled
    pc, arg,    \* what each task does next, and its locals
    asks, again, crashes

table == <<rows, made>>
space == <<sub, tier, hold>>
stripeRows == <<customer, desired>>
stripe == <<customers, checkouts, portals, payer, refunded, buyer, alive>>
task == <<pc, arg>>
vars == <<table, space, stripeRows, preferred, stripe, hooks, events, task, asks, again, crashes>>

Row == [kind : {"stripe"}, of : Workspaces, at : AtStripe] \cup [kind : {"aws"}, of : Users, at : {None}]
Hook == [type : {"completed", "succeeded"}, id : Payments] \cup [type : {"deleted"}, id : AtStripe]
Event == [kind : {"created", "cancelled"}, sub : Subs]
Arg == [ws : Workspaces \cup {None}, user : Users \cup {None}, sub : Subs \cup {None}, tier : Tiers \cup {None},
        seen : Tiers \cup {None}, id : Nat, msg : Hook \cup Event \cup {None}, left : SUBSET Workspaces]
Blank == [ws |-> None, user |-> None, sub |-> None, tier |-> None, seen |-> None, id |-> 0, msg |-> None,
          left |-> {}]
Steps == {"idle", "newCustomer", "keepCustomer", "desire", "send", "existing", "subscribe", "row", "assign",
          "billing", "created", "refund", "drop", "tell", "lookup", "awsRow", "awsAssign", "give", "choose",
          "hold", "detach", "lift"}

ASSUME NoneAssumption == None \notin Row \cup Hook \cup Event \cup Int

Rows == {s \in Subs : rows[s] # None}

TablesTyped ==
    /\ rows \in [Subs -> Row \cup {None}]
    /\ made \in 0..MaxRows /\ \A s \in Rows : s <= made
    /\ sub \in [Workspaces -> Subs \cup {None}] /\ tier \in [Workspaces -> Tiers]
    /\ hold \in [Workspaces -> BOOLEAN]
    /\ customer \in [Workspaces -> Customers \cup {None}]
    /\ desired \in [Workspaces -> Tiers \cup {None}] /\ preferred \in [Workspaces -> Tiers \cup {None}]
    /\ \A w \in Workspaces : desired[w] # None => customer[w] # None

StripeTyped ==
    /\ customers \in 0..MaxCustomers
    /\ checkouts \cup portals \subseteq 1..customers
    /\ payer \in [Payments -> Customers \cup {None}] /\ refunded \subseteq {p \in Payments : payer[p] # None}
    /\ buyer \in [AtStripe -> Customers \cup {None}] /\ alive \subseteq {a \in AtStripe : buyer[a] # None}

TasksTyped ==
    /\ hooks \subseteq Hook /\ events \subseteq Event
    /\ pc \in [Tasks -> Steps] /\ arg \in [Tasks -> Arg]
    /\ \A t \in Tasks : pc[t] = "idle" => arg[t] = Blank
    /\ asks \in 0..MaxAsks /\ again \in 0..MaxAgain /\ crashes \in 0..MaxCrashes

TypeOK == TablesTyped /\ StripeTyped /\ TasksTyped

Init ==
    /\ rows = [s \in Subs |-> None] /\ made = 0
    /\ sub = [w \in Workspaces |-> None] /\ tier = [w \in Workspaces |-> CHOOSE x \in Tiers : x \notin Paid]
    /\ hold = [w \in Workspaces |-> FALSE]
    /\ customer = [w \in Workspaces |-> None] /\ desired = [w \in Workspaces |-> None]
    /\ preferred = [w \in Workspaces |-> None]
    /\ customers = 0 /\ checkouts = {} /\ portals = {}
    /\ payer = [p \in Payments |-> None] /\ refunded = {}
    /\ buyer = [a \in AtStripe |-> None] /\ alive = {}
    /\ hooks = {} /\ events = {}
    /\ pc = [t \in Tasks |-> "idle"] /\ arg = [t \in Tasks |-> Blank]
    /\ asks = 0 /\ again = 0 /\ crashes = 0

-----------------------------------------------------------------------------
(* The tables.                                                             *)

\* SubscriptionEntity.from_model: a subscription of Stripe belongs to a workspace, one of AWS to a user
StripeRow(w, a) == [kind |-> "stripe", of |-> w, at |-> a]
AwsRowOf(u) == [kind |-> "aws", of |-> u, at |-> None]

\* the queries of SubscriptionRepository.subscriptions
AwsOf(u) == {s \in Rows : rows[s].kind = "aws" /\ rows[s].of = u}
StripeOf(w) == {s \in Rows : rows[s].kind = "stripe" /\ rows[s].of = w}
OfCustomer(c) == {s \in Rows : rows[s].kind = "stripe" /\ buyer[rows[s].at] = c}
WithStripeId(a) == {s \in Rows : rows[s].kind = "stripe" /\ rows[s].at = a}

\* the repository's create
AddRow(row) ==
    /\ made < MaxRows /\ made' = made + 1
    /\ rows' = [rows EXCEPT ![made'] = row]

\* list_workspaces_by_subscription_id
UsedBy(s) == {w \in Workspaces : sub[w] = s}

\* workspace_of_customer; the customer is unique
WorkspaceOf(c) == {w \in Workspaces : customer[w] = c}

\* get_product_tier: the tier the user asked for on the way to Stripe, and to the marketplace
DesiredTier(w) == desired[w]
PreferredTier(w) == preferred[w]

\* get_payment_methods: the current method, None when the row is gone ...
CurrentMethod(w) == IF sub[w] \in Rows THEN sub[w] ELSE None

\* mutant: the subscriptions of all workspaces
EveryMethod(w, u) == AwsOf(u) \cup {s \in Rows : rows[s].kind = "stripe"}

\* ... and those a user may choose for the workspace
Available(w, u) == AwsOf(u) \cup StripeOf(w)

-----------------------------------------------------------------------------
(* Tasks.                                                                  *)

Goto(t, step) == pc' = [pc EXCEPT ![t] = step]

Begin(t, step, locals) ==
    /\ pc[t] = "idle"
    /\ Goto(t, step)
    /\ arg' = [arg EXCEPT ![t] = locals]

End(t) == Goto(t, "idle") /\ arg' = [arg EXCEPT ![t] = Blank]

\* The task has done what it was asked for: Stripe, or the stream, does not deliver the message again, or
\* once more because the answer was late.
Answered(t) ==
    /\ End(t)
    /\ \/ hooks' = hooks \ {arg[t].msg} /\ events' = events \ {arg[t].msg} /\ UNCHANGED again
       \/ again < MaxAgain /\ again' = again + 1 /\ arg[t].msg # None /\ UNCHANGED <<hooks, events>>

Quiet == UNCHANGED <<hooks, events, again>>
SameBounds == UNCHANGED <<asks, crashes>>

Asked == asks < MaxAsks /\ asks' = asks + 1

-----------------------------------------------------------------------------
(* The way to Stripe: redirect_to_stripe.                                  *)

\* _get_stripe_customer_id: the customer of the workspace, if there is one
AskStripe(t, w, x) ==
    /\ Asked
    /\ Begin(t, IF customer[w] = None THEN "newCustomer" ELSE "desire",
             [Blank EXCEPT !.ws = w, !.tier = x, !.id = IF customer[w] = None THEN 0 ELSE customer[w]])
    /\ UNCHANGED <<table, space, stripeRows, preferred, stripe, hooks, events, again, crashes>>

\* create_customer, at Stripe
NewCustomer(t) ==
    /\ pc[t] = "newCustomer"
    /\ customers < MaxCustomers /\ customers' = customers + 1
    /\ arg' = [arg EXCEPT ![t].id = customers']
    /\ Goto(t, "keepCustomer")
    /\ Quiet /\ SameBounds
    /\ UNCHANGED <<table, space, stripeRows, preferred, checkouts, portals, payer, refunded, buyer, alive>>

\* mutant: the new row replaces the one of another request
ReplaceCustomer(t) ==
    /\ pc[t] = "keepCustomer"
    /\ customer' = [customer EXCEPT ![arg[t].ws] = arg[t].id]
    /\ Goto(t, "desire")
    /\ Quiet /\ SameBounds
    /\ UNCHANGED <<table, space, desired, preferred, stripe, arg>>

\* StripeCustomerRepository.create: raises when the workspace has got a row since
KeepCustomer(t) ==
    /\ pc[t] = "keepCustomer"
    /\ LET w == arg[t].ws
       IN  \/ /\ customer[w] = None
              /\ customer' = [customer EXCEPT ![w] = arg[t].id]
              /\ Goto(t, "desire") /\ UNCHANGED arg
           \/ customer[w] # None /\ End(t) /\ UNCHANGED customer
    /\ Quiet /\ SameBounds
    /\ UNCHANGED <<table, space, desired, preferred, stripe>>

\* set_product_tier
Desire(t) ==
    /\ pc[t] = "desire"
    /\ desired' = IF arg[t].tier = None THEN desired ELSE [desired EXCEPT ![arg[t].ws] = arg[t].tier]
    /\ Goto(t, "send")
    /\ Quiet /\ SameBounds
    /\ UNCHANGED <<table, space, customer, preferred, stripe, arg>>

\* the checkout for an activation payment, or the portal for a customer who has a subscription
SendToStripe(t) ==
    /\ pc[t] = "send"
    /\ IF OfCustomer(arg[t].id) = {}
       THEN checkouts' = checkouts \cup {arg[t].id} /\ UNCHANGED portals
       ELSE portals' = portals \cup {arg[t].id} /\ UNCHANGED checkouts
    /\ End(t)
    /\ Quiet /\ SameBounds
    /\ UNCHANGED <<table, space, stripeRows, preferred, customers, payer, refunded, buyer, alive>>

-----------------------------------------------------------------------------
(* The customer at Stripe.                                                 *)

\* a checkout is paid; a page that was left open can be paid later
Pay(c) ==
    /\ c \in checkouts /\ checkouts' = checkouts \ {c}
    /\ \E p \in Payments :
        /\ payer[p] = None /\ \A q \in 1..(p - 1) : payer[q] # None
        /\ payer' = [payer EXCEPT ![p] = c]
        /\ hooks' = hooks \cup {[type |-> "completed", id |-> p], [type |-> "succeeded", id |-> p]}
    /\ SameBounds
    /\ UNCHANGED <<table, space, stripeRows, preferred, customers, portals, refunded, buyer, alive, events, task,
                   again>>

\* a subscription is cancelled in the portal
CancelAtStripe(a) ==
    /\ a \in alive /\ buyer[a] \in portals
    /\ alive' = alive \ {a}
    /\ hooks' = hooks \cup {[type |-> "deleted", id |-> a]}
    /\ SameBounds
    /\ UNCHANGED <<table, space, stripeRows, preferred, customers, checkouts, portals, payer, refunded, buyer,
                   events, task, again>>

-----------------------------------------------------------------------------
(* The webhook: handle_verified_event.                                     *)

\* mutant: the event is acknowledged before it is handled
ReceiveAndDrop(t, h) ==
    /\ h.type = "succeeded" /\ hooks' = hooks \ {h}
    /\ Begin(t, "refund", [Blank EXCEPT !.msg = h, !.id = h.id])
    /\ UNCHANGED <<table, space, stripeRows, preferred, stripe, events, asks, again, crashes>>

\* the activation payment is refunded
Receive(t, h) ==
    /\ h \in hooks /\ h.type = "succeeded"
    /\ Begin(t, "refund", [Blank EXCEPT !.msg = h, !.id = h.id])
    /\ UNCHANGED <<table, space, stripeRows, preferred, stripe, hooks, events, asks, again, crashes>>

\* Stripe refuses a second refund, and the event comes again and again
Refund(t) ==
    /\ pc[t] = "refund"
    /\ \/ arg[t].id \notin refunded /\ refunded' = refunded \cup {arg[t].id} /\ Answered(t)
       \/ arg[t].id \in refunded /\ End(t) /\ Quiet /\ UNCHANGED refunded
    /\ SameBounds
    /\ UNCHANGED <<table, space, stripeRows, preferred, customers, checkouts, portals, payer, buyer, alive>>

\* _create_stripe_subscription, for the workspace of the customer
Completed(t, h) ==
    /\ h \in hooks /\ h.type = "completed"
    /\ \E w \in WorkspaceOf(payer[h.id]) :
        Begin(t, "existing", [Blank EXCEPT !.msg = h, !.ws = w, !.id = payer[h.id]])
    /\ UNCHANGED <<table, space, stripeRows, preferred, stripe, hooks, events, asks, again, crashes>>

\* "do nothing if we already have an active stripe subscription"
Existing(t) ==
    /\ pc[t] = "existing"
    /\ LET s == CurrentMethod(arg[t].ws)
           has == s # None /\ rows[s].kind = "stripe"
       IN  \/ has /\ Answered(t)
           \/ ~has /\ Goto(t, "subscribe") /\ Quiet /\ UNCHANGED arg
    /\ SameBounds
    /\ UNCHANGED <<table, space, stripeRows, preferred, stripe>>

\* create_subscription, at Stripe
Subscribe(t) ==
    /\ pc[t] = "subscribe"
    /\ \E a \in AtStripe :
        /\ buyer[a] = None /\ \A b \in 1..(a - 1) : buyer[b] # None
        /\ buyer' = [buyer EXCEPT ![a] = arg[t].id]
        /\ alive' = alive \cup {a}
        /\ arg' = [arg EXCEPT ![t].id = a]
    /\ Goto(t, "row")
    /\ Quiet /\ SameBounds
    /\ UNCHANGED <<table, space, stripeRows, preferred, customers, checkouts, portals, payer, refunded>>

MakeRow(t) ==
    /\ pc[t] = "row"
    /\ AddRow(StripeRow(arg[t].ws, arg[t].id))
    /\ arg' = [arg EXCEPT ![t].sub = made']
    /\ Goto(t, "assign")
    /\ Quiet /\ SameBounds
    /\ UNCHANGED <<space, stripeRows, preferred, stripe>>

\* update_subscription, and get_product_tier
Assign(t) ==
    /\ pc[t] = "assign"
    /\ LET w == arg[t].ws
       IN  /\ sub' = [sub EXCEPT ![w] = arg[t].sub]
           /\ arg' = [arg EXCEPT ![t] = [@ EXCEPT !.tier = DesiredTier(w), !.seen = tier[w]]]
           /\ Goto(t, IF DesiredTier(w) = None THEN "created" ELSE "billing")
    /\ Quiet /\ SameBounds
    /\ UNCHANGED <<table, tier, hold, stripeRows, preferred, stripe>>

\* the last step of update_billing, for all its callers.  A tier of the workspace as it was read changes
\* nothing; too many accounts or users for the tier, and a paid tier without a subscription, are refused.
UpdateTier(t, w, x) ==
    \/ x \notin {None, arg[t].seen} /\ (x \in Paid => sub[w] # None) /\ tier' = [tier EXCEPT ![w] = x]
    \/ x \in {None, arg[t].seen} /\ UNCHANGED tier

\* For a webhook a refusal is an error; subscribed only logs it.
Billing(t) ==
    /\ pc[t] = "billing"
    /\ LET w == arg[t].ws
       IN  \/ /\ UpdateTier(t, w, arg[t].tier)
              /\ IF arg[t].sub = None THEN End(t) ELSE Goto(t, "created") /\ UNCHANGED arg
           \/ /\ UNCHANGED tier
              /\ \/ arg[t].user # None /\ arg[t].sub # None /\ Goto(t, "created") /\ UNCHANGED arg
                 \/ None \in {arg[t].user, arg[t].sub} /\ End(t)
    /\ Quiet
    /\ UNCHANGED <<table, sub, hold, stripeRows, preferred, stripe, asks, crashes>>

\* the subscription is announced, and the webhook or the request answered
Created(t) ==
    /\ pc[t] = "created"
    /\ LET e == [kind |-> "created", sub |-> arg[t].sub]
       IN  /\ End(t)
           /\ events' = events \cup {e}
           /\ \/ hooks' = hooks \ {arg[t].msg} /\ UNCHANGED again
              \/ arg[t].msg # None /\ again < MaxAgain /\ again' = again + 1 /\ UNCHANGED hooks
    /\ SameBounds
    /\ UNCHANGED <<table, space, stripeRows, preferred, stripe>>

\* _stripe_subscription_cancelled: nothing to do without a row
Deleted(t, h) ==
    /\ h \in hooks /\ h.type = "deleted"
    /\ \/ \E s \in WithStripeId(h.id) :
           Begin(t, "drop", [Blank EXCEPT !.msg = h, !.sub = s]) /\ UNCHANGED hooks
       \/ /\ WithStripeId(h.id) = {} /\ pc[t] = "idle"
          /\ hooks' = hooks \ {h}
          /\ UNCHANGED task
    /\ UNCHANGED <<table, space, stripeRows, preferred, stripe, events, asks, again, crashes>>

\* delete_subscriptions
Drop(t) ==
    /\ pc[t] = "drop"
    /\ rows' = [rows EXCEPT ![arg[t].sub] = None]
    /\ Goto(t, "tell")
    /\ Quiet /\ SameBounds
    /\ UNCHANGED <<made, space, stripeRows, preferred, stripe, arg>>

TellCancelled(t) ==
    /\ pc[t] = "tell"
    /\ events' = events \cup {[kind |-> "cancelled", sub |-> arg[t].sub]}
    /\ hooks' = hooks \ {arg[t].msg}
    /\ End(t)
    /\ SameBounds
    /\ UNCHANGED <<table, space, stripeRows, preferred, stripe, again>>

Webhook(t) ==
    \/ \E h \in hooks : Receive(t, h) \/ Completed(t, h) \/ Deleted(t, h)
    \/ Refund(t) \/ Existing(t) \/ Subscribe(t) \/ MakeRow(t) \/ Assign(t) \/ Created(t)
    \/ Drop(t) \/ TellCancelled(t)

-----------------------------------------------------------------------------
(* The AWS Marketplace.                                                    *)

\* AwsTierPreferenceRepository.create: the row of the workspace, new or not
KeepPreference(w, x) == preferred' = [preferred EXCEPT ![w] = x]

\* redirect_to_aws_marketplace_product
Prefer(w, x) ==
    /\ Asked
    /\ KeepPreference(w, x)
    /\ Quiet /\ UNCHANGED crashes
    /\ UNCHANGED <<table, space, stripeRows, stripe, task>>

\* subscribed: the user may bill for one workspace, which is taken as it is now, or for several (see Members)
Subscribed(t, u, w) ==
    /\ Asked
    /\ Begin(t, "lookup", [Blank EXCEPT !.user = u, !.ws = w, !.seen = IF w = None THEN None ELSE tier[w],
                                       !.id = IF w # None /\ sub[w] = None THEN 1 ELSE 0])
    /\ UNCHANGED <<table, space, stripeRows, preferred, stripe, hooks, events, again, crashes>>

\* aws_marketplace_subscription: a subscription that is there is returned, and takes the hold from its
\* workspaces; two rows raise
LookupAws(t) ==
    /\ pc[t] = "lookup"
    /\ LET own == AwsOf(arg[t].user)
       IN  \/ own = {} /\ Goto(t, "awsRow") /\ UNCHANGED <<arg, hold>>
           \/ own # {} /\ End(t) /\ hold' = [w \in Workspaces |-> hold[w] /\ ~(Cardinality(own) = 1 /\ sub[w] \in own)]
    /\ Quiet /\ SameBounds
    /\ UNCHANGED <<table, sub, tier, stripeRows, preferred, stripe>>

\* the new row; the workspace gets it when it had none
MakeAwsRow(t) ==
    /\ pc[t] = "awsRow"
    /\ AddRow(AwsRowOf(arg[t].user))
    /\ arg' = [arg EXCEPT ![t].sub = made']
    /\ Goto(t, IF arg[t].id = 1 THEN "awsAssign" ELSE "created")
    /\ Quiet /\ SameBounds
    /\ UNCHANGED <<space, stripeRows, preferred, stripe>>

\* update_subscription, and the tier the workspace had asked for
AssignAws(t) ==
    /\ pc[t] = "awsAssign"
    /\ LET w == arg[t].ws
       IN  /\ sub' = [sub EXCEPT ![w] = arg[t].sub]
           /\ arg' = [arg EXCEPT ![t].tier = PreferredTier(w)]
           /\ Goto(t, IF PreferredTier(w) = None THEN "created" ELSE "billing")
    /\ Quiet /\ SameBounds
    /\ UNCHANGED <<table, tier, hold, stripeRows, preferred, stripe>>

\* subscription_canceled tells the others; the row stays
CancelAtAws(u) ==
    /\ Asked
    /\ events' = events \cup [kind : {"cancelled"}, sub : AwsOf(u)]
    /\ UNCHANGED crashes
    /\ UNCHANGED <<table, space, stripeRows, preferred, stripe, hooks, task, again>>

-----------------------------------------------------------------------------
(* The user chooses.                                                       *)

\* assign_subscription: a subscription of the user ...
AskAssign(t, u, w, s) ==
    /\ Asked
    /\ s \in AwsOf(u)
    /\ Begin(t, "give", [Blank EXCEPT !.ws = w, !.sub = s])
    /\ UNCHANGED <<table, space, stripeRows, preferred, stripe, hooks, events, again, crashes>>

\* update_payment_method
Switch(w, s) == sub' = [sub EXCEPT ![w] = s]

\* ... becomes the one of the workspace
GiveSubscription(t) ==
    /\ pc[t] = "give"
    /\ Switch(arg[t].ws, arg[t].sub)
    /\ End(t)
    /\ Quiet
    /\ UNCHANGED <<table, tier, hold, stripeRows, preferred, stripe, asks, crashes>>

\* the request of the user, and update_billing: the method, the tier or both.  A method the workspace does not
\* offer is refused; to have none is only possible for a workspace that has none, and changes nothing.
AskBilling(t, u, w, x, s) ==
    /\ Asked
    /\ x # None \/ s # None
    /\ s # None => s \in Available(w, u)
    /\ Begin(t, IF s \in {None, CurrentMethod(w)} THEN "billing" ELSE "choose",
             [Blank EXCEPT !.user = u, !.ws = w, !.tier = x, !.seen = tier[w], !.id = IF s = None THEN 0 ELSE s])
    /\ UNCHANGED <<table, space, stripeRows, preferred, stripe, hooks, events, again, crashes>>

ChooseMethod(t) ==
    /\ pc[t] = "choose"
    /\ Switch(arg[t].ws, arg[t].id)
    /\ IF arg[t].tier = None THEN End(t) ELSE Goto(t, "billing") /\ UNCHANGED arg
    /\ Quiet
    /\ UNCHANGED <<table, tier, hold, stripeRows, preferred, stripe, asks, crashes>>

-----------------------------------------------------------------------------
(* process_domain_event of CloudAccountService.                            *)

\* update_payment_on_hold
SetHold(w, since) == hold' = [hold EXCEPT ![w] = since]

TakeCancelled(t, e) ==
    /\ e \in events /\ e.kind = "cancelled"
    /\ Begin(t, "hold", [Blank EXCEPT !.msg = e, !.left = UsedBy(e.sub)])
    /\ UNCHANGED <<table, space, stripeRows, preferred, stripe, hooks, events, asks, again, crashes>>

\* the payment is on hold ...
HoldPayment(t) ==
    /\ pc[t] = "hold"
    /\ \E w \in arg[t].left :
        /\ SetHold(w, TRUE)
        /\ arg' = [arg EXCEPT ![t].ws = w, ![t].left = @ \ {w}]
    /\ Goto(t, "detach")
    /\ Quiet /\ SameBounds
    /\ UNCHANGED <<table, sub, tier, stripeRows, preferred, stripe>>

\* update_subscription(None), whatever the workspace has by now
TakeSubscription(w) == sub' = [sub EXCEPT ![w] = None]

\* ... and the workspace loses its subscription, then its accounts (see AccountLimits)
Detach(t) ==
    /\ pc[t] = "detach"
    /\ TakeSubscription(arg[t].ws)
    /\ Goto(t, "hold")
    /\ Quiet /\ SameBounds
    /\ UNCHANGED <<table, tier, hold, stripeRows, preferred, stripe, arg>>

TakeCreated(t, e) ==
    /\ e \in events /\ e.kind = "created"
    /\ Begin(t, "lift", [Blank EXCEPT !.msg = e, !.left = UsedBy(e.sub)])
    /\ UNCHANGED <<table, space, stripeRows, preferred, stripe, hooks, events, asks, again, crashes>>

\* the hold is lifted, and the workspace collected again (see Workspace)
LiftHold(t) ==
    /\ pc[t] = "lift"
    /\ \E w \in arg[t].left :
        /\ SetHold(w, FALSE)
        /\ arg' = [arg EXCEPT ![t].left = @ \ {w}]
    /\ Quiet /\ SameBounds
    /\ UNCHANGED <<table, sub, tier, stripeRows, preferred, stripe, pc>>

\* the message is acknowledged
EventDone(t) ==
    /\ pc[t] \in {"hold", "lift"} /\ arg[t].left = {}
    /\ Answered(t)
    /\ SameBounds
    /\ UNCHANGED <<table, space, stripeRows, preferred, stripe>>

DomainEvent(t) ==
    \/ \E e \in events : TakeCancelled(t, e) \/ TakeCreated(t, e)
    \/ HoldPayment(t) \/ Detach(t) \/ LiftHold(t) \/ EventDone(t)

-----------------------------------------------------------------------------

\* What else a task does once it has begun.
Request(t) ==
    \/ NewCustomer(t) \/ KeepCustomer(t) \/ Desire(t) \/ SendToStripe(t)
    \/ Billing(t) \/ LookupAws(t) \/ MakeAwsRow(t) \/ AssignAws(t) \/ GiveSubscription(t) \/ ChooseMethod(t)

\* The process dies, or a call raises: the task is cut off, a message comes again.
Cut(t) ==
    /\ pc[t] # "idle"
    /\ crashes < MaxCrashes /\ crashes' = crashes + 1
    /\ End(t)
    /\ Quiet
    /\ UNCHANGED <<table, space, stripeRows, preferred, stripe, asks>>

\* The bounds of the instance: the call raises.
OutOfBounds(t) ==
    /\ \/ pc[t] = "newCustomer" /\ customers = MaxCustomers
       \/ pc[t] = "subscribe" /\ \A a \in AtStripe : buyer[a] # None
       \/ pc[t] \in {"row", "awsRow"} /\ made = MaxRows
    /\ End(t)
    /\ Quiet
    /\ UNCHANGED <<table, space, stripeRows, preferred, stripe, asks, crashes>>

Next ==
    \/ \E t \in Tasks :
        \/ Webhook(t) \/ DomainEvent(t) \/ Request(t) \/ Cut(t) \/ OutOfBounds(t)
        \/ \E w \in Workspaces, x \in Paid \cup {None} : AskStripe(t, w, x)
        \/ \E u \in Users, w \in Workspaces \cup {None} : Subscribed(t, u, w)
        \/ \E u \in Users, w \in Workspaces, s \in Rows : AskAssign(t, u, w, s)
        \/ \E u \in Users, w \in Workspaces, x \in Tiers \cup {None}, s \in Rows \cup {None} :
            AskBilling(t, u, w, x, s)
    \/ \E c \in Customers : Pay(c)
    \/ \E a \in AtStripe : CancelAtStripe(a)
    \/ \E w \in Workspaces, x \in Paid : Prefer(w, x)
    \/ \E u \in Users : CancelAtAws(u)

Spec == Init /\ [][Next]_vars

=============================================================================
