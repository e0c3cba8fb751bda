------------------------ MODULE Subscriptions_proofs ------------------------
(***************************************************************************)
(* What the ways to pay promise, for any number of workspaces, users,      *)
(* tasks, subscriptions, repeated events and crashes.                      *)
(***************************************************************************)
EXTENDS SubscriptionsProps, TLAPS

USE TierAssumption, NameAssumption, BoundAssumption, NoneAssumption

\* What the step p of a task needs of its locals r.
LocalsAt(p, r) ==
    /\ p \in {"newCustomer", "keepCustomer", "desire", "send", "existing", "subscribe", "row", "assign", "billing",
              "awsAssign", "give", "choose", "detach"} => r.ws \in Workspaces
    /\ p \in {"keepCustomer", "desire", "send"} => r.id \in 1..customers
    /\ p \in {"existing", "subscribe"} => r.id \in Customers
    /\ p = "row" => r.id \in AtStripe
    /\ p \in {"assign", "created", "awsAssign", "give", "drop", "tell"} => r.sub \in Subs
    /\ p = "choose" => r.id \in Subs
    /\ p \in {"lookup", "awsRow"} => r.user \in Users /\ (r.id = 1 => r.ws \in Workspaces)
    /\ p = "refund" => r.id \in Payments /\ payer[r.id] # None

Locals == \A t \in Tasks : LocalsAt(pc[t], arg[t])

\* The customer of a workspace is one that was made.
CustomerMade ==
    /\ \A w \in Workspaces : customer[w] # None => customer[w] \in 1..customers
    /\ \A t \in Tasks : pc[t] \in {"desire", "send"} => customer[arg[t].ws] = arg[t].id

\* Whoever was sent to the checkout, or has paid, is the customer of a workspace.
CustomersKnown ==
    /\ \A c \in checkouts : WorkspaceOf(c) # {}
    /\ PaymentFindsWorkspace

\* The subscription a task gives to a workspace.
Chosen(t) == IF pc[t] = "choose" THEN arg[t].id ELSE arg[t].sub

\* s may be the subscription of w: it was made, and if it is one of Stripe it is for w.
FitsTo(s, w) == s <= made /\ (rows[s] # None /\ rows[s].kind = "stripe" => rows[s].of = w)

HomeInv ==
    /\ \A w \in Workspaces : sub[w] # None => FitsTo(sub[w], w)
    /\ \A t \in Tasks :
        pc[t] \in {"assign", "awsAssign", "give", "choose"} => FitsTo(Chosen(t), arg[t].ws)

\* A row of Stripe is of the workspace whose customer has bought it.
RowsOfCustomers ==
    /\ \A s \in Rows : rows[s].kind = "stripe" => buyer[rows[s].at] = customer[rows[s].of]
    /\ \A s \in Rows : rows[s].kind = "stripe" => customer[rows[s].of] # None
    /\ \A t \in Tasks : pc[t] = "row" => buyer[arg[t].id] = customer[arg[t].ws] /\ customer[arg[t].ws] # None

\* The event that a task works on at the step p with the locals r.
HandAt(p, r) ==
    /\ p \in {"existing", "subscribe", "row", "assign"} \/ (p \in {"billing", "created"} /\ r.msg # None) =>
        /\ r.msg \in Hook /\ r.msg.type = "completed" /\ payer[r.msg.id] # None
        /\ r.ws \in Workspaces /\ customer[r.ws] = payer[r.msg.id]
    /\ p \in {"existing", "subscribe"} => r.id = payer[r.msg.id]
    /\ p \in {"row", "assign"} \/ (p \in {"billing", "created"} /\ r.msg # None) =>
        \E a \in AtStripe : buyer[a] = payer[r.msg.id]
    /\ p = "refund" => r.msg \in Hook /\ r.msg.type = "succeeded" /\ r.msg.id = r.id
    /\ p \in {"drop", "tell"} => r.msg \in Hook /\ r.msg.type = "deleted"
    /\ p \in {"hold", "detach", "lift"} => r.msg \in Event
    /\ p \in {"newCustomer", "keepCustomer", "desire", "send", "lookup", "awsRow", "awsAssign", "give", "choose"} =>
        r.msg = None

MessageInHand == \A t \in Tasks : HandAt(pc[t], arg[t])

\* Events of Stripe are about what there is.
HooksMeant ==
    \A h \in hooks : h.type \in {"completed", "succeeded"} => payer[h.id] # None

Inv ==
    /\ TypeOK /\ Locals /\ CustomerMade /\ CustomersKnown /\ HomeInv /\ RowsOfCustomers /\ MessageInHand
    /\ HooksMeant /\ PaymentNotForgotten

-----------------------------------------------------------------------------
(* The actions, by what they leave alone.                                  *)

\* What writes a table of ours.
WritesTable(t) ==
    \/ KeepCustomer(t) \/ Desire(t) \/ MakeRow(t) \/ MakeAwsRow(t) \/ Drop(t) \/ Assign(t) \/ AssignAws(t)
    \/ GiveSubscription(t) \/ ChooseMethod(t) \/ Detach(t) \/ Billing(t) \/ LookupAws(t) \/ HoldPayment(t)
    \/ LiftHold(t)

\* What changes something at Stripe.
WritesStripe(t) == NewCustomer(t) \/ SendToStripe(t) \/ Refund(t) \/ Subscribe(t)

\* What only begins, ends or goes on with a task.
OnlyTask(t) ==
    \/ \E h \in hooks : Receive(t, h) \/ Completed(t, h) \/ Deleted(t, h)
    \/ \E e \in events : TakeCancelled(t, e) \/ TakeCreated(t, e)
    \/ Existing(t) \/ Created(t) \/ TellCancelled(t) \/ EventDone(t) \/ Cut(t) \/ OutOfBounds(t)
    \/ \E w \in Workspaces, x \in Paid \cup {None} : AskStripe(t, w, x)
    \/ \E u \in Users, w \in Workspaces \cup {None} : Subscribed(t, u, w)
    \/ \E u \in Users, w \in Workspaces, s \in Rows : AskAssign(t, u, w, s)
    \/ \E u \in Users, w \in Workspaces, x \in Tiers \cup {None}, s \in Rows \cup {None} : AskBilling(t, u, w, x, s)

ByOthers ==
    \/ \E c \in Customers : Pay(c)
    \/ \E a \in AtStripe : CancelAtStripe(a)
    \/ \E w \in Workspaces, x \in Paid : Prefer(w, x)
    \/ \E u \in Users : CancelAtAws(u)

LEMMA NextSplit == Next <=> ByOthers \/ \E t \in Tasks : WritesTable(t) \/ WritesStripe(t) \/ OnlyTask(t)
BY Zenon DEF Next, ByOthers, WritesTable, WritesStripe, OnlyTask, Webhook, DomainEvent, Request

LEMMA OnlyTaskFrame ==
    ASSUME NEW t \in Tasks, OnlyTask(t) PROVE UNCHANGED <<table, space, stripeRows, preferred, stripe>>
BY DEF OnlyTask, Receive, Completed, Deleted, TakeCancelled, TakeCreated, Existing, Created, TellCancelled, EventDone,
       Cut, OutOfBounds, AskStripe, Subscribed, AskAssign, AskBilling

LEMMA WritesStripeFrame ==
    ASSUME NEW t \in Tasks, WritesStripe(t) PROVE UNCHANGED <<table, space, stripeRows, preferred>>
BY DEF WritesStripe, NewCustomer, SendToStripe, Refund, Subscribe

LEMMA WritesTableFrame ==
    ASSUME NEW t \in Tasks, WritesTable(t) PROVE UNCHANGED stripe
BY DEF WritesTable, KeepCustomer, Desire, MakeRow, MakeAwsRow, Drop, Assign, AssignAws, GiveSubscription, ChooseMethod,
       Detach, Billing, LookupAws, HoldPayment, LiftHold

-----------------------------------------------------------------------------
(* Types.                                                                  *)

LEMMA InitInv == Init => Inv
<1>. SUFFICES ASSUME Init PROVE Inv OBVIOUS
<1>1. TypeOK
  <2>1. TablesTyped
    <3>1. (CHOOSE x \in Tiers : x \notin Paid) \in Tiers OBVIOUS
    <3>. QED BY <3>1 DEF Init, TablesTyped, Rows
  <2>2. StripeTyped BY DEF Init, StripeTyped
  <2>3. Blank \in Arg BY DEF Blank, Arg
  <2>4. TasksTyped BY <2>3 DEF Init, TasksTyped, Steps
  <2>. QED BY <2>1, <2>2, <2>4 DEF TypeOK
<1>2. Locals BY DEF Init, Locals, LocalsAt
<1>3. CustomerMade /\ CustomersKnown BY DEF Init, CustomerMade, CustomersKnown, PaymentFindsWorkspace
<1>4. HomeInv BY DEF Init, HomeInv
<1>5. RowsOfCustomers /\ HooksMeant BY DEF Init, RowsOfCustomers, HooksMeant, Rows
<1>6. MessageInHand BY DEF Init, MessageInHand, HandAt
<1>7. PaymentNotForgotten BY DEF Init, PaymentNotForgotten
<1>. QED BY <1>1, <1>2, <1>3, <1>4, <1>5, <1>6, <1>7 DEF Inv

LEMMA AddRowTyped ==
    ASSUME TablesTyped, NEW r \in Row, AddRow(r)
    PROVE  rows' \in [Subs -> Row \cup {None}] /\ made' \in 0..MaxRows /\ \A s \in Rows' : s <= made'
<1>1. made \in 0..MaxRows /\ made' = made + 1 /\ made < MaxRows BY DEF AddRow, TablesTyped
<1>2. rows' = [rows EXCEPT ![made'] = r] BY DEF AddRow
<1>3. rows' \in [Subs -> Row \cup {None}] BY <1>2 DEF TablesTyped
<1>4. ASSUME NEW s \in Subs, rows'[s] # None PROVE s <= made'
  <2>1. CASE s = made' BY <1>1, <2>1
  <2>2. CASE s # made'
    <3>1. s \in Rows BY <1>2, <1>4, <2>2 DEF TablesTyped, Rows
    <3>. QED BY <1>1, <3>1 DEF TablesTyped, Subs
  <2>. QED BY <2>1, <2>2
<1>. QED BY <1>1, <1>3, <1>4 DEF Rows

LEMMA TablesStep == ASSUME TypeOK, Locals, CustomerMade, Next PROVE TablesTyped'
<1>. USE DEF TypeOK, TablesTyped, Rows
<1>1. ASSUME NEW t \in Tasks, WritesTable(t) PROVE TablesTyped'
  <2>. USE DEF Locals, LocalsAt, TasksTyped, Arg, SameBounds, Quiet, table, space, stripeRows
  <2>1. CASE KeepCustomer(t) BY <2>1 DEF KeepCustomer, StripeTyped, Customers
  <2>2. CASE Desire(t)
    <3>1. customer[arg[t].ws] # None BY <2>2 DEF Desire, CustomerMade, StripeTyped
    <3>. QED BY <2>2, <3>1 DEF Desire
  <2>3. CASE MakeRow(t)
    <3>1. StripeRow(arg[t].ws, arg[t].id) \in Row BY <2>3 DEF MakeRow, StripeRow, Row
    <3>. QED BY <2>3, <3>1, AddRowTyped DEF MakeRow
  <2>4. CASE MakeAwsRow(t)
    <3>1. AwsRowOf(arg[t].user) \in Row BY <2>4 DEF MakeAwsRow, AwsRowOf, Row
    <3>. QED BY <2>4, <3>1, AddRowTyped DEF MakeAwsRow
  <2>5. CASE Drop(t) BY <2>5 DEF Drop
  <2>6. CASE Assign(t) BY <2>6 DEF Assign
  <2>7. CASE AssignAws(t) BY <2>7 DEF AssignAws
  <2>8. CASE GiveSubscription(t) BY <2>8 DEF GiveSubscription, Switch
  <2>9. CASE ChooseMethod(t) BY <2>9 DEF ChooseMethod, Switch
  <2>10. CASE Detach(t) BY <2>10 DEF Detach, TakeSubscription
  <2>11. CASE Billing(t) BY <2>11 DEF Billing, UpdateTier
  <2>12. CASE LookupAws(t) BY <2>12 DEF LookupAws
  <2>13. CASE HoldPayment(t) BY <2>13 DEF HoldPayment, SetHold
  <2>14. CASE LiftHold(t) BY <2>14 DEF LiftHold, SetHold
  <2>. QED BY <1>1, <2>1, <2>2, <2>3, <2>4, <2>5, <2>6, <2>7, <2>8, <2>9, <2>10, <2>11, <2>12, <2>13, <2>14, Zenon
           DEF WritesTable
<1>2. ASSUME NEW t \in Tasks, WritesStripe(t) \/ OnlyTask(t) PROVE TablesTyped'
  BY <1>2, WritesStripeFrame, OnlyTaskFrame DEF table, space, stripeRows
<1>3. CASE ByOthers
  BY <1>3 DEF ByOthers, Pay, CancelAtStripe, Prefer, KeepPreference, CancelAtAws, table, space, stripeRows
<1>. QED BY <1>1, <1>2, <1>3, NextSplit

LEMMA StripeStep == ASSUME TypeOK, Locals, Next PROVE StripeTyped'
<1>. USE DEF TypeOK, StripeTyped
<1>1. ASSUME NEW t \in Tasks, WritesStripe(t) PROVE StripeTyped'
  <2>. USE DEF Locals, LocalsAt
  <2>1. CASE NewCustomer(t) BY <2>1 DEF NewCustomer
  <2>2. CASE SendToStripe(t) BY <2>2 DEF SendToStripe
  <2>3. CASE Refund(t) BY <2>3 DEF Refund
  <2>4. CASE Subscribe(t) BY <2>4 DEF Subscribe, Customers
  <2>. QED BY <1>1, <2>1, <2>2, <2>3, <2>4 DEF WritesStripe
<1>2. ASSUME NEW t \in Tasks, WritesTable(t) \/ OnlyTask(t) PROVE StripeTyped'
  BY <1>2, WritesTableFrame, OnlyTaskFrame DEF stripe
<1>3. CASE ByOthers
  <2>1. CASE \E c \in Customers : Pay(c) BY <2>1 DEF Pay
  <2>2. CASE \E a \in AtStripe : CancelAtStripe(a) BY <2>2 DEF CancelAtStripe
  <2>3. CASE \E w \in Workspaces, x \in Paid : Prefer(w, x) BY <2>3 DEF Prefer, stripe
  <2>4. CASE \E u \in Users : CancelAtAws(u) BY <2>4 DEF CancelAtAws, stripe
  <2>. QED BY <1>3, <2>1, <2>2, <2>3, <2>4 DEF ByOthers
<1>. QED BY <1>1, <1>2, <1>3, NextSplit

LEMMA BlankTyped == Blank \in Arg
BY DEF Blank, Arg

LEMMA TiersTyped ==
    ASSUME NEW a \in Arg, NEW x \in Tiers \cup {None}, NEW y \in Tiers \cup {None}
    PROVE  [a EXCEPT !.tier = x, !.seen = y] \in Arg
BY DEF Arg

LEMMA TaskStep == ASSUME TypeOK, Locals, CustomerMade, NEW t \in Tasks, WritesTable(t) PROVE TasksTyped' /\ Locals'
<1>. USE DEF TypeOK, TasksTyped, Locals, LocalsAt, Arg, Steps, Quiet, SameBounds, Goto, End, stripe
<1>1. CASE KeepCustomer(t)
  <2>1. arg' \in [Tasks -> Arg] BY <1>1, BlankTyped DEF KeepCustomer
  <2>2. pc' \in [Tasks -> Steps] /\ \A k \in Tasks : pc'[k] = "idle" => arg'[k] = Blank BY <1>1 DEF KeepCustomer
  <2>3. TasksTyped' BY <1>1, <2>1, <2>2 DEF KeepCustomer
  <2>4. Locals' BY <1>1 DEF KeepCustomer
  <2>. QED BY <2>3, <2>4
<1>2. CASE Desire(t) BY <1>2 DEF Desire
<1>3. CASE MakeRow(t)
  <2>a. made' \in Subs BY <1>3 DEF MakeRow, AddRow, TablesTyped, Subs
  <2>1. arg' \in [Tasks -> Arg] BY <1>3, <2>a DEF MakeRow
  <2>2. pc' \in [Tasks -> Steps] /\ \A k \in Tasks : pc'[k] = "idle" => arg'[k] = Blank BY <1>3 DEF MakeRow
  <2>3. TasksTyped' BY <1>3, <2>1, <2>2 DEF MakeRow
  <2>4. Locals' BY <1>3 DEF MakeRow, AddRow, TablesTyped, Subs
  <2>. QED BY <2>3, <2>4
<1>4. CASE MakeAwsRow(t)
  <2>a. made' \in Subs BY <1>4 DEF MakeAwsRow, AddRow, TablesTyped, Subs
  <2>1. arg' \in [Tasks -> Arg] BY <1>4, <2>a DEF MakeAwsRow
  <2>2. pc' \in [Tasks -> Steps] /\ \A k \in Tasks : pc'[k] = "idle" => arg'[k] = Blank BY <1>4 DEF MakeAwsRow
  <2>3. TasksTyped' BY <1>4, <2>1, <2>2 DEF MakeAwsRow
  <2>4. Locals' BY <1>4 DEF MakeAwsRow, AddRow, TablesTyped, Subs
  <2>. QED BY <2>3, <2>4
<1>5. CASE Drop(t) BY <1>5 DEF Drop
<1>6. CASE Assign(t)
  <2>a. DesiredTier(arg[t].ws) \in Tiers \cup {None} /\ tier[arg[t].ws] \in Tiers \cup {None}
    BY <1>6 DEF Assign, DesiredTier, TablesTyped
  <2>. DEFINE r == [arg[t] EXCEPT !.tier = DesiredTier(arg[t].ws), !.seen = tier[arg[t].ws]]
  <2>b. arg[t] \in Arg OBVIOUS
  <2>d. r \in Arg BY <2>a, <2>b, TiersTyped, Zenon
  <2>c. arg' = [arg EXCEPT ![t] = r] BY <1>6 DEF Assign
  <2>1. arg' \in [Tasks -> Arg] BY <2>c, <2>d
  <2>2. pc' \in [Tasks -> Steps] /\ \A k \in Tasks : pc'[k] = "idle" => arg'[k] = Blank BY <1>6 DEF Assign
  <2>3. TasksTyped' BY <1>6, <2>1, <2>2 DEF Assign
  <2>4. Locals' BY <1>6 DEF Assign
  <2>. QED BY <2>3, <2>4
<1>7. CASE AssignAws(t)
  <2>1. arg' \in [Tasks -> Arg] BY <1>7, BlankTyped DEF AssignAws, PreferredTier, TablesTyped
  <2>2. pc' \in [Tasks -> Steps] /\ \A k \in Tasks : pc'[k] = "idle" => arg'[k] = Blank BY <1>7 DEF AssignAws
  <2>3. TasksTyped' BY <1>7, <2>1, <2>2 DEF AssignAws
  <2>4. Locals' BY <1>7 DEF AssignAws
  <2>. QED BY <2>3, <2>4
<1>8. CASE GiveSubscription(t)
  <2>1. arg' \in [Tasks -> Arg] BY <1>8, BlankTyped DEF GiveSubscription
  <2>2. pc' \in [Tasks -> Steps] /\ \A k \in Tasks : pc'[k] = "idle" => arg'[k] = Blank BY <1>8 DEF GiveSubscription
  <2>3. TasksTyped' BY <1>8, <2>1, <2>2 DEF GiveSubscription
  <2>4. Locals' BY <1>8 DEF GiveSubscription
  <2>. QED BY <2>3, <2>4
<1>9. CASE ChooseMethod(t)
  <2>1. arg' \in [Tasks -> Arg] BY <1>9, BlankTyped DEF ChooseMethod
  <2>2. pc' \in [Tasks -> Steps] /\ \A k \in Tasks : pc'[k] = "idle" => arg'[k] = Blank BY <1>9 DEF ChooseMethod
  <2>3. TasksTyped' BY <1>9, <2>1, <2>2 DEF ChooseMethod
  <2>4. Locals' BY <1>9 DEF ChooseMethod
  <2>. QED BY <2>3, <2>4
<1>10. CASE Detach(t) BY <1>10 DEF Detach
<1>11. CASE Billing(t)
  <2>1. arg' \in [Tasks -> Arg] BY <1>11, BlankTyped DEF Billing
  <2>2. pc' \in [Tasks -> Steps] /\ \A k \in Tasks : pc'[k] = "idle" => arg'[k] = Blank BY <1>11 DEF Billing
  <2>3. TasksTyped' BY <1>11, <2>1, <2>2 DEF Billing
  <2>4. Locals' BY <1>11 DEF Billing
  <2>. QED BY <2>3, <2>4
<1>12. CASE LookupAws(t)
  <2>1. arg' \in [Tasks -> Arg] BY <1>12, BlankTyped DEF LookupAws
  <2>2. pc' \in [Tasks -> Steps] /\ \A k \in Tasks : pc'[k] = "idle" => arg'[k] = Blank BY <1>12 DEF LookupAws
  <2>3. TasksTyped' BY <1>12, <2>1, <2>2 DEF LookupAws
  <2>4. Locals' BY <1>12 DEF LookupAws
  <2>. QED BY <2>3, <2>4
<1>13. CASE HoldPayment(t) BY <1>13 DEF HoldPayment
<1>14. CASE LiftHold(t) BY <1>14 DEF LiftHold
<1>. QED BY <1>1, <1>2, <1>3, <1>4, <1>5, <1>6, <1>7, <1>8, <1>9, <1>10, <1>11, <1>12, <1>13, <1>14, Zenon
         DEF WritesTable

\* The programs of the tasks, of which Locals is the part that a step needs.
Programs ==
    /\ pc \in [Tasks -> Steps] /\ arg \in [Tasks -> Arg] /\ Locals
    /\ \A t \in Tasks : pc[t] = "idle" => arg[t] = Blank

\* A task goes on to a step with locals that are fit for it.
LEMMA TaskMoves ==
    ASSUME TypeOK, Locals, NEW t \in Tasks, NEW step \in Steps, NEW r \in Arg, step = "idle" => r = Blank,
           LocalsAt(step, r), pc' = [pc EXCEPT ![t] = step], arg' = [arg EXCEPT ![t] = r],
           UNCHANGED <<customers, payer>>
    PROVE  Programs'
<1>. USE DEF TypeOK, TasksTyped
<1>1. pc' \in [Tasks -> Steps] /\ arg' \in [Tasks -> Arg] /\ \A k \in Tasks : pc'[k] = "idle" => arg'[k] = Blank
  OBVIOUS
<1>2. Locals'
  <2>1. pc'[t] = step /\ arg'[t] = r /\ \A k \in Tasks \ {t} : pc'[k] = pc[k] /\ arg'[k] = arg[k] OBVIOUS
  <2>. SUFFICES ASSUME NEW k \in Tasks PROVE LocalsAt(pc[k], arg[k])' BY DEF Locals
  <2>2. CASE k = t BY <2>1, <2>2 DEF LocalsAt
  <2>3. CASE k # t BY <2>1, <2>3 DEF Locals, LocalsAt
  <2>. QED BY <2>2, <2>3
<1>. QED BY <1>1, <1>2 DEF Programs

LEMMA TaskEnds ==
    ASSUME TypeOK, Locals, NEW t \in Tasks, End(t), UNCHANGED <<customers, payer>> PROVE Programs'
<1>1. Blank \in Arg BY BlankTyped
<1>2. LocalsAt("idle", Blank) BY DEF LocalsAt
<1>3. "idle" \in Steps BY DEF Steps
<1>. QED BY <1>1, <1>2, <1>3, TaskMoves DEF End, Goto

LEMMA TaskBegins ==
    ASSUME TypeOK, Locals, NEW t \in Tasks, NEW step \in Steps \ {"idle"}, NEW r \in Arg, LocalsAt(step, r),
           Begin(t, step, r), UNCHANGED <<customers, payer>>
    PROVE  Programs'
BY TaskMoves DEF Begin, Goto

\* The locals a task begins with.
LEMMA RecordsTyped ==
    /\ \A m \in Hook, n \in Nat : [Blank EXCEPT !.msg = m, !.id = n] \in Arg
    /\ \A m \in Hook, w \in Workspaces, n \in Nat : [Blank EXCEPT !.msg = m, !.ws = w, !.id = n] \in Arg
    /\ \A m \in Hook, s \in Subs : [Blank EXCEPT !.msg = m, !.sub = s] \in Arg
    /\ \A m \in Event, S \in SUBSET Workspaces : [Blank EXCEPT !.msg = m, !.left = S] \in Arg
    /\ \A w \in Workspaces, x \in Tiers \cup {None}, n \in Nat : [Blank EXCEPT !.ws = w, !.tier = x, !.id = n] \in Arg
    /\ \A u \in Users, w \in Workspaces \cup {None}, y \in Tiers \cup {None}, n \in Nat :
            [Blank EXCEPT !.user = u, !.ws = w, !.seen = y, !.id = n] \in Arg
    /\ \A w \in Workspaces, s \in Subs : [Blank EXCEPT !.ws = w, !.sub = s] \in Arg
    /\ \A u \in Users, w \in Workspaces, x \in Tiers \cup {None}, y \in Tiers \cup {None}, n \in Nat :
            [Blank EXCEPT !.user = u, !.ws = w, !.tier = x, !.seen = y, !.id = n] \in Arg
BY DEF Blank, Arg

LEMMA TaskAtStripeStep ==
    ASSUME TypeOK, Locals, NEW t \in Tasks, WritesStripe(t) PROVE TasksTyped' /\ Locals'
<1>. USE DEF TypeOK, TasksTyped, Quiet, SameBounds, Goto
<1>1. CASE NewCustomer(t)
  <2>1. arg' \in [Tasks -> Arg] BY <1>1 DEF NewCustomer, StripeTyped, Arg
  <2>2. pc' \in [Tasks -> Steps] /\ \A k \in Tasks : pc'[k] = "idle" => arg'[k] = Blank
    BY <1>1 DEF NewCustomer, Steps
  <2>3. TasksTyped' BY <1>1, <2>1, <2>2 DEF NewCustomer
  <2>4. Locals' BY <1>1 DEF NewCustomer, StripeTyped, Locals, LocalsAt, Arg
  <2>. QED BY <2>3, <2>4
<1>2. CASE SendToStripe(t)
  <2>1. Programs' BY <1>2, TaskEnds DEF SendToStripe
  <2>. QED BY <1>2, <2>1 DEF SendToStripe, Programs
<1>3. CASE Refund(t)
  <2>1. Programs' BY <1>3, TaskEnds DEF Refund, Answered
  <2>. QED BY <1>3, <2>1 DEF Refund, Programs, Answered
<1>4. CASE Subscribe(t)
  <2>1. PICK a \in AtStripe : arg' = [arg EXCEPT ![t].id = a] BY <1>4 DEF Subscribe
  <2>. DEFINE r == [arg[t] EXCEPT !.id = a]
  <2>2. r \in Arg BY DEF Arg, AtStripe
  <2>3. LocalsAt("row", r) BY <1>4 DEF Subscribe, Locals, LocalsAt, Arg
  <2>4. arg' = [arg EXCEPT ![t] = r] BY <2>1
  <2>5. pc' = [pc EXCEPT ![t] = "row"] /\ "row" \in Steps BY <1>4 DEF Subscribe, Steps
  <2>. HIDE DEF r
  <2>6. Programs' BY <1>4, <2>2, <2>3, <2>4, <2>5, TaskMoves DEF Subscribe
  <2>. QED BY <1>4, <2>6 DEF Subscribe, Programs
<1>. QED BY <1>1, <1>2, <1>3, <1>4 DEF WritesStripe

\* What is delivered, and the bounds.
Delivered ==
    /\ hooks \subseteq Hook /\ events \subseteq Event
    /\ asks \in 0..MaxAsks /\ again \in 0..MaxAgain /\ crashes \in 0..MaxCrashes

LEMMA OnlyTaskDelivers == ASSUME TypeOK, Locals, NEW t \in Tasks, OnlyTask(t) PROVE Delivered'
<1>. USE DEF TypeOK, TasksTyped, Delivered, Quiet, SameBounds, Asked, Answered
<1>1. CASE \E h \in hooks : Receive(t, h) \/ Completed(t, h) \/ Deleted(t, h) BY <1>1 DEF Receive, Completed, Deleted
<1>2. CASE \E e \in events : TakeCancelled(t, e) \/ TakeCreated(t, e) BY <1>2 DEF TakeCancelled, TakeCreated
<1>3. CASE Existing(t) BY <1>3 DEF Existing
<1>4. CASE Created(t)
  <2>1. [kind |-> "created", sub |-> arg[t].sub] \in Event BY <1>4 DEF Created, Locals, LocalsAt, Event
  <2>2. events' \subseteq Event BY <1>4, <2>1 DEF Created
  <2>. QED BY <1>4, <2>2 DEF Created
<1>5. CASE TellCancelled(t)
  <2>1. [kind |-> "cancelled", sub |-> arg[t].sub] \in Event BY <1>5 DEF TellCancelled, Locals, LocalsAt, Event
  <2>2. events' \subseteq Event BY <1>5, <2>1 DEF TellCancelled
  <2>. QED BY <1>5, <2>2 DEF TellCancelled
<1>6. CASE EventDone(t) BY <1>6 DEF EventDone
<1>7. CASE Cut(t) \/ OutOfBounds(t) BY <1>7 DEF Cut, OutOfBounds
<1>8. CASE \E w \in Workspaces, x \in Paid \cup {None} : AskStripe(t, w, x) BY <1>8 DEF AskStripe
<1>9. CASE \E u \in Users, w \in Workspaces \cup {None} : Subscribed(t, u, w) BY <1>9 DEF Subscribed
<1>10. CASE \E u \in Users, w \in Workspaces, s \in Rows : AskAssign(t, u, w, s) BY <1>10 DEF AskAssign
<1>11. CASE \E u \in Users, w \in Workspaces, x \in Tiers \cup {None}, s \in Rows \cup {None} :
             AskBilling(t, u, w, x, s)
  BY <1>11 DEF AskBilling
<1>. QED BY <1>1, <1>2, <1>3, <1>4, <1>5, <1>6, <1>7, <1>8, <1>9, <1>10, <1>11, Zenon DEF OnlyTask

LEMMA OnlyTaskPrograms ==
    ASSUME TypeOK, Locals, CustomerMade, HooksMeant, NEW t \in Tasks, OnlyTask(t) PROVE Programs'
<1>. USE DEF TypeOK
<1>0. UNCHANGED <<customers, payer>> BY OnlyTaskFrame DEF stripe
<1>1. ASSUME NEW h \in hooks, Receive(t, h) PROVE Programs'
  <2>. DEFINE r == [Blank EXCEPT !.msg = h, !.id = h.id]
  <2>1. h \in Hook /\ h.id \in Payments /\ payer[h.id] # None BY <1>1 DEF Receive, HooksMeant, TasksTyped, Hook
  <2>a. h.id \in Nat BY <2>1 DEF Payments
  <2>2. r \in Arg BY <2>1, <2>a, RecordsTyped
  <2>3. LocalsAt("refund", r) BY <2>1 DEF LocalsAt, Blank
  <2>4. "refund" \in Steps \ {"idle"} BY DEF Steps
  <2>5. Begin(t, "refund", r) BY <1>1 DEF Receive
  <2>. HIDE DEF r
  <2>. QED BY <1>0, <2>2, <2>3, <2>4, <2>5, TaskBegins
<1>2. ASSUME NEW h \in hooks, Completed(t, h) PROVE Programs'
  <2>1. PICK w \in WorkspaceOf(payer[h.id]) :
            Begin(t, "existing", [Blank EXCEPT !.msg = h, !.ws = w, !.id = payer[h.id]])
    BY <1>2 DEF Completed
  <2>. DEFINE r == [Blank EXCEPT !.msg = h, !.ws = w, !.id = payer[h.id]]
  <2>2. h \in Hook /\ h.id \in Payments /\ payer[h.id] \in Customers
    BY <1>2 DEF Completed, HooksMeant, TasksTyped, Hook, StripeTyped
  <2>3. w \in Workspaces BY DEF WorkspaceOf
  <2>a. payer[h.id] \in Nat BY <2>2 DEF Customers
  <2>4. r \in Arg BY <2>2, <2>3, <2>a, RecordsTyped
  <2>5. LocalsAt("existing", r) BY <2>2, <2>3 DEF LocalsAt, Blank
  <2>6. "existing" \in Steps \ {"idle"} BY DEF Steps
  <2>7. Begin(t, "existing", r) BY <2>1
  <2>. HIDE DEF r
  <2>. QED BY <1>0, <2>4, <2>5, <2>6, <2>7, TaskBegins
<1>3. ASSUME NEW h \in hooks, Deleted(t, h) PROVE Programs'
  <2>1. CASE UNCHANGED task BY <1>0, <2>1 DEF task, Programs, TasksTyped, Locals, LocalsAt
  <2>2. CASE ~ UNCHANGED task
    <3>1. PICK s \in WithStripeId(h.id) : Begin(t, "drop", [Blank EXCEPT !.msg = h, !.sub = s])
      BY <1>3, <2>2 DEF Deleted
    <3>. DEFINE r == [Blank EXCEPT !.msg = h, !.sub = s]
    <3>2. h \in Hook /\ s \in Subs BY DEF TasksTyped, WithStripeId, Rows
    <3>3. r \in Arg BY <3>2, RecordsTyped
    <3>4. LocalsAt("drop", r) BY <3>2 DEF LocalsAt, Blank
    <3>5. "drop" \in Steps \ {"idle"} BY DEF Steps
    <3>6. Begin(t, "drop", r) BY <3>1
    <3>. HIDE DEF r
    <3>. QED BY <1>0, <3>3, <3>4, <3>5, <3>6, TaskBegins
  <2>. QED BY <2>1, <2>2
<1>4. ASSUME NEW e \in events, TakeCancelled(t, e) \/ TakeCreated(t, e) PROVE Programs'
  <2>. DEFINE r == [Blank EXCEPT !.msg = e, !.left = UsedBy(e.sub)]
  <2>1. e \in Event /\ UsedBy(e.sub) \in SUBSET Workspaces BY DEF TasksTyped, UsedBy
  <2>2. r \in Arg BY <2>1, RecordsTyped
  <2>3. \A step \in {"hold", "lift"} : LocalsAt(step, r) /\ step \in Steps \ {"idle"} BY DEF LocalsAt, Steps
  <2>4. Begin(t, "hold", r) \/ Begin(t, "lift", r) BY <1>4 DEF TakeCancelled, TakeCreated
  <2>. HIDE DEF r
  <2>5. CASE Begin(t, "hold", r) BY <1>0, <2>2, <2>3, <2>5, TaskBegins
  <2>6. CASE Begin(t, "lift", r) BY <1>0, <2>2, <2>3, <2>6, TaskBegins
  <2>. QED BY <2>4, <2>5, <2>6
<1>5. ASSUME Existing(t) PROVE Programs'
  <2>1. CASE Answered(t) BY <1>0, <2>1, TaskEnds DEF Answered
  <2>2. CASE ~ Answered(t)
    <3>1. pc[t] = "existing" /\ Goto(t, "subscribe") /\ UNCHANGED arg BY <1>5, <2>2 DEF Existing
    <3>. QED BY <1>0, <3>1 DEF Goto, Programs, Locals, LocalsAt, TasksTyped, Steps
  <2>. QED BY <2>1, <2>2
<1>6. ASSUME Created(t) \/ TellCancelled(t) \/ EventDone(t) \/ Cut(t) \/ OutOfBounds(t) PROVE Programs'
  BY <1>0, <1>6, TaskEnds DEF Created, TellCancelled, EventDone, Cut, OutOfBounds, Answered
<1>7. ASSUME NEW w \in Workspaces, NEW x \in Paid \cup {None}, AskStripe(t, w, x) PROVE Programs'
  <2>. DEFINE n == IF customer[w] = None THEN 0 ELSE customer[w]
              step == IF customer[w] = None THEN "newCustomer" ELSE "desire"
              r == [Blank EXCEPT !.ws = w, !.tier = x, !.id = n]
  <2>1. n \in Nat /\ (customer[w] # None => n \in 1..customers)
    BY DEF CustomerMade, TablesTyped, Customers
  <2>2. r \in Arg BY <2>1, RecordsTyped
  <2>3. LocalsAt(step, r) BY <2>1 DEF LocalsAt, Blank
  <2>4. step \in Steps \ {"idle"} BY DEF Steps
  <2>5. Begin(t, step, r) BY <1>7 DEF AskStripe
  <2>. HIDE DEF r, step
  <2>. QED BY <1>0, <2>2, <2>3, <2>4, <2>5, TaskBegins
<1>8. ASSUME NEW u \in Users, NEW w \in Workspaces \cup {None}, Subscribed(t, u, w) PROVE Programs'
  <2>. DEFINE y == IF w = None THEN None ELSE tier[w]
              n == IF w # None /\ sub[w] = None THEN 1 ELSE 0
              r == [Blank EXCEPT !.user = u, !.ws = w, !.seen = y, !.id = n]
  <2>1. y \in Tiers \cup {None} /\ n \in Nat /\ (n = 1 => w \in Workspaces) BY DEF TablesTyped
  <2>2. r \in Arg BY <2>1, RecordsTyped
  <2>3. LocalsAt("lookup", r) BY <2>1 DEF LocalsAt, Blank
  <2>4. "lookup" \in Steps \ {"idle"} BY DEF Steps
  <2>5. Begin(t, "lookup", r) BY <1>8 DEF Subscribed
  <2>. HIDE DEF r
  <2>. QED BY <1>0, <2>2, <2>3, <2>4, <2>5, TaskBegins
<1>9. ASSUME NEW u \in Users, NEW w \in Workspaces, NEW s \in Rows, AskAssign(t, u, w, s) PROVE Programs'
  <2>. DEFINE r == [Blank EXCEPT !.ws = w, !.sub = s]
  <2>1. s \in Subs BY DEF Rows
  <2>2. r \in Arg BY <2>1, RecordsTyped
  <2>3. LocalsAt("give", r) BY <2>1 DEF LocalsAt, Blank
  <2>4. "give" \in Steps \ {"idle"} BY DEF Steps
  <2>5. Begin(t, "give", r) BY <1>9 DEF AskAssign
  <2>. HIDE DEF r
  <2>. QED BY <1>0, <2>2, <2>3, <2>4, <2>5, TaskBegins
<1>10. ASSUME NEW u \in Users, NEW w \in Workspaces, NEW x \in Tiers \cup {None}, NEW s \in Rows \cup {None},
              AskBilling(t, u, w, x, s)
       PROVE  Programs'
  <2>. DEFINE n == IF s = None THEN 0 ELSE s
              step == IF s \in {None, CurrentMethod(w)} THEN "billing" ELSE "choose"
              r == [Blank EXCEPT !.user = u, !.ws = w, !.tier = x, !.seen = tier[w], !.id = n]
  <2>1. n \in Nat /\ (s # None => n \in Subs) /\ tier[w] \in Tiers \cup {None} BY DEF Rows, Subs, TablesTyped
  <2>2. r \in Arg BY <2>1, RecordsTyped
  <2>3. LocalsAt(step, r) BY <2>1 DEF LocalsAt, Blank
  <2>4. step \in Steps \ {"idle"} BY DEF Steps
  <2>5. Begin(t, step, r) BY <1>10 DEF AskBilling
  <2>. HIDE DEF r, step
  <2>. QED BY <1>0, <2>2, <2>3, <2>4, <2>5, TaskBegins
<1>. QED BY <1>1, <1>2, <1>3, <1>4, <1>5, <1>6, <1>7, <1>8, <1>9, <1>10, Zenon DEF OnlyTask

LEMMA ByOthersStep == ASSUME TypeOK, Locals, ByOthers PROVE TasksTyped' /\ Locals'
<1>. USE DEF TypeOK, TasksTyped, Locals, LocalsAt, SameBounds, Quiet, Asked, task
<1>1. CASE \E c \in Customers : Pay(c)
  <2>1. hooks' \subseteq Hook BY <1>1 DEF Pay, Hook
  <2>2. \A p \in Payments : payer[p] # None => payer'[p] # None BY <1>1 DEF Pay, StripeTyped
  <2>. QED BY <1>1, <2>1, <2>2 DEF Pay
<1>2. CASE \E a \in AtStripe : CancelAtStripe(a)
  <2>1. hooks' \subseteq Hook BY <1>2 DEF CancelAtStripe, Hook
  <2>. QED BY <1>2, <2>1 DEF CancelAtStripe
<1>3. CASE \E w \in Workspaces, x \in Paid : Prefer(w, x) BY <1>3 DEF Prefer, stripe
<1>4. CASE \E u \in Users : CancelAtAws(u)
  <2>1. events' \subseteq Event BY <1>4 DEF CancelAtAws, Event, AwsOf, Rows
  <2>. QED BY <1>4, <2>1 DEF CancelAtAws, stripe
<1>. QED BY <1>1, <1>2, <1>3, <1>4 DEF ByOthers

\* Every step keeps the types.
LEMMA TypeStep ==
    ASSUME TypeOK, Locals, CustomerMade, HooksMeant, Next PROVE TypeOK' /\ Locals'
<1>1. TablesTyped' BY TablesStep
<1>2. StripeTyped' BY StripeStep
<1>3. TasksTyped' /\ Locals'
  <2>1. CASE ByOthers BY <2>1, ByOthersStep
  <2>2. ASSUME NEW t \in Tasks, WritesTable(t) PROVE TasksTyped' /\ Locals' BY <2>2, TaskStep
  <2>3. ASSUME NEW t \in Tasks, WritesStripe(t) PROVE TasksTyped' /\ Locals' BY <2>3, TaskAtStripeStep
  <2>4. ASSUME NEW t \in Tasks, OnlyTask(t) PROVE TasksTyped' /\ Locals'
    BY <2>4, OnlyTaskPrograms, OnlyTaskDelivers DEF Programs, Delivered, TasksTyped
  <2>. QED BY <2>1, <2>2, <2>3, <2>4, NextSplit
<1>. QED BY <1>1, <1>2, <1>3 DEF TypeOK

-----------------------------------------------------------------------------
(* What stays as it is.                                                    *)

\* What is made at Stripe is not made again, and a workspace keeps its customer.
Kept ==
    /\ \A w \in Workspaces : customer[w] # None => customer'[w] = customer[w]
    /\ \A p \in Payments : payer[p] # None => payer'[p] = payer[p]
    /\ \A a \in AtStripe : buyer[a] # None => buyer'[a] = buyer[a]
    /\ customers <= customers' /\ refunded \subseteq refunded'

LEMMA KeptStep == ASSUME TypeOK, Locals, Next PROVE Kept
<1>. USE DEF TypeOK, TablesTyped, StripeTyped, Kept
<1>1. ASSUME NEW t \in Tasks, WritesTable(t) PROVE Kept
  <2>1. UNCHANGED stripe BY <1>1, WritesTableFrame
  <2>2. CASE KeepCustomer(t) BY <2>1, <2>2 DEF KeepCustomer, stripe, Locals, LocalsAt
  <2>3. CASE ~ KeepCustomer(t)
    <3>1. UNCHANGED customer
      BY <1>1, <2>3 DEF WritesTable, Desire, MakeRow, MakeAwsRow, Drop, Assign, AssignAws, GiveSubscription,
         ChooseMethod, Detach, Billing, LookupAws, HoldPayment, LiftHold, stripeRows
    <3>. QED BY <2>1, <3>1 DEF stripe
  <2>. QED BY <2>2, <2>3
<1>2. ASSUME NEW t \in Tasks, WritesStripe(t) PROVE Kept
  <2>1. UNCHANGED customer BY <1>2, WritesStripeFrame DEF stripeRows
  <2>. QED BY <1>2, <2>1 DEF WritesStripe, NewCustomer, SendToStripe, Refund, Subscribe
<1>3. ASSUME NEW t \in Tasks, OnlyTask(t) PROVE Kept BY <1>3, OnlyTaskFrame DEF stripe, stripeRows
<1>4. CASE ByOthers BY <1>4 DEF ByOthers, Pay, CancelAtStripe, Prefer, CancelAtAws, stripe, stripeRows
<1>. QED BY <1>1, <1>2, <1>3, <1>4, NextSplit

\* A step of a task leaves the others alone.
Acts(t) == WritesTable(t) \/ WritesStripe(t) \/ OnlyTask(t)

LEMMA OthersWait ==
    ASSUME TypeOK, NEW t \in Tasks, Acts(t), NEW k \in Tasks, k # t PROVE pc'[k] = pc[k] /\ arg'[k] = arg[k]
<1>. USE DEF TypeOK, TasksTyped, Goto, End, Begin, Answered
<1>1. CASE WritesTable(t)
  BY <1>1 DEF WritesTable, KeepCustomer, Desire, MakeRow, MakeAwsRow, Drop, Assign, AssignAws, GiveSubscription,
     ChooseMethod, Detach, Billing, LookupAws, HoldPayment, LiftHold
<1>2. CASE WritesStripe(t) BY <1>2 DEF WritesStripe, NewCustomer, SendToStripe, Refund, Subscribe
<1>3. CASE OnlyTask(t)
  BY <1>3 DEF OnlyTask, Receive, Completed, Deleted, TakeCancelled, TakeCreated, Existing, Created, TellCancelled,
     EventDone, Cut, OutOfBounds, AskStripe, Subscribed, AskAssign, AskBilling, task
<1>. QED BY <1>1, <1>2, <1>3 DEF Acts

LEMMA ByOthersWaits == ByOthers => UNCHANGED task
BY DEF ByOthers, Pay, CancelAtStripe, Prefer, CancelAtAws

\* How a task comes to some of the steps.
LEMMA Origins ==
    ASSUME TypeOK, NEW t \in Tasks, Acts(t)
    PROVE  /\ pc'[t] \in {"desire", "send"} =>
                \/ KeepCustomer(t) \/ Desire(t)
                \/ \E w \in Workspaces, x \in Paid \cup {None} : AskStripe(t, w, x)
           /\ pc'[t] \in {"assign", "awsAssign", "give", "choose"} =>
                \/ MakeRow(t) \/ MakeAwsRow(t)
                \/ \E u \in Users, w \in Workspaces, s \in Rows : AskAssign(t, u, w, s)
                \/ \E u \in Users, w \in Workspaces, x \in Tiers \cup {None}, s \in Rows \cup {None} :
                    AskBilling(t, u, w, x, s)
           /\ pc'[t] = "row" => Subscribe(t)
<1>. USE DEF TypeOK, TasksTyped, Goto, End, Begin, Answered
<1>1. CASE WritesTable(t)
  BY <1>1 DEF WritesTable, KeepCustomer, Desire, MakeRow, MakeAwsRow, Drop, Assign, AssignAws, GiveSubscription,
     ChooseMethod, Detach, Billing, LookupAws, HoldPayment, LiftHold
<1>2. CASE WritesStripe(t) BY <1>2 DEF WritesStripe, NewCustomer, SendToStripe, Refund, Subscribe
<1>3. CASE OnlyTask(t)
  <2>1. CASE \E h \in hooks : Receive(t, h) \/ Completed(t, h) BY <2>1 DEF Receive, Completed
  <2>2. CASE \E h \in hooks : Deleted(t, h) BY <2>2 DEF Deleted, task
  <2>3. CASE \E e \in events : TakeCancelled(t, e) \/ TakeCreated(t, e) BY <2>3 DEF TakeCancelled, TakeCreated
  <2>4. CASE Existing(t) BY <2>4 DEF Existing
  <2>5. CASE Created(t) \/ TellCancelled(t) \/ EventDone(t) \/ Cut(t) \/ OutOfBounds(t)
    BY <2>5 DEF Created, TellCancelled, EventDone, Cut, OutOfBounds
  <2>6. CASE \E w \in Workspaces, x \in Paid \cup {None} : AskStripe(t, w, x)
    <3>1. pc'[t] \in {"newCustomer", "desire"} BY <2>6 DEF AskStripe
    <3>. QED BY <2>6, <3>1
  <2>7. CASE \E u \in Users, w \in Workspaces \cup {None} : Subscribed(t, u, w) BY <2>7 DEF Subscribed
  <2>8. CASE \E u \in Users, w \in Workspaces, s \in Rows : AskAssign(t, u, w, s)
    <3>1. pc'[t] = "give" BY <2>8 DEF AskAssign
    <3>. QED BY <2>8, <3>1
  <2>9. CASE \E u \in Users, w \in Workspaces, x \in Tiers \cup {None}, s \in Rows \cup {None} :
              AskBilling(t, u, w, x, s)
    <3>1. pc'[t] \in {"billing", "choose"} BY <2>9 DEF AskBilling
    <3>. QED BY <2>9, <3>1
  <2>. QED BY <1>3, <2>1, <2>2, <2>3, <2>4, <2>5, <2>6, <2>7, <2>8, <2>9, Zenon DEF OnlyTask
<1>. QED BY <1>1, <1>2, <1>3 DEF Acts

-----------------------------------------------------------------------------
(* One lemma for each part of the invariant.                               *)

LEMMA CustomerMadeStep == ASSUME TypeOK, Locals, CustomerMade, Next PROVE CustomerMade'
<1>. USE DEF TypeOK, TablesTyped, StripeTyped, TasksTyped
<1>1. Kept BY KeptStep
<1>a. customers \in Nat /\ customers' \in Nat BY StripeStep
<1>2. ASSUME NEW w \in Workspaces, customer'[w] # None PROVE customer'[w] \in 1..customers'
  <2>1. CASE customer[w] # None BY <1>1, <1>a, <2>1 DEF Kept, CustomerMade
  <2>2. CASE customer[w] = None
    <3>1. PICK t \in Tasks : KeepCustomer(t)
      <4>1. ASSUME NEW t \in Tasks, OnlyTask(t) \/ WritesStripe(t) PROVE FALSE
        BY <1>2, <2>2, <4>1, OnlyTaskFrame, WritesStripeFrame DEF stripeRows
      <4>2. ASSUME ByOthers PROVE FALSE
        BY <1>2, <2>2, <4>2 DEF ByOthers, Pay, CancelAtStripe, Prefer, CancelAtAws, stripeRows
      <4>3. ASSUME NEW t \in Tasks, WritesTable(t), ~ KeepCustomer(t) PROVE FALSE
        BY <1>2, <2>2, <4>3 DEF WritesTable, Desire, MakeRow, MakeAwsRow, Drop, Assign, AssignAws, GiveSubscription,
           ChooseMethod, Detach, Billing, LookupAws, HoldPayment, LiftHold, stripeRows
      <4>. QED BY <4>1, <4>2, <4>3, NextSplit
    <3>. QED BY <1>2, <2>2, <3>1 DEF KeepCustomer, Locals, LocalsAt, stripe
  <2>. QED BY <2>1, <2>2
<1>3. ASSUME NEW k \in Tasks, pc[k] \in {"desire", "send"}, pc'[k] = pc[k], arg'[k] = arg[k]
      PROVE  customer'[arg'[k].ws] = arg'[k].id
  <2>1. arg[k].ws \in Workspaces /\ customer[arg[k].ws] = arg[k].id /\ arg[k].id \in 1..customers
    BY <1>3 DEF CustomerMade, Locals, LocalsAt
  <2>. QED BY <1>1, <1>3, <2>1 DEF Kept
<1>4. ASSUME NEW t \in Tasks, Acts(t), pc'[t] \in {"desire", "send"} PROVE customer'[arg'[t].ws] = arg'[t].id
  <2>1. CASE KeepCustomer(t) BY <1>4, <2>1 DEF KeepCustomer, Goto, End, Locals, LocalsAt
  <2>2. CASE Desire(t) BY <1>4, <2>2 DEF Desire, CustomerMade
  <2>3. ASSUME NEW w \in Workspaces, NEW x \in Paid \cup {None}, AskStripe(t, w, x)
        PROVE  customer'[arg'[t].ws] = arg'[t].id
    BY <1>4, <2>3 DEF AskStripe, Begin, Goto, Blank, stripeRows
  <2>. QED BY <1>4, <2>1, <2>2, <2>3, Origins
<1>5. ASSUME NEW k \in Tasks, pc'[k] \in {"desire", "send"} PROVE customer'[arg'[k].ws] = arg'[k].id
  <2>1. CASE ByOthers BY <1>3, <1>5, <2>1, ByOthersWaits DEF task
  <2>2. ASSUME NEW t \in Tasks, Acts(t) PROVE customer'[arg'[k].ws] = arg'[k].id
    BY <1>3, <1>4, <1>5, <2>2, OthersWait
  <2>. QED BY <2>1, <2>2, NextSplit DEF Acts
<1>. QED BY <1>2, <1>5 DEF CustomerMade

\* A row goes, but none becomes another.
LEMMA FitStays ==
    ASSUME TypeOK, Locals, Next, NEW s \in Subs, NEW w \in Workspaces, FitsTo(s, w) PROVE FitsTo(s, w)'
<1>. USE DEF TypeOK, TablesTyped
<1>1. CASE UNCHANGED table BY <1>1 DEF table, FitsTo
<1>2. ASSUME NEW t \in Tasks, MakeRow(t) \/ MakeAwsRow(t) PROVE FitsTo(s, w)'
  <2>1. s <= made /\ made' = made + 1 /\ made \in Nat BY <1>2 DEF FitsTo, MakeRow, MakeAwsRow, AddRow
  <2>2. rows'[s] = rows[s]
    BY <1>2, <2>1 DEF MakeRow, MakeAwsRow, AddRow, Subs
  <2>. QED BY <2>1, <2>2 DEF FitsTo, Subs
<1>3. ASSUME NEW t \in Tasks, Drop(t) PROVE FitsTo(s, w)'
  BY <1>3 DEF Drop, FitsTo
<1>4. ASSUME ~ UNCHANGED table PROVE \E t \in Tasks : MakeRow(t) \/ MakeAwsRow(t) \/ Drop(t)
  <2>1. ASSUME NEW t \in Tasks, OnlyTask(t) \/ WritesStripe(t) PROVE FALSE
    BY <1>4, <2>1, OnlyTaskFrame, WritesStripeFrame
  <2>2. ASSUME ByOthers PROVE FALSE BY <1>4, <2>2 DEF ByOthers, Pay, CancelAtStripe, Prefer, CancelAtAws
  <2>3. ASSUME NEW t \in Tasks, WritesTable(t), ~ MakeRow(t), ~ MakeAwsRow(t), ~ Drop(t) PROVE FALSE
    BY <1>4, <2>3 DEF WritesTable, KeepCustomer, Desire, Assign, AssignAws, GiveSubscription, ChooseMethod, Detach,
       Billing, LookupAws, HoldPayment, LiftHold
  <2>. QED BY <2>1, <2>2, <2>3, NextSplit
<1>. QED BY <1>1, <1>2, <1>3, <1>4

\* Who may write the subscription of a workspace, and what.
LEMMA SubWritten ==
    ASSUME TypeOK, Locals, Next, NEW w \in Workspaces
    PROVE  \/ sub'[w] \in {sub[w], None}
           \/ \E t \in Tasks : /\ pc[t] \in {"assign", "awsAssign", "give", "choose"}
                               /\ arg[t].ws = w /\ sub'[w] = Chosen(t)
<1>. USE DEF TypeOK, TablesTyped
<1>1. CASE UNCHANGED sub BY <1>1
<1>2. ASSUME NEW t \in Tasks, Assign(t) \/ AssignAws(t) \/ GiveSubscription(t) \/ ChooseMethod(t)
      PROVE  /\ pc[t] \in {"assign", "awsAssign", "give", "choose"}
             /\ sub' = [sub EXCEPT ![arg[t].ws] = Chosen(t)]
  BY <1>2 DEF Assign, AssignAws, GiveSubscription, ChooseMethod, Switch, Chosen
<1>3. ASSUME NEW t \in Tasks, Detach(t) PROVE sub'[w] \in {sub[w], None} BY <1>3 DEF Detach, TakeSubscription
<1>4. ASSUME ~ UNCHANGED sub
      PROVE  \E t \in Tasks : Assign(t) \/ AssignAws(t) \/ GiveSubscription(t) \/ ChooseMethod(t) \/ Detach(t)
  <2>1. ASSUME NEW t \in Tasks, OnlyTask(t) \/ WritesStripe(t) PROVE FALSE
    BY <1>4, <2>1, OnlyTaskFrame, WritesStripeFrame DEF space
  <2>2. ASSUME ByOthers PROVE FALSE BY <1>4, <2>2 DEF ByOthers, Pay, CancelAtStripe, Prefer, CancelAtAws, space
  <2>3. ASSUME NEW t \in Tasks, WritesTable(t),
               ~ Assign(t), ~ AssignAws(t), ~ GiveSubscription(t), ~ ChooseMethod(t), ~ Detach(t)
        PROVE  FALSE
    BY <1>4, <2>3 DEF WritesTable, KeepCustomer, Desire, MakeRow, MakeAwsRow, Drop, Billing, LookupAws, HoldPayment,
       LiftHold, space
  <2>. QED BY <2>1, <2>2, <2>3, NextSplit
<1>. QED BY <1>1, <1>2, <1>3, <1>4

LEMMA HomeStep == ASSUME TypeOK, Locals, HomeInv, Next PROVE HomeInv'
<1>. USE DEF TypeOK, TablesTyped, TasksTyped
<1>a. ASSUME NEW t \in Tasks, pc[t] \in {"assign", "awsAssign", "give", "choose"}
      PROVE  Chosen(t) \in Subs /\ arg[t].ws \in Workspaces /\ FitsTo(Chosen(t), arg[t].ws)
  BY <1>a DEF Locals, LocalsAt, Chosen, HomeInv
<1>1. ASSUME NEW w \in Workspaces, sub'[w] # None PROVE FitsTo(sub[w], w)'
  <2>1. CASE sub'[w] = sub[w]
    <3>1. FitsTo(sub[w], w) /\ sub[w] \in Subs BY <1>1, <2>1 DEF HomeInv
    <3>2. ASSUME NEW s \in Subs, s = sub[w] PROVE FitsTo(s, w)' BY <3>1, <3>2, FitStays
    <3>. QED BY <2>1, <3>1, <3>2 DEF FitsTo
  <2>2. ASSUME NEW t \in Tasks, pc[t] \in {"assign", "awsAssign", "give", "choose"}, arg[t].ws = w,
               sub'[w] = Chosen(t)
        PROVE  FitsTo(sub[w], w)'
    <3>1. PICK s \in Subs : s = Chosen(t) BY <1>a, <2>2
    <3>2. FitsTo(s, w) BY <1>a, <2>2, <3>1
    <3>3. FitsTo(s, w)' BY <3>2, FitStays
    <3>. QED BY <2>2, <3>1, <3>3 DEF FitsTo
  <2>. QED BY <1>1, <2>1, <2>2, SubWritten
<1>2. ASSUME NEW k \in Tasks, pc[k] \in {"assign", "awsAssign", "give", "choose"}, pc'[k] = pc[k], arg'[k] = arg[k]
      PROVE  FitsTo(Chosen(k), arg[k].ws)'
  <2>1. PICK s \in Subs : s = Chosen(k) BY <1>a, <1>2
  <2>2. PICK w \in Workspaces : w = arg[k].ws BY <1>a, <1>2
  <2>3. FitsTo(s, w)' BY <1>a, <1>2, <2>1, <2>2, FitStays
  <2>. QED BY <1>2, <2>1, <2>2, <2>3 DEF Chosen, FitsTo
<1>3. ASSUME NEW t \in Tasks, Acts(t), pc'[t] \in {"assign", "awsAssign", "give", "choose"}
      PROVE  FitsTo(Chosen(t), arg[t].ws)'
  <2>1. CASE MakeRow(t) \/ MakeAwsRow(t)
    <3>1. made' \in Subs BY <2>1 DEF MakeRow, MakeAwsRow, AddRow, Subs
    <3>2. arg'[t].sub = made' /\ arg'[t].ws = arg[t].ws BY <2>1 DEF MakeRow, MakeAwsRow, Arg
    <3>3. pc'[t] # "choose" BY <2>1 DEF MakeRow, MakeAwsRow, Goto
    <3>4. rows'[made'] = StripeRow(arg[t].ws, arg[t].id) \/ rows'[made'] = AwsRowOf(arg[t].user)
      BY <2>1, <3>1 DEF MakeRow, MakeAwsRow, AddRow
    <3>5. made' <= made' BY <3>1 DEF Subs
    <3>. QED BY <3>1, <3>2, <3>3, <3>4, <3>5 DEF FitsTo, Chosen, StripeRow, AwsRowOf
  <2>2. ASSUME NEW u \in Users, NEW w \in Workspaces, NEW s \in Rows, AskAssign(t, u, w, s)
        PROVE  FitsTo(Chosen(t), arg[t].ws)'
    <3>1. pc'[t] = "give" /\ arg'[t].ws = w /\ arg'[t].sub = s BY <2>2 DEF AskAssign, Begin, Goto, Blank
    <3>2. UNCHANGED table BY <2>2 DEF AskAssign
    <3>3. FitsTo(s, w) BY <2>2 DEF AskAssign, AwsOf, FitsTo
    <3>. QED BY <3>1, <3>2, <3>3 DEF FitsTo, Chosen, table
  <2>3. ASSUME NEW u \in Users, NEW w \in Workspaces, NEW x \in Tiers \cup {None}, NEW s \in Rows \cup {None},
               AskBilling(t, u, w, x, s)
        PROVE  FitsTo(Chosen(t), arg[t].ws)'
    <3>1. s # None BY <1>3, <2>3 DEF AskBilling, Begin, Goto
    <3>2. pc'[t] = "choose" /\ arg'[t].ws = w /\ arg'[t].id = s
      BY <1>3, <2>3, <3>1 DEF AskBilling, Begin, Goto, Blank
    <3>3. UNCHANGED table BY <2>3 DEF AskBilling
    <3>4. FitsTo(s, w) BY <2>3, <3>1 DEF AskBilling, Available, AwsOf, StripeOf, FitsTo
    <3>. QED BY <3>2, <3>3, <3>4 DEF FitsTo, Chosen, table
  <2>. QED BY <1>3, <2>1, <2>2, <2>3, Origins
<1>4. ASSUME NEW k \in Tasks, pc'[k] \in {"assign", "awsAssign", "give", "choose"} PROVE FitsTo(Chosen(k), arg[k].ws)'
  <2>1. CASE ByOthers BY <1>2, <1>4, <2>1, ByOthersWaits DEF task
  <2>2. ASSUME NEW t \in Tasks, Acts(t) PROVE FitsTo(Chosen(k), arg[k].ws)'
    <3>1. CASE k = t BY <1>3, <1>4, <2>2, <3>1
    <3>2. CASE k # t BY <1>2, <1>4, <2>2, <3>2, OthersWait
    <3>. QED BY <3>1, <3>2
  <2>. QED BY <2>1, <2>2, NextSplit DEF Acts
<1>. QED BY <1>1, <1>4 DEF HomeInv

LEMMA KnownStep ==
    ASSUME TypeOK, Locals, CustomerMade, CustomersKnown, Next PROVE CustomersKnown'
<1>. USE DEF TypeOK, TablesTyped, StripeTyped, TasksTyped
<1>1. Kept BY KeptStep
<1>2. ASSUME NEW c \in Customers, WorkspaceOf(c) # {} PROVE WorkspaceOf(c)' # {}
  BY <1>1, <1>2 DEF Kept, WorkspaceOf, Customers
<1>3. ASSUME NEW c \in checkouts' PROVE c \in Customers /\ WorkspaceOf(c) # {}
  <2>1. CASE c \in checkouts BY <2>1 DEF CustomersKnown, Customers
  <2>2. CASE c \notin checkouts
    <3>1. PICK t \in Tasks : SendToStripe(t)
      <4>1. ASSUME NEW t \in Tasks, WritesTable(t) \/ OnlyTask(t) PROVE FALSE
        BY <1>3, <2>2, <4>1, WritesTableFrame, OnlyTaskFrame DEF stripe
      <4>2. ASSUME ByOthers PROVE FALSE
        BY <1>3, <2>2, <4>2 DEF ByOthers, Pay, CancelAtStripe, Prefer, CancelAtAws, stripe
      <4>3. ASSUME NEW t \in Tasks, WritesStripe(t), ~ SendToStripe(t) PROVE FALSE
        BY <1>3, <2>2, <4>3 DEF WritesStripe, NewCustomer, Refund, Subscribe
      <4>. QED BY <4>1, <4>2, <4>3, NextSplit
    <3>2. c = arg[t].id /\ pc[t] = "send" BY <1>3, <2>2, <3>1 DEF SendToStripe
    <3>3. arg[t].ws \in Workspaces /\ customer[arg[t].ws] = c /\ c \in 1..customers
      BY <3>2 DEF Locals, LocalsAt, CustomerMade
    <3>. QED BY <3>3 DEF WorkspaceOf, Customers
  <2>. QED BY <2>1, <2>2
<1>4. ASSUME NEW p \in Payments, payer'[p] # None PROVE payer'[p] \in Customers /\ WorkspaceOf(payer'[p]) # {}
  <2>1. CASE payer[p] # None BY <1>1, <2>1 DEF Kept, CustomersKnown, PaymentFindsWorkspace
  <2>2. CASE payer[p] = None
    <3>1. PICK c \in Customers : Pay(c)
      <4>1. ASSUME NEW t \in Tasks, WritesTable(t) \/ OnlyTask(t) PROVE FALSE
        BY <1>4, <2>2, <4>1, WritesTableFrame, OnlyTaskFrame DEF stripe
      <4>2. ASSUME NEW t \in Tasks, WritesStripe(t) PROVE FALSE
        BY <1>4, <2>2, <4>2 DEF WritesStripe, NewCustomer, SendToStripe, Refund, Subscribe
      <4>3. ASSUME ByOthers, ~ \E c \in Customers : Pay(c) PROVE FALSE
        BY <1>4, <2>2, <4>3 DEF ByOthers, CancelAtStripe, Prefer, CancelAtAws, stripe
      <4>. QED BY <4>1, <4>2, <4>3, NextSplit
    <3>. QED BY <1>4, <2>2, <3>1 DEF Pay, CustomersKnown
  <2>. QED BY <2>1, <2>2
<1>5. ASSUME NEW c \in checkouts' PROVE WorkspaceOf(c)' # {}
  BY <1>2, <1>3
<1>6. ASSUME NEW p \in Payments, payer'[p] # None PROVE WorkspaceOf(payer[p])' # {}
  <2>1. PICK c \in Customers : c = payer'[p] /\ WorkspaceOf(c) # {} BY <1>4, <1>6
  <2>2. WorkspaceOf(c)' # {} BY <1>2, <2>1
  <2>. QED BY <2>1, <2>2 DEF WorkspaceOf
<1>. QED BY <1>5, <1>6 DEF CustomersKnown, PaymentFindsWorkspace

LEMMA RowsStep ==
    ASSUME TypeOK, Locals, RowsOfCustomers, MessageInHand, Next PROVE RowsOfCustomers'
<1>. USE DEF TypeOK, TablesTyped, StripeTyped, TasksTyped
<1>1. Kept BY KeptStep
<1>2. ASSUME NEW s \in Subs, rows'[s] # None, rows'[s].kind = "stripe"
      PROVE  /\ rows'[s].at \in AtStripe /\ rows'[s].of \in Workspaces
             /\ buyer[rows'[s].at] = customer[rows'[s].of] /\ customer[rows'[s].of] # None
  <2>1. CASE rows'[s] = rows[s] BY <1>2, <2>1 DEF RowsOfCustomers, Rows, Row
  <2>2. CASE rows'[s] # rows[s]
    <3>1. PICK t \in Tasks : MakeRow(t)
      <4>1. ASSUME NEW t \in Tasks, WritesStripe(t) \/ OnlyTask(t) PROVE FALSE
        BY <2>2, <4>1, WritesStripeFrame, OnlyTaskFrame DEF table
      <4>2. ASSUME ByOthers PROVE FALSE
        BY <2>2, <4>2 DEF ByOthers, Pay, CancelAtStripe, Prefer, CancelAtAws, table
      <4>3. ASSUME NEW t \in Tasks, WritesTable(t), ~ MakeRow(t), ~ MakeAwsRow(t), ~ Drop(t) PROVE FALSE
        BY <2>2, <4>3 DEF WritesTable, KeepCustomer, Desire, Assign, AssignAws, GiveSubscription, ChooseMethod,
           Detach, Billing, LookupAws, HoldPayment, LiftHold, table
      <4>4. ASSUME NEW t \in Tasks, MakeAwsRow(t) PROVE FALSE
        BY <1>2, <2>2, <4>4 DEF MakeAwsRow, AddRow, AwsRowOf
      <4>5. ASSUME NEW t \in Tasks, Drop(t) PROVE FALSE BY <1>2, <2>2, <4>5 DEF Drop
      <4>. QED BY <4>1, <4>2, <4>3, <4>4, <4>5, NextSplit
    <3>2. rows'[s] = StripeRow(arg[t].ws, arg[t].id) BY <2>2, <3>1 DEF MakeRow, AddRow
    <3>3. arg[t].ws \in Workspaces /\ arg[t].id \in AtStripe BY <3>1 DEF MakeRow, Locals, LocalsAt
    <3>. QED BY <3>1, <3>2, <3>3 DEF MakeRow, RowsOfCustomers, StripeRow
  <2>. QED BY <2>1, <2>2
<1>3. ASSUME NEW s \in Subs, rows'[s] # None, rows'[s].kind = "stripe"
      PROVE  buyer'[rows'[s].at] = customer'[rows'[s].of] /\ customer'[rows'[s].of] # None
  BY <1>1, <1>2, <1>3 DEF Kept
<1>4. ASSUME NEW k \in Tasks, pc[k] = "row", pc'[k] = pc[k], arg'[k] = arg[k]
      PROVE  buyer'[arg'[k].id] = customer'[arg'[k].ws] /\ customer'[arg'[k].ws] # None
  <2>1. arg[k].ws \in Workspaces /\ arg[k].id \in AtStripe BY <1>4 DEF Locals, LocalsAt
  <2>. QED BY <1>1, <1>4, <2>1 DEF Kept, RowsOfCustomers
<1>5. ASSUME NEW t \in Tasks, Subscribe(t)
      PROVE  buyer'[arg'[t].id] = customer'[arg'[t].ws] /\ customer'[arg'[t].ws] # None
  <2>1. PICK a \in AtStripe : buyer' = [buyer EXCEPT ![a] = arg[t].id] /\ arg' = [arg EXCEPT ![t].id = a]
    BY <1>5 DEF Subscribe
  <2>2. arg'[t].id = a /\ arg'[t].ws = arg[t].ws BY <2>1 DEF Arg
  <2>3. buyer'[a] = arg[t].id BY <2>1
  <2>4. customer[arg[t].ws] = arg[t].id /\ arg[t].ws \in Workspaces /\ customer[arg[t].ws] # None
    BY <1>5 DEF Subscribe, MessageInHand, HandAt
  <2>5. UNCHANGED customer BY <1>5 DEF Subscribe, stripeRows
  <2>. QED BY <2>2, <2>3, <2>4, <2>5
<1>6. ASSUME NEW k \in Tasks, pc'[k] = "row"
      PROVE  buyer'[arg'[k].id] = customer'[arg'[k].ws] /\ customer'[arg'[k].ws] # None
  <2>1. CASE ByOthers BY <1>4, <1>6, <2>1, ByOthersWaits DEF task
  <2>2. ASSUME NEW t \in Tasks, Acts(t)
        PROVE  buyer'[arg'[k].id] = customer'[arg'[k].ws] /\ customer'[arg'[k].ws] # None
    <3>1. CASE k = t BY <1>5, <1>6, <2>2, <3>1, Origins
    <3>2. CASE k # t BY <1>4, <1>6, <2>2, <3>2, OthersWait
    <3>. QED BY <3>1, <3>2
  <2>. QED BY <2>1, <2>2, NextSplit DEF Acts
<1>. QED BY <1>3, <1>6 DEF RowsOfCustomers, Rows

\* Only a payment brings new events of a payment.
LEMMA NewHooks ==
    ASSUME Next, NEW h \in hooks', h \notin hooks
    PROVE  \/ \E c \in Customers : Pay(c)
           \/ \E a \in AtStripe : h = [type |-> "deleted", id |-> a]
<1>1. ASSUME NEW t \in Tasks, WritesTable(t) PROVE FALSE
  BY <1>1 DEF WritesTable, KeepCustomer, Desire, MakeRow, MakeAwsRow, Drop, Assign, AssignAws, GiveSubscription,
     ChooseMethod, Detach, Billing, LookupAws, HoldPayment, LiftHold, Quiet
<1>2. ASSUME NEW t \in Tasks, WritesStripe(t) PROVE FALSE
  BY <1>2 DEF WritesStripe, NewCustomer, SendToStripe, Refund, Subscribe, Quiet, Answered
<1>3. ASSUME NEW t \in Tasks, OnlyTask(t) PROVE FALSE
  BY <1>3 DEF OnlyTask, Receive, Completed, Deleted, TakeCancelled, TakeCreated, Existing, Created, TellCancelled,
     EventDone, Cut, OutOfBounds, AskStripe, Subscribed, AskAssign, AskBilling, Quiet, Answered
<1>4. CASE ByOthers BY <1>4 DEF ByOthers, Pay, CancelAtStripe, Prefer, CancelAtAws, Quiet
<1>. QED BY <1>1, <1>2, <1>3, <1>4, NextSplit

LEMMA HooksStep == ASSUME TypeOK, Locals, HooksMeant, Next PROVE HooksMeant'
<1>. USE DEF TypeOK, StripeTyped, TasksTyped
<1>1. Kept BY KeptStep
<1>2. ASSUME NEW h \in hooks', h.type \in {"completed", "succeeded"} PROVE payer'[h.id] # None
  <2>1. CASE h \in hooks
    <3>1. h.id \in Payments BY <1>2, <2>1 DEF Hook
    <3>. QED BY <1>1, <1>2, <2>1, <3>1 DEF Kept, HooksMeant
  <2>2. CASE h \notin hooks
    <3>1. PICK c \in Customers : Pay(c) BY <1>2, <2>2, NewHooks
    <3>. QED BY <1>2, <2>2, <3>1 DEF Pay, Customers
  <2>. QED BY <2>1, <2>2
<1>. QED BY <1>2 DEF HooksMeant

LEMMA HandStays ==
    ASSUME TypeOK, Kept, NEW p \in Steps, NEW r \in Arg, HandAt(p, r) PROVE HandAt(p, r)'
BY DEF TypeOK, TablesTyped, StripeTyped, Kept, HandAt, Hook

\* The event in the hands of the task that acts, seen with the tables before the step.
LEMMA HandMoves ==
    ASSUME TypeOK, Locals, HooksMeant, MessageInHand, NEW t \in Tasks, Acts(t)
    PROVE  HandAt(pc'[t], arg'[t]) \/ Subscribe(t)
<1>. USE DEF TypeOK, TasksTyped, Goto
<1>i. ASSUME NEW r PROVE HandAt("idle", r) BY DEF HandAt
<1>h. HandAt(pc[t], arg[t]) BY DEF MessageInHand
<1>e. ASSUME End(t) PROVE HandAt(pc'[t], arg'[t])
  <2>1. pc'[t] = "idle" BY <1>e DEF End
  <2>. QED BY <1>i, <2>1
<1>1. CASE WritesTable(t)
  <2>1. CASE KeepCustomer(t)
    <3>1. CASE pc'[t] = "desire" /\ UNCHANGED arg BY <1>h, <2>1, <3>1 DEF KeepCustomer, HandAt
    <3>2. CASE End(t) BY <1>e, <3>2
    <3>. QED BY <2>1, <3>1, <3>2 DEF KeepCustomer
  <2>2. CASE Desire(t) BY <1>h, <2>2 DEF Desire, HandAt
  <2>3. CASE MakeRow(t)
    <3>1. /\ pc[t] = "row" /\ pc'[t] = "assign"
          /\ arg'[t].msg = arg[t].msg /\ arg'[t].ws = arg[t].ws /\ arg'[t].id = arg[t].id
      BY <2>3 DEF MakeRow, Arg
    <3>. QED BY <1>h, <3>1 DEF HandAt
  <2>4. CASE MakeAwsRow(t)
    <3>1. pc[t] = "awsRow" /\ pc'[t] \in {"awsAssign", "created"} /\ arg'[t].msg = arg[t].msg
      BY <2>4 DEF MakeAwsRow, Arg
    <3>. QED BY <1>h, <3>1 DEF HandAt
  <2>5. CASE Drop(t) BY <1>h, <2>5 DEF Drop, HandAt
  <2>6. CASE Assign(t)
    <3>1. /\ pc[t] = "assign" /\ pc'[t] \in {"created", "billing"}
          /\ arg'[t].msg = arg[t].msg /\ arg'[t].ws = arg[t].ws
      BY <2>6 DEF Assign, Arg
    <3>. QED BY <1>h, <3>1 DEF HandAt
  <2>7. CASE AssignAws(t)
    <3>1. pc[t] = "awsAssign" /\ pc'[t] \in {"created", "billing"} /\ arg'[t].msg = arg[t].msg
      BY <2>7 DEF AssignAws, Arg
    <3>. QED BY <1>h, <3>1 DEF HandAt
  <2>8. CASE GiveSubscription(t) BY <1>e, <2>8 DEF GiveSubscription
  <2>9. CASE ChooseMethod(t)
    <3>1. CASE End(t) BY <1>e, <3>1
    <3>2. CASE ~ End(t) BY <1>h, <2>9, <3>2 DEF ChooseMethod, HandAt
    <3>. QED BY <3>1, <3>2
  <2>10. CASE Detach(t) BY <1>h, <2>10 DEF Detach, HandAt
  <2>11. CASE Billing(t)
    <3>1. CASE End(t) BY <1>e, <3>1
    <3>2. CASE ~ End(t)
      <4>1. pc[t] = "billing" /\ pc'[t] = "created" /\ UNCHANGED arg BY <2>11, <3>2 DEF Billing
      <4>. QED BY <1>h, <4>1 DEF HandAt
    <3>. QED BY <3>1, <3>2
  <2>12. CASE LookupAws(t)
    <3>1. CASE End(t) BY <1>e, <3>1
    <3>2. CASE ~ End(t) BY <1>h, <2>12, <3>2 DEF LookupAws, HandAt
    <3>. QED BY <3>1, <3>2
  <2>13. CASE HoldPayment(t)
    <3>1. pc[t] = "hold" /\ pc'[t] = "detach" /\ arg'[t].msg = arg[t].msg BY <2>13 DEF HoldPayment, Arg
    <3>. QED BY <1>h, <3>1 DEF HandAt
  <2>14. CASE LiftHold(t)
    <3>1. pc[t] = "lift" /\ pc'[t] = "lift" /\ arg'[t].msg = arg[t].msg BY <2>14 DEF LiftHold, Arg
    <3>. QED BY <1>h, <3>1 DEF HandAt
  <2>. QED BY <1>1, <2>1, <2>2, <2>3, <2>4, <2>5, <2>6, <2>7, <2>8, <2>9, <2>10, <2>11, <2>12, <2>13, <2>14, Zenon
           DEF WritesTable
<1>2. CASE WritesStripe(t)
  <2>1. CASE NewCustomer(t)
    <3>1. pc[t] = "newCustomer" /\ pc'[t] = "keepCustomer" /\ arg'[t].msg = arg[t].msg BY <2>1 DEF NewCustomer, Arg
    <3>. QED BY <1>h, <3>1 DEF HandAt
  <2>2. CASE SendToStripe(t) BY <1>e, <2>2 DEF SendToStripe
  <2>3. CASE Refund(t) BY <1>e, <2>3 DEF Refund, Answered
  <2>. QED BY <1>2, <2>1, <2>2, <2>3 DEF WritesStripe
<1>3. CASE OnlyTask(t)
  <2>. USE DEF Begin
  <2>1. ASSUME NEW h \in hooks, Receive(t, h) PROVE HandAt(pc'[t], arg'[t])
    <3>1. pc'[t] = "refund" /\ arg'[t].msg = h /\ arg'[t].id = h.id BY <2>1 DEF Receive, Blank
    <3>. QED BY <2>1, <3>1 DEF Receive, HandAt
  <2>2. ASSUME NEW h \in hooks, Completed(t, h) PROVE HandAt(pc'[t], arg'[t])
    <3>1. PICK w \in WorkspaceOf(payer[h.id]) : arg'[t].msg = h /\ arg'[t].ws = w /\ arg'[t].id = payer[h.id]
      BY <2>2 DEF Completed, Blank
    <3>2. pc'[t] = "existing" /\ h.type = "completed" BY <2>2 DEF Completed
    <3>3. payer[h.id] # None /\ h \in Hook BY <3>2 DEF HooksMeant
    <3>. QED BY <3>1, <3>2, <3>3 DEF HandAt, WorkspaceOf
  <2>3. ASSUME NEW h \in hooks, Deleted(t, h) PROVE HandAt(pc'[t], arg'[t])
    <3>1. CASE UNCHANGED task BY <1>h, <3>1 DEF task
    <3>2. CASE ~ UNCHANGED task
      <4>1. pc'[t] = "drop" /\ arg'[t].msg = h /\ h.type = "deleted" BY <2>3, <3>2 DEF Deleted, Blank
      <4>. QED BY <4>1 DEF HandAt
    <3>. QED BY <3>1, <3>2
  <2>4. ASSUME NEW e \in events, TakeCancelled(t, e) \/ TakeCreated(t, e) PROVE HandAt(pc'[t], arg'[t])
    <3>1. pc'[t] \in {"hold", "lift"} /\ arg'[t].msg = e BY <2>4 DEF TakeCancelled, TakeCreated, Blank
    <3>. QED BY <3>1 DEF HandAt
  <2>5. CASE Existing(t)
    <3>1. CASE End(t) BY <1>e, <3>1
    <3>2. CASE ~ End(t) BY <1>h, <2>5, <3>2 DEF Existing, Answered, HandAt
    <3>. QED BY <3>1, <3>2
  <2>6. CASE Created(t) \/ TellCancelled(t) \/ EventDone(t) \/ Cut(t) \/ OutOfBounds(t)
    BY <1>e, <2>6 DEF Created, TellCancelled, EventDone, Cut, OutOfBounds, Answered
  <2>7. ASSUME NEW w \in Workspaces, NEW x \in Paid \cup {None}, AskStripe(t, w, x) PROVE HandAt(pc'[t], arg'[t])
    <3>1. pc'[t] \in {"newCustomer", "desire"} /\ arg'[t].msg = None BY <2>7 DEF AskStripe, Blank
    <3>. QED BY <3>1 DEF HandAt
  <2>8. ASSUME NEW u \in Users, NEW w \in Workspaces \cup {None}, Subscribed(t, u, w) PROVE HandAt(pc'[t], arg'[t])
    <3>1. pc'[t] = "lookup" /\ arg'[t].msg = None BY <2>8 DEF Subscribed, Blank
    <3>. QED BY <3>1 DEF HandAt
  <2>9. ASSUME NEW u \in Users, NEW w \in Workspaces, NEW s \in Rows, AskAssign(t, u, w, s)
        PROVE  HandAt(pc'[t], arg'[t])
    <3>1. pc'[t] = "give" /\ arg'[t].msg = None BY <2>9 DEF AskAssign, Blank
    <3>. QED BY <3>1 DEF HandAt
  <2>10. ASSUME NEW u \in Users, NEW w \in Workspaces, NEW x \in Tiers \cup {None}, NEW s \in Rows \cup {None},
                AskBilling(t, u, w, x, s)
         PROVE  HandAt(pc'[t], arg'[t])
    <3>1. pc'[t] \in {"billing", "choose"} /\ arg'[t].msg = None BY <2>10 DEF AskBilling, Blank
    <3>. QED BY <3>1 DEF HandAt
  <2>. HIDE DEF Begin
  <2>. QED BY <1>3, <2>1, <2>2, <2>3, <2>4, <2>5, <2>6, <2>7, <2>8, <2>9, <2>10, Zenon DEF OnlyTask
<1>. QED BY <1>1, <1>2, <1>3 DEF Acts

LEMMA HandStep == ASSUME TypeOK, Locals, HooksMeant, MessageInHand, CustomerMade, Next PROVE MessageInHand'
<1>. USE DEF TypeOK, TasksTyped
<1>1. Kept BY KeptStep
<1>2. TasksTyped' BY TypeStep
<1>3. ASSUME NEW k \in Tasks, HandAt(pc'[k], arg'[k]) PROVE HandAt(pc[k], arg[k])'
  <2>1. PICK p \in Steps : p = pc'[k] BY <1>2
  <2>2. PICK r \in Arg : r = arg'[k] BY <1>2
  <2>3. HandAt(p, r)' BY <1>1, <1>3, <2>1, <2>2, HandStays
  <2>. QED BY <2>1, <2>2, <2>3 DEF HandAt
<1>4. ASSUME NEW t \in Tasks, Subscribe(t) PROVE HandAt(pc[t], arg[t])'
  <2>1. PICK a \in AtStripe : buyer[a] = None /\ buyer' = [buyer EXCEPT ![a] = arg[t].id]
                              /\ arg' = [arg EXCEPT ![t].id = a]
    BY <1>4 DEF Subscribe
  <2>2. pc[t] = "subscribe" /\ pc'[t] = "row" /\ arg'[t].msg = arg[t].msg /\ arg'[t].ws = arg[t].ws
    BY <1>4, <2>1 DEF Subscribe, Goto, Arg
  <2>3. buyer'[a] = payer[arg[t].msg.id] BY <2>1, <2>2 DEF StripeTyped, MessageInHand, HandAt
  <2>4. UNCHANGED <<customer, payer>> BY <1>4 DEF Subscribe, stripeRows
  <2>. QED BY <2>2, <2>3, <2>4 DEF MessageInHand, HandAt
<1>5. ASSUME NEW k \in Tasks PROVE HandAt(pc[k], arg[k])'
  <2>1. CASE ByOthers BY <1>3, <2>1, ByOthersWaits DEF task, MessageInHand
  <2>2. ASSUME NEW t \in Tasks, Acts(t) PROVE HandAt(pc[k], arg[k])'
    <3>1. CASE k = t BY <1>3, <1>4, <2>2, <3>1, HandMoves
    <3>2. CASE k # t
      <4>1. HandAt(pc'[k], arg'[k]) BY <2>2, <3>2, OthersWait DEF MessageInHand
      <4>. QED BY <1>3, <4>1
    <3>. QED BY <3>1, <3>2
  <2>. QED BY <2>1, <2>2, NextSplit DEF Acts
<1>. QED BY <1>5 DEF MessageInHand

\* Our events are none of Stripe's.
LEMMA HookNotEvent == Hook \cap Event = {}
BY DEF Hook, Event

\* Stripe stops to deliver an event when what it asks for has been done.
LEMMA HooksGone ==
    ASSUME TypeOK, Locals, HomeInv, RowsOfCustomers, MessageInHand, Next, NEW h \in hooks, h \notin hooks'
    PROVE  \/ h.type = "deleted"
           \/ h.type = "succeeded" /\ h.id \in refunded'
           \/ h.type = "completed" /\ \E a \in AtStripe : buyer[a] = payer[h.id]
<1>. USE DEF TypeOK, TasksTyped
<1>h. h \in Hook /\ h # None OBVIOUS
<1>1. ASSUME NEW t \in Tasks, WritesTable(t) PROVE FALSE
  BY <1>1 DEF WritesTable, KeepCustomer, Desire, MakeRow, MakeAwsRow, Drop, Assign, AssignAws, GiveSubscription,
     ChooseMethod, Detach, Billing, LookupAws, HoldPayment, LiftHold, Quiet
<1>2. ASSUME NEW t \in Tasks, WritesStripe(t) PROVE h.type = "succeeded" /\ h.id \in refunded'
  <2>1. Refund(t) BY <1>2 DEF WritesStripe, NewCustomer, SendToStripe, Subscribe, Quiet
  <2>2. h = arg[t].msg /\ arg[t].id \in refunded' BY <2>1 DEF Refund, Answered, Quiet
  <2>. QED BY <2>1, <2>2 DEF Refund, MessageInHand, HandAt
<1>3. ASSUME NEW t \in Tasks, OnlyTask(t)
      PROVE  h.type = "deleted" \/ (h.type = "completed" /\ \E a \in AtStripe : buyer[a] = payer[h.id])
  <2>1. \/ \E g \in hooks : Deleted(t, g)
        \/ Existing(t) \/ Created(t) \/ TellCancelled(t) \/ EventDone(t)
    BY <1>3 DEF OnlyTask, Receive, Completed, TakeCancelled, TakeCreated, Cut, OutOfBounds, AskStripe, Subscribed,
       AskAssign, AskBilling, Quiet
  <2>2. ASSUME NEW g \in hooks, Deleted(t, g) PROVE h.type = "deleted" BY <2>2 DEF Deleted
  <2>3. CASE Existing(t)
    <3>1. Answered(t) /\ h = arg[t].msg BY <2>3 DEF Existing, Answered, Quiet
    <3>2. pc[t] = "existing" BY <2>3 DEF Existing
    <3>3. h.type = "completed" /\ arg[t].ws \in Workspaces /\ customer[arg[t].ws] = payer[h.id]
      BY <3>1, <3>2 DEF MessageInHand, HandAt
    <3>4. pc'[t] = "idle" BY <3>1, <3>2 DEF Answered, End, Goto
    <3>5. CurrentMethod(arg[t].ws) # None /\ rows[CurrentMethod(arg[t].ws)].kind = "stripe"
      BY <2>3, <3>2, <3>4 DEF Existing, Goto
    <3>6. sub[arg[t].ws] \in Rows /\ rows[sub[arg[t].ws]].kind = "stripe" BY <3>5 DEF CurrentMethod
    <3>a. sub[arg[t].ws] # None /\ rows[sub[arg[t].ws]] # None BY <3>6 DEF Rows, Subs
    <3>7. rows[sub[arg[t].ws]].of = arg[t].ws BY <3>3, <3>6, <3>a DEF HomeInv, FitsTo
    <3>8. rows[sub[arg[t].ws]].at \in AtStripe BY <3>6 DEF TablesTyped, Rows, Row
    <3>9. buyer[rows[sub[arg[t].ws]].at] = customer[arg[t].ws] BY <3>6, <3>7 DEF RowsOfCustomers
    <3>. QED BY <3>3, <3>8, <3>9
  <2>4. CASE Created(t)
    <3>1. h = arg[t].msg /\ pc[t] = "created" BY <2>4 DEF Created
    <3>. QED BY <1>h, <3>1 DEF MessageInHand, HandAt
  <2>5. CASE TellCancelled(t)
    <3>1. h = arg[t].msg /\ pc[t] = "tell" BY <2>5 DEF TellCancelled
    <3>. QED BY <3>1 DEF MessageInHand, HandAt
  <2>6. CASE EventDone(t)
    <3>1. h = arg[t].msg /\ pc[t] \in {"hold", "lift"} BY <2>6 DEF EventDone, Answered
    <3>2. h \in Event BY <3>1 DEF MessageInHand, HandAt
    <3>. QED BY <1>h, <3>2, HookNotEvent
  <2>. QED BY <2>1, <2>2, <2>3, <2>4, <2>5, <2>6
<1>4. ASSUME ByOthers PROVE FALSE BY <1>4 DEF ByOthers, Pay, CancelAtStripe, Prefer, CancelAtAws, Quiet
<1>. QED BY <1>1, <1>2, <1>3, <1>4, NextSplit

LEMMA PaymentStep ==
    ASSUME TypeOK, Locals, HomeInv, RowsOfCustomers, MessageInHand, PaymentNotForgotten, Next
    PROVE  PaymentNotForgotten'
<1>. USE DEF TypeOK, StripeTyped
<1>1. Kept BY KeptStep
<1>2. ASSUME NEW p \in Payments, payer[p] # None
      PROVE  /\ p \in refunded' \/ [type |-> "succeeded", id |-> p] \in hooks'
             /\ [type |-> "completed", id |-> p] \in hooks' \/ \E a \in AtStripe : buyer'[a] = payer'[p]
  <2>1. p \in refunded' \/ [type |-> "succeeded", id |-> p] \in hooks'
    <3>1. CASE p \in refunded BY <1>1, <3>1 DEF Kept
    <3>2. CASE p \notin refunded
      <4>. DEFINE h == [type |-> "succeeded", id |-> p]
      <4>1. h \in hooks BY <1>2, <3>2 DEF PaymentNotForgotten
      <4>2. h.type = "succeeded" /\ h.id = p OBVIOUS
      <4>. HIDE DEF h
      <4>3. h \in hooks' \/ p \in refunded' BY <4>1, <4>2, HooksGone
      <4>. QED BY <4>3 DEF h
    <3>. QED BY <3>1, <3>2
  <2>2. ASSUME NEW a \in AtStripe, buyer[a] = payer[p] PROVE buyer'[a] = payer'[p] BY <1>1, <1>2, <2>2 DEF Kept
  <2>3. [type |-> "completed", id |-> p] \in hooks' \/ \E a \in AtStripe : buyer'[a] = payer'[p]
    <3>1. CASE \E a \in AtStripe : buyer[a] = payer[p] BY <2>2, <3>1
    <3>2. CASE ~ \E a \in AtStripe : buyer[a] = payer[p]
      <4>. DEFINE h == [type |-> "completed", id |-> p]
      <4>1. h \in hooks BY <1>2, <3>2 DEF PaymentNotForgotten
      <4>2. h.type = "completed" /\ h.id = p OBVIOUS
      <4>. HIDE DEF h
      <4>3. h \in hooks' BY <3>2, <4>1, <4>2, HooksGone
      <4>. QED BY <4>3 DEF h
    <3>. QED BY <3>1, <3>2
  <2>. QED BY <2>1, <2>3
<1>3. ASSUME NEW p \in Payments, payer[p] = None, payer'[p] # None
      PROVE  [type |-> "succeeded", id |-> p] \in hooks' /\ [type |-> "completed", id |-> p] \in hooks'
  <2>1. PICK c \in Customers : Pay(c)
    <3>1. ASSUME NEW t \in Tasks, WritesTable(t) \/ OnlyTask(t) PROVE FALSE
      BY <1>3, <3>1, WritesTableFrame, OnlyTaskFrame DEF stripe
    <3>2. ASSUME NEW t \in Tasks, WritesStripe(t) PROVE FALSE
      BY <1>3, <3>2 DEF WritesStripe, NewCustomer, SendToStripe, Refund, Subscribe
    <3>3. ASSUME ByOthers, ~ \E c \in Customers : Pay(c) PROVE FALSE
      BY <1>3, <3>3 DEF ByOthers, CancelAtStripe, Prefer, CancelAtAws, stripe
    <3>. QED BY <3>1, <3>2, <3>3, NextSplit
  <2>. QED BY <1>3, <2>1 DEF Pay
<1>. QED BY <1>2, <1>3 DEF PaymentNotForgotten

-----------------------------------------------------------------------------
(* The theorems.                                                           *)

LEMMA InvStep == ASSUME Inv, [Next]_vars PROVE Inv'
<1>1. CASE Next
  <2>1. TypeOK' /\ Locals' BY <1>1, TypeStep DEF Inv
  <2>2. CustomerMade' /\ CustomersKnown' BY <1>1, CustomerMadeStep, KnownStep DEF Inv
  <2>3. HomeInv' /\ RowsOfCustomers' BY <1>1, HomeStep, RowsStep DEF Inv
  <2>4. MessageInHand' /\ HooksMeant' BY <1>1, HandStep, HooksStep DEF Inv
  <2>5. PaymentNotForgotten' BY <1>1, PaymentStep DEF Inv
  <2>. QED BY <2>1, <2>2, <2>3, <2>4, <2>5 DEF Inv
<1>2. CASE UNCHANGED vars
  <2>. USE <1>2 DEF vars, table, space, stripeRows, stripe, task
  <2>1. TypeOK' BY DEF Inv, TypeOK, TablesTyped, StripeTyped, TasksTyped, Rows
  <2>2. Locals' /\ MessageInHand' BY DEF Inv, Locals, LocalsAt, MessageInHand, HandAt
  <2>3. CustomerMade' /\ CustomersKnown' /\ HooksMeant'
    BY DEF Inv, CustomerMade, CustomersKnown, WorkspaceOf, PaymentFindsWorkspace, HooksMeant
  <2>4. HomeInv' /\ RowsOfCustomers' BY DEF Inv, HomeInv, FitsTo, Chosen, RowsOfCustomers, Rows
  <2>5. PaymentNotForgotten' BY DEF Inv, PaymentNotForgotten
  <2>. QED BY <2>1, <2>2, <2>3, <2>4, <2>5 DEF Inv
<1>. QED BY <1>1, <1>2

LEMMA Invariant == Spec => []Inv
BY InitInv, InvStep, PTL DEF Spec

\* The tables, what is at Stripe, the events and the locals of the tasks have the form the code relies on.
THEOREM TypeCorrect == Spec => []TypeOK
<1>1. Inv => TypeOK BY DEF Inv
<1>. QED BY <1>1, Invariant, PTL

\* A subscription of Stripe pays for the workspace whose customer bought it: whatever a request or a webhook is
\* about to write into a workspace was of that workspace when it was chosen, and no row becomes another one.
THEOREM StripePaysAtHome == Spec => []StripeStaysHome
<1>1. Inv => StripeStaysHome BY DEF Inv, HomeInv, FitsTo, StripeStaysHome, CurrentMethod, Rows
<1>. QED BY <1>1, Invariant, PTL

\* The webhook always finds the workspace of who has paid: nobody is sent to the checkout before the customer is
\* in the table.
THEOREM PayerIsCustomer == Spec => []PaymentFindsWorkspace
<1>1. Inv => PaymentFindsWorkspace BY DEF Inv, CustomersKnown
<1>. QED BY <1>1, Invariant, PTL

\* An event of a payment is acknowledged only when the money was given back, or a subscription made.
THEOREM PaymentRemembered == Spec => []PaymentNotForgotten
<1>1. Inv => PaymentNotForgotten BY DEF Inv
<1>. QED BY <1>1, Invariant, PTL

=============================================================================
