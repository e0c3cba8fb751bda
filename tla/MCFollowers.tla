----------------------------- MODULE MCFollowers -----------------------------
(***************************************************************************)
(* The parts of the system that follow the domain events and change        *)
(* nothing that another part reads: alerts, reminders, scheduled mails,    *)
(* the inventory and the answers to requests about it.                     *)
(* They share no variable, so that a behaviour of all of them is one of    *)
(* each, interleaved; and none of the properties looks at two parts.  The  *)
(* instance picks one part at the beginning and leaves the others in their *)
(* initial states: TLC explores the sum of the parts, not their product.   *)
(***************************************************************************)
EXTENDS Alerts, Reminders, ScheduledEmails, Inventory, Answers

CONSTANTS u1, u2, w1, w2

VARIABLE part

AllMembers == [w \in Teams |-> IF w = w1 THEN People ELSE {u1}]
Retention == [t \in {"Trial", "Plus", "Free"} |-> CASE t = "Trial" -> 183 [] t = "Plus" -> 92 [] t = "Free" -> 31]

followersVars ==
    <<part, alertVars, reminderVars, mailVars, inventoryVars, answerVars>>

\* A part that is not picked has one initial state.  The names of accounts are interchangeable: one of them is the first.
\* One user, who is in both workspaces, may have settings from before.
FollowersInit ==
    /\ part \in {"alerts", "reminders", "mails", "inventory", "answers"}
    /\ AlertsInit /\ RemindersInit /\ ScheduledEmailsInit /\ InventoryInit /\ AnswersInit
    /\ \A a \in CloudAccounts : accountRows[a].name = CHOOSE n \in Names : TRUE
    /\ part = "inventory" \/ \A a \in CloudAccounts : accountRows[a].state = "configured"
    /\ \A u \in People : opts[u] = None \/ (part = "mails" /\ u = u1)

FollowersNext ==
    \/ /\ part = "alerts" /\ AlertsNext
       /\ UNCHANGED <<part, reminderVars, mailVars, inventoryVars, answerVars>>
    \/ /\ part = "reminders" /\ RemindersNext
       /\ UNCHANGED <<part, alertVars, mailVars, inventoryVars, answerVars>>
    \/ /\ part = "mails" /\ ScheduledEmailsNext
       /\ UNCHANGED <<part, alertVars, reminderVars, inventoryVars, answerVars>>
    \/ /\ part = "inventory" /\ InventoryNext
       /\ UNCHANGED <<part, alertVars, reminderVars, mailVars, answerVars>>
    \/ /\ part = "answers" /\ AnswersNext
       /\ UNCHANGED <<part, alertVars, reminderVars, mailVars, inventoryVars>>

FollowersSpec ==
    /\ FollowersInit /\ [][FollowersNext]_followersVars
    /\ RemindersFairness
    /\ \A r \in Replicas :
        WF_inventoryVars(part = "inventory" /\ (Listen(r) \/ (work[r] # None /\ Refused(r) /\ RequestFails(r))))
    /\ \A a \in CloudAccounts :
        /\ WF_inventoryVars(part = "inventory" /\ StartRun(a))
        /\ WF_inventoryVars(part = "inventory" /\ Merge(a))
    /\ WF_inventoryVars(StoreReport) /\ WF_inventoryVars(ExpireCache)

FollowersTypeOK ==
    CASE part = "alerts" -> AlertsTypeOK
      [] part = "reminders" -> RemindersTypeOK
      [] part = "mails" -> ScheduledEmailsTypeOK
      [] part = "inventory" -> InventoryTypeOK
      [] part = "answers" -> AnswersTypeOK

=============================================================================
