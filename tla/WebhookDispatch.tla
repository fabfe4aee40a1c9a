-------------------------- MODULE WebhookDispatch --------------------------
(***************************************************************************)
(* Webhooks of one project: the dashboard creates, updates and deletes     *)
(* them while the functions that emit events select the active ones, POST  *)
(* to all subscribers at once and insert one webhook_deliveries row each,  *)
(* before they answer their own caller. A test delivery looks the webhook  *)
(* up twice, with the caller's rights and then with the service role.      *)
(*                                                                         *)
(* Left out: the audit row of handleCreate, the url and description, and   *)
(* list and get, which change nothing. In a dispatch, a secret that cannot *)
(* be decrypted is one of the ways a POST fails.                           *)
(***************************************************************************)
EXTENDS Naturals, FiniteSets

CONSTANTS Hooks,       \* ids of webhooks rows, never reused
          Events,      \* event types
          Dispatches,  \* calls of dispatchWebhookEvent or of handleTest
          Failures     \* which of "select", "log" and "crash" can happen

ASSUME EventsAssumption == "webhook.test" \notin Events

VARIABLES hooks,     \* table webhooks
          rows,      \* table webhook_deliveries
          task,      \* local state of every dispatch
          leg,       \* progress of a dispatch towards each webhook
          accepted   \* history: POSTs the endpoint took

vars == <<hooks, rows, task, leg, accepted>>

Hook == [status : {"absent", "active", "disabled", "deleted"},
         events : SUBSET Events]
Task == [pc : {"idle", "secret", "deliver", "done", "killed"},
         event : Events \cup {"none", "webhook.test"},
         due : SUBSET Hooks,
         clean : BOOLEAN]  \* history: no select or insert failed so far
Leg  == {"none", "post", "delivered", "failed", "logged"}
Delivery == [dispatch : Dispatches, hook : Hooks, status : {"delivered", "failed"}]

TypeOK ==
    /\ hooks \in [Hooks -> Hook]
    /\ rows \subseteq Delivery
    /\ task \in [Dispatches -> Task]
    /\ leg \in [Dispatches -> [Hooks -> Leg]]
    /\ accepted \subseteq Dispatches \X Hooks

Init ==
    /\ hooks = [h \in Hooks |-> [status |-> "absent", events |-> {}]]
    /\ rows = {}
    /\ task = [d \in Dispatches |-> [pc |-> "idle", event |-> "none",
                                     due |-> {}, clean |-> TRUE]]
    /\ leg = [d \in Dispatches |-> [h \in Hooks |-> "none"]]
    /\ accepted = {}

Exists(h) == hooks[h].status \in {"active", "disabled"}

-----------------------------------------------------------------------------
\* handleCreate: at least one valid event; the row's status defaults to active.
Create(h, events) ==
    /\ hooks[h].status = "absent" /\ events # {}
    /\ hooks' = [hooks EXCEPT ![h] = [status |-> "active", events |-> events]]
    /\ UNCHANGED <<rows, task, leg, accepted>>

\* handleUpdate: any of status and events, whatever they were before.
Update(h, status, events) ==
    /\ Exists(h) /\ events # {}
    /\ hooks' = [hooks EXCEPT ![h] = [status |-> status, events |-> events]]
    /\ UNCHANGED <<rows, task, leg, accepted>>

\* handleDelete: the row goes, and its deliveries with it.
Delete(h) ==
    /\ Exists(h)
    /\ hooks' = [hooks EXCEPT ![h].status = "deleted"]
    /\ rows' = {row \in rows : row.hook # h}
    /\ UNCHANGED <<task, leg, accepted>>

-----------------------------------------------------------------------------
Subscribers(event) ==
    {h \in Hooks : hooks[h].status = "active" /\ event \in hooks[h].events}

\* dispatchWebhookEvent's select and filter. An error of the select ends the
\* dispatch as if nobody had subscribed.
Select(d, event) ==
    /\ task[d].pc = "idle"
    /\ \E ok \in BOOLEAN :
         /\ ok \/ "select" \in Failures
         /\ task' = [task EXCEPT ![d] = [pc |-> "deliver", event |-> event,
                                         due |-> Subscribers(event),
                                         clean |-> ok]]
         /\ leg' = [leg EXCEPT ![d] = [h \in Hooks |->
                      IF ok /\ h \in Subscribers(event) THEN "post" ELSE "none"]]
    /\ UNCHANGED <<hooks, rows, accepted>>

\* handleTest: the webhook is visible to the caller, disabled or not.
TestLookup(d, h) ==
    /\ task[d].pc = "idle"
    /\ Exists(h)
    /\ task' = [task EXCEPT ![d].pc = "secret", ![d].event = "webhook.test"]
    /\ leg' = [leg EXCEPT ![d][h] = "post"]
    /\ UNCHANGED <<hooks, rows, accepted>>

\* handleTest reads the signing secret; with no row, or an error, the test goes
\* on with an empty signature. A secret that cannot be decrypted ends it with an
\* error answer.
TestSecret(d) ==
    /\ task[d].pc = "secret"
    /\ \/ /\ task' = [task EXCEPT ![d].pc = "deliver"]
          /\ UNCHANGED leg
       \/ /\ \E h \in Hooks : leg[d][h] = "post" /\ Exists(h)
          /\ task' = [task EXCEPT ![d].pc = "done"]
          /\ leg' = [leg EXCEPT ![d] = [h \in Hooks |-> "none"]]
    /\ UNCHANGED <<hooks, rows, accepted>>

PostTrustsStatus(d, h) ==
    /\ task[d].pc = "deliver" /\ leg[d][h] = "post"
    /\ \E result \in {"delivered", "failed"}, taken \in BOOLEAN :
         /\ leg' = [leg EXCEPT ![d][h] = result]
         /\ accepted' = IF taken THEN accepted \cup {<<d, h>>} ELSE accepted
    /\ UNCHANGED <<hooks, rows, task>>

\* One POST: taken and answered 2xx; refused, unreachable or not signable;
\* taken, but the answer is an error or is lost.
Post(d, h) ==
    /\ task[d].pc = "deliver" /\ leg[d][h] = "post"
    /\ \/ /\ leg' = [leg EXCEPT ![d][h] = "delivered"]
          /\ accepted' = accepted \cup {<<d, h>>}
       \/ /\ leg' = [leg EXCEPT ![d][h] = "failed"]
          /\ accepted' \in {accepted, accepted \cup {<<d, h>>}}
    /\ UNCHANGED <<hooks, rows, task>>

RecordSuccesses(d, h) ==
    /\ task[d].pc = "deliver" /\ leg[d][h] \in {"delivered", "failed"}
    /\ leg' = [leg EXCEPT ![d][h] = "logged"]
    /\ rows' = IF leg[d][h] = "delivered" /\ Exists(h)
               THEN rows \cup {[dispatch |-> d, hook |-> h, status |-> leg[d][h]]}
               ELSE rows
    /\ UNCHANGED <<hooks, task, accepted>>

\* The delivery row; the foreign key refuses it once the webhook is deleted.
\* The error of the insert is not looked at.
Record(d, h) ==
    /\ task[d].pc = "deliver" /\ leg[d][h] \in {"delivered", "failed"}
    /\ leg' = [leg EXCEPT ![d][h] = "logged"]
    /\ \/ /\ rows' = IF Exists(h)
                     THEN rows \cup {[dispatch |-> d, hook |-> h,
                                      status |-> leg[d][h]]}
                     ELSE rows
          /\ UNCHANGED task
       \/ /\ "log" \in Failures
          /\ task' = [task EXCEPT ![d].clean = FALSE]
          /\ UNCHANGED rows
    /\ UNCHANGED <<hooks, accepted>>

FinishWhenDelivered(d) ==
    /\ task[d].pc = "deliver"
    /\ \A h \in Hooks :
         \/ leg[d][h] = "none"
         \/ leg[d][h] = "logged" /\ <<d, h>> \in accepted
    /\ task' = [task EXCEPT ![d].pc = "done"]
    /\ UNCHANGED <<hooks, rows, leg, accepted>>

\* Promise.all settles once every target is through; the caller is answered.
Finish(d) ==
    /\ task[d].pc = "deliver"
    /\ \A h \in Hooks : leg[d][h] \in {"none", "logged"}
    /\ task' = [task EXCEPT ![d].pc = "done"]
    /\ UNCHANGED <<hooks, rows, leg, accepted>>

\* The isolate is killed with the request that was dispatching.
Kill(d) ==
    /\ "crash" \in Failures
    /\ task[d].pc \in {"secret", "deliver"}
    /\ task' = [task EXCEPT ![d].pc = "killed"]
    /\ UNCHANGED <<hooks, rows, leg, accepted>>

Next ==
    \/ \E h \in Hooks, events \in SUBSET Events :
         \/ Create(h, events)
         \/ \E status \in {"active", "disabled"} : Update(h, status, events)
    \/ \E h \in Hooks : Delete(h)
    \/ \E d \in Dispatches :
         \/ \E event \in Events : Select(d, event)
         \/ TestSecret(d)
         \/ Finish(d)
         \/ Kill(d)
         \/ \E h \in Hooks : TestLookup(d, h) \/ Post(d, h) \/ Record(d, h)

Spec == Init /\ [][Next]_vars

\* Database calls return, and the handler then goes on. The POSTs have no fairness:
\* fetch has no timeout, so nothing bounds the wait for an endpoint.
HandlerFairness == \A d \in Dispatches :
    /\ WF_vars(TestSecret(d)) /\ WF_vars(Finish(d))
    /\ \A h \in Hooks : WF_vars(Record(d, h))

HandlerSpec == Spec /\ HandlerFairness

-----------------------------------------------------------------------------
\* A dispatch that finished, its own database calls having succeeded, left a row
\* for every webhook that was subscribed when it selected, unless the webhook was
\* deleted since (dispatchWebhooks.ts:23-32, 65-73).
DueIsLogged == \A d \in Dispatches : task[d].pc = "done" /\ task[d].clean =>
    \A h \in task[d].due :
        \/ hooks[h].status = "deleted"
        \/ \E row \in rows : row.dispatch = d /\ row.hook = h

\* What the deliveries table reports as delivered the endpoint did take, and no
\* row survives its webhook, whatever was deleted, disabled or killed meanwhile
\* (dispatchWebhooks.ts:43-73).
DeliveredWasAccepted == \A row \in rows :
    /\ row.status = "delivered" => <<row.dispatch, row.hook>> \in accepted
    /\ Exists(row.hook)

\* What "failure to deliver a webhook never fails the parent request"
\* (dispatchWebhooks.ts:9) comes to with a fetch that has no timeout (:49): every
\* request that emits an event is answered or killed in the end, or an endpoint
\* that never answers holds it, with the deliveries to all the others logged;
\* refusals, failed inserts, deletions and other dispatches hold nobody.
OnlySilentEndpointsHold == \A d \in Dispatches : <>[](
    \/ task[d].pc \in {"idle", "done", "killed"}
    \/ /\ task[d].pc = "deliver"
       /\ \E h \in Hooks : leg[d][h] = "post"
       /\ \A h \in Hooks : leg[d][h] \in {"none", "post", "logged"})

=============================================================================
