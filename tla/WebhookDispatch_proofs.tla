----------------------- MODULE WebhookDispatch_proofs -----------------------
(***************************************************************************)
(* What the delivery log is worth, for any number of webhooks, events and  *)
(* concurrent dispatches.                                                  *)
(***************************************************************************)
EXTENDS WebhookDispatch, TLAPS

\* A leg that is about to be recorded as delivered was taken by the endpoint.
LegsSound == \A d \in Dispatches, h \in Hooks :
    leg[d][h] = "delivered" => <<d, h>> \in accepted

LogInv == TypeOK /\ LegsSound /\ DeliveredWasAccepted

LEMMA LogInit == Init => LogInv
  BY DEF Init, LogInv, TypeOK, Hook, Task, Leg, LegsSound, DeliveredWasAccepted

\* Only the three actions on a leg, a deletion and an update touch the log's
\* facts; each keeps them.
LEMMA LogStep == LogInv /\ [Next]_vars => LogInv'
  <1> SUFFICES ASSUME LogInv, [Next]_vars PROVE LogInv'
    OBVIOUS
  <1> USE DEF LogInv, TypeOK
  <1>1. ASSUME NEW h \in Hooks, NEW events \in SUBSET Events, Create(h, events)
        PROVE  LogInv'
    BY <1>1 DEF Create, Hook, LegsSound, DeliveredWasAccepted, Exists, Delivery
  <1>2. ASSUME NEW h \in Hooks, NEW events \in SUBSET Events,
               NEW status \in {"active", "disabled"}, Update(h, status, events)
        PROVE  LogInv'
    BY <1>2 DEF Update, Hook, LegsSound, DeliveredWasAccepted, Exists, Delivery
  <1>3. ASSUME NEW h \in Hooks, Delete(h) PROVE LogInv'
    BY <1>3 DEF Delete, Hook, LegsSound, DeliveredWasAccepted, Exists, Delivery
  <1>4. ASSUME NEW d \in Dispatches, NEW event \in Events, Select(d, event)
        PROVE  LogInv'
    <2>1. Subscribers(event) \subseteq Hooks
      BY DEF Subscribers
    <2>2. TypeOK'
      <3>1. PICK ok \in BOOLEAN :
              /\ task' = [task EXCEPT ![d] = [pc |-> "deliver", event |-> event,
                                              due |-> Subscribers(event),
                                              clean |-> ok]]
              /\ leg' = [leg EXCEPT ![d] = [h \in Hooks |->
                           IF ok /\ h \in Subscribers(event) THEN "post" ELSE "none"]]
        BY <1>4 DEF Select
      <3>2. [pc |-> "deliver", event |-> event, due |-> Subscribers(event),
             clean |-> ok] \in Task
        BY <2>1 DEF Task
      <3>3. task' \in [Dispatches -> Task]
        BY <3>1, <3>2
      <3>4. leg' \in [Dispatches -> [Hooks -> Leg]]
        BY <3>1 DEF Leg
      <3> QED BY <1>4, <3>3, <3>4 DEF Select
    <2>3. LegsSound' /\ DeliveredWasAccepted'
      BY <1>4 DEF Select, LegsSound, DeliveredWasAccepted, Exists
    <2> QED BY <2>2, <2>3
  <1>5. ASSUME NEW d \in Dispatches, NEW h \in Hooks, TestLookup(d, h)
        PROVE  LogInv'
    BY <1>5 DEF TestLookup, Task, Leg, LegsSound, DeliveredWasAccepted, Exists
  <1>6. ASSUME NEW d \in Dispatches, TestSecret(d) PROVE LogInv'
    <2>1. task' \in [Dispatches -> Task]
      <3>1. CASE task' = [task EXCEPT ![d].pc = "deliver"]
        BY <3>1 DEF Task
      <3>2. CASE task' = [task EXCEPT ![d].pc = "done"]
        BY <3>2 DEF Task
      <3> QED BY <1>6, <3>1, <3>2 DEF TestSecret
    <2>2. /\ UNCHANGED <<hooks, rows, accepted>>
          /\ leg' = leg \/ leg' = [leg EXCEPT ![d] = [h \in Hooks |-> "none"]]
      BY <1>6 DEF TestSecret
    <2>3. TypeOK' /\ LegsSound'
      BY <2>1, <2>2 DEF LegsSound, Leg
    <2>4. DeliveredWasAccepted'
      BY <2>2 DEF DeliveredWasAccepted, Exists
    <2> QED BY <2>3, <2>4
  <1>7. ASSUME NEW d \in Dispatches, NEW h \in Hooks, Post(d, h) PROVE LogInv'
    <2>1. PICK step \in {"delivered", "failed"} :
            /\ leg' = [leg EXCEPT ![d][h] = step]
            /\ step = "delivered" => <<d, h>> \in accepted'
      BY <1>7 DEF Post
    <2>2. /\ accepted' \in {accepted, accepted \cup {<<d, h>>}}
          /\ UNCHANGED <<hooks, rows, task>>
      BY <1>7 DEF Post
    <2>3. leg' \in [Dispatches -> [Hooks -> Leg]]
      BY <2>1 DEF Leg
    <2>4. accepted \subseteq accepted' /\ accepted' \subseteq Dispatches \X Hooks
      BY <2>2
    <2>5. TypeOK'
      BY <2>2, <2>3, <2>4
    <2>6. \A e \in Dispatches, k \in Hooks :
            leg'[e][k] = IF e = d /\ k = h THEN step ELSE leg[e][k]
      BY <2>1
    <2>7. LegsSound'
      BY <2>1, <2>4, <2>6 DEF LegsSound
    <2>8. DeliveredWasAccepted'
      BY <2>2, <2>4 DEF DeliveredWasAccepted, Exists
    <2> QED BY <2>5, <2>7, <2>8
  <1>8. ASSUME NEW d \in Dispatches, NEW h \in Hooks, Record(d, h) PROVE LogInv'
    <2> DEFINE new == [dispatch |-> d, hook |-> h, status |-> leg[d][h]]
    <2>1. new \in Delivery
      BY <1>8 DEF Record, Delivery
    <2>2. TypeOK'
      <3>1. task' = task \/ task' = [task EXCEPT ![d].clean = FALSE]
        BY <1>8 DEF Record
      <3>2. task' \in [Dispatches -> Task]
        BY <3>1 DEF Task
      <3>3. rows' \subseteq Delivery
        BY <1>8, <2>1 DEF Record
      <3>4. leg' \in [Dispatches -> [Hooks -> Leg]]
        BY <1>8 DEF Record, Leg
      <3> QED BY <1>8, <3>2, <3>3, <3>4 DEF Record
    <2>3. LegsSound'
      BY <1>8 DEF Record, LegsSound, Leg
    <2>4. /\ new.dispatch = d /\ new.hook = h
          /\ new.status = "delivered" => <<d, h>> \in accepted
      BY DEF LegsSound
    <2>5. \A row \in rows' : row \in rows \/ (row = new /\ Exists(h))
      BY <1>8 DEF Record
    <2>6. UNCHANGED <<hooks, accepted>>
      BY <1>8 DEF Record
    <2>7. DeliveredWasAccepted'
      <3> HIDE DEF new
      <3> QED BY <2>4, <2>5, <2>6 DEF DeliveredWasAccepted, Exists
    <2> QED BY <2>2, <2>3, <2>7
  <1>9. ASSUME NEW d \in Dispatches, Finish(d) \/ Kill(d) PROVE LogInv'
    BY <1>9 DEF Finish, Kill, Task, LegsSound, DeliveredWasAccepted, Exists
  <1>10. CASE UNCHANGED vars
    BY <1>10 DEF vars, LegsSound, DeliveredWasAccepted, Exists
  <1> QED BY <1>1, <1>2, <1>3, <1>4, <1>5, <1>6, <1>7, <1>8, <1>9, <1>10 DEF Next

\* Whatever fails, is killed or is deleted meanwhile, a row that says delivered
\* is a POST the endpoint took, and rows do not outlive their webhook.
THEOREM LogIsTruthful == Spec => [](TypeOK /\ DeliveredWasAccepted)
  <1>1. LogInv => TypeOK /\ DeliveredWasAccepted
    BY DEF LogInv
  <1> QED BY <1>1, LogInit, LogStep, PTL DEF Spec

-----------------------------------------------------------------------------
(***************************************************************************)
(* A dispatch whose database calls succeed misses no subscriber in the log.*)
(***************************************************************************)
Recorded(d, h) == \E row \in rows : row.dispatch = d /\ row.hook = h

\* A webhook that is due is on its way or was recorded before its deletion.
DueAt(d) ==
    /\ \A h \in task[d].due : hooks[h].status # "absent"
    /\ task[d].pc \in {"idle", "secret"} => task[d].due = {}
    /\ task[d].pc \in {"deliver", "done"} /\ task[d].clean => \A h \in task[d].due :
         \/ leg[d][h] \in {"post", "delivered", "failed"}
         \/ leg[d][h] = "logged" /\ (hooks[h].status = "deleted" \/ Recorded(d, h))
    /\ task[d].pc = "done" => \A h \in Hooks : leg[d][h] \in {"none", "logged"}

DueInv == \A d \in Dispatches : DueAt(d)

LEMMA DueStep ==
    ASSUME TypeOK, DueInv, [Next]_vars
    PROVE  DueInv'
  <1> USE DEF TypeOK
  <1>1. ASSUME NEW h \in Hooks, NEW events \in SUBSET Events, Create(h, events)
        PROVE  DueInv'
    BY <1>1 DEF Create, DueInv, DueAt, Recorded
  <1>2. ASSUME NEW h \in Hooks, NEW events \in SUBSET Events,
               NEW status \in {"active", "disabled"}, Update(h, status, events)
        PROVE  DueInv'
    BY <1>2 DEF Update, DueInv, DueAt, Recorded, Exists
  <1>3. ASSUME NEW h \in Hooks, Delete(h) PROVE DueInv'
    <2>1. /\ hooks'[h].status = "deleted"
          /\ \A k \in Hooks : k # h => hooks'[k] = hooks[k]
      BY <1>3 DEF Delete, Hook
    <2>2. \A d \in Dispatches, k \in Hooks : k # h => (Recorded(d, k) => Recorded(d, k)')
      BY <1>3 DEF Delete, Recorded
    <2>3. UNCHANGED <<task, leg>>
      BY <1>3 DEF Delete
    <2>4. \A d \in Dispatches : task[d].due \subseteq Hooks
      BY DEF Task
    <2> QED BY <2>1, <2>2, <2>3, <2>4 DEF DueInv, DueAt
  <1>4. ASSUME NEW d \in Dispatches, NEW event \in Events, Select(d, event)
        PROVE  DueInv'
    <2>1. /\ task'[d].pc = "deliver" /\ task'[d].due = Subscribers(event)
          /\ task'[d].clean => leg' = [leg EXCEPT ![d] = [h \in Hooks |->
                                 IF h \in Subscribers(event) THEN "post" ELSE "none"]]
          /\ \A e \in Dispatches : e # d => task'[e] = task[e] /\ leg'[e] = leg[e]
          /\ UNCHANGED <<hooks, rows>>
      <3>1. PICK ok \in BOOLEAN :
              /\ task' = [task EXCEPT ![d] = [pc |-> "deliver", event |-> event,
                                              due |-> Subscribers(event),
                                              clean |-> ok]]
              /\ leg' = [leg EXCEPT ![d] = [h \in Hooks |->
                           IF ok /\ h \in Subscribers(event) THEN "post" ELSE "none"]]
        BY <1>4 DEF Select
      <3>2. task'[d].clean = ok /\ task'[d].pc = "deliver"
            /\ task'[d].due = Subscribers(event)
        BY <3>1
      <3>3. ok => leg' = [leg EXCEPT ![d] = [h \in Hooks |->
                                 IF h \in Subscribers(event) THEN "post" ELSE "none"]]
        BY <3>1
      <3> QED BY <1>4, <3>1, <3>2, <3>3 DEF Select
    <2>2. task'[d].clean => \A h \in Subscribers(event) : leg'[d][h] = "post"
      BY <2>1 DEF Subscribers
    <2>3. \A e \in Dispatches : task[e].due \subseteq Hooks
      BY DEF Task
    <2>4. \A e \in Dispatches, h \in Hooks : Recorded(e, h)' = Recorded(e, h)
      BY <2>1 DEF Recorded
    <2> SUFFICES ASSUME NEW e \in Dispatches PROVE DueAt(e)'
      BY DEF DueInv
    <2>5. CASE e = d
      BY <2>1, <2>2, <2>5 DEF Subscribers, DueAt
    <2>6. CASE e # d
      BY <2>1, <2>2, <2>3, <2>4, <2>6 DEF DueInv, DueAt
    <2> QED BY <2>5, <2>6
  <1>5. ASSUME NEW d \in Dispatches, NEW h \in Hooks, TestLookup(d, h)
        PROVE  DueInv'
    BY <1>5 DEF TestLookup, DueInv, DueAt, Recorded, Task
  <1>6. ASSUME NEW d \in Dispatches, TestSecret(d) PROVE DueInv'
    <2>1. /\ task[d].pc = "secret"
          /\ \A e \in Dispatches : e # d => task'[e] = task[e] /\ leg'[e] = leg[e]
          /\ UNCHANGED <<hooks, rows>>
      BY <1>6 DEF TestSecret
    <2>2. \/ task' = [task EXCEPT ![d].pc = "deliver"]
          \/ /\ task' = [task EXCEPT ![d].pc = "done"]
             /\ leg' = [leg EXCEPT ![d] = [h \in Hooks |-> "none"]]
      BY <1>6 DEF TestSecret
    <2>3. task'[d].due = task[d].due
      BY <2>2 DEF Task
    <2>4. \/ task'[d].pc = "deliver"
          \/ task'[d].pc = "done" /\ \A h \in Hooks : leg'[d][h] = "none"
      BY <2>2 DEF Task
    <2>5. \A e \in Dispatches : task[e].due \subseteq Hooks
      BY DEF Task
    <2>6. \A e \in Dispatches, h \in Hooks : Recorded(e, h)' = Recorded(e, h)
      BY <2>1 DEF Recorded
    <2>7. task[d].due = {}
      BY <2>1 DEF DueInv, DueAt
    <2> QED BY <2>1, <2>3, <2>4, <2>5, <2>6, <2>7 DEF DueInv, DueAt
  <1>7. ASSUME NEW d \in Dispatches, NEW h \in Hooks, Post(d, h) PROVE DueInv'
    <2>1. /\ task[d].pc = "deliver"
          /\ \E result \in {"delivered", "failed"} :
               leg' = [leg EXCEPT ![d][h] = result]
          /\ UNCHANGED <<hooks, rows, task>>
      BY <1>7 DEF Post
    <2>2. \A e \in Dispatches, k \in Hooks :
            \/ leg'[e][k] = leg[e][k]
            \/ /\ e = d
               /\ leg'[e][k] \in {"delivered", "failed"}
      BY <2>1
    <2>3. \A e \in Dispatches : task[e].due \subseteq Hooks
      BY DEF Task
    <2>4. \A e \in Dispatches, k \in Hooks : Recorded(e, k)' = Recorded(e, k)
      BY <2>1 DEF Recorded
    <2> QED BY <2>1, <2>2, <2>3, <2>4 DEF DueInv, DueAt
  <1>8. ASSUME NEW d \in Dispatches, NEW h \in Hooks, Record(d, h) PROVE DueInv'
    <2>1. /\ leg' = [leg EXCEPT ![d][h] = "logged"]
          /\ rows \subseteq rows'
          /\ task'[d].clean /\ Exists(h) =>
               [dispatch |-> d, hook |-> h, status |-> leg[d][h]] \in rows'
          /\ UNCHANGED hooks
          /\ leg[d][h] \in {"delivered", "failed"}
          /\ task[d].pc = "deliver" /\ task'[d].pc = "deliver"
          /\ task'[d].due = task[d].due /\ (task'[d].clean => task[d].clean)
          /\ \A e \in Dispatches : e # d => task'[e] = task[e]
      BY <1>8 DEF Record, Task
    <2>2. \A e \in Dispatches, k \in Hooks : Recorded(e, k) => Recorded(e, k)'
      BY <2>1 DEF Recorded
    <2>3. task'[d].clean /\ Exists(h) => Recorded(d, h)'
      <3> DEFINE new == [dispatch |-> d, hook |-> h, status |-> leg[d][h]]
      <3>1. new.dispatch = d /\ new.hook = h
        OBVIOUS
      <3>2. task'[d].clean /\ Exists(h) => new \in rows'
        BY <2>1
      <3> QED BY <3>1, <3>2 DEF Recorded
    <2>4. h \in task[d].due => hooks[h].status = "deleted" \/ Exists(h)
      BY DEF DueInv, DueAt, Hook, Exists
    <2>5. \A e \in Dispatches, k \in Hooks :
            leg'[e][k] = IF e = d /\ k = h THEN "logged" ELSE leg[e][k]
      BY <2>1
    <2>6. \A e \in Dispatches : task[e].due \subseteq Hooks
      BY DEF Task
    <2> QED BY <2>1, <2>2, <2>3, <2>4, <2>5, <2>6 DEF DueInv, DueAt
  <1>9. ASSUME NEW d \in Dispatches, Finish(d) \/ Kill(d) PROVE DueInv'
    <2>1. /\ \A e \in Dispatches : e # d => task'[e] = task[e]
          /\ task'[d].due = task[d].due /\ task'[d].clean = task[d].clean
          /\ UNCHANGED <<hooks, rows, leg>>
      BY <1>9 DEF Finish, Kill, Task
    <2>2. \/ /\ task[d].pc = "deliver" /\ task'[d].pc = "done"
             /\ \A h \in Hooks : leg[d][h] \in {"none", "logged"}
          \/ task'[d].pc = "killed"
      BY <1>9 DEF Finish, Kill, Task
    <2>3. \A e \in Dispatches, h \in Hooks : Recorded(e, h)' = Recorded(e, h)
      BY <2>1 DEF Recorded
    <2>4. \A e \in Dispatches : task[e].due \subseteq Hooks
      BY DEF Task
    <2> QED BY <2>1, <2>2, <2>3, <2>4 DEF DueInv, DueAt
  <1>10. CASE UNCHANGED vars
    BY <1>10 DEF vars, DueInv, DueAt, Recorded
  <1> QED BY <1>1, <1>2, <1>3, <1>4, <1>5, <1>6, <1>7, <1>8, <1>9, <1>10 DEF Next

\* Every webhook that was subscribed when a finished dispatch selected has its
\* row, or was deleted, if the dispatch's own calls succeeded.
THEOREM NoSubscriberIsMissed == Spec => []DueIsLogged
  <1>1. Init => DueInv
    BY DEF Init, DueInv, DueAt
  <1>2. LogInv /\ DueInv /\ [Next]_vars => LogInv' /\ DueInv'
    BY LogStep, DueStep DEF LogInv
  <1>3. LogInv /\ DueInv => DueIsLogged
    BY DEF DueInv, DueAt, DueIsLogged, Recorded, LogInv, TypeOK, Task
  <1> QED BY <1>1, <1>2, <1>3, LogInit, PTL DEF Spec

=============================================================================
