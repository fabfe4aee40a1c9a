--------------------------- MODULE ApiKeys_proofs ---------------------------
(***************************************************************************)
(* For any number of dashboard calls, requests and direct updates and any  *)
(* failure: nothing but a direct update revives a revoked key, a secret    *)
(* that was dead when a request started is not accepted unless it was put  *)
(* back by hand, and audit rows, events and answers tell the truth.        *)
(***************************************************************************)
EXTENDS ApiKeys, TLAPS

\* What a call is about. The row of a call that has yet to insert is not there;
\* a key somebody changes was created.
CallSound == \A c \in Calls :
    /\ call[c].pc = "idle" => call[c].action = "create"
    /\ call[c].action = "create" => call[c].key = c
    /\ call[c].action = "create" /\ call[c].pc \in {"idle", "write"} =>
         keys[c].status = "absent"
    /\ call[c].action # "create" => keys[call[c].key].status # "absent"

\* The strengthening of AnnouncedIsTrue: it holds from the write on. A key that
\* is being revoked was created, so that an update that finds no row found it gone.
Announced == \A c \in Calls :
    /\ c \in audits \cup events => call[c].pc \in {"event", "answered", "killed"}
    /\ (c \in audits \cup events \/ call[c].pc \in {"audit", "event", "answered"}) =>
         call[c].wrote

\* A request carries a revealed secret, and one that was dead at its start is
\* dead until somebody puts it back by hand; this is why CheckKey refuses it.
LateStaysDead == \A r \in Requests : request[r].pc # "idle" =>
    /\ request[r].secret \in Calls
    /\ call[request[r].secret].pc = "answered"
    /\ request[r].late => \A s \in Calls : request[r].secret = s => ~Valid(s)
    /\ request[r].late => request[r].pc \in {"key", "refused"}

Inv == TypeOK /\ CallSound /\ Announced /\ LateStaysDead

-----------------------------------------------------------------------------
LEMMA KeyInit == Init => Inv
  <1> SUFFICES ASSUME Init PROVE Inv
    OBVIOUS
  <1>1. TypeOK
    <2>1. \A k \in Calls : NoRow(k, "absent") \in Key
      BY DEF NoRow, Key
    <2> QED BY <2>1 DEF Init, TypeOK, Project, Call, Request
  <1>2. CallSound /\ Announced /\ LateStaysDead
    BY DEF Init, NoRow, CallSound, Announced, LateStaysDead
  <1> QED BY <1>1, <1>2 DEF Inv

\* A write that returned leaves the rest of the call as it was.
LEMMA WrittenCall ==
        ASSUME call \in [Calls -> Call], NEW c \in Calls, Written(c)
        PROVE  /\ call' \in [Calls -> Call]
               /\ call'[c].pc = "audit" /\ call'[c].key = call[c].key
               /\ call'[c].action = call[c].action
               /\ call'[c].wrote = Reflects(c, keys'[call[c].key])
               /\ \A d \in Calls : d # c => call'[d] = call[d]
  <1>1. Reflects(c, keys'[call[c].key]) \in BOOLEAN
    BY Zenon DEF Reflects
  <1>2. call[c] \in Call
    OBVIOUS
  <1> DEFINE w == Reflects(c, keys'[call[c].key])
  <1>3. w \in BOOLEAN /\ call' = [call EXCEPT ![c].pc = "audit", ![c].wrote = w]
    BY <1>1 DEF Written
  <1> HIDE DEF w
  <1>4. /\ call' \in [Calls -> Call]
        /\ call'[c].pc = "audit" /\ call'[c].key = call[c].key
        /\ call'[c].action = call[c].action /\ call'[c].wrote = w
        /\ \A d \in Calls : d # c => call'[d] = call[d]
    BY <1>2, <1>3 DEF Call
  <1> QED BY <1>4 DEF w

LEMMA TypeStep == TypeOK /\ [Next]_vars => TypeOK'
  <1> SUFFICES ASSUME TypeOK, [Next]_vars PROVE TypeOK'
    OBVIOUS
  <1> USE DEF TypeOK, Goto
  <1>a. ASSUME NEW k \in Calls PROVE keys[k] \in Key
    OBVIOUS
  <1>b. ASSUME NEW c \in Calls PROVE call[c] \in Call
    OBVIOUS
  <1>c. ASSUME NEW c \in Calls, Written(c) \/ WriteFails(c)
        PROVE  call' \in [Calls -> Call]
    <2>1. CASE Written(c)
      BY <2>1, WrittenCall
    <2>2. CASE WriteFails(c)
      BY <2>2, <1>b DEF WriteFails, Call
    <2> QED BY <1>c, <2>1, <2>2
  <1>1. ASSUME NEW status \in {"active", "inactive"}, SetProject(status)
        PROVE  TypeOK'
    BY <1>1 DEF SetProject, Project
  <1>2. CASE DeleteProject
    <2>1. \A k \in Calls : NoRow(k, "deleted") \in Key
      BY DEF NoRow, Key
    <2> QED BY <1>2, <2>1 DEF DeleteProject, Project
  <1>3. ASSUME NEW k \in Calls, Expire(k) \/ AdminRevoke(k) PROVE TypeOK'
    <2>0. keys[k] \in Key
      BY <1>a
    <2>1. /\ [keys[k] EXCEPT !.expired = TRUE] \in Key
          /\ [keys[k] EXCEPT !.status = "revoked"] \in Key
      BY <2>0 DEF Key
    <2>2. CASE Expire(k)
      BY <2>1, <2>2 DEF Expire
    <2>3. CASE AdminRevoke(k)
      BY <2>1, <2>3 DEF AdminRevoke
    <2> QED BY <1>3, <2>2, <2>3
  <1>3a. ASSUME NEW k \in Calls, MemberUpdate(k) PROVE TypeOK'
    <2>1. \A status \in {"active", "revoked", "expired"}, s \in Calls, expired \in BOOLEAN :
            [status |-> status, secret |-> s, expired |-> expired,
             used |-> keys[k].used] \in Key
      BY <1>a DEF Key
    <2>2. keys' \in [Calls -> Key]
      BY <1>3a, <2>1 DEF MemberUpdate
    <2>3. ASSUME NEW r \in Requests
          PROVE  [request[r] EXCEPT !.late = @ /\ ~ValidIn(request[r].secret, keys')]
                   \in Request
      BY DEF Request
    <2>4. request' \in [Requests -> Request]
      BY <1>3a, <2>3, Zenon DEF MemberUpdate
    <2> QED BY <1>3a, <2>2, <2>4 DEF MemberUpdate
  <1>4. ASSUME NEW c \in Calls, BeginCreate(c) PROVE TypeOK'
    BY <1>4, <1>b DEF BeginCreate, Call
  <1>5. ASSUME NEW c \in Calls, NEW k \in Calls, NEW action \in {"rotate", "revoke"},
               BeginChange(c, k, action)
        PROVE  TypeOK'
    BY <1>5 DEF BeginChange, Call
  <1>6. ASSUME NEW c \in Calls, Insert(c) PROVE TypeOK'
    <2>1. \A expired \in BOOLEAN :
            [status |-> "active", secret |-> c, expired |-> expired,
             used |-> FALSE] \in Key
      BY DEF Key
    <2>2. keys' \in [Calls -> Key]
      BY <1>6, <2>1 DEF Insert, WriteFails
    <2>3. call' \in [Calls -> Call]
      BY <1>6, <1>c DEF Insert
    <2> QED BY <1>6, <2>2, <2>3 DEF Insert
  <1>7. ASSUME NEW c \in Calls, Rotate(c) PROVE TypeOK'
    <2>1. keys' \in [Calls -> Key]
      BY <1>7, <1>a, <1>b DEF Rotate, WriteFails, Key, Call
    <2>2. call' \in [Calls -> Call]
      BY <1>7, <1>c DEF Rotate
    <2> QED BY <1>7, <2>1, <2>2 DEF Rotate
  <1>8. ASSUME NEW c \in Calls, Revoke(c) PROVE TypeOK'
    <2>1. keys' \in [Calls -> Key]
      BY <1>8, <1>a, <1>b DEF Revoke, WriteFails, Key, Call
    <2>2. call' \in [Calls -> Call]
      BY <1>8, <1>c DEF Revoke
    <2> QED BY <1>8, <2>1, <2>2 DEF Revoke
  <1>9. ASSUME NEW c \in Calls, Audit(c) \/ Dispatch(c) \/ Kill(c) PROVE TypeOK'
    BY <1>9, <1>b DEF Audit, Dispatch, Kill, Call
  <1>10. ASSUME NEW r \in Requests, NEW s \in Calls, Present(r, s) PROVE TypeOK'
    <2>1. [pc |-> "key", secret |-> s, key |-> "none", late |-> ~Valid(s)] \in Request
      BY DEF Request
    <2> QED BY <1>10, <2>1 DEF Present
  <1>11. ASSUME NEW r \in Requests, CheckKey(r) \/ CheckProject(r) PROVE TypeOK'
    BY <1>11 DEF CheckKey, CheckProject, Refuse, Request
  <1>12. ASSUME NEW r \in Requests, Touch(r) PROVE TypeOK'
    BY <1>12, <1>a DEF Touch, Request, Key
  <1>13. CASE UNCHANGED vars
    BY <1>13 DEF vars
  <1> QED BY <1>1, <1>2, <1>3, <1>3a, <1>4, <1>5, <1>6, <1>7, <1>8, <1>9,
             <1>10, <1>11, <1>12, <1>13 DEF Next

\* What a step can do to a row: only its insert creates it, nothing un-creates it,
\* and nothing but a direct update undoes a revocation.
KeysGoForward == \A k \in Calls :
    /\ keys[k].status = "absent" => keys'[k].status = "absent" \/ Insert(k)
    /\ keys[k].status # "absent" => keys'[k].status # "absent"
    /\ keys[k].status \in {"revoked", "deleted"} =>
         keys'[k].status \in {"revoked", "deleted"} \/ MemberUpdate(k)

LEMMA ForwardStep == TypeOK /\ CallSound /\ [Next]_vars => KeysGoForward
  <1> SUFFICES ASSUME TypeOK, CallSound, [Next]_vars PROVE KeysGoForward
    OBVIOUS
  <1> USE DEF TypeOK, KeysGoForward
  <1>a. ASSUME NEW k \in Calls PROVE keys[k] \in Key
    OBVIOUS
  <1>1. CASE UNCHANGED keys
    BY <1>1
  <1>2. CASE DeleteProject
    BY <1>2 DEF DeleteProject, NoRow, Exists, IsRow
  <1>3. ASSUME NEW k \in Calls, Expire(k) \/ AdminRevoke(k) PROVE KeysGoForward
    BY <1>3, <1>a DEF Expire, AdminRevoke, Exists, IsRow, Key
  <1>3a. ASSUME NEW k \in Calls, MemberUpdate(k) PROVE KeysGoForward
    <2>1. \A j \in Calls : j # k => keys'[j] = keys[j]
      BY <1>3a DEF MemberUpdate
    <2>2. keys[k].status # "absent" /\ keys'[k].status # "absent"
      BY <1>3a, <1>a DEF MemberUpdate, Exists, IsRow, Key
    <2> QED BY <1>3a, <2>1, <2>2
  <1>4. ASSUME NEW c \in Calls, Insert(c) PROVE KeysGoForward
    BY <1>4, <1>a DEF Insert, WriteFails, CallSound, Key
  <1>5. ASSUME NEW c \in Calls, Rotate(c) PROVE KeysGoForward
    BY <1>5, <1>a DEF Rotate, WriteFails, Exists, IsRow, Key
  <1>6. ASSUME NEW c \in Calls, Revoke(c) PROVE KeysGoForward
    BY <1>6, <1>a DEF Revoke, WriteFails, Exists, IsRow, Key
  <1>7. ASSUME NEW r \in Requests, Touch(r) PROVE KeysGoForward
    BY <1>7, <1>a DEF Touch, Exists, IsRow, Key
  <1> QED BY <1>1, <1>2, <1>3, <1>3a, <1>4, <1>5, <1>6, <1>7
             DEF Next, vars, SetProject, BeginCreate, BeginChange, Audit, Dispatch,
                 Kill, Present, CheckKey, CheckProject

-----------------------------------------------------------------------------
\* A step is a call's own, or leaves that call, its audit row and its event alone.
Step(c) ==
    \/ BeginCreate(c)
    \/ \E k \in Calls, action \in {"rotate", "revoke"} : BeginChange(c, k, action)
    \/ Insert(c) \/ Rotate(c) \/ Revoke(c) \/ Audit(c) \/ Dispatch(c) \/ Kill(c)

SameCall(c) ==
    /\ call'[c] = call[c]
    /\ c \in audits' \cup events' => c \in audits \cup events

LEMMA CallFrame == ASSUME TypeOK, [Next]_vars, NEW c \in Calls
                   PROVE  SameCall(c) \/ Step(c)
  <1>1. ASSUME NEW d \in Calls, Step(d), d # c PROVE SameCall(c)
    BY <1>1 DEF TypeOK, SameCall, Step, BeginCreate, BeginChange, Insert, Rotate,
                Revoke, Audit, Dispatch, Kill, WriteFails, Written, Goto
  <1>2. CASE UNCHANGED <<call, audits, events>>
    BY <1>2 DEF SameCall
  <1>3. UNCHANGED <<call, audits, events>> \/ \E d \in Calls : Step(d)
    BY DEF Next, vars, Step, SetProject, DeleteProject, Expire, AdminRevoke,
           MemberUpdate, Present, CheckKey, CheckProject, Touch
  <1> QED BY <1>1, <1>2, <1>3

LEMMA CallStep == TypeOK /\ CallSound /\ [Next]_vars => CallSound'
  <1> SUFFICES ASSUME TypeOK, CallSound, [Next]_vars, NEW c \in Calls
               PROVE  /\ call'[c].pc = "idle" => call'[c].action = "create"
                      /\ call'[c].action = "create" => call'[c].key = c
                      /\ call'[c].action = "create" /\ call'[c].pc \in {"idle", "write"}
                           => keys'[c].status = "absent"
                      /\ call'[c].action # "create"
                           => keys'[call'[c].key].status # "absent"
    BY DEF CallSound
  <1>a. KeysGoForward
    BY ForwardStep
  <1>b. call[c] \in Call /\ call \in [Calls -> Call]
    BY DEF TypeOK
  <1>c. call[c].key \in Calls
    BY <1>b DEF Call
  <1>d. Insert(c) => call'[c].pc \in {"audit", "refused"}
    BY <1>b DEF Insert, WriteFails, Written, Goto, Call
  <1>1. CASE SameCall(c)
    BY <1>1, <1>a, <1>c, <1>d DEF SameCall, CallSound, KeysGoForward
  <1>2. CASE BeginCreate(c)
    BY <1>2, <1>b DEF BeginCreate, CallSound, Call
  <1>3. ASSUME NEW k \in Calls, NEW action \in {"rotate", "revoke"},
               BeginChange(c, k, action)
        PROVE  /\ call'[c].pc # "idle" /\ call'[c].action = action
               /\ call'[c].key = k /\ keys'[k].status # "absent"
    BY <1>3, <1>b DEF BeginChange
  <1>4. ASSUME Insert(c) \/ Rotate(c) \/ Revoke(c) \/ Audit(c) \/ Dispatch(c) \/ Kill(c)
        PROVE  /\ call'[c].pc \notin {"idle", "write"}
               /\ call'[c].action = call[c].action /\ call'[c].key = call[c].key
    <2>1. CASE Written(c)
      BY <2>1, <1>b, WrittenCall
    <2>2. CASE ~Written(c)
      BY <1>4, <2>2, <1>b DEF Insert, Rotate, Revoke, Audit, Dispatch, Kill, WriteFails,
                              Goto, Call
    <2> QED BY <2>1, <2>2
  <1>5. SameCall(c) \/ Step(c)
    BY CallFrame
  <1>6. CASE Insert(c) \/ Rotate(c) \/ Revoke(c) \/ Audit(c) \/ Dispatch(c) \/ Kill(c)
    BY <1>4, <1>6, <1>a, <1>c DEF CallSound, KeysGoForward
  <1> QED BY <1>1, <1>2, <1>3, <1>5, <1>6 DEF Step

\* A write that returns without an error did what the call is about.
LEMMA WritesAreMade ==
        ASSUME TypeOK, CallSound, NEW c \in Calls, Insert(c) \/ Rotate(c) \/ Revoke(c)
        PROVE  WriteFails(c) \/ (Written(c) /\ Reflects(c, keys'[call[c].key]))
  <1> DEFINE k == call[c].key
  <1>a. call[c] \in Call /\ k \in Calls
    BY DEF TypeOK, Call
  <1>b. keys[k] \in Key /\ keys \in [Calls -> Key]
    BY <1>a DEF TypeOK
  <1>1. CASE Insert(c)
    BY <1>1, <1>a, <1>b DEF Insert, CallSound, Reflects, IsRow, TypeOK
  <1>2. CASE Rotate(c)
    BY <1>2, <1>a, <1>b DEF Rotate, Reflects, Exists, IsRow, Key
  <1>3. CASE Revoke(c)
    <2>1. keys[k].status # "absent"
      BY <1>3, <1>a DEF Revoke, CallSound
    <2> QED BY <1>3, <2>1, <1>a, <1>b DEF Revoke, Reflects, Exists, IsRow, Key
  <1> QED BY <1>1, <1>2, <1>3

LEMMA AnnouncedStep ==
        TypeOK /\ CallSound /\ Announced /\ [Next]_vars => Announced'
  <1> SUFFICES ASSUME TypeOK, CallSound, Announced, [Next]_vars, NEW c \in Calls
               PROVE  /\ c \in audits' \cup events' =>
                           call'[c].pc \in {"event", "answered", "killed"}
                      /\ (c \in audits' \cup events' \/
                          call'[c].pc \in {"audit", "event", "answered"}) =>
                           call'[c].wrote
    BY DEF Announced
  <1>b. call[c] \in Call /\ call \in [Calls -> Call]
    BY DEF TypeOK
  <1>1. CASE SameCall(c)
    BY <1>1 DEF SameCall, Announced
  <1>2. ASSUME BeginCreate(c) \/ \E k \in Calls, action \in {"rotate", "revoke"} :
                 BeginChange(c, k, action)
        PROVE  /\ call'[c].pc \in {"write", "refused"}
               /\ c \notin audits' \cup events'
    <2>1. CASE BeginCreate(c)
      BY <2>1, <1>b DEF BeginCreate, Announced, Call
    <2>2. ASSUME NEW k \in Calls, NEW action \in {"rotate", "revoke"},
                 BeginChange(c, k, action)
          PROVE  /\ call'[c].pc \in {"write", "refused"}
                 /\ c \notin audits' \cup events'
      BY <2>2, <1>b DEF BeginChange, Announced
    <2> QED BY <1>2, <2>1, <2>2
  <1>3. CASE Insert(c) \/ Rotate(c) \/ Revoke(c)
    <2>1. c \notin audits' \cup events'
      BY <1>3 DEF Insert, Rotate, Revoke, Announced
    <2>2. CASE WriteFails(c)
      BY <2>1, <2>2, <1>b DEF WriteFails, Goto, Call
    <2>3. CASE Written(c) /\ Reflects(c, keys'[call[c].key])
      BY <2>1, <2>3, <1>b, WrittenCall
    <2> QED BY <1>3, <2>2, <2>3, WritesAreMade
  <1>4. CASE Audit(c) \/ Dispatch(c) \/ Kill(c)
    <2>1. /\ call'[c].wrote = call[c].wrote
          /\ call'[c].pc \in {"event", "answered", "killed"}
      BY <1>4, <1>b DEF Audit, Dispatch, Kill, Goto, Call
    <2>2. (c \in audits' \cup events' \/ call'[c].pc \in {"event", "answered"}) =>
            (c \in audits \cup events \/ call[c].pc \in {"audit", "event"})
      BY <1>4, <1>b DEF Audit, Dispatch, Kill, Goto, Call
    <2> QED BY <2>1, <2>2 DEF Announced
  <1> QED BY <1>1, <1>2, <1>3, <1>4, CallFrame DEF Step

\* Only the call that generated a secret puts it in force, and it has then not
\* answered yet; only a direct update does so again.
LEMMA SecretsStayDead ==
        ASSUME TypeOK, [Next]_vars, NEW s \in Calls, call[s].pc = "answered",
               ~Valid(s), \A k \in Calls : ~MemberUpdate(k)
        PROVE  ~Valid(s)'
  <1> SUFFICES ASSUME NEW k \in Calls, InForce(s, keys'[k])
               PROVE  InForce(s, keys[k])
    BY DEF Valid, ValidIn, InForce
  <1>a. keys[k] \in Key /\ keys \in [Calls -> Key]
    BY DEF TypeOK
  <1>1. CASE UNCHANGED keys
    BY <1>1 DEF InForce
  <1>2. CASE DeleteProject
    BY <1>2, <1>a DEF DeleteProject, NoRow, Exists, IsRow, InForce
  <1>3. ASSUME NEW j \in Calls, Expire(j) \/ AdminRevoke(j) PROVE InForce(s, keys[k])
    BY <1>3, <1>a DEF Expire, AdminRevoke, Exists, IsRow, Key, InForce
  <1>4. ASSUME NEW c \in Calls, Insert(c) \/ Rotate(c) PROVE InForce(s, keys[k])
    <2>1. c # s
      BY <1>4 DEF Insert, Rotate
    <2>2. CASE Insert(c)
      BY <2>1, <2>2, <1>a DEF Insert, WriteFails, InForce, Key
    <2>3. CASE Rotate(c)
      BY <2>1, <2>3, <1>a DEF Rotate, WriteFails, InForce, Key
    <2> QED BY <1>4, <2>2, <2>3
  <1>5. ASSUME NEW c \in Calls, Revoke(c) PROVE InForce(s, keys[k])
    BY <1>5, <1>a DEF Revoke, WriteFails, InForce, Key
  <1>6. ASSUME NEW r \in Requests, Touch(r) PROVE InForce(s, keys[k])
    BY <1>6, <1>a DEF Touch, InForce, Key
  <1> QED BY <1>1, <1>2, <1>3, <1>4, <1>5, <1>6
             DEF Next, vars, SetProject, BeginCreate, BeginChange, Audit, Dispatch,
                 Kill, Present, CheckKey, CheckProject

LEMMA LateStep == TypeOK /\ LateStaysDead /\ [Next]_vars => LateStaysDead'
  <1> SUFFICES ASSUME TypeOK, LateStaysDead, [Next]_vars, NEW r \in Requests,
                      request'[r].pc # "idle"
               PROVE  /\ request'[r].secret \in Calls
                      /\ call'[request'[r].secret].pc = "answered"
                      /\ request'[r].late => \A s \in Calls :
                           request'[r].secret = s => ~Valid(s)'
                      /\ request'[r].late => request'[r].pc \in {"key", "refused"}
    BY DEF LateStaysDead
  <1> DEFINE s == request[r].secret
  <1>a. request[r] \in Request /\ request \in [Requests -> Request]
    BY DEF TypeOK
  <1>b. ASSUME NEW c \in Calls, call[c].pc = "answered"
        PROVE  call'[c].pc = "answered"
    <2>1. ~Step(c)
      BY <1>b DEF Step, BeginCreate, BeginChange, Insert, Rotate, Revoke, Audit,
                  Dispatch, Kill
    <2> QED BY <1>b, <2>1, CallFrame DEF SameCall
  <1>0. CASE \E k \in Calls : MemberUpdate(k)
    <2>1. /\ UNCHANGED call
          /\ request'[r] = [request[r] EXCEPT !.late = @ /\ ~ValidIn(s, keys')]
      BY <1>0, <1>a, Zenon DEF MemberUpdate
    <2>2. /\ request'[r].pc = request[r].pc /\ request'[r].secret = s
          /\ request'[r].late => request[r].late /\ ~ValidIn(s, keys')
      BY <2>1, <1>a DEF Request
    <2>3. \A t \in Calls : s = t /\ ~ValidIn(s, keys') => ~Valid(t)'
      BY DEF Valid, ValidIn, InForce
    <2> QED BY <2>1, <2>2, <2>3 DEF LateStaysDead
  <1>1. CASE request'[r] = request[r] /\ \A k \in Calls : ~MemberUpdate(k)
    <2>1. request[r].late => \A t \in Calls : s = t => ~Valid(t) /\ ~Valid(t)'
      BY <1>1, SecretsStayDead DEF LateStaysDead
    <2> QED BY <1>1, <1>b, <2>1 DEF LateStaysDead
  <1>2. ASSUME NEW t \in Calls, Present(r, t)
        PROVE  /\ request'[r].secret = t /\ call'[t].pc = "answered"
               /\ request'[r].late <=> ~Valid(t) /\ request'[r].pc = "key"
               /\ Valid(t)' <=> Valid(t)
    BY <1>2, <1>a DEF Present, Valid, ValidIn, InForce
  <1>3. CASE CheckKey(r) \/ CheckProject(r) \/ Touch(r)
    <2>1. /\ s \in Calls /\ call[s].pc = "answered"
          /\ request[r].late => ~Valid(s) /\ request[r].pc \in {"key", "refused"}
      BY <1>3 DEF LateStaysDead, CheckKey, CheckProject, Touch
    <2>2. /\ request'[r].secret = s /\ request'[r].late = request[r].late
          /\ UNCHANGED call
      BY <1>3, <1>a DEF CheckKey, CheckProject, Touch, Refuse, Request
    <2>3. request[r].late => request'[r].pc \in {"key", "refused"}
      BY <1>3, <1>a, <2>1 DEF CheckKey, CheckProject, Touch, Refuse, Request, Valid, ValidIn
    <2>4. ~Valid(s) => \A t \in Calls : s = t => ~Valid(t)'
      <3>1. \A k \in Calls : ~MemberUpdate(k)
        <4>1. request'[r].pc # request[r].pc
          BY <1>3, <1>a DEF CheckKey, CheckProject, Touch, Refuse, Request
        <4>2. ASSUME NEW k \in Calls, MemberUpdate(k) PROVE request'[r].pc = request[r].pc
          BY <4>2, <1>a, Zenon DEF MemberUpdate, Request
        <4> QED BY <4>1, <4>2
      <3> QED BY <2>1, <3>1, SecretsStayDead
    <2> QED BY <2>1, <2>2, <2>3, <2>4
  <1>4. \/ \E k \in Calls : MemberUpdate(k)
        \/ request'[r] = request[r]
        \/ \E t \in Calls : Present(r, t)
        \/ CheckKey(r) \/ CheckProject(r) \/ Touch(r)
    <2>1. ASSUME NEW q \in Requests, q # r,
                 (\E t \in Calls : Present(q, t)) \/ CheckKey(q) \/ CheckProject(q)
                   \/ Touch(q)
          PROVE  request'[r] = request[r]
      BY <2>1, <1>a DEF Present, CheckKey, CheckProject, Touch, Refuse
    <2>2. \/ UNCHANGED request \/ \E k \in Calls : MemberUpdate(k)
          \/ \E q \in Requests :
            (\E t \in Calls : Present(q, t)) \/ CheckKey(q) \/ CheckProject(q)
              \/ Touch(q)
      BY DEF Next, vars, SetProject, DeleteProject, Expire, AdminRevoke, BeginCreate,
             BeginChange, Insert, Rotate, Revoke, Audit, Dispatch, Kill
    <2> QED BY <2>1, <2>2
  <1> QED BY <1>0, <1>1, <1>2, <1>3, <1>4

-----------------------------------------------------------------------------
LEMMA KeyInvariant == Spec => []Inv
  <1>1. Inv /\ [Next]_vars => Inv'
    BY TypeStep, CallStep, AnnouncedStep, LateStep DEF Inv
  <1> QED BY KeyInit, <1>1, PTL DEF Spec

\* The tables, the dashboard calls and the requests stay well typed
\* (0002_api_keys_and_usage.sql:8-22).
THEOREM KeysTypeCorrect == Spec => []TypeOK
  <1>1. Inv => TypeOK
    BY DEF Inv
  <1> QED BY KeyInvariant, <1>1, PTL

\* No request that started with a dead secret is accepted, for any number of
\* calls that rotate, revoke, delete or expire keys around it, unless a direct
\* update put that secret back (authenticate.ts:43-73).
THEOREM DeadSecretsAreRefused == Spec => []NoDeadSecretAccepted
  <1>1. Inv => NoDeadSecretAccepted
    BY DEF Inv, LateStaysDead, NoDeadSecretAccepted
  <1> QED BY KeyInvariant, <1>1, PTL

\* Every audit row, event and answer is of a change that its own call made in the
\* table (api-keys-rotate:54-106, api-keys-create:72-112).
THEOREM AnnouncementsAreTrue == Spec => []AnnouncedIsTrue
  <1>1. Inv => AnnouncedIsTrue
    BY DEF Inv, Announced, AnnouncedIsTrue
  <1> QED BY KeyInvariant, <1>1, PTL

\* Only a member's direct update (0004_row_level_security.sql:132-134) revives a
\* revoked key, whatever rotation was under way (api-keys-rotate:54-90).
THEOREM OnlyMembersUnrevoke == Spec => RevocationStands
  <1> DEFINE Step1 == \A k \in Calls : keys[k].status = "revoked" =>
               keys'[k].status \in {"revoked", "deleted"} \/ MemberUpdate(k)
  <1>1. Inv /\ [Next]_vars => [Step1]_vars
    BY ForwardStep DEF Inv, KeysGoForward
  <1> QED BY KeyInvariant, <1>1, PTL DEF Spec, RevocationStands
=============================================================================
