------------------------------ MODULE ApiKeys ------------------------------
(***************************************************************************)
(* The API keys of one project. Dashboard calls create, rotate and revoke  *)
(* keys: they look the key up, write the row, insert an audit row and      *)
(* dispatch an event, each an await of its own. The super-admin page       *)
(* revokes by a direct update of the row, and the policies let every       *)
(* member of the organization update it directly as well. Meanwhile        *)
(* requests present secrets to authenticateRequest, which reads the key    *)
(* and then the project and stamps last_used_at without waiting for the    *)
(* update.                                                                 *)
(*                                                                         *)
(* A call names the key it creates and the secret it generates: both are   *)
(* random and unique. A secret is presented once the call that generated   *)
(* it has answered, since nothing else ever reveals it. Left out: names,   *)
(* scopes and environments, calls that change nothing for want of a        *)
(* session or a membership or because a lookup fails, and rows that a      *)
(* member inserts or moves directly (Tenancy has those).                   *)
(***************************************************************************)
EXTENDS Naturals

CONSTANTS Calls,     \* dashboard calls of api-keys-create and api-keys-rotate
          Requests,  \* calls of authenticateRequest
          Failures,  \* which of "read", "write", "audit" and "crash" can happen
          Direct     \* bound of the model: keys that members update directly

VARIABLES project,   \* status of the project
          keys,      \* table api_keys; a key is named after the call creating it
          audits,    \* calls whose audit_logs row exists
          events,    \* calls that dispatched their event
          call,      \* local state of every dashboard call
          request    \* local state of every authentication

vars == <<project, keys, audits, events, call, request>>

Project == {"active", "inactive", "deleted"}   \* inactive: archived or suspended
Key     == [status : {"absent", "active", "revoked", "expired", "deleted"},
            secret : Calls,                    \* key_hash
            expired : BOOLEAN,                 \* expires_at is past
            used : BOOLEAN]                    \* last_used_at is not null
Call    == [pc : {"idle", "write", "audit", "event", "answered", "refused",
                  "killed"},
            action : {"create", "rotate", "revoke"},
            key : Calls,
            wrote : BOOLEAN]   \* history: its change was in the table when its
                               \* write returned
Request == [pc : {"idle", "key", "project", "accepted", "done", "refused"},
            secret : Calls \cup {"none"}, key : Calls \cup {"none"},
            late : BOOLEAN]  \* history: the secret was dead when it started and
                             \* no member put it back in force by hand since

TypeOK ==
    /\ project \in Project
    /\ keys \in [Calls -> Key]
    /\ audits \subseteq Calls
    /\ events \subseteq Calls
    /\ call \in [Calls -> Call]
    /\ request \in [Requests -> Request]

\* The columns of a row that is not there have no meaning.
NoRow(k, status) == [status |-> status, secret |-> k, expired |-> FALSE,
                     used |-> FALSE]

Init ==
    /\ project = "active"
    /\ keys = [k \in Calls |-> NoRow(k, "absent")]
    /\ audits = {}
    /\ events = {}
    /\ call = [c \in Calls |-> [pc |-> "idle", action |-> "create", key |-> c,
                             wrote |-> FALSE]]
    /\ request = [r \in Requests |-> [pc |-> "idle", secret |-> "none",
                                      key |-> "none", late |-> FALSE]]

IsRow(row) == row.status \in {"active", "revoked", "expired"}
Exists(k)  == IsRow(keys[k])

\* A secret that authenticates: the hash of a row whose status is not 'revoked'
\* and whose expires_at is not past. The status 'expired' is not looked at.
InForce(s, row)   == row.secret = s /\ row.status \in {"active", "expired"} /\
                     ~row.expired
ValidIn(s, table) == \E k \in Calls : InForce(s, table[k])
Valid(s)          == ValidIn(s, keys)

Goto(c, pc) == call' = [call EXCEPT ![c].pc = pc]

\* The write of a call returns without an error, and the call goes on.
Reflects(c, row) ==
    \/ call[c].action = "revoke" /\ row.status \in {"revoked", "deleted"}
    \/ call[c].action # "revoke" /\ row.secret = c /\ IsRow(row)
Written(c) == call' = [call EXCEPT ![c].pc = "audit",
                                   ![c].wrote = Reflects(c, keys'[call[c].key])]

-----------------------------------------------------------------------------
\* projects-update: any status over any other.
SetProject(status) ==
    /\ project # "deleted"
    /\ project' = status
    /\ UNCHANGED <<keys, audits, events, call, request>>

\* deleteProject: the keys go with their project.
DeleteProject ==
    /\ project # "deleted"
    /\ project' = "deleted"
    /\ keys' = [k \in Calls |-> IF Exists(k) THEN NoRow(k, "deleted")
                                ELSE keys[k]]
    /\ UNCHANGED <<audits, events, call, request>>

ExpireByStatus(k) ==
    /\ Exists(k) /\ ~keys[k].expired
    /\ keys' = [keys EXCEPT ![k].expired = TRUE, ![k].status = "lapsed"]
    /\ UNCHANGED <<project, audits, events, call, request>>

\* A key created with expires_at reaches it.
Expire(k) ==
    /\ Exists(k) /\ ~keys[k].expired
    /\ keys' = [keys EXCEPT ![k].expired = TRUE]
    /\ UNCHANGED <<project, audits, events, call, request>>

\* AdminApiKeysPage.handleRevoke: the row as it is now, no audit row, no event.
AdminRevoke(k) ==
    /\ Exists(k)
    /\ keys' = [keys EXCEPT ![k].status = "revoked"]
    /\ UNCHANGED <<project, audits, events, call, request>>

\* Policy api_keys_update_project_member_or_admin: a member writes what they like
\* of status, expires_at and key_hash, as far as the checks on the columns go; of
\* hashes they know those of secrets that were shown. key_hash is unique.
MemberUpdate(k) ==
    /\ k \in Direct /\ Exists(k)
    /\ \E status \in {"active", "revoked", "expired"}, s \in Calls, expired \in BOOLEAN :
         /\ s = keys[k].secret \/ (call[s].pc = "answered" /\ call[s].action # "revoke")
         /\ \A j \in Calls \ {k} : Exists(j) => keys[j].secret # s
         /\ keys' = [keys EXCEPT ![k] = [status |-> status, secret |-> s,
                                         expired |-> expired, used |-> @.used]]
    /\ request' = [r \in Requests |-> [request[r] EXCEPT !.late =
                     @ /\ ~ValidIn(request[r].secret, keys')]]
    /\ UNCHANGED <<project, audits, events, call>>

-----------------------------------------------------------------------------
\* api-keys-create sees the project, whatever its status.
BeginCreate(c) ==
    /\ call[c].pc = "idle"
    /\ call' = [call EXCEPT ![c].pc = IF project = "deleted" THEN "refused"
                                      ELSE "write"]
    /\ UNCHANGED <<project, keys, audits, events, request>>

\* api-keys-rotate acts on active keys only; the row may change before the write.
BeginChange(c, k, action) ==
    /\ call[c].pc = "idle"
    /\ keys[k].status # "absent"
    /\ call' = [call EXCEPT ![c] = [action |-> action, key |-> k, wrote |-> FALSE,
                  pc |-> IF keys[k].status = "active" THEN "write" ELSE "refused"]]
    /\ UNCHANGED <<project, keys, audits, events, request>>

WriteFails(c) ==
    /\ Goto(c, "refused")
    /\ UNCHANGED keys

\* expires_at may be past already. The insert fails with its project gone, on a
\* prefix that is taken, or on an error.
Insert(c) ==
    /\ call[c].pc = "write" /\ call[c].action = "create"
    /\ \/ /\ project # "deleted"
          /\ \E expired \in BOOLEAN :
               keys' = [keys EXCEPT ![c] = [status |-> "active", secret |-> c,
                                            expired |-> expired, used |-> FALSE]]
          /\ Written(c)
       \/ (project = "deleted" \/ "write" \in Failures) /\ WriteFails(c)
    /\ UNCHANGED <<project, audits, events, request>>

RotateReviving(c) ==
    /\ call[c].pc = "write" /\ call[c].action = "rotate"
    /\ LET k == call[c].key
       IN  \/ /\ Exists(k)
              /\ keys' = [keys EXCEPT ![k].secret = c, ![k].used = FALSE,
                                      ![k].status = "active"]
              /\ Written(c)
           \/ (~Exists(k) \/ "write" \in Failures) /\ WriteFails(c)
    /\ UNCHANGED <<project, audits, events, request>>

RotateIgnoringError(c) ==
    /\ call[c].pc = "write" /\ call[c].action = "rotate"
    /\ LET k == call[c].key
       IN  \/ Exists(k) /\ keys' = [keys EXCEPT ![k].secret = c, ![k].used = FALSE]
           \/ (~Exists(k) \/ "write" \in Failures) /\ UNCHANGED keys
    /\ Written(c)
    /\ UNCHANGED <<project, audits, events, request>>

\* The new hash overwrites the old one, revoked since the lookup or not. With
\* the row gone .single() is an error.
Rotate(c) ==
    /\ call[c].pc = "write" /\ call[c].action = "rotate"
    /\ LET k == call[c].key
       IN  \/ /\ Exists(k)
              /\ keys' = [keys EXCEPT ![k].secret = c, ![k].used = FALSE]
              /\ Written(c)
           \/ (~Exists(k) \/ "write" \in Failures) /\ WriteFails(c)
    /\ UNCHANGED <<project, audits, events, request>>

\* An update that finds no row is no error.
Revoke(c) ==
    /\ call[c].pc = "write" /\ call[c].action = "revoke"
    /\ LET k == call[c].key
       IN  \/ /\ keys' = IF Exists(k) THEN [keys EXCEPT ![k].status = "revoked"]
                         ELSE keys
              /\ Written(c)
           \/ "write" \in Failures /\ WriteFails(c)
    /\ UNCHANGED <<project, audits, events, request>>

AuditOrAnswer(c) ==
    /\ call[c].pc = "audit"
    /\ \/ /\ audits' = audits \cup {c}
          /\ Goto(c, IF call[c].action = "rotate" THEN "answered" ELSE "event")
       \/ /\ "audit" \in Failures
          /\ Goto(c, "answered")
          /\ UNCHANGED audits
    /\ UNCHANGED <<project, keys, events, request>>

\* The error of the audit insert is not looked at. A rotation has no event.
Audit(c) ==
    /\ call[c].pc = "audit"
    /\ \/ audits' = audits \cup {c}
       \/ "audit" \in Failures /\ UNCHANGED audits
    /\ Goto(c, IF call[c].action = "rotate" THEN "answered" ELSE "event")
    /\ UNCHANGED <<project, keys, events, request>>

\* dispatchWebhookEvent, then the answer: see WebhookDispatch.
Dispatch(c) ==
    /\ call[c].pc = "event"
    /\ events' = events \cup {c}
    /\ Goto(c, "answered")
    /\ UNCHANGED <<project, keys, audits, request>>

Kill(c) ==
    /\ "crash" \in Failures
    /\ call[c].pc \in {"write", "audit", "event"}
    /\ Goto(c, "killed")
    /\ UNCHANGED <<project, keys, audits, events, request>>

-----------------------------------------------------------------------------
\* A client sends a secret some call answered with.
Present(r, s) ==
    /\ request[r].pc = "idle"
    /\ call[s].pc = "answered" /\ call[s].action \in {"create", "rotate"}
    /\ request' = [request EXCEPT ![r] = [pc |-> "key", secret |-> s,
                                          key |-> "none", late |-> ~Valid(s)]]
    /\ UNCHANGED <<project, keys, audits, events, call>>

Refuse(r) == request' = [request EXCEPT ![r].pc = "refused"]

CheckKeyByHash(r) ==
    /\ request[r].pc = "key"
    /\ \/ \E k \in Calls :
            /\ Exists(k) /\ keys[k].secret = request[r].secret
            /\ ~keys[k].expired
            /\ request' = [request EXCEPT ![r].pc = "project", ![r].key = k]
       \/ (~Valid(request[r].secret) \/ "read" \in Failures) /\ Refuse(r)
    /\ UNCHANGED <<project, keys, audits, events, call>>

\* The row with this hash, neither revoked nor expired.
CheckKey(r) ==
    /\ request[r].pc = "key"
    /\ \/ \E k \in Calls :
            /\ InForce(request[r].secret, keys[k])
            /\ request' = [request EXCEPT ![r].pc = "project", ![r].key = k]
       \/ (~Valid(request[r].secret) \/ "read" \in Failures) /\ Refuse(r)
    /\ UNCHANGED <<project, keys, audits, events, call>>

CheckProject(r) ==
    /\ request[r].pc = "project"
    /\ \/ project = "active" /\ request' = [request EXCEPT ![r].pc = "accepted"]
       \/ (project # "active" \/ "read" \in Failures) /\ Refuse(r)
    /\ UNCHANGED <<project, keys, audits, events, call>>

\* The update nobody waits for reaches the row, rotated or revoked since or not.
Touch(r) ==
    /\ request[r].pc = "accepted"
    /\ request' = [request EXCEPT ![r].pc = "done"]
    /\ LET k == request[r].key
       IN  keys' = IF Exists(k) THEN [keys EXCEPT ![k].used = TRUE] ELSE keys
    /\ UNCHANGED <<project, audits, events, call>>

Next ==
    \/ \E status \in {"active", "inactive"} : SetProject(status)
    \/ DeleteProject
    \/ \E k \in Calls : Expire(k) \/ AdminRevoke(k) \/ MemberUpdate(k)
    \/ \E c \in Calls :
         \/ BeginCreate(c)
         \/ \E k \in Calls, action \in {"rotate", "revoke"} :
              BeginChange(c, k, action)
         \/ Insert(c) \/ Rotate(c) \/ Revoke(c) \/ Audit(c) \/ Dispatch(c)
         \/ Kill(c)
    \/ \E r \in Requests :
         \/ \E s \in Calls : Present(r, s)
         \/ CheckKey(r) \/ CheckProject(r) \/ Touch(r)

Spec == Init /\ [][Next]_vars

\* While dashboard calls are under way one of them goes on: what they await
\* returns. Nothing makes the detached update of last_used_at arrive.
Fairness == WF_vars(\E c \in Calls :
    Insert(c) \/ Rotate(c) \/ Revoke(c) \/ Audit(c) \/ Dispatch(c))

FairSpec == Spec /\ Fairness

-----------------------------------------------------------------------------
\* A secret that was revoked, rotated away, expired or deleted when a request
\* started is not accepted, whatever calls race with it, unless a member of the
\* organization put it back by a direct update meanwhile ("Revoke immediately
\* invalidates a key", docsContent.ts:60; "stops authenticating instantly",
\* api-keys-rotate:7; authenticate.ts:43-73).
NoDeadSecretAccepted == \A r \in Requests :
    request[r].pc \in {"accepted", "done"} => ~request[r].late

\* What was audited, announced or answered with success was done, by that very
\* call: when its write returned the key was revoked or gone, or the row carried
\* the hash of the secret the caller is shown (api-keys-rotate:54-80, 87-106;
\* api-keys-create:72-112).
AnnouncedIsTrue == \A c \in Calls :
    c \in audits \cup events \/ call[c].pc = "answered" => call[c].wrote

\* Nothing but a member's direct update of the row makes a revoked key anything
\* else again: no rotation that found the key active, no stamp of last_used_at, no
\* page. "There's no way to un-revoke a key" (docsContent.ts:60) is true of the
\* functions and the dashboards, and false of the policies: 0004:132-134.
RevocationStands == [][\A k \in Calls : keys[k].status = "revoked" =>
    keys'[k].status \in {"revoked", "deleted"} \/ MemberUpdate(k)]_vars

\* In the end every call that created or revoked a key has dispatched its event,
\* unless its isolate was killed, the audit row failing or not
\* (api-keys-create:91-105, api-keys-rotate:66-78).
EventFollows == <>[](\A c \in Calls :
    (call[c].pc \in {"audit", "event", "answered"} /\ call[c].action # "rotate")
        => c \in events)

=============================================================================
