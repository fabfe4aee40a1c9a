----------------------------- MODULE ProjectPage -----------------------------
(***************************************************************************)
(* ApiKeysPage and WebhooksPage: one page with a select of projects, the   *)
(* list of what the selected project has, and handlers that change it and  *)
(* list again.  The effect that lists after a selection is never           *)
(* cancelled, and a handler lists the project that was selected when it    *)
(* was called; so lists arrive for projects no longer selected.  The page  *)
(* is alone with its rows here: what else changes a key while a call is    *)
(* under way is ApiKeys' subject, and a call changes its row in one step.  *)
(***************************************************************************)
EXTENDS Naturals, Sequences

CONSTANTS
    Projects,       \* what listMyProjects answers, newest first
    Items,          \* ids of keys or webhooks
    NoProject,      \* the empty projectId
    NoItem,         \* null
    Calls,          \* runs of the effect and of the handlers
    Faults          \* bound on the calls that fail

ProjectIds == {Projects[n] : n \in DOMAIN Projects}

VARIABLES
    kind,           \* which of the two pages it is
    item,           \* the rows of api_keys or webhooks
    selected,       \* projectId
    shown,          \* keys, webhooks
    revealed,       \* revealedSecret, and the row it is of
    busy,           \* busyId
    creating,
    call,           \* the runs
    lists,          \* history: which list is shown
    entangled,      \* history: rows two calls overlapped on, or whose call was lost
    faults          \* calls that have failed

vars == <<kind, item, selected, shown, revealed, busy, creating, call, lists,
          entangled, faults>>

NoCall == [pc |-> "new", what |-> "none", of |-> NoProject, id |-> NoItem,
           to |-> "none", secret |-> 0, nth |-> 0, rows |-> {}]

NoSecret == [id |-> NoItem, secret |-> 0]

Init ==
    /\ kind \in {"keys", "webhooks"}
    /\ item \in [Items -> {[of |-> NoProject, status |-> "none", secret |-> 0]} \cup
                          [of : ProjectIds, status : {"active"}, secret : {1}]]
    /\ selected = NoProject
    /\ shown = {}
    /\ revealed = NoSecret
    /\ busy = NoItem
    /\ creating = FALSE
    /\ call = [c \in Calls |-> NoCall]
    /\ lists = [begun |-> 0, last |-> 0, switched |-> FALSE]
    /\ entangled = {}
    /\ faults = 0

\* Runs are alike: which of those not begun is next does not matter.
NextCall == CHOOSE c \in Calls : call[c].pc = "new"

Break == faults < Faults /\ faults' = faults + 1

InFlight(c) == call[c].pc \notin {"new", "done"}

Exists(i) == item[i].status \notin {"none", "gone"}

\* Variant: the list is not filtered by its project.
RowsOfAnyProject(p) == {[id |-> i, status |-> item[i].status] : i \in {i \in Items : Exists(i)}}

\* listApiKeysForProject, listWebhooks
RowsOf(p) ==
    {[id |-> i, status |-> item[i].status] : i \in {i \in Items : Exists(i) /\ item[i].of = p}}

-----------------------------------------------------------------------------
(* What the user does. *)

\* Reads the list of project r.of, on behalf of run c.
List(c, r) ==
    /\ call' = [call EXCEPT ![c] = [r EXCEPT !.pc = "read", !.nth = lists.begun + 1]]
    /\ lists' = [lists EXCEPT !.begun = @ + 1]

\* The first project, the one the link came from, or one from the select.
Choose(c, p) ==
    /\ call[c].pc = "new" /\ c = NextCall
    /\ p # selected
    /\ selected = NoProject => kind = "keys" \/ p = Head(Projects)
    /\ selected' = p
    /\ call' = [call EXCEPT ![c] = [NoCall EXCEPT !.pc = "read", !.what = "list", !.of = p,
                                                  !.nth = lists.begun + 1]]
    /\ lists' = [lists EXCEPT !.begun = @ + 1,
                   !.switched = \E d \in Calls : InFlight(d) /\ call[d].what # "list"]
    /\ UNCHANGED <<kind, item, shown, revealed, busy, creating, entangled, faults>>

Start(c, what, i, to) ==
    /\ call[c].pc = "new" /\ c = NextCall
    /\ call' = [call EXCEPT ![c] = [NoCall EXCEPT !.pc = "write", !.what = what,
                                                  !.of = selected, !.id = i, !.to = to]]
    /\ entangled' = IF \E d \in Calls : InFlight(d) /\ call[d].id = i
                    THEN entangled \cup {i} ELSE entangled
    /\ UNCHANGED <<kind, item, selected, shown, revealed, lists, faults>>

Create(c) ==
    /\ selected # NoProject /\ ~creating
    /\ Start(c, "create", NoItem, "active")
    /\ creating' = TRUE
    /\ UNCHANGED busy

\* A handler of ApiKeysPage ...
RotateOrRevoke(c, row, what) ==
    /\ kind = "keys"
    /\ Start(c, what, row.id, IF what = "revoke" THEN "revoked" ELSE "active")
    /\ busy' = row.id
    /\ UNCHANGED creating

\* ... and of WebhooksPage, which keeps no busyId.
ToggleOrDelete(c, row, what) ==
    /\ kind = "webhooks"
    /\ Start(c, what, row.id, CASE what = "delete" -> "gone"
                                [] row.status = "active" -> "disabled"
                                [] OTHER -> "active")
    /\ UNCHANGED <<busy, creating>>

Dismiss ==
    /\ revealed # NoSecret
    /\ revealed' = NoSecret
    /\ UNCHANGED <<kind, item, selected, shown, busy, creating, call, lists, entangled, faults>>

-----------------------------------------------------------------------------
(* What the functions do.  A key that is not active, a webhook that is     *)
(* gone, is refused.                                                       *)

Accepts(i) == IF kind = "keys" THEN item[i].status = "active" ELSE Exists(i)

Insert(c) ==
    /\ call[c].pc = "write" /\ call[c].what = "create"
    /\ \E i \in Items :
         /\ item[i].status = "none"
         /\ item' = [item EXCEPT ![i] = [of |-> call[c].of, status |-> "active", secret |-> 1]]
         /\ call' = [call EXCEPT ![c].pc = "written", ![c].id = i, ![c].secret = 1]
    /\ UNCHANGED <<kind, selected, shown, revealed, busy, creating, lists, entangled, faults>>

Update(c) ==
    /\ call[c].pc = "write" /\ call[c].what # "create"
    /\ LET i == call[c].id IN
       IF Accepts(i)
       THEN LET s == IF call[c].what = "rotate" THEN item[i].secret + 1 ELSE item[i].secret IN
            /\ item' = [item EXCEPT ![i].status = call[c].to, ![i].secret = s]
            /\ call' = [call EXCEPT ![c].pc = "written", ![c].secret = s]
       ELSE call' = [call EXCEPT ![c].pc = "failed"] /\ UNCHANGED item
    /\ UNCHANGED <<kind, selected, shown, revealed, busy, creating, lists, entangled, faults>>

\* The call fails, before or after the function is done.
Lose(c) ==
    /\ call[c].pc \in {"write", "written"}
    /\ Break
    /\ call' = [call EXCEPT ![c].pc = "failed"]
    /\ entangled' = IF call[c].pc = "written" THEN entangled \cup {call[c].id} ELSE entangled
    /\ UNCHANGED <<kind, item, selected, shown, revealed, busy, creating, lists>>

Read(c) ==
    /\ call[c].pc = "read"
    /\ \/ /\ call' = [call EXCEPT ![c].pc = "listed", ![c].rows = RowsOf(call[c].of)]
          /\ UNCHANGED faults
       \/ Break /\ call' = [call EXCEPT ![c].pc = "failed"]
    /\ UNCHANGED <<kind, item, selected, shown, revealed, busy, creating, lists, entangled>>

-----------------------------------------------------------------------------
(* What arrives. *)

\* Variant: a secret that is on the page stays there.
RevealedFirst(c) ==
    IF call[c].what \in {"create", "rotate"} /\ revealed = NoSecret
    THEN [id |-> call[c].id, secret |-> call[c].secret] ELSE revealed

Revealed(c) ==
    IF call[c].what \in {"create", "rotate"}
    THEN [id |-> call[c].id, secret |-> call[c].secret] ELSE revealed

\* The handler goes on with the projectId it was called with.
TakeAnswer(c) ==
    /\ call[c].pc = "written"
    /\ revealed' = Revealed(c)
    /\ List(c, call[c])
    /\ UNCHANGED <<kind, item, selected, shown, busy, creating, entangled, faults>>

\* finally: setCreating(false), or setBusyId(null) whoever is busy by now.
Finish(c) ==
    /\ creating' = (creating /\ call[c].what # "create")
    /\ busy' = IF call[c].what \in {"rotate", "revoke"} THEN NoItem ELSE busy
    /\ call' = [call EXCEPT ![c] = [NoCall EXCEPT !.pc = "done"]]

TakeList(c) ==
    /\ call[c].pc = "listed"
    /\ shown' = call[c].rows
    /\ lists' = [lists EXCEPT !.last = call[c].nth]
    /\ Finish(c)
    /\ UNCHANGED <<kind, item, selected, revealed, entangled, faults>>

TakeError(c) ==
    /\ call[c].pc = "failed"
    /\ Finish(c)
    /\ UNCHANGED <<kind, item, selected, shown, revealed, lists, entangled, faults>>

\* The buttons of the rows.
ApiKeysPage ==
    \E c \in Calls, row \in shown, what \in {"rotate", "revoke"} :
        row.status = "active" /\ busy # row.id /\ RotateOrRevoke(c, row, what)

WebhooksPage ==
    \E c \in Calls, row \in shown, what \in {"toggle", "delete"} : ToggleOrDelete(c, row, what)

Next ==
    \/ \E c \in Calls, p \in ProjectIds : Choose(c, p)
    \/ ApiKeysPage \/ WebhooksPage
    \/ \E c \in Calls : \/ Create(c) \/ Insert(c) \/ Update(c) \/ Lose(c) \/ Read(c)
                        \/ TakeAnswer(c) \/ TakeList(c) \/ TakeError(c)
    \/ Dismiss

Spec == Init /\ [][Next]_vars

-----------------------------------------------------------------------------
AtRest == \A c \in Calls : ~InFlight(c)

(* ApiKeysPage:36-39, WebhooksPage:38-41: at rest, the list is the one of  *)
(* the selected project and is up to date, unless the project was switched *)
(* under a handler, an older list arrived last, or a call was lost.        *)
ListIsOfSelected ==
    selected # NoProject /\ AtRest
    /\ lists.last = lists.begun /\ ~lists.switched /\ faults = 0
        => shown = {[id |-> i, status |-> item[i].status] :
                      i \in {i \in Items : Exists(i) /\ item[i].of = selected}}

(* The secret on the page "won't be shown again" (ApiKeysPage:129): it is  *)
(* the one its row has now, whichever row was rotated after it, unless     *)
(* calls on that very row overlapped or the answer of one was lost.        *)
RevealedSecretIsCurrent ==
    revealed # NoSecret /\ revealed.id \notin entangled
    /\ (\A c \in Calls : InFlight(c) => call[c].id # revealed.id)
        => item[revealed.id].secret = revealed.secret

=============================================================================
