----------------------------- MODULE ProjectEdits -----------------------------
(***************************************************************************)
(* Editing one project.  Members have it open in several tabs: the detail  *)
(* page renames it, the settings page saves its description and status     *)
(* together, or deletes it.  Both call projects-update, which updates the  *)
(* fields it was sent and then dispatches project.updated.  The event      *)
(* names the fields and holds no value of them: a subscriber that wants    *)
(* the values reads them, after the event.                                 *)
(*                                                                         *)
(* Who may update a row is in Tenancy, what a status does to API keys in   *)
(* ApiKeys, the delivery of an event in WebhookDispatch.                   *)
(***************************************************************************)
EXTENDS FiniteSets, Naturals

CONSTANTS
    Views,          \* tabs
    Values,         \* of a field
    NoValue,        \* a field that is not sent, and every field of a deleted row
    Edits,          \* calls of projects-update
    Mishaps         \* bound on what fails

Fields == {"name", "description", "status"}
Settings == {"description", "status"}

VARIABLES
    project,        \* the row
    page,           \* the page in each tab
    edit,           \* the calls
    mirror,         \* external: what the subscriber has read
    due,            \* external: fields named by events since
    untold,         \* history: an event was lost
    editor,         \* history: tab whose edit of a field was applied last
    muddled,        \* history: tabs whose edits overlapped, or lack an answer
    mishaps         \* what has failed

vars == <<project, page, edit, mirror, due, untold, editor, muddled, mishaps>>

NoEdit == [pc |-> "new", view |-> NoValue, patch |-> [f \in Fields |-> NoValue]]

Init ==
    /\ project = [f \in Fields |-> CHOOSE x \in Values : TRUE]
    /\ page \in [Views -> {[at |-> at, state |-> "loading", copy |-> project,
                            saving |-> FALSE, dirty |-> FALSE] : at \in {"detail", "settings"}}]
    /\ edit = [e \in Edits |-> NoEdit]
    /\ mirror = project
    /\ due = {}
    /\ untold = FALSE
    /\ editor = [f \in Fields |-> NoValue]
    /\ muddled = {}
    /\ mishaps = 0

Deleted == project["name"] = NoValue

\* Edits are alike: which of those not begun is next does not matter.
NextEdit == CHOOSE e \in Edits : edit[e].pc = "new"

EditsOf(v) == {e \in Edits : edit[e].view = v /\ edit[e].pc \notin {"new", "done"}}

Fail == mishaps < Mishaps /\ mishaps' = mishaps + 1

Sent(e) == {f \in Fields : edit[e].patch[f] # NoValue}

-----------------------------------------------------------------------------
(* The pages. *)

\* Nothing catches an error of the load: the page stays as it is.
Load(v) ==
    /\ page[v].state = "loading"
    /\ page' = [page EXCEPT ![v].state = IF Deleted THEN "missing" ELSE "shown",
                            ![v].copy = IF Deleted THEN @ ELSE project]
    /\ UNCHANGED <<project, edit, mirror, due, untold, editor, muddled, mishaps>>

\* setDescription, setStatus
Draft(v, f, x) ==
    /\ page[v].at = "settings" /\ page[v].state = "shown"
    /\ f \in Settings /\ x # page[v].copy[f]
    /\ page' = [page EXCEPT ![v].copy[f] = x, ![v].dirty = TRUE]
    /\ UNCHANGED <<project, edit, mirror, due, untold, editor, muddled, mishaps>>

Call(e, v, patch) ==
    /\ edit[e].pc = "new" /\ e = NextEdit
    /\ edit' = [edit EXCEPT ![e] = [pc |-> "asked", view |-> v, patch |-> patch]]

\* handleRename.  Its button is never disabled.
Rename(e, v, x) ==
    /\ page[v].at = "detail" /\ page[v].state = "shown"
    /\ Call(e, v, [f \in Fields |-> IF f = "name" THEN x ELSE NoValue])
    /\ muddled' = IF EditsOf(v) = {} THEN muddled ELSE muddled \cup {v}
    /\ UNCHANGED <<project, page, mirror, due, untold, editor, mishaps>>

\* Variant: the project is sent as it was loaded, with the fields of the form.
SettingsOfWhole(p) == p

\* Both fields of the form, whichever was changed.
SettingsOf(p) == [f \in Fields |-> IF f \in Settings THEN p[f] ELSE NoValue]

\* handleSave
Save(e, v) ==
    /\ page[v].at = "settings" /\ page[v].state = "shown" /\ ~page[v].saving
    /\ Call(e, v, SettingsOf(page[v].copy))
    /\ page' = [page EXCEPT ![v].saving = TRUE, ![v].dirty = FALSE]
    /\ UNCHANGED <<project, mirror, due, untold, editor, muddled, mishaps>>

\* handleDelete leaves the page, whatever it waits for.
Delete(v) ==
    /\ page[v].at = "settings" /\ page[v].state = "shown"
    /\ project' = [f \in Fields |-> NoValue]
    /\ page' = [page EXCEPT ![v].state = "left"]
    /\ UNCHANGED <<edit, mirror, due, untold, editor, muddled, mishaps>>

\* The detail page takes the name it sent; the form of the settings page has
\* what it sent, saved or not.
TakeAnswer(e) ==
    /\ edit[e].pc \in {"answered", "failed"}
    /\ edit' = [edit EXCEPT ![e] = [NoEdit EXCEPT !.pc = "done"]]
    /\ LET v == edit[e].view
           name == IF edit[e].pc = "answered" /\ page[v].at = "detail"
                   THEN edit[e].patch["name"] ELSE page[v].copy["name"] IN
       page' = [page EXCEPT ![v].saving = FALSE, ![v].copy["name"] = name,
                            ![v].dirty = @ \/ (page[v].at = "settings" /\ edit[e].pc = "failed")]
    /\ UNCHANGED <<project, mirror, due, untold, editor, muddled, mishaps>>

-----------------------------------------------------------------------------
(* projects-update. *)

\* The fields that an edit of this tab is about.
Meant(e) == IF page[edit[e].view].at = "detail" THEN {"name"} ELSE Settings

Update(e) ==
    /\ edit[e].pc = "asked"
    /\ \/ /\ ~Deleted
          /\ project' = [f \in Fields |-> IF f \in Sent(e) THEN edit[e].patch[f] ELSE project[f]]
          /\ editor' = [f \in Fields |-> IF f \in Meant(e) THEN edit[e].view ELSE editor[f]]
          /\ edit' = [edit EXCEPT ![e].pc = "updated"]
          /\ UNCHANGED mishaps
       \/ /\ IF Deleted THEN UNCHANGED mishaps ELSE Fail
          /\ edit' = [edit EXCEPT ![e].pc = "failed"]
          /\ UNCHANGED <<project, editor>>
    /\ UNCHANGED <<page, mirror, due, untold, muddled>>

\* Variant: the fields that differ from the row, which is updated by now.
ChangedOnCompare(e) == {f \in Sent(e) : edit[e].patch[f] # project[f]}

Changed(e) == Sent(e)

\* A deleted project has no webhooks.
Dispatch(e) ==
    /\ edit[e].pc = "updated"
    /\ edit' = [edit EXCEPT ![e].pc = "answered"]
    /\ \/ due' = (IF Deleted THEN {} ELSE due \cup Changed(e)) /\ UNCHANGED <<untold, mishaps>>
       \/ untold' = TRUE /\ Fail /\ UNCHANGED due
    /\ UNCHANGED <<project, page, mirror, editor, muddled>>

\* The function ends before it answers, or its answer is lost.
LoseAnswer(e) ==
    /\ edit[e].pc \in {"updated", "answered"}
    /\ Fail
    /\ edit' = [edit EXCEPT ![e].pc = "failed"]
    /\ untold' = (untold \/ edit[e].pc = "updated")
    /\ muddled' = muddled \cup {edit[e].view}
    /\ UNCHANGED <<project, page, mirror, due, editor>>

\* The subscriber reads the fields it was told of.
Fetch ==
    /\ due # {}
    /\ mirror' = [f \in Fields |-> IF f \in due THEN project[f] ELSE mirror[f]]
    /\ due' = {}
    /\ UNCHANGED <<project, page, edit, untold, editor, muddled, mishaps>>

Next ==
    \/ Fetch
    \/ \E v \in Views : Load(v) \/ Delete(v)
    \/ \E v \in Views, f \in Fields, x \in Values : Draft(v, f, x)
    \/ \E e \in Edits, v \in Views : Save(e, v) \/ \E x \in Values : Rename(e, v, x)
    \/ \E e \in Edits : Update(e) \/ Dispatch(e) \/ LoseAnswer(e) \/ TakeAnswer(e)

Spec == Init /\ [][Next]_vars

-----------------------------------------------------------------------------
(* ProjectSettingsPage:30-43, ProjectDetailPage:28-33: a page at rest      *)
(* shows what this tab saved last, and so does the row, whatever the other *)
(* page saved from a copy loaded long before: unless another tab saved the *)
(* same fields since, two renames of this tab overlapped, or an answer was *)
(* lost after its update.                                                  *)
OwnEditsShow ==
    \A v \in Views \ muddled, f \in Fields :
        /\ editor[f] = v /\ page[v].state = "shown"
        /\ EditsOf(v) = {} /\ ~page[v].dirty /\ ~Deleted
        => page[v].copy[f] = project[f]

(* projects-update:74-77: changed_fields, sent after the update, are       *)
(* enough.  Events of two updates may arrive in either order, and yet a    *)
(* subscriber that reads the named fields ends with the row as it is,      *)
(* unless an event was lost.                                               *)
SubscriberCatchesUp ==
    /\ ~Deleted /\ ~untold /\ due = {}
    /\ \A e \in Edits : edit[e].pc # "updated"
    => mirror = project

=============================================================================
