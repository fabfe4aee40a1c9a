------------------------------ MODULE BoardPage ------------------------------
(***************************************************************************)
(* What super admins publish.  AdminStatusPage sets the status of the      *)
(* components and logs incidents, AdminChangelogPage and                   *)
(* AdminAnnouncementsPage post entries, AdminApiKeysPage revokes keys; all *)
(* of them read their lists again after every change, and none looks at    *)
(* the error of a read.  A component keeps its select disabled while it is *)
(* the one in savingComponentId.  StatusPage and ChangelogPage show the    *)
(* lists to whoever visits them.  All lists but those of components and of *)
(* the changelog are limited to the newest rows.  The page is alone with   *)
(* its rows here; what an entry says and which component an incident is    *)
(* about are left out.                                                     *)
(***************************************************************************)
EXTENDS Naturals, FiniteSets

CONSTANTS
    Parts,          \* components, or keys
    Levels,         \* what the status of a component can be
    Texts, NoText,  \* what the form can hold; a required field is empty
    NoPart,         \* null
    Runs,           \* runs of the effect and of the handlers
    Limits,         \* how many of the newest rows a page or a visitor reads
    Upsets          \* bound on the calls that fail

VARIABLES
    desk,           \* which of the four pages it is
    listed,         \* the keys among the newest; every component
    state,          \* the status of the components or keys
    posted,         \* the incidents or entries, with their created_at, and the
                    \* refreshes that had begun before them (history)
    board,          \* what the page shows of both
    saving,         \* savingComponentId
    submitting,
    picked,         \* an incidentComponentId
    text,           \* the form
    run,            \* the runs
    visitor,        \* StatusPage or ChangelogPage
    reads,          \* history: which lists are shown
    chosen,         \* history: what was chosen last
    loosened,       \* history: components enabled while a change of them was saved
    spoilt,         \* history: whose change failed
    upsets          \* calls that have failed

vars == <<desk, listed, state, posted, board, saving, submitting, picked, text, run,
         visitor, reads, chosen, loosened, spoilt, upsets>>

LevelsOf(d) == CASE d = "status" -> Levels [] d = "keys" -> {"active", "revoked"}
                 [] OTHER -> {"operational"}

\* refresh: the tables it reads, at once.
Tables(d) == CASE d = "status" -> {"parts", "posts"} [] d = "keys" -> {"parts"}
               [] OTHER -> {"posts"}

NoRun == [pc |-> "new", part |-> NoPart, to |-> "none", text |-> NoText, nth |-> 0,
          want |-> {}, parts |-> {}, posts |-> {}]

NoVisitor == [pc |-> "away", want |-> {}, parts |-> {}, posts |-> {},
              owed |-> {}, clear |-> FALSE, blind |-> FALSE]

Init ==
    /\ desk \in {"status", "changelog", "announcements", "keys"}
    /\ listed \in SUBSET Parts
    /\ IF desk = "keys" /\ Cardinality(Parts) > Limits.keys
       THEN Cardinality(listed) = Limits.keys
       ELSE listed = Parts
    /\ state \in [Parts -> LevelsOf(desk)]
    /\ posted = {}
    /\ board = [parts |-> {}, posts |-> {}]
    /\ saving = NoPart
    /\ submitting = FALSE
    /\ picked = (desk # "status")
    /\ text = NoText
    /\ run = [r \in Runs |-> NoRun]
    /\ visitor = NoVisitor
    /\ reads = [begun |-> 0, last |-> 0]
    /\ chosen = state
    /\ loosened = {}
    /\ spoilt = {}
    /\ upsets = 0

\* Runs are alike: which of those not begun is next does not matter.
NextRun == CHOOSE r \in Runs : run[r].pc = "new"

Upset == upsets < Upsets /\ upsets' = upsets + 1

InFlight(r) == run[r].pc \notin {"new", "done"}

StateRows == {[id |-> c, level |-> state[c]] : c \in Parts}

\* order by created_at desc limit n: the rows with fewer than n newer ones.
Newer(row) == {other \in posted : other.at > row.at}
Newest(n)  == {row \in posted : Cardinality(Newer(row)) < n}

\* What the queries of the page return, and those of StatusPage and ChangelogPage.
ListedParts == {row \in StateRows : row.id \in listed}
ListedPosts == IF desk = "changelog" THEN posted ELSE Newest(Limits[desk])
PublicPosts == IF desk = "changelog" THEN posted ELSE Newest(Limits.visitor)

AllOperational(rows) == \A row \in rows : row.level = "operational"

-----------------------------------------------------------------------------
(* What the super admin does. *)

Refresh(r, of) ==
    /\ run' = [run EXCEPT ![r] = [of EXCEPT !.pc = "reading", !.nth = reads.begun + 1,
                                            !.want = Tables(desk)]]
    /\ reads' = [reads EXCEPT !.begun = @ + 1]

\* The effect lists when the page is mounted.
Open(r) ==
    /\ run[r].pc = "new" /\ r = NextRun
    /\ reads.begun = 0
    /\ Refresh(r, NoRun)
    /\ UNCHANGED <<desk, listed, state, posted, board, saving, submitting, picked, text,
                   visitor, chosen, loosened, spoilt, upsets>>

Type(t) ==
    /\ reads.begun # 0 /\ desk # "keys"
    /\ t # text /\ \A row \in posted : row.text # t
    /\ \A r \in Runs : run[r].text # t    \* every text is typed once
    /\ text' = t
    /\ UNCHANGED <<desk, listed, state, posted, board, saving, submitting, picked, run,
                   visitor, reads, chosen, loosened, spoilt, upsets>>

\* Variant: the button is never disabled.
SubmitAgain(r) ==
    /\ run[r].pc = "new" /\ r = NextRun
    /\ text # NoText /\ picked
    /\ submitting' = TRUE
    /\ run' = [run EXCEPT ![r] = [NoRun EXCEPT !.pc = "insert", !.text = text]]
    /\ UNCHANGED <<desk, listed, state, posted, board, saving, picked, text, visitor,
                   reads, chosen, loosened, spoilt, upsets>>

\* handleSubmit, handleCreateIncident
Submit(r) ==
    /\ run[r].pc = "new" /\ r = NextRun
    /\ text # NoText /\ picked /\ ~submitting
    /\ submitting' = TRUE
    /\ run' = [run EXCEPT ![r] = [NoRun EXCEPT !.pc = "insert", !.text = text]]
    /\ UNCHANGED <<desk, listed, state, posted, board, saving, picked, text, visitor,
                   reads, chosen, loosened, spoilt, upsets>>

\* The components that are being saved, and not by a run in ended, while
\* savingComponentId is s.
Enabled(s, ended) ==
    {c \in Parts : c # s /\ \E r \in Runs \ ended : InFlight(r) /\ run[r].part = c}

\* Variant: the select is never disabled.
ChangeAnyStatus(r, row, s) ==
    /\ run[r].pc = "new" /\ r = NextRun
    /\ desk = "status"
    /\ s # row.level
    /\ saving' = row.id
    /\ run' = [run EXCEPT ![r] = [NoRun EXCEPT !.pc = "write", !.part = row.id, !.to = s]]
    /\ chosen' = [chosen EXCEPT ![row.id] = s]
    /\ loosened' = loosened \cup Enabled(row.id, {})
    /\ UNCHANGED <<desk, listed, state, posted, board, submitting, picked, text,
                   visitor, reads, spoilt, upsets>>

\* handleComponentStatusChange
ChangeStatus(r, row, s) ==
    /\ run[r].pc = "new" /\ r = NextRun
    /\ desk = "status"
    /\ s # row.level /\ saving # row.id
    /\ saving' = row.id
    /\ run' = [run EXCEPT ![r] = [NoRun EXCEPT !.pc = "write", !.part = row.id, !.to = s]]
    /\ chosen' = [chosen EXCEPT ![row.id] = s]
    /\ loosened' = loosened \cup Enabled(row.id, {})
    /\ UNCHANGED <<desk, listed, state, posted, board, submitting, picked, text,
                   visitor, reads, spoilt, upsets>>

\* handleRevoke
Revoke(r, row) ==
    /\ run[r].pc = "new" /\ r = NextRun
    /\ desk = "keys" /\ row.level = "active"
    /\ run' = [run EXCEPT ![r] = [NoRun EXCEPT !.pc = "write", !.part = row.id,
                                               !.to = "revoked"]]
    /\ chosen' = [chosen EXCEPT ![row.id] = "revoked"]
    /\ UNCHANGED <<desk, listed, state, posted, board, saving, submitting, picked, text,
                   visitor, reads, loosened, spoilt, upsets>>

-----------------------------------------------------------------------------
(* What the tables do. *)

\* The error of an update is not looked at.
Write(r) ==
    /\ run[r].pc = "write"
    /\ \/ /\ state' = [state EXCEPT ![run[r].part] = run[r].to]
          /\ UNCHANGED <<spoilt, upsets>>
       \/ /\ Upset
          /\ spoilt' = spoilt \cup {run[r].part}
          /\ UNCHANGED state
    /\ run' = [run EXCEPT ![r].pc = "answered"]
    /\ visitor' = [visitor EXCEPT !.clear = @ \/ AllOperational(StateRows')]
    /\ UNCHANGED <<desk, listed, posted, board, saving, submitting, picked, text, reads,
                   chosen, loosened>>

Posting(r) == posted \cup {[id |-> r, text |-> run[r].text, at |-> Cardinality(posted) + 1,
                            since |-> reads.begun]}

\* An insert that fails may have been made, its answer lost.
Insert(r) ==
    /\ run[r].pc = "insert"
    /\ \/ /\ posted' = Posting(r)
          /\ run' = [run EXCEPT ![r].pc = "answered"]
          /\ UNCHANGED upsets
       \/ /\ posted' \in {posted, Posting(r)}
          /\ run' = [run EXCEPT ![r].pc = "refused"]
          /\ Upset
    /\ UNCHANGED <<desk, listed, state, board, saving, submitting, picked, text,
                   visitor, reads, chosen, loosened, spoilt>>

\* One of the queries of a refresh.  One that fails reads nothing.
Read(r, t) ==
    /\ run[r].pc = "reading" /\ t \in run[r].want
    /\ \/ /\ run' = [run EXCEPT ![r].want = @ \ {t},
                                ![r].parts = IF t = "parts" THEN ListedParts ELSE @,
                                ![r].posts = IF t = "posts" THEN ListedPosts ELSE @]
          /\ UNCHANGED upsets
       \/ /\ run' = [run EXCEPT ![r].want = @ \ {t}]
          /\ Upset
    /\ UNCHANGED <<desk, listed, state, posted, board, saving, submitting, picked, text,
                   visitor, reads, chosen, loosened, spoilt>>

-----------------------------------------------------------------------------
(* What arrives. *)

\* The form is cleared, whatever was typed meanwhile.  AdminAnnouncementsPage first
\* has the announcement fanned out, and goes on whatever comes of that.
TakeAnswer(r) ==
    /\ run[r].pc = "answered"
    /\ text' = IF run[r].text # NoText THEN NoText ELSE text
    /\ Refresh(r, run[r])
    /\ UNCHANGED <<desk, listed, state, posted, board, saving, submitting, picked,
                   visitor, chosen, loosened, spoilt, upsets>>

\* The form keeps what it holds.
TakeRefusal(r) ==
    /\ run[r].pc = "refused"
    /\ submitting' = FALSE
    /\ run' = [run EXCEPT ![r] = [NoRun EXCEPT !.pc = "done"]]
    /\ UNCHANGED <<desk, listed, state, posted, board, saving, picked, text, visitor,
                   reads, chosen, loosened, spoilt, upsets>>

\* setSavingComponentId(null), whichever component is in it by now.
TakeLists(r) ==
    /\ run[r].pc = "reading" /\ run[r].want = {}
    /\ board' = [parts |-> run[r].parts, posts |-> run[r].posts]
    /\ picked' = (picked \/ run[r].parts # {})
    /\ reads' = [reads EXCEPT !.last = run[r].nth]
    /\ submitting' = (submitting /\ run[r].text = NoText)
    /\ IF desk = "status" /\ run[r].part # NoPart
       THEN saving' = NoPart /\ loosened' = loosened \cup Enabled(NoPart, {r})
       ELSE UNCHANGED <<saving, loosened>>
    /\ run' = [run EXCEPT ![r] = [NoRun EXCEPT !.pc = "done"]]
    /\ UNCHANGED <<desk, listed, state, posted, text, visitor, chosen, spoilt, upsets>>

-----------------------------------------------------------------------------
(* StatusPage, ChangelogPage *)

Visit ==
    /\ visitor.pc = "away" /\ desk \in {"status", "changelog"}
    /\ visitor' = [NoVisitor EXCEPT !.pc = "loading", !.want = Tables(desk),
                                    !.owed = posted, !.clear = AllOperational(StateRows)]
    /\ UNCHANGED <<desk, listed, state, posted, board, saving, submitting, picked, text,
                   run, reads, chosen, loosened, spoilt, upsets>>

VisitorReads(t) ==
    /\ t \in visitor.want
    /\ \/ /\ visitor' = [visitor EXCEPT !.want = @ \ {t},
                           !.parts = IF t = "parts" THEN StateRows ELSE @,
                           !.posts = IF t = "posts" THEN PublicPosts ELSE @]
          /\ UNCHANGED upsets
       \/ /\ visitor' = [visitor EXCEPT !.want = @ \ {t}, !.blind = TRUE]
          /\ Upset
    /\ UNCHANGED <<desk, listed, state, posted, board, saving, submitting, picked, text,
                   run, reads, chosen, loosened, spoilt>>

\* Variant: one of the two reads is enough.
VisitorSeesEither ==
    /\ visitor.pc = "loading" /\ visitor.want # Tables(desk)
    /\ visitor' = [visitor EXCEPT !.pc = "shown"]
    /\ UNCHANGED <<desk, listed, state, posted, board, saving, submitting, picked, text,
                   run, reads, chosen, loosened, spoilt, upsets>>

VisitorSees ==
    /\ visitor.pc = "loading" /\ visitor.want = {}
    /\ visitor' = [visitor EXCEPT !.pc = "shown"]
    /\ UNCHANGED <<desk, listed, state, posted, board, saving, submitting, picked, text,
                   run, reads, chosen, loosened, spoilt, upsets>>

Next ==
    \/ \E t \in Texts : Type(t)
    \/ \E r \in Runs : \/ Open(r) \/ Submit(r) \/ Write(r) \/ Insert(r)
                       \/ TakeAnswer(r) \/ TakeRefusal(r) \/ TakeLists(r)
    \/ \E r \in Runs, row \in board.parts : \/ \E s \in Levels : ChangeStatus(r, row, s)
                                            \/ Revoke(r, row)
    \/ \E t \in {"parts", "posts"} : VisitorReads(t) \/ \E r \in Runs : Read(r, t)
    \/ Visit \/ VisitorSees

Spec == Init /\ [][Next]_vars

-----------------------------------------------------------------------------
AtRest == \A r \in Runs : ~InFlight(r)

\* As many newer rows as a list of the page, or a visitor's, holds.
Displaced(row, limit) == desk # "changelog" /\ Cardinality(Newer(row)) >= Limits[limit]

(* AdminStatusPage:38-79, AdminChangelogPage:25-55: while no call failed,  *)
(* whatever was posted is once in the table, and in the list that is shown *)
(* unless as many newer ones displaced it or the refresh that arrived last *)
(* had begun before; and at rest, if the newest refresh arrived last, the  *)
(* page shows its tables, the newest rows of them, as they are, although   *)
(* its two reads take place at different times and refreshes overlap.      *)
BoardIsCurrent ==
    reads.last # 0 /\ upsets = 0
        => /\ desk # "keys" =>
                \A p \in posted : \/ p \in board.posts \/ Displaced(p, desk)
                                 \/ reads.last <= p.since
           /\ \A p, q \in posted : p.text = q.text => p = q
           /\ AtRest /\ reads.last = reads.begun
                => /\ "parts" \in Tables(desk) => board.parts = ListedParts
                   /\ "posts" \in Tables(desk) => board.posts = ListedPosts

(* AdminStatusPage:54-59, 98, AdminApiKeysPage:32-36: the status of a      *)
(* component or key is what was chosen last, unless the update failed, or  *)
(* the change of another component enabled its select before its own was   *)
(* done.                                                                   *)
ChosenStands ==
    \A c \in Parts \ (loosened \cup spoilt) :
        (\A r \in Runs : run[r].pc = "write" => run[r].part # c) => state[c] = chosen[c]

(* StatusPage:33-45: a visitor none of whose reads failed is told that all *)
(* systems are operational only if, at some moment since it came, they     *)
(* were; and is shown whatever was posted before it came, unless as many   *)
(* newer ones displaced it as it is shown at most.                         *)
VisitorIsTold ==
    visitor.pc = "shown" /\ ~visitor.blind
        => /\ AllOperational(visitor.parts) => visitor.clear
           /\ \A p \in visitor.owed : p \in visitor.posts \/ Displaced(p, "visitor")

=============================================================================
