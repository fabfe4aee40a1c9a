------------------------------- MODULE Console -------------------------------
(***************************************************************************)
(* The pages of the two dashboards that change rows and keep a copy of     *)
(* them.  The router mounts one of them (App.tsx of either application):   *)
(* the state of a page begins when it is mounted, and an answer that       *)
(* arrives after it was left changes nothing any more, so what a page does *)
(* does not depend on the pages visited before it.  The page that is       *)
(* mounted steps; the state of the others stays as it begins.              *)
(***************************************************************************)
EXTENDS Administration

CONSTANTS
    Projects, Items, NoProject, NoItem, Calls, Faults,  \* of ProjectPage
    Cells, Choice, NoRow, Saves, Refusals,              \* of OptimisticPage
    Views, Values, NoValue, Edits, Mishaps,             \* of ProjectEdits
    Parts, Levels, Texts, NoText, NoPart, Runs, Upsets, Limits  \* of BoardPage

ASSUME ProjectsAreListed == Projects # <<>> /\ \A n \in DOMAIN Projects : Projects[n] # NoProject
ASSUME NoItemIsNoItem == NoItem \notin Items
ASSUME ChoiceIsNoCell == Choice \notin Cells
ASSUME NoRowIsNoRow == NoRow \notin [Cells \cup {Choice} -> BOOLEAN]
ASSUME ValuesAreValues == Values # {} /\ NoValue \notin Values \cup Views
ASSUME LevelsAreKnown == "operational" \in Levels
ASSUME NothingIsNothing == NoPart \notin Parts /\ NoText \notin Texts
ASSUME LimitsAreNats == Limits \in [{"status", "announcements", "keys", "visitor"} -> Nat]
ASSUME BoundsAreNats == {Faults, Refusals, Mishaps, Upsets} \subseteq Nat

VARIABLES
    route,          \* the page that is mounted
    kind, item, selected, shown, revealed, busy, creating, call, lists, entangled, faults,
    inbox, row, copy, save, reading, other, begun, applied, raced, spent,
    project, page, edit, mirror, due, untold, editor, muddled, mishaps,
    desk, listed, state, posted, board, saving, submitting, picked, text, run, visitor, reads,
    chosen, loosened, spoilt, upsets

projectVars == <<kind, item, selected, shown, revealed, busy, creating, call, lists,
                 entangled, faults>>
copyVars == <<inbox, row, copy, save, reading, other, begun, applied, raced, spent>>
editVars == <<project, page, edit, mirror, due, untold, editor, muddled, mishaps>>
boardVars == <<desk, listed, state, posted, board, saving, submitting, picked, text, run,
               visitor, reads, chosen, loosened, spoilt, upsets>>
consoleVars == <<route, vars, projectVars, copyVars, editVars, boardVars>>

Rows == INSTANCE ProjectPage
Copy == INSTANCE OptimisticPage
Edit == INSTANCE ProjectEdits
Board == INSTANCE BoardPage

ProjectRoutes == {"/api-keys", "/webhooks"}
CopyRoutes == {"/notifications", "/settings/notifications"}
EditRoute == "/projects/:id"

\* The desks of BoardPage, by their routes.
BoardRoutes == {"/admin/status", "/admin/changelog", "/admin/announcements",
                "/admin/api-keys"}
DeskOf(r) == CASE r = "/admin/status" -> "status" [] r = "/admin/announcements" -> "announcements"
               [] r = "/admin/api-keys" -> "keys" [] OTHER -> "changelog"

\* A page that is not mounted has rows of one kind only: nobody looks at them.
ConsoleInit ==
    /\ route \in {"/admin/developers", EditRoute} \cup ProjectRoutes \cup CopyRoutes
                  \cup BoardRoutes
    /\ kind = IF route = "/webhooks" THEN "webhooks" ELSE "keys"
    /\ inbox = (route # "/settings/notifications")
    /\ desk = DeskOf(route)
    /\ Init
    /\ Rows!Init
    /\ Copy!Init
    /\ Edit!Init
    /\ Board!Init
    /\ route \in ProjectRoutes \/ \A i \in Items : item[i].status = "none"
    /\ route \in CopyRoutes \/ \A c \in Cells : row[c]
    /\ route = EditRoute \/ \A v \in Views : page[v].at = "detail"

ConsoleNext ==
    \/ /\ route = "/admin/developers"
       /\ Next
       /\ UNCHANGED <<route, projectVars, copyVars, editVars, boardVars>>
    \/ /\ route \in ProjectRoutes
       /\ Rows!Next
       /\ UNCHANGED <<route, vars, copyVars, editVars, boardVars>>
    \/ /\ route \in CopyRoutes
       /\ Copy!Next
       /\ UNCHANGED <<route, vars, projectVars, editVars, boardVars>>
    \/ /\ route = EditRoute
       /\ Edit!Next
       /\ UNCHANGED <<route, vars, projectVars, copyVars, boardVars>>
    \/ /\ route \in BoardRoutes
       /\ Board!Next
       /\ UNCHANGED <<route, vars, projectVars, copyVars, editVars>>

ConsoleSpec == ConsoleInit /\ [][ConsoleNext]_consoleVars

ListIsOfSelected == Rows!ListIsOfSelected
RevealedSecretIsCurrent == Rows!RevealedSecretIsCurrent
CopyIsSaved == Copy!CopyIsSaved
OwnEditsShow == Edit!OwnEditsShow
SubscriberCatchesUp == Edit!SubscriberCatchesUp
BoardIsCurrent == Board!BoardIsCurrent
ChosenStands == Board!ChosenStands
VisitorIsTold == Board!VisitorIsTold

=============================================================================
