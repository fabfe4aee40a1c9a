---------------------------- MODULE OptimisticPage ----------------------------
(***************************************************************************)
(* Pages that show a change before it is saved.  NotificationsPage marks   *)
(* one notification as read; NotificationSettingsPage switches one toggle. *)
(* Either puts back the whole copy it held before the change when the save *)
(* fails.  DeveloperPreferencesPage, in another tab, saves two columns of  *)
(* the row the toggles are in, when its button is pressed.  The row may    *)
(* not exist: it then stands for the defaults of services/preferences,     *)
(* and the first save inserts the defaults of the columns.  A cell is TRUE *)
(* for a notification that is unread and for a toggle that is on.          *)
(***************************************************************************)
EXTENDS Naturals

CONSTANTS
    Cells,          \* notifications, or toggles
    Choice,         \* what DeveloperPreferencesPage chooses
    NoRow,          \* null
    Saves,          \* saves of this page
    Refusals        \* bound on saves that fail, and on what the user does elsewhere

Columns == Cells \cup {Choice}
Prefs == [Columns -> BOOLEAN]

VARIABLES
    inbox,          \* the page is NotificationsPage
    row,            \* the notifications, or the row of user_preferences
    copy,           \* notifications, prefs; NoRow until they are loaded
    save,           \* the saves of this page
    reading,        \* the load under way, and what it has read
    other,          \* the preferences DeveloperPreferencesPage holds
    begun,          \* history: number of saves begun
    applied,        \* history: the newest save applied to a cell
    raced,          \* history: why the copy may differ from the row
    spent           \* refusals, and steps in the other tab

vars == <<inbox, row, copy, save, reading, other, begun, applied, raced, spent>>

NoSave == [pc |-> "new", cell |-> Choice, to |-> FALSE, before |-> NoRow, nth |-> 0]

NoRead == [pc |-> "none", got |-> NoRow]

\* DEFAULTS: every toggle is on; FALSE stands for the default of the choice.
Defaults == [c \in Columns |-> c # Choice]

\* The defaults of the columns (0006:10-24).
Inserted == [c \in Columns |-> c # Choice]

Init ==
    /\ inbox \in BOOLEAN
    /\ row \in Prefs \cup (IF inbox THEN {} ELSE {NoRow})
    /\ row # NoRow => ~row[Choice]
    /\ copy = NoRow
    /\ save = [s \in Saves |-> NoSave]
    /\ reading = [pc |-> "asked", got |-> NoRow]
    /\ other = NoRow
    /\ begun = 0
    /\ applied = [c \in Cells |-> 0]
    /\ raced = FALSE
    /\ spent = 0

\* Saves are alike: which of those not begun is next does not matter.
NextSave == CHOOSE s \in Saves : save[s].pc = "new"

Spend == spent < Refusals /\ spent' = spent + 1

InFlight == {s \in Saves : save[s].pc \notin {"new", "done"}}

\* getPreferences
Effective(r) == IF r = NoRow THEN Defaults ELSE r

\* Variant: the upsert sends the whole copy.
UpsertWhole(p, cs) == [c \in Columns |-> p[c]]

\* savePreferences: columns that are not sent keep their value.
Upsert(p, cs) == [c \in Columns |-> IF c \in cs THEN p[c]
                                    ELSE IF row = NoRow THEN Inserted[c] ELSE row[c]]

-----------------------------------------------------------------------------
(* Loading.  The settings page loads again whenever the user object is a   *)
(* new one, which it is after every change of the session.                 *)

ReadRow ==
    /\ reading.pc = "asked"
    /\ \/ reading' = [pc |-> "read", got |-> Effective(row)] /\ UNCHANGED spent
       \/ reading' = NoRead /\ Spend
    /\ UNCHANGED <<inbox, row, copy, save, other, begun, applied, raced>>

TakeRow ==
    /\ reading.pc = "read"
    /\ copy' = reading.got
    /\ reading' = NoRead
    /\ raced' = (raced \/ reading.got # Effective(row) \/ InFlight # {})
    /\ UNCHANGED <<inbox, row, save, other, begun, applied, spent>>

ReadAgain ==
    /\ ~inbox /\ reading = NoRead
    /\ Spend
    /\ reading' = [pc |-> "asked", got |-> NoRow]
    /\ UNCHANGED <<inbox, row, copy, save, other, begun, applied, raced>>

-----------------------------------------------------------------------------
(* Changing a cell. *)

\* A toggle goes either way; a notification that is read has no button.
Offered(c) == inbox => copy[c]

\* markRead; update
Change(s, c) ==
    /\ save[s].pc = "new" /\ s = NextSave
    /\ copy # NoRow
    /\ Offered(c)
    /\ copy' = [copy EXCEPT ![c] = ~@]
    /\ save' = [save EXCEPT ![s] = [pc |-> "sent", cell |-> c, to |-> ~copy[c],
                                    before |-> copy, nth |-> begun + 1]]
    /\ begun' = begun + 1
    /\ UNCHANGED <<inbox, row, reading, other, applied, raced, spent>>

Apply(s) ==
    /\ save[s].pc = "sent"
    /\ LET c == save[s].cell IN
       /\ row' = Upsert([Effective(row) EXCEPT ![c] = save[s].to], {c})
       /\ raced' = (raced \/ applied[c] > save[s].nth)
       /\ applied' = [applied EXCEPT ![c] = IF @ > save[s].nth THEN @ ELSE save[s].nth]
    /\ save' = [save EXCEPT ![s].pc = "saved"]
    /\ UNCHANGED <<inbox, copy, reading, other, begun, spent>>

Refuse(s) ==
    /\ save[s].pc \in {"sent", "saved"}
    /\ Spend
    /\ save' = [save EXCEPT ![s].pc = "refused"]
    /\ raced' = (raced \/ save[s].pc = "saved")
    /\ UNCHANGED <<inbox, row, copy, reading, other, begun, applied>>

Accept(s) ==
    /\ save[s].pc = "saved"
    /\ save' = [save EXCEPT ![s] = [NoSave EXCEPT !.pc = "done"]]
    /\ UNCHANGED <<inbox, row, copy, reading, other, begun, applied, raced, spent>>

\* The copy of before the change, whatever has changed since.
RollBack(s) ==
    /\ save[s].pc = "refused"
    /\ copy' = save[s].before
    /\ save' = [save EXCEPT ![s] = [NoSave EXCEPT !.pc = "done"]]
    /\ raced' = (raced \/ save[s].nth < begun)
    /\ UNCHANGED <<inbox, row, reading, other, begun, applied, spent>>

-----------------------------------------------------------------------------
(* The other tab. *)

OpenPreferences ==
    /\ ~inbox /\ other = NoRow
    /\ Spend
    /\ other' = Effective(row)
    /\ UNCHANGED <<inbox, row, copy, save, reading, begun, applied, raced>>

\* handleSave, after the choice was changed
SavePreferences ==
    /\ other # NoRow
    /\ Spend
    /\ \E b \in BOOLEAN :
         /\ other' = [other EXCEPT ![Choice] = b]
         /\ row' = Upsert([other EXCEPT ![Choice] = b], {Choice})
    /\ UNCHANGED <<inbox, copy, save, reading, begun, applied, raced>>

Next ==
    \/ ReadRow \/ TakeRow \/ ReadAgain \/ OpenPreferences \/ SavePreferences
    \/ \E s \in Saves, c \in Cells : Change(s, c)
    \/ \E s \in Saves : Apply(s) \/ Refuse(s) \/ Accept(s) \/ RollBack(s)

Spec == Init /\ [][Next]_vars

-----------------------------------------------------------------------------
(* NotificationSettingsPage:42-52, NotificationsPage:39-50: at rest, what  *)
(* the page shows of every cell is what the table holds, whatever the      *)
(* other tab saved meanwhile and whichever save made the row: unless a     *)
(* save was rolled back after another had begun, two saves of one cell     *)
(* were applied in the wrong order, a load arrived across a save, or the   *)
(* answer of a save that was applied was lost.                             *)
CopyIsSaved ==
    copy # NoRow /\ InFlight = {} /\ ~raced
        => \A c \in Cells : copy[c] = Effective(row)[c]

=============================================================================
