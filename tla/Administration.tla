--------------------------- MODULE Administration ---------------------------
(***************************************************************************)
(* Suspending developers: the Developers page in the browsers of several   *)
(* administrators, and the two Edge Functions it calls.                    *)
(*                                                                         *)
(* admin-suspend-user checks its caller, sets or lifts the ban and then    *)
(* writes the audit row.  admin-list-developers reads profiles and         *)
(* admin_roles together and then walks the users page by page for their    *)
(* bans.  The page sends one request per click, keeps one busyId for the   *)
(* whole table, and lists again after every call that succeeded; nothing   *)
(* cancels a call, so their answers arrive in any order.                   *)
(***************************************************************************)
EXTENDS Naturals, Sequences

CONSTANTS
    Users,          \* accounts, administrators or not; each has a profile
    FirstAdmin,     \* the row of admin_roles inserted with the deployment
    Nobody,         \* null
    Pages,          \* how auth.admin.listUsers deals the accounts to pages
    Jobs,           \* runs of refresh, handleSuspend and handleReinstate
    Failures        \* bound on the calls that fail

ASSUME FirstAdminIsUser == FirstAdmin \in Users
ASSUME NobodyIsNoUser == Nobody \notin Users
ASSUME PagesHoldUsers == Pages \in Seq(SUBSET Users) /\ Pages # <<>>
ASSUME FailuresIsNat == Failures \in Nat

VARIABLES
    rank,           \* admin_roles: which row a user's is, 0 for none
    granted,        \* number of rows of admin_roles
    banned,         \* accounts whose banned_until lies ahead
    audit,          \* action of the last row of audit_logs about a user
    tab,            \* AdminDevelopersPage, in the browser of each user
    job,            \* the runs
    list,           \* history: which list a page shows
    writer,         \* history: whose call changed a ban last
    crossed,        \* history: users whose changes overlapped, or lack a row
    broken          \* calls that have failed

vars == <<rank, granted, banned, audit, tab, job, list, writer, crossed, broken>>

tables == <<rank, granted, banned, audit, writer, crossed>>

Actions == {"suspend", "reinstate"}

Tab == [open : BOOLEAN, shown : [Users -> {"absent", "active", "suspended"}],
        loading : BOOLEAN, busy : Users \cup {Nobody}, error : BOOLEAN]

Job == [pc : {"new", "asked", "applied", "answered", "failed",
              "tables", "pages", "listed", "unlisted", "done"},
        tab : Users \cup {Nobody}, user : Users \cup {Nobody},
        action : Actions \cup {"none"}, heard : BOOLEAN, nth : Nat,
        admins : SUBSET Users, read : SUBSET Users, bans : SUBSET Users, page : Nat]

List == [begun : Nat, last : Nat, cut : BOOLEAN, lost : SUBSET Users]

NewJob == [pc |-> "new", tab |-> Nobody, user |-> Nobody, action |-> "none",
           heard |-> TRUE, nth |-> 0, admins |-> {}, read |-> {}, bans |-> {}, page |-> 0]

Init ==
    /\ rank = [u \in Users |-> IF u = FirstAdmin THEN 1 ELSE 0]
    /\ granted = 1
    /\ banned = {}
    /\ audit = [u \in Users |-> "none"]
    /\ tab = [a \in Users |-> [open |-> FALSE, shown |-> [u \in Users |-> "absent"],
                               loading |-> TRUE, busy |-> Nobody, error |-> FALSE]]
    /\ job = [j \in Jobs |-> NewJob]
    /\ list = [a \in Users |-> [begun |-> 0, last |-> 0, cut |-> FALSE, lost |-> {}]]
    /\ writer = [u \in Users |-> Nobody]
    /\ crossed = {}
    /\ broken = 0

AdminIds == {u \in Users : rank[u] # 0}

\* Runs are alike: which of those not begun is next does not matter.
NextJob == CHOOSE j \in Jobs : job[j].pc = "new"

Fail == broken < Failures /\ broken' = broken + 1

-----------------------------------------------------------------------------
(* The page. *)

\* An administrator may insert rows of admin_roles (0004:275-277).
Grant(a, u) ==
    /\ rank[a] # 0 /\ rank[u] = 0
    /\ granted' = granted + 1
    /\ rank' = [rank EXCEPT ![u] = granted + 1]
    /\ UNCHANGED <<banned, audit, tab, job, list, writer, crossed, broken>>

\* refresh
Refresh(j, r, a, t) ==
    /\ job' = [job EXCEPT ![j] = [r EXCEPT !.pc = "tables", !.nth = list[a].begun + 1]]
    /\ tab' = [tab EXCEPT ![a] = [t EXCEPT !.loading = TRUE, !.error = FALSE]]
    /\ list' = [list EXCEPT ![a].begun = @ + 1]

\* RequireSuperAdmin lets administrators reach the page.
OpenPage(j, a) ==
    /\ job[j].pc = "new" /\ j = NextJob
    /\ rank[a] # 0 /\ ~tab[a].open
    /\ Refresh(j, [NewJob EXCEPT !.tab = a], a, [tab[a] EXCEPT !.open = TRUE])
    /\ UNCHANGED <<tables, broken>>

\* The table is there unless the page is loading; one row is disabled at most.
Click(j, a, u) ==
    /\ job[j].pc = "new" /\ j = NextJob
    /\ tab[a].open /\ ~tab[a].loading
    /\ tab[a].shown[u] # "absent" /\ tab[a].busy # u
    /\ job' = [job EXCEPT ![j] =
         [NewJob EXCEPT !.pc = "asked", !.tab = a, !.user = u,
             !.action = IF tab[a].shown[u] = "suspended" THEN "reinstate" ELSE "suspend"]]
    /\ tab' = [tab EXCEPT ![a].busy = u, ![a].error = FALSE]
    /\ UNCHANGED <<tables, list, broken>>

\* The call throws, nothing catches it and busyId stays; the function goes on.
Disconnect(j) ==
    /\ job[j].pc \in {"asked", "applied", "answered", "failed"} /\ job[j].heard
    /\ Fail
    /\ job' = [job EXCEPT ![j].heard = FALSE]
    /\ list' = [list EXCEPT ![job[j].tab].lost = @ \cup {job[j].user}]
    /\ UNCHANGED <<tables, tab>>

TakeAnswer(j) ==
    /\ job[j].pc = "answered" /\ job[j].heard
    /\ Refresh(j, job[j], job[j].tab, tab[job[j].tab])
    /\ UNCHANGED <<tables, broken>>

\* An answer nobody waits for ...
Unheard(j) ==
    /\ job[j].pc \in {"answered", "failed"} /\ ~job[j].heard
    /\ job' = [job EXCEPT ![j] = [NewJob EXCEPT !.pc = "done"]]
    /\ UNCHANGED <<tables, tab, list, broken>>

\* setBusyId(null), whichever row the page holds busy by now.
Over(j, t) ==
    /\ tab' = [tab EXCEPT ![job[j].tab] =
                 [t EXCEPT !.busy = IF job[j].user = Nobody THEN @ ELSE Nobody]]
    /\ job' = [job EXCEPT ![j] = [NewJob EXCEPT !.pc = "done"]]

\* ... and one that is an error, of either function.
TakeError(j) ==
    /\ job[j].pc \in {"failed", "unlisted"} /\ job[j].heard
    /\ LET t == tab[job[j].tab] IN
       Over(j, [t EXCEPT !.error = TRUE,
                         !.loading = @ /\ job[j].pc # "unlisted"])
    /\ UNCHANGED <<tables, list, broken>>

\* Variant: the administrators stay in the list.
ListedWithAdmins(r, u) == IF u \in r.bans THEN "suspended" ELSE "active"

\* The row of a developer in the answer; one no page showed counts as active.
Listed(r, u) ==
    IF u \in r.admins THEN "absent"
    ELSE IF u \in r.bans THEN "suspended" ELSE "active"

TakeList(j) ==
    /\ job[j].pc = "listed"
    /\ LET a == job[j].tab IN
       /\ Over(j, [tab[a] EXCEPT !.shown = [u \in Users |-> Listed(job[j], u)],
                                 !.loading = FALSE])
       /\ list' = [list EXCEPT ![a].last = job[j].nth, ![a].cut = (job[j].read # Users)]
    /\ UNCHANGED <<tables, broken>>

-----------------------------------------------------------------------------
(* admin-suspend-user.  Rows of admin_roles are never deleted, so the check *)
(* of the caller and the update may be one step.                           *)

Allowed(j) == rank[job[j].tab] # 0 /\ job[j].user # job[j].tab

Applied(j) ==
    /\ Allowed(j)
    /\ banned' = IF job[j].action = "suspend" THEN banned \cup {job[j].user}
                                              ELSE banned \ {job[j].user}
    /\ writer' = [writer EXCEPT ![job[j].user] = job[j].tab]

\* An error answers the call, whether the ban was applied or not: no row is
\* written then, and the page does not list again.
Change(j) ==
    /\ job[j].pc = "asked"
    /\ \/ /\ Applied(j)
          /\ crossed' = IF \E k \in Jobs : job[k].pc = "applied" /\ job[k].user = job[j].user
                        THEN crossed \cup {job[j].user} ELSE crossed
          /\ job' = [job EXCEPT ![j].pc = "applied"]
          /\ UNCHANGED <<list, broken>>
       \/ /\ Applied(j)
          /\ Fail
          /\ crossed' = crossed \cup {job[j].user}
          /\ job' = [job EXCEPT ![j].pc = "failed"]
          /\ list' = [list EXCEPT ![job[j].tab].lost = @ \cup {job[j].user}]
       \/ /\ IF Allowed(j) THEN Fail ELSE UNCHANGED broken
          /\ job' = [job EXCEPT ![j].pc = "failed"]
          /\ UNCHANGED <<banned, writer, crossed, list>>
    /\ UNCHANGED <<rank, granted, audit, tab>>

\* Variant: suspending leaves no row.
RowOfReinstatement(j) ==
    IF job[j].action = "reinstate"
    THEN [audit EXCEPT ![job[j].user] = job[j].action] ELSE audit

RowOf(j) == [audit EXCEPT ![job[j].user] = job[j].action]

\* The error of the insert is not looked at.
Audit(j) ==
    /\ job[j].pc = "applied"
    /\ job' = [job EXCEPT ![j].pc = "answered"]
    /\ \/ audit' = RowOf(j) /\ UNCHANGED <<crossed, broken>>
       \/ Fail /\ crossed' = crossed \cup {job[j].user} /\ UNCHANGED audit
    /\ UNCHANGED <<rank, granted, banned, tab, list, writer>>

-----------------------------------------------------------------------------
(* admin-list-developers. *)

ReadTables(j) ==
    /\ job[j].pc = "tables"
    /\ \/ job' = [job EXCEPT ![j].pc = "pages", ![j].admins = AdminIds, ![j].page = 1]
          /\ UNCHANGED broken
       \/ job' = [job EXCEPT ![j].pc = "unlisted"] /\ Fail
    /\ UNCHANGED <<tables, tab, list>>

\* Variant: every page starts a map of its own.
FoundOnPage(r, p) == Pages[p] \cap banned

Found(r, p) == r.bans \cup (Pages[p] \cap banned)

\* The walk ends with the first page that is not full.
LastPage(p) == p = Len(Pages)

\* An error ends the walk too, and the answer says nothing of it.
ReadPage(j) ==
    /\ job[j].pc = "pages"
    /\ LET p == job[j].page IN
       \/ /\ job' = [job EXCEPT ![j].read = @ \cup Pages[p],
                                ![j].bans = Found(job[j], p),
                                ![j].page = IF LastPage(p) THEN p ELSE p + 1,
                                ![j].pc = IF LastPage(p) THEN "listed" ELSE "pages"]
          /\ UNCHANGED broken
       \/ Fail /\ job' = [job EXCEPT ![j].pc = "listed"]
    /\ UNCHANGED <<tables, tab, list>>

\* The answer of the list is lost: refresh catches it.
LoseList(j) ==
    /\ job[j].pc = "listed"
    /\ Fail
    /\ job' = [job EXCEPT ![j].pc = "unlisted"]
    /\ UNCHANGED <<tables, tab, list>>

-----------------------------------------------------------------------------
Page ==
    \/ \E a, u \in Users : Grant(a, u)
    \/ \E j \in Jobs, a \in Users : OpenPage(j, a)
    \/ \E j \in Jobs, a, u \in Users : Click(j, a, u)
    \/ \E j \in Jobs : Disconnect(j) \/ TakeAnswer(j) \/ Unheard(j)
                       \/ TakeError(j) \/ TakeList(j)

Functions ==
    \E j \in Jobs : Change(j) \/ Audit(j) \/ ReadTables(j) \/ ReadPage(j) \/ LoseList(j)

Next == Page \/ Functions

Spec == Init /\ [][Next]_vars

-----------------------------------------------------------------------------
(* The tables, the pages and the runs have the types the code declares.    *)
TypeOK ==
    /\ rank \in [Users -> Nat]
    /\ granted \in Nat
    /\ banned \subseteq Users
    /\ audit \in [Users -> Actions \cup {"none"}]
    /\ tab \in [Users -> Tab]
    /\ job \in [Jobs -> Job]
    /\ list \in [Users -> List]
    /\ writer \in [Users -> Users \cup {Nobody}]
    /\ crossed \subseteq Users
    /\ broken \in 0..Failures

Outranks(a, u) == rank[a] # 0 /\ (rank[u] = 0 \/ rank[a] < rank[u])

(* admin-suspend-user refuses only its caller's own account                *)
(* (admin-suspend-user:51-53): that administrators cannot suspend each     *)
(* other rests on the list leaving them out (admin-list-developers:73-74)  *)
(* and on rows staying in admin_roles.  A list read before a promotion     *)
(* still offers the new administrator; yet whoever suspended an            *)
(* administrator was one earlier, so that no two have suspended each other *)
(* and the first can always sign in.                                       *)
SuspendedByElder == \A u \in banned : writer[u] \in Users /\ Outranks(writer[u], u)

Quiet(a) == \A j \in Jobs : job[j].tab = a => job[j].pc \in {"new", "done"}

(* AdminDevelopersPage:65-82 lists again after every change.  Once the     *)
(* page is at rest, an account this administrator changed last is shown as *)
(* it is, however the calls of several rows overlapped: unless the newest  *)
(* list was not the last to arrive or stopped at a page that failed, or    *)
(* the call of the change was cut off or answered with an error.           *)
OwnChangesShow ==
    \A a, u \in Users :
        /\ writer[u] = a /\ Quiet(a)
        /\ list[a].last = list[a].begun /\ ~list[a].cut /\ u \notin list[a].lost
        => tab[a].shown[u] \in {"absent", IF u \in banned THEN "suspended" ELSE "active"}

(* The trail (admin-suspend-user:68-76): unless a row failed or two        *)
(* changes of one account overlapped, the last row about an account says   *)
(* what it is.                                                             *)
TrailAgrees ==
    \A u \in Users \ crossed :
        (\A j \in Jobs : job[j].user = u => job[j].pc # "applied")
        => (u \in banned <=> audit[u] = "suspend")

=============================================================================
