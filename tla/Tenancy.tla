------------------------------ MODULE Tenancy ------------------------------
(***************************************************************************)
(* The row-level security policies of 0004, 0006 and 0007 as predicates    *)
(* of the tables they read, and the commands a signed-in user may send     *)
(* through them in any order.  A user may send any insert, update or       *)
(* delete; a command no policy admits changes nothing.  Tables whose       *)
(* policies are the same are represented by one of them: api_usage stands  *)
(* for otp_verifications, announcements for the changelog and the status   *)
(* page.  Rows written by Edge Functions come from the service role, which *)
(* the policies do not bind.                                               *)
(***************************************************************************)
EXTENDS Naturals

CONSTANTS
    Users,          \* auth.uid() of the developers and administrators
    Orgs,           \* ids of organizations
    Projects,       \* ids of projects
    Rows,           \* ids of rows of the other tables
    FirstAdmins,    \* rows of admin_roles inserted with the first deployment
    None            \* null, and the place of a row that does not exist

ASSUME FirstAdminsAreUsers == FirstAdmins \subseteq Users
ASSUME NoneIsNoId == None \notin Users \cup Orgs \cup Projects

MemberTables == {"api_keys", "webhooks"}
LoggedTables == {"request_logs", "api_usage"}
PersonalTables == {"profiles", "user_preferences", "notifications"}
ProjectTables == MemberTables \cup LoggedTables
Tables == ProjectTables \cup PersonalTables \cup {"announcements"}

VARIABLES
    admins,         \* admin_roles
    owner,          \* organizations.owner_id
    members,        \* organization_members
    home,           \* projects.organization_id
    row,            \* the table, and the project or user a row belongs to
    insiders,       \* history: who was let in by an owner or an administrator
    origin,         \* history: the organization or user a row was created for
    taken,          \* history: rows an insider has taken elsewhere since
    breach          \* history: an outsider changed, moved or planted something

vars == <<admins, owner, members, home, row, insiders, origin, taken, breach>>

NoRow == [table |-> "none", at |-> None]

Init ==
    /\ admins = FirstAdmins
    /\ owner = [o \in Orgs |-> None]
    /\ members = [o \in Orgs |-> {}]
    /\ home = [p \in Projects |-> None]
    /\ row = [r \in Rows |-> NoRow]
    /\ insiders = [o \in Orgs |-> {}]
    /\ origin = [r \in Rows |-> None]
    /\ taken = {}
    /\ breach = FALSE

-----------------------------------------------------------------------------
(* Helper functions of the policies.  A null organization has no members.  *)

IsSuperAdmin(u) == u \in admins
IsOrgMember(u, o) == o # None /\ u \in members[o]
ProjectOrgId(p) == IF p = None THEN None ELSE home[p]

(* The policies.  An update policy without a check applies its condition   *)
(* to the old row and to the new one.                                      *)

MaySelectOrg(u, o) ==
    owner[o] # None /\ (owner[o] = u \/ IsOrgMember(u, o) \/ IsSuperAdmin(u))

MayInsertOrg(u, w) == w = u

MayUpdateOrg(u, o, w) == IsSuperAdmin(u) \/ (owner[o] = u /\ w = u)

\* The subquery on organizations is itself subject to MaySelectOrg.
MayInsertMember(u, o) ==
    IsSuperAdmin(u) \/ (MaySelectOrg(u, o) /\ owner[o] = u)

MayUseProject(u, o) == IsOrgMember(u, o) \/ IsSuperAdmin(u)

MayInsertProject(u, o) == IsOrgMember(u, o)

MayMoveProject(u, from, to) == MayUseProject(u, from) /\ MayUseProject(u, to)

MayUseRow(u, p) == MayUseProject(u, ProjectOrgId(p))

MayInsertRow(u, p) == IsOrgMember(u, ProjectOrgId(p))

\* Variant: the policy has a check of (true).
MayMoveRowFrom(u, from, to) == MayUseRow(u, from)

MayMoveRow(u, from, to) == MayUseRow(u, from) /\ MayUseRow(u, to)

MaySelectPersonal(u, t, w) == w = u \/ (t = "profiles" /\ IsSuperAdmin(u))

MayInsertPersonal(u, t, w) == t # "notifications" /\ w = u

MayWritePublic(u) == IsSuperAdmin(u)

MaySelect(u, r) ==
    \/ row[r].table \in ProjectTables /\ MayUseRow(u, row[r].at)
    \/ row[r].table \in PersonalTables /\ MaySelectPersonal(u, row[r].table, row[r].at)
    \/ row[r].table = "announcements"

\* Variant: the subquery finds the webhook but leaves the membership out.
MaySelectAnyDelivery(u, r) == row[r].table = "webhooks"

\* A delivery is looked up through its webhook, with the webhook's policy.
MaySelectDelivery(u, r) ==
    /\ row[r].table = "webhooks"
    /\ IsSuperAdmin(u) \/ (MaySelect(u, r) /\ IsOrgMember(u, ProjectOrgId(row[r].at)))

-----------------------------------------------------------------------------
(* History of who moves what; a change in place moves from = to. *)

Insider(u, o) == u \in admins \/ (o # None /\ u \in insiders[o])

RowsOf(p) == {r \in Rows : row[r].table \in ProjectTables /\ row[r].at = p}

Moved(u, rs, from, to) ==
    /\ taken' = IF from # to THEN taken \cup rs ELSE taken
    /\ breach' = (breach \/ ~(Insider(u, from) /\ Insider(u, to)))

-----------------------------------------------------------------------------
(* Organizations and their members.                                        *)

GrantAdmin(u, w) ==
    /\ IsSuperAdmin(u)
    /\ admins' = admins \cup {w}
    /\ UNCHANGED <<owner, members, home, row, insiders, origin, taken, breach>>

InsertOrg(u, o, w) ==
    /\ owner[o] = None
    /\ MayInsertOrg(u, w)
    /\ owner' = [owner EXCEPT ![o] = w]
    /\ UNCHANGED <<admins, members, home, row, insiders, origin, taken, breach>>

\* What get_or_create_default_organization answers without inserting.
Answers(u) ==
    IF \E o \in Orgs : owner[o] = u
    THEN {o \in Orgs : owner[o] = u}
    ELSE {o \in Orgs : u \in members[o]}

\* The function is a security definer: no policy applies, both rows appear at once.
Provision(u, o) ==
    /\ owner[o] = None
    /\ Answers(u) = {}
    /\ owner' = [owner EXCEPT ![o] = u]
    /\ members' = [members EXCEPT ![o] = {u}]
    /\ insiders' = [insiders EXCEPT ![o] = {u}]
    /\ UNCHANGED <<admins, home, row, origin, taken, breach>>

UpdateOrg(u, o, w) ==
    /\ owner[o] # None
    /\ MayUpdateOrg(u, o, w)
    /\ owner' = [owner EXCEPT ![o] = w]
    /\ UNCHANGED <<admins, members, home, row, insiders, origin, taken, breach>>

InsertMember(u, o, w) ==
    /\ owner[o] # None
    /\ w \notin members[o]
    /\ MayInsertMember(u, o)
    /\ members' = [members EXCEPT ![o] = @ \cup {w}]
    /\ insiders' = IF IsSuperAdmin(u) \/ owner[o] = u
                   THEN [insiders EXCEPT ![o] = @ \cup {w}]
                   ELSE insiders
    /\ UNCHANGED <<admins, owner, home, row, origin, taken, breach>>

-----------------------------------------------------------------------------
(* Projects.  Deleting one deletes its keys, webhooks, usage rows and      *)
(* codes, and sets the project of its log rows to null.                    *)

InsertProject(u, p, o) ==
    /\ home[p] = None /\ owner[o] # None
    /\ MayInsertProject(u, o)
    /\ home' = [home EXCEPT ![p] = o]
    /\ breach' = (breach \/ ~Insider(u, o))
    /\ UNCHANGED <<admins, owner, members, row, insiders, origin, taken>>

MoveProject(u, p, o) ==
    /\ home[p] # None /\ owner[o] # None
    /\ MayMoveProject(u, home[p], o)
    /\ home' = [home EXCEPT ![p] = o]
    /\ Moved(u, RowsOf(p), home[p], o)
    /\ UNCHANGED <<admins, owner, members, row, insiders, origin>>

AfterDelete(r, p) ==
    CASE row[r].table \notin ProjectTables \/ row[r].at # p -> row[r]
      [] row[r].table = "request_logs" /\ row[r].at = p -> [row[r] EXCEPT !.at = None]
      [] OTHER -> NoRow

DeleteProject(u, p) ==
    /\ home[p] # None
    /\ MayUseProject(u, home[p])
    /\ home' = [home EXCEPT ![p] = None]
    /\ row' = [r \in Rows |-> AfterDelete(r, p)]
    /\ breach' = (breach \/ ~Insider(u, home[p]))
    /\ UNCHANGED <<admins, owner, members, insiders, origin, taken>>

-----------------------------------------------------------------------------
(* Rows of the other tables. *)

Put(r, t, at, from) ==
    /\ row[r] = NoRow
    /\ row' = [row EXCEPT ![r] = [table |-> t, at |-> at]]
    /\ origin' = [origin EXCEPT ![r] = from]
    /\ taken' = taken \ {r}

InsertRow(u, r, t, p) ==
    /\ home[p] # None
    /\ MayInsertRow(u, p)
    /\ Put(r, t, p, home[p])
    /\ breach' = (breach \/ ~Insider(u, home[p]))
    /\ UNCHANGED <<admins, owner, members, home, insiders>>

InsertPersonal(u, r, t, w) ==
    /\ MayInsertPersonal(u, t, w)
    /\ Put(r, t, w, w)
    /\ UNCHANGED <<admins, owner, members, home, insiders, breach>>

InsertPublic(u, r) ==
    /\ MayWritePublic(u)
    /\ Put(r, "announcements", None, None)
    /\ UNCHANGED <<admins, owner, members, home, insiders, breach>>

\* Edge Functions log requests and count usage for a project ...
LogForProject(r, t, p) ==
    /\ home[p] # None
    /\ Put(r, t, p, home[p])
    /\ UNCHANGED <<admins, owner, members, home, insiders, breach>>

\* ... and notify a user.
Notify(r, w) ==
    /\ Put(r, "notifications", w, w)
    /\ UNCHANGED <<admins, owner, members, home, insiders, breach>>

UpdateRow(u, r, p) ==
    /\ row[r].table \in MemberTables /\ home[p] # None
    /\ MayMoveRow(u, row[r].at, p)
    /\ row' = [row EXCEPT ![r].at = p]
    /\ Moved(u, {r}, ProjectOrgId(row[r].at), home[p])
    /\ UNCHANGED <<admins, owner, members, home, insiders, origin>>

DeleteRow(u, r) ==
    /\ row[r].table = "webhooks"
    /\ MayUseRow(u, row[r].at)
    /\ row' = [row EXCEPT ![r] = NoRow]
    /\ breach' = (breach \/ ~Insider(u, ProjectOrgId(row[r].at)))
    /\ UNCHANGED <<admins, owner, members, home, insiders, origin, taken>>

Next ==
    \/ \E u, w \in Users : GrantAdmin(u, w)
    \/ \E u \in Users, o \in Orgs : Provision(u, o)
    \/ \E u, w \in Users, o \in Orgs : InsertOrg(u, o, w)
    \/ \E u, w \in Users, o \in Orgs : UpdateOrg(u, o, w)
    \/ \E u, w \in Users, o \in Orgs : InsertMember(u, o, w)
    \/ \E u \in Users, p \in Projects, o \in Orgs : InsertProject(u, p, o)
    \/ \E u \in Users, p \in Projects, o \in Orgs : MoveProject(u, p, o)
    \/ \E u \in Users, p \in Projects : DeleteProject(u, p)
    \/ \E u \in Users, r \in Rows, t \in MemberTables, p \in Projects : InsertRow(u, r, t, p)
    \/ \E u, w \in Users, r \in Rows, t \in PersonalTables : InsertPersonal(u, r, t, w)
    \/ \E u \in Users, r \in Rows : InsertPublic(u, r)
    \/ \E r \in Rows, t \in LoggedTables, p \in Projects : LogForProject(r, t, p)
    \/ \E r \in Rows, w \in Users : Notify(r, w)
    \/ \E u \in Users, r \in Rows, p \in Projects : UpdateRow(u, r, p)
    \/ \E u \in Users, r \in Rows : DeleteRow(u, r)

Spec == Init /\ [][Next]_vars

-----------------------------------------------------------------------------
Row == [table : Tables \cup {"none"}, at : Projects \cup Users \cup {None}]

Anchored(r) ==
    /\ row[r].table \in ProjectTables =>
         \/ row[r].at \in Projects /\ home[row[r].at] # None
         \/ row[r].table = "request_logs" /\ row[r].at = None
    /\ row[r].table \in PersonalTables => row[r].at \in Users

(* The tables hold what their columns, checks and foreign keys admit: a    *)
(* project is of an organization that exists, a row of a project that      *)
(* exists.                                                                 *)
TypeOK ==
    /\ admins \subseteq Users
    /\ owner \in [Orgs -> Users \cup {None}]
    /\ members \in [Orgs -> SUBSET Users]
    /\ home \in [Projects -> Orgs \cup {None}]
    /\ row \in [Rows -> Row]
    /\ insiders \in [Orgs -> SUBSET Users]
    /\ origin \in [Rows -> Orgs \cup Users \cup {None}]
    /\ taken \subseteq Rows
    /\ breach \in BOOLEAN
    /\ \A r \in Rows : Anchored(r)

(* Tenant isolation (0004:2-3): a developer who can read a row of a        *)
(* project was let into the organization the row was created in by its     *)
(* owner or an administrator, unless an insider took the row elsewhere;    *)
(* so is a reader of the deliveries of a webhook; a personal row is read   *)
(* by the user it was created for.                                         *)
ReadersWereLetIn ==
    \A u \in Users \ admins, r \in Rows :
        MaySelect(u, r) \/ MaySelectDelivery(u, r) =>
            \/ row[r].table = "announcements"
            \/ row[r].table \in PersonalTables /\ u = origin[r]
            \/ row[r].table \in ProjectTables /\ r \in taken
            \/ /\ row[r].table \in ProjectTables
               /\ origin[r] \in Orgs /\ u \in insiders[origin[r]]

(* Nobody but members let in and administrators creates, changes, moves or *)
(* deletes anything of an organization, whichever of its policies the      *)
(* command goes through: the update policies have no check of their own.   *)
OnlyInsidersChange == ~breach

=============================================================================
