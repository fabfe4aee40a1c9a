-------------------------- MODULE OrgProvisioning --------------------------
(***************************************************************************)
(* How a developer gets a first project: the profile row made by a trigger *)
(* or healed by the dashboard, then get_or_create_default_organization, a  *)
(* READ COMMITTED transaction of two selects and two inserts, then the     *)
(* insert of the project, which row-level security allows to members only. *)
(* The button is disabled while a call is under way, but other tabs,       *)
(* devices and retries run beside it.                                      *)
(*                                                                         *)
(* An organization is named after the call that inserts it. Names and      *)
(* slugs are left out; a slug that is taken is a failure of its insert.    *)
(* now() is the start of the transaction: rows carry it as created_at. An  *)
(* invitation is seen when its own transaction commits, and whoever adds   *)
(* it may supply another created_at (no policy looks at the column), so it *)
(* can be older than what was seen before it. Organizations that a         *)
(* developer inserts directly are left out.                                *)
(***************************************************************************)
EXTENDS Naturals

CONSTANTS Users,     \* accounts
          Calls,     \* calls of ProjectsListPage.handleCreate
          Failures,  \* which of "trigger", "abort", "reply" and "slug" can happen
          Stamps     \* what an invitation may carry as created_at, besides now()

ASSUME StampsAreNats == Stamps \subseteq Nat

VARIABLES accounts,  \* rows of auth.users
          profiles,  \* rows of profiles
          orgs,      \* committed rows of organizations
          members,   \* committed rows of organization_members
          call,      \* local state of every call
          clock,     \* the newest created_at so far
          displaced  \* history: developers whose oldest membership an older
                     \* invitation displaced while they owned nothing

vars == <<accounts, profiles, orgs, members, call, clock, displaced>>

Org    == [id : Calls, owner : Users, at : Nat]
Member == [org : Calls, user : Users, at : Nat]
Pc     == {"idle", "owned", "member", "insert", "commit", "project", "created",
           "forbidden", "failed"}
Call   == [pc : Pc, user : Users \cup {"none"}, at : Nat,
           org : Calls \cup {"none"},
           after : SUBSET Calls]  \* history: calls of the user that were over
                                  \* when this one began
TypeOK ==
    /\ accounts \subseteq Users
    /\ profiles \subseteq accounts
    /\ orgs \subseteq Org
    /\ members \subseteq Member
    /\ call \in [Calls -> Call]
    /\ clock \in Nat
    /\ displaced \subseteq Users

Init ==
    /\ accounts = {}
    /\ profiles = {}
    /\ orgs = {}
    /\ members = {}
    /\ call = [c \in Calls |-> [pc |-> "idle", user |-> "none", at |-> 0,
                                org |-> "none", after |-> {}]]
    /\ clock = 0
    /\ displaced = {}

-----------------------------------------------------------------------------
\* A row of auth.users fires handle_new_user, unless it is older than the trigger.
SignUp(u) ==
    /\ u \notin accounts
    /\ accounts' = accounts \cup {u}
    /\ \/ profiles' = profiles \cup {u}
       \/ "trigger" \in Failures /\ UNCHANGED profiles
    /\ UNCHANGED <<orgs, members, call, clock, displaced>>

\* AuthContext.ensureProfileExists: an upsert nobody waits for.
Heal(u) ==
    /\ u \in accounts \ profiles
    /\ profiles' = profiles \cup {u}
    /\ UNCHANGED <<accounts, orgs, members, call, clock, displaced>>

MembershipsOf(u) == {m \in members : m.user = u}

\* An owner may add members (policy org_members_insert_owner_admin_role), with a
\* created_at older or newer than that of any row there is.
Invite(o, u, at) ==
    /\ u \in profiles
    /\ \A m \in members : m.org # o.id \/ m.user # u
    /\ members' = members \cup {[org |-> o.id, user |-> u, at |-> at]}
    /\ clock' = IF at > clock THEN at ELSE clock
    /\ displaced' = IF /\ \A p \in orgs : p.owner # u
                       /\ MembershipsOf(u) # {}
                       /\ \A m \in MembershipsOf(u) : at <= m.at
                    THEN displaced \cup {u} ELSE displaced
    /\ UNCHANGED <<accounts, profiles, orgs, call>>

-----------------------------------------------------------------------------
Over(c) == call[c].pc \in {"created", "forbidden", "failed"}

Begin(c, u) ==
    /\ u \in accounts /\ call[c].pc = "idle"
    /\ clock' = clock + 1
    /\ call' = [call EXCEPT ![c] =
                  [pc |-> "owned", user |-> u, at |-> clock + 1, org |-> "none",
                   after |-> {d \in Calls : Over(d) /\ call[d].user = u}]]
    /\ UNCHANGED <<accounts, profiles, orgs, members, displaced>>

Goto(c, pc)     == call' = [call EXCEPT ![c].pc = pc]
Return(c, org)  == call' = [call EXCEPT ![c].pc = "project", ![c].org = org]
Newest(rows)    == {row \in rows : \A other \in rows : row.at >= other.at}
\* order by created_at asc limit 1
Oldest(rows)    == {row \in rows : \A other \in rows : row.at <= other.at}

\* The first select sees what is committed when it runs.
SelectOwned(c) ==
    /\ call[c].pc = "owned"
    /\ LET own == {o \in orgs : o.owner = call[c].user}
       IN  \/ \E o \in Oldest(own) : Return(c, o.id)
           \/ own = {} /\ Goto(c, "member")
    /\ UNCHANGED <<accounts, profiles, orgs, members, clock, displaced>>

\* So does the second, which may see more than the first.
SelectMember(c) ==
    /\ call[c].pc = "member"
    /\ LET own == MembershipsOf(call[c].user)
       IN  \/ \E m \in Oldest(own) : Return(c, m.org)
           \/ own = {} /\ Goto(c, "insert")
    /\ UNCHANGED <<accounts, profiles, orgs, members, clock, displaced>>

OrgRow(c)    == [id |-> c, owner |-> call[c].user, at |-> call[c].at]
MemberRow(c) == [org |-> c, user |-> call[c].user, at |-> call[c].at]

InsertCommitting(c) ==
    /\ call[c].pc = "insert" /\ call[c].user \in profiles
    /\ orgs' = orgs \cup {OrgRow(c)}
    /\ Goto(c, "commit")
    /\ UNCHANGED <<accounts, profiles, members, clock, displaced>>

\* Both inserts, seen by nobody yet; without a profile the owner's foreign key
\* refuses the first.
Insert(c) ==
    /\ call[c].pc = "insert"
    /\ \/ call[c].user \in profiles /\ Goto(c, "commit")
       \/ (call[c].user \notin profiles \/ "abort" \in Failures) /\ Goto(c, "failed")
    /\ UNCHANGED <<accounts, profiles, orgs, members, clock, displaced>>

CommitOrgOnly(c) ==
    /\ call[c].pc = "commit"
    /\ orgs' = orgs \cup {OrgRow(c)}
    /\ Return(c, c)
    /\ UNCHANGED <<accounts, profiles, members, clock, displaced>>

\* The organization and its owner's membership appear together. The answer may
\* be lost after the commit.
Commit(c) ==
    /\ call[c].pc = "commit"
    /\ orgs' = orgs \cup {OrgRow(c)}
    /\ members' = members \cup {MemberRow(c)}
    /\ Return(c, c) \/ ("reply" \in Failures /\ Goto(c, "failed"))
    /\ UNCHANGED <<accounts, profiles, clock, displaced>>

\* createProject: policy projects_insert_org_member, then the slug.
CreateProject(c) ==
    /\ call[c].pc = "project"
    /\ LET allowed == \E m \in members : m.org = call[c].org /\ m.user = call[c].user
       IN  \/ ~allowed /\ Goto(c, "forbidden")
           \/ allowed /\ Goto(c, "created")
           \/ allowed /\ "slug" \in Failures /\ Goto(c, "failed")
    /\ UNCHANGED <<accounts, profiles, orgs, members, clock, displaced>>

Next ==
    \/ \E u \in Users :
         \/ SignUp(u) \/ Heal(u)
         \/ \E o \in orgs, at \in Stamps \cup {clock + 1} : Invite(o, u, at)
    \/ \E c \in Calls :
         \/ \E u \in Users : Begin(c, u)
         \/ SelectOwned(c) \/ SelectMember(c) \/ Insert(c) \/ Commit(c)
         \/ CreateProject(c)

Spec == Init /\ [][Next]_vars

-----------------------------------------------------------------------------
\* "there is never a client-observable window where an organization exists
\* without its owner's membership" (0007_fix_organization_provisioning.sql:24-28).
OwnerIsMember == \A o \in orgs :
    \E m \in members : m.org = o.id /\ m.user = o.owner

\* Nobody is refused the project in the organization the function returned, the
\* failure migration 0007 repairs (0007:3-18; 0004_row_level_security.sql:106-108).
NeverForbidden == \A c \in Calls : call[c].pc # "forbidden"

Answered(c) == call[c].org # "none"
Overlap(c, d) == c # d /\ call[c].user = call[d].user /\
                 call[c].pc # "idle" /\ call[d].pc # "idle" /\
                 c \notin call[d].after /\ d \notin call[c].after

\* A developer whose calls never overlapped always got the same organization,
\* whatever invitations, aborts and lost answers came between (0007:57-60, 77-99),
\* with one exception: an invitation that is older than their memberships, or as
\* old, comes into sight while they own nothing, and the oldest is another one.
SerialCallsAgree == \A c, d \in Calls :
    \/ call[c].user # call[d].user
    \/ ~Answered(c) \/ ~Answered(d) \/ call[c].org = call[d].org
    \/ \E e, f \in Calls : call[e].user = call[c].user /\ Overlap(e, f)
    \/ call[c].user \in displaced

\* "repeated calls for the same user (double-click, page refresh racing itself,
\* retried request) always return the same organization id rather than creating
\* duplicates" (0007:57-59).
RepeatedCallsAgree == \A c, d \in Calls :
    call[c].user = call[d].user /\ Answered(c) /\ Answered(d)
        => call[c].org = call[d].org

=============================================================================
