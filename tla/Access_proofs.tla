---------------------------- MODULE Access_proofs ----------------------------
(***************************************************************************)
(* Who may see what: the properties of Tenancy for any users,              *)
(* organizations, projects and rows, and of SignIn for any accounts,       *)
(* sessions and failures.                                                  *)
(*                                                                         *)
(* The policies first.  Inv says what the history has to do with the tables: a member    *)
(* was let in, a personal row belongs to the user it was made for, and a   *)
(* row that was not taken away is still in the organization it was made    *)
(* in.                                                                     *)
(***************************************************************************)
EXTENDS Tenancy, SignIn, TLAPS

MembersWereLetIn == \A o \in Orgs : members[o] \subseteq insiders[o]

StayedHome(r) ==
    /\ row[r].table \in PersonalTables => row[r].at = origin[r]
    /\ row[r].table \in ProjectTables /\ row[r].at # None /\ r \notin taken
         => home[row[r].at] = origin[r]

Inv == TypeOK /\ MembersWereLetIn /\ (\A r \in Rows : StayedHome(r)) /\ ~breach

USE DEF ProjectTables, MemberTables, LoggedTables, PersonalTables

(* The initial tables are empty. *)
LEMMA InitEstablishesInv == Init => Inv
<1> SUFFICES ASSUME Init PROVE Inv
  OBVIOUS
<1>1. \A r \in Rows : row[r].table = "none" /\ row[r].at = None
  BY DEF Init, NoRow
<1>2. row \in [Rows -> Row]
  BY DEF Init, NoRow, Row
<1>3. \A r \in Rows : Anchored(r) /\ StayedHome(r)
  BY <1>1 DEF Anchored, StayedHome
<1>4. TypeOK
  BY <1>2, <1>3, FirstAdminsAreUsers DEF Init, TypeOK
<1> QED
  BY <1>3, <1>4 DEF Init, Inv, MembersWereLetIn

(* A member or an administrator is an insider. *)
LEMMA UsersAreInsiders ==
    ASSUME Inv, NEW u, NEW o \in Orgs \cup {None}, MayUseProject(u, o)
    PROVE  Insider(u, o)
BY DEF Inv, MembersWereLetIn, MayUseProject, IsOrgMember, IsSuperAdmin, Insider

(* An insert of a row keeps the invariant, whatever the row. *)
LEMMA PutKeepsInv ==
    ASSUME Inv,
           UNCHANGED <<admins, owner, members, home, insiders>>,
           ~breach',
           breach' \in BOOLEAN,
           NEW r \in Rows, NEW t \in Tables,
           NEW at \in Projects \cup Users \cup {None},
           NEW from \in Orgs \cup Users \cup {None},
           Put(r, t, at, from),
           t \in ProjectTables => at \in Projects /\ home[at] # None /\ from = home[at],
           t \in PersonalTables => at \in Users /\ from = at
    PROVE  Inv'
<1> DEFINE new == [table |-> t, at |-> at]
<1>1. new \in Row /\ new.table = t /\ new.at = at
  BY DEF Row
<1>2. row' = [row EXCEPT ![r] = new] /\ origin' = [origin EXCEPT ![r] = from]
      /\ taken' = taken \ {r}
  BY DEF Put
<1>3. row \in [Rows -> Row] /\ origin \in [Rows -> Orgs \cup Users \cup {None}]
      /\ taken \subseteq Rows
  BY DEF Inv, TypeOK
<1>4. row' \in [Rows -> Row] /\ row'[r] = new /\ origin'[r] = from
      /\ \A q \in Rows \ {r} : row'[q] = row[q] /\ origin'[q] = origin[q]
                               /\ (q \in taken <=> q \in taken')
  BY <1>1, <1>2, <1>3
<1>5. origin' \in [Rows -> Orgs \cup Users \cup {None}] /\ taken' \subseteq Rows
  BY <1>2, <1>3
<1> HIDE DEF new
<1>6. \A q \in Rows : Anchored(q)' /\ StayedHome(q)'
  <2> SUFFICES ASSUME NEW q \in Rows PROVE Anchored(q)' /\ StayedHome(q)'
    OBVIOUS
  <2>1. CASE q = r
    BY <2>1, <1>1, <1>4 DEF Anchored, StayedHome
  <2>2. CASE q # r
    <3>1. Anchored(q) /\ StayedHome(q)
      BY DEF Inv, TypeOK
    <3> QED BY <2>2, <3>1, <1>4 DEF Anchored, StayedHome
  <2> QED BY <2>1, <2>2
<1>7. TypeOK'
  BY <1>4, <1>5, <1>6 DEF Inv, TypeOK
<1> QED BY <1>6, <1>7 DEF Inv, MembersWereLetIn

(* Taking rows to another place keeps the invariant: a row that changes    *)
(* organization counts as taken, and whoever takes it uses both.           *)
LEMMA MovedKeepsHistory ==
    ASSUME Inv, NEW u, NEW rs \in SUBSET Rows,
           NEW from \in Orgs \cup {None}, NEW to \in Orgs \cup {None},
           MayUseProject(u, from), MayUseProject(u, to),
           Moved(u, rs, from, to)
    PROVE  /\ ~breach' /\ breach' \in BOOLEAN
           /\ taken' \subseteq Rows /\ taken \subseteq taken'
           /\ from # to => rs \subseteq taken'
<1>1. Insider(u, from) /\ Insider(u, to)
  BY UsersAreInsiders
<1> QED BY <1>1 DEF Inv, TypeOK, Moved

(* Every step of Next, and a stuttering step, keeps the invariant. *)
LEMMA NextKeepsInv == Inv /\ [Next]_vars => Inv'
<1> SUFFICES ASSUME Inv, [Next]_vars PROVE Inv'
  OBVIOUS
<1> USE DEF Inv
<1>t. TypeOK
  OBVIOUS
<1>0. ASSUME UNCHANGED <<row, origin, taken, home>> 
      PROVE  \A r \in Rows : Anchored(r)' /\ StayedHome(r)'
  BY <1>0 DEF TypeOK, Anchored, StayedHome
<1>1. ASSUME NEW u \in Users, NEW w \in Users, GrantAdmin(u, w) PROVE Inv'
  BY <1>1, <1>0 DEF GrantAdmin, TypeOK, MembersWereLetIn
<1>2. ASSUME NEW u \in Users, NEW o \in Orgs, Provision(u, o) PROVE Inv'
  BY <1>2, <1>0 DEF Provision, TypeOK, MembersWereLetIn
<1>3. ASSUME NEW u \in Users, NEW w \in Users, NEW o \in Orgs, InsertOrg(u, o, w) PROVE Inv'
  BY <1>3, <1>0 DEF InsertOrg, TypeOK, MembersWereLetIn
<1>4. ASSUME NEW u \in Users, NEW w \in Users, NEW o \in Orgs, UpdateOrg(u, o, w) PROVE Inv'
  BY <1>4, <1>0 DEF UpdateOrg, TypeOK, MembersWereLetIn
<1>5. ASSUME NEW u \in Users, NEW w \in Users, NEW o \in Orgs, InsertMember(u, o, w) PROVE Inv'
  <2>1. IsSuperAdmin(u) \/ owner[o] = u
    BY <1>5 DEF InsertMember, MayInsertMember
  <2>2. insiders' = [insiders EXCEPT ![o] = @ \cup {w}]
        /\ members' = [members EXCEPT ![o] = @ \cup {w}]
    BY <1>5, <2>1 DEF InsertMember
  <2> QED BY <1>5, <1>0, <2>2 DEF InsertMember, TypeOK, MembersWereLetIn
<1>6. ASSUME NEW u \in Users, NEW p \in Projects, NEW o \in Orgs, InsertProject(u, p, o) PROVE Inv'
  <2>1. Insider(u, o)
    BY <1>6, UsersAreInsiders DEF InsertProject, MayInsertProject, MayUseProject
  <2>2. ~breach' /\ breach' \in BOOLEAN
    BY <1>6, <2>1 DEF InsertProject, TypeOK
  <2>3. home \in [Projects -> Orgs \cup {None}] /\ home' = [home EXCEPT ![p] = o] /\ home[p] = None
    BY <1>6 DEF InsertProject, TypeOK
  <2>4. \A r \in Rows : Anchored(r)' /\ StayedHome(r)'
    <3> SUFFICES ASSUME NEW r \in Rows PROVE Anchored(r)' /\ StayedHome(r)'
      OBVIOUS
    <3>1. Anchored(r) /\ StayedHome(r) /\ row[r].at \in Projects \cup Users \cup {None}
      BY DEF TypeOK, Row
    <3>2. row' = row /\ origin' = origin /\ taken' = taken
      BY <1>6 DEF InsertProject
    <3>3. row[r].at \in Projects /\ home[row[r].at] # None => home'[row[r].at] = home[row[r].at]
      BY <2>3
    <3>4. o # None
      BY NoneIsNoId
    <3> QED BY <2>3, <3>1, <3>2, <3>3 DEF Anchored, StayedHome
  <2> QED BY <1>6, <2>2, <2>3, <2>4 DEF InsertProject, TypeOK, MembersWereLetIn
<1>7. ASSUME NEW u \in Users, NEW p \in Projects, NEW o \in Orgs, MoveProject(u, p, o) PROVE Inv'
  <2>1. home \in [Projects -> Orgs \cup {None}] /\ home' = [home EXCEPT ![p] = o]
        /\ home[p] # None /\ o # None
    BY <1>7, NoneIsNoId DEF MoveProject, TypeOK
  <2>2. RowsOf(p) \subseteq Rows /\ home[p] \in Orgs \cup {None}
    BY <2>1 DEF RowsOf
  <2>3. /\ ~breach' /\ breach' \in BOOLEAN
        /\ taken' \subseteq Rows /\ taken \subseteq taken'
        /\ home[p] # o => RowsOf(p) \subseteq taken'
    BY <1>7, <2>2, MovedKeepsHistory DEF MoveProject, MayMoveProject
  <2>4. \A r \in Rows : Anchored(r)' /\ StayedHome(r)'
    <3> SUFFICES ASSUME NEW r \in Rows PROVE Anchored(r)' /\ StayedHome(r)'
      OBVIOUS
    <3>1. Anchored(r) /\ StayedHome(r) /\ row[r].at \in Projects \cup Users \cup {None}
      BY DEF TypeOK, Row
    <3>2. row' = row /\ origin' = origin
      BY <1>7 DEF MoveProject
    <3>3. CASE row[r].at = p /\ home[p] # o
      <4>1. row[r].table \in ProjectTables => r \in taken'
        BY <2>3, <3>3 DEF RowsOf
      <4> QED BY <2>1, <3>1, <3>2, <3>3, <4>1 DEF Anchored, StayedHome
    <3>4. CASE ~(row[r].at = p /\ home[p] # o)
      <4>1. row[r].at \in Projects => home'[row[r].at] = home[row[r].at]
        BY <2>1, <3>4
      <4> QED BY <2>1, <2>3, <3>1, <3>2, <4>1 DEF Anchored, StayedHome
    <3> QED BY <3>3, <3>4
  <2> QED BY <1>7, <2>1, <2>3, <2>4 DEF MoveProject, TypeOK, MembersWereLetIn
<1>8. ASSUME NEW u \in Users, NEW p \in Projects, DeleteProject(u, p) PROVE Inv'
  <2>1. home \in [Projects -> Orgs \cup {None}] /\ home' = [home EXCEPT ![p] = None]
    BY <1>8 DEF DeleteProject, TypeOK
  <2>2. Insider(u, home[p])
    BY <1>8, <2>1, UsersAreInsiders DEF DeleteProject
  <2>3. ~breach' /\ breach' \in BOOLEAN
    BY <1>8, <2>2 DEF DeleteProject, TypeOK
  <2>4. row' = [r \in Rows |-> AfterDelete(r, p)] /\ origin' = origin /\ taken' = taken
    BY <1>8 DEF DeleteProject
  <2>5. \A r \in Rows : row'[r] \in Row /\ Anchored(r)' /\ StayedHome(r)'
    <3> SUFFICES ASSUME NEW r \in Rows PROVE row'[r] \in Row /\ Anchored(r)' /\ StayedHome(r)'
      OBVIOUS
    <3>1. Anchored(r) /\ StayedHome(r) /\ row[r] \in Row
      BY DEF TypeOK
    <3>2. row'[r] = AfterDelete(r, p)
      BY <2>4
    <3>3. CASE row[r].table \notin ProjectTables \/ row[r].at # p
      <4>1. row'[r] = row[r]
        BY <3>2, <3>3 DEF AfterDelete
      <4>2. row[r].at \in Projects /\ row[r].table \in ProjectTables
              => home'[row[r].at] = home[row[r].at]
        BY <2>1, <3>3
      <4>3. row[r].at \in Projects \cup Users \cup {None}
        BY <3>1 DEF Row
      <4> QED BY <2>4, <3>1, <4>1, <4>2, <4>3 DEF Anchored, StayedHome
    <3>4. CASE row[r].table = "request_logs" /\ row[r].at = p
      <4>1. row'[r] = [row[r] EXCEPT !.at = None]
        BY <3>2, <3>4 DEF AfterDelete
      <4>2. row'[r] \in Row /\ row'[r].at = None /\ row'[r].table = "request_logs"
        BY <3>1, <3>4, <4>1 DEF Row
      <4> QED BY <4>2 DEF Anchored, StayedHome
    <3>5. CASE row[r].table \in ProjectTables /\ row[r].table # "request_logs" /\ row[r].at = p
      <4>1. row'[r] = NoRow
        BY <3>2, <3>5 DEF AfterDelete
      <4>2. row'[r] \in Row /\ row'[r].table = "none"
        BY <4>1 DEF Row, NoRow
      <4> QED BY <4>2 DEF Anchored, StayedHome
    <3> QED BY <3>3, <3>4, <3>5
  <2>6. row' \in [Rows -> Row]
    BY <2>4, <2>5
  <2> QED BY <1>8, <2>1, <2>3, <2>5, <2>6 DEF DeleteProject, TypeOK, MembersWereLetIn
<1>9. ASSUME NEW u \in Users, NEW r \in Rows, NEW t \in MemberTables, NEW p \in Projects,
             InsertRow(u, r, t, p) PROVE Inv'
  <2>1. home[p] \in Orgs /\ home[p] # None
    BY <1>9 DEF InsertRow, TypeOK
  <2>2. Insider(u, home[p])
    BY <1>9, <2>1, UsersAreInsiders, NoneIsNoId
       DEF InsertRow, MayInsertRow, MayUseProject, ProjectOrgId
  <2>3. ~breach' /\ breach' \in BOOLEAN
    BY <1>9, <2>2 DEF InsertRow, TypeOK
  <2> QED BY <1>9, <2>1, <2>3, PutKeepsInv DEF InsertRow, Tables
<1>10. ASSUME NEW u \in Users, NEW w \in Users, NEW r \in Rows, NEW t \in PersonalTables,
              InsertPersonal(u, r, t, w) PROVE Inv'
  BY <1>10, PutKeepsInv DEF InsertPersonal, Tables, TypeOK
<1>11. ASSUME NEW u \in Users, NEW r \in Rows, InsertPublic(u, r) PROVE Inv'
  BY <1>11, PutKeepsInv DEF InsertPublic, Tables, TypeOK
<1>12. ASSUME NEW r \in Rows, NEW t \in LoggedTables, NEW p \in Projects,
              LogForProject(r, t, p) PROVE Inv'
  <2>1. home[p] \in Orgs /\ home[p] # None
    BY <1>12 DEF LogForProject, TypeOK
  <2> QED BY <1>12, <2>1, PutKeepsInv DEF LogForProject, Tables, TypeOK
<1>13. ASSUME NEW r \in Rows, NEW w \in Users, Notify(r, w) PROVE Inv'
  BY <1>13, PutKeepsInv DEF Notify, Tables, TypeOK
<1>14. ASSUME NEW u \in Users, NEW r \in Rows, NEW p \in Projects, UpdateRow(u, r, p) PROVE Inv'
  <2>1. home \in [Projects -> Orgs \cup {None}] /\ home[p] \in Orgs /\ home[p] # None
    BY <1>14 DEF UpdateRow, TypeOK
  <2>2. row[r] \in Row /\ Anchored(r) /\ StayedHome(r) /\ row[r].table \in MemberTables
    BY <1>14 DEF UpdateRow, TypeOK
  <2>3. row[r].at \in Projects /\ home[row[r].at] # None /\ row[r].at # None
    BY <2>2, NoneIsNoId DEF Anchored
  <2>4. ProjectOrgId(row[r].at) = home[row[r].at] /\ ProjectOrgId(p) = home[p]
    BY <2>3, NoneIsNoId DEF ProjectOrgId
  <2>5. /\ ~breach' /\ breach' \in BOOLEAN
        /\ taken' \subseteq Rows /\ taken \subseteq taken'
        /\ home[row[r].at] # home[p] => {r} \subseteq taken'
    <3>1. MayUseProject(u, home[row[r].at]) /\ MayUseProject(u, home[p])
          /\ Moved(u, {r}, home[row[r].at], home[p])
      BY <1>14, <2>4 DEF UpdateRow, MayMoveRow, MayUseRow
    <3>2. home[row[r].at] \in Orgs \cup {None} /\ {r} \subseteq Rows
      BY <2>1, <2>3
    <3> QED BY <2>1, <3>1, <3>2, MovedKeepsHistory
  <2> DEFINE new == [row[r] EXCEPT !.at = p]
  <2>6. new \in Row /\ new.at = p /\ new.table = row[r].table
    BY <2>2 DEF Row
  <2>7. row' = [row EXCEPT ![r] = new] /\ row \in [Rows -> Row]
    BY <1>14 DEF UpdateRow, TypeOK
  <2> HIDE DEF new
  <2>8. row' \in [Rows -> Row] /\ row'[r] = new /\ \A q \in Rows \ {r} : row'[q] = row[q]
    BY <2>6, <2>7
  <2>9. \A q \in Rows : Anchored(q)' /\ StayedHome(q)'
    <3> SUFFICES ASSUME NEW q \in Rows PROVE Anchored(q)' /\ StayedHome(q)'
      OBVIOUS
    <3>1. home' = home /\ origin' = origin
      BY <1>14 DEF UpdateRow
    <3>2. CASE q = r
      <4>1. home[row[r].at] = home[p] /\ r \notin taken' => home[p] = origin[r]
        BY <2>2, <2>3, <2>5 DEF StayedHome
      <4> QED BY <2>1, <2>2, <2>5, <2>6, <2>8, <3>1, <3>2, <4>1 DEF Anchored, StayedHome
    <3>3. CASE q # r
      <4>1. Anchored(q) /\ StayedHome(q) /\ row'[q] = row[q]
        BY <2>8, <3>3 DEF TypeOK
      <4> QED BY <2>5, <3>1, <4>1 DEF Anchored, StayedHome
    <3> QED BY <3>2, <3>3
  <2> QED BY <1>14, <2>5, <2>8, <2>9 DEF UpdateRow, TypeOK, MembersWereLetIn
<1>15. ASSUME NEW u \in Users, NEW r \in Rows, DeleteRow(u, r) PROVE Inv'
  <2>1. home \in [Projects -> Orgs \cup {None}] /\ Anchored(r) /\ row[r].table = "webhooks"
    BY <1>15 DEF DeleteRow, TypeOK
  <2>2. ProjectOrgId(row[r].at) \in Orgs \cup {None}
    BY <2>1 DEF Anchored, ProjectOrgId
  <2>3. Insider(u, ProjectOrgId(row[r].at))
    BY <1>15, <2>2, UsersAreInsiders DEF DeleteRow, MayUseRow
  <2>4. ~breach' /\ breach' \in BOOLEAN
    BY <1>15, <2>3 DEF DeleteRow, TypeOK
  <2>5. NoRow \in Row /\ NoRow.table = "none"
    BY DEF NoRow, Row
  <2>6. row' = [row EXCEPT ![r] = NoRow] /\ row \in [Rows -> Row]
        /\ home' = home /\ origin' = origin /\ taken' = taken
    BY <1>15 DEF DeleteRow, TypeOK
  <2>7. row' \in [Rows -> Row] /\ row'[r].table = "none"
        /\ \A q \in Rows \ {r} : row'[q] = row[q]
    BY <2>5, <2>6
  <2>8. \A q \in Rows : Anchored(q)' /\ StayedHome(q)'
    <3> SUFFICES ASSUME NEW q \in Rows PROVE Anchored(q)' /\ StayedHome(q)'
      OBVIOUS
    <3>1. CASE q = r
      BY <2>7, <3>1 DEF Anchored, StayedHome
    <3>2. CASE q # r
      <4>1. Anchored(q) /\ StayedHome(q) /\ row'[q] = row[q]
        BY <2>7, <3>2 DEF TypeOK
      <4> QED BY <2>6, <4>1 DEF Anchored, StayedHome
    <3> QED BY <3>1, <3>2
  <2> QED BY <1>15, <2>4, <2>7, <2>8 DEF DeleteRow, TypeOK, MembersWereLetIn
<1>16. CASE UNCHANGED vars
  BY <1>16, <1>0 DEF vars, TypeOK, MembersWereLetIn
<1> HIDE DEF Inv
<1> QED
  BY <1>1, <1>2, <1>3, <1>4, <1>5, <1>6, <1>7, <1>8, <1>9, <1>10, <1>11,
     <1>12, <1>13, <1>14, <1>15, <1>16 DEF Next

(* The invariant holds in every reachable state. *)
THEOREM InvHolds == Spec => []Inv
BY InitEstablishesInv, NextKeepsInv, PTL DEF Spec

(* The tables hold what their columns, checks and foreign keys admit. *)
THEOREM TenancyTypeCorrect == Spec => []TypeOK
<1>1. Inv => TypeOK
  BY DEF Inv
<1> QED BY <1>1, InvHolds, PTL

(* Tenant isolation, for any number of tenants: who reads a row was let    *)
(* in, unless an insider took the row elsewhere.                           *)
THEOREM TenantsAreIsolated == Spec => []ReadersWereLetIn
<1>1. Inv => ReadersWereLetIn
  <2> SUFFICES ASSUME Inv, NEW u \in Users \ admins, NEW r \in Rows,
                      MaySelect(u, r) \/ MaySelectDelivery(u, r),
                      row[r].table # "announcements"
               PROVE  \/ row[r].table \in PersonalTables /\ u = origin[r]
                      \/ row[r].table \in ProjectTables /\ r \in taken
                      \/ /\ row[r].table \in ProjectTables
                         /\ origin[r] \in Orgs /\ u \in insiders[origin[r]]
    BY DEF ReadersWereLetIn
  <2>1. Anchored(r) /\ StayedHome(r) /\ MembersWereLetIn
        /\ home \in [Projects -> Orgs \cup {None}]
    BY DEF Inv, TypeOK
  <2>2. MaySelect(u, r)
    BY DEF MaySelectDelivery, IsSuperAdmin
  <2>3. CASE row[r].table \in PersonalTables
    BY <2>1, <2>2, <2>3 DEF MaySelect, MaySelectPersonal, IsSuperAdmin, StayedHome
  <2>4. CASE row[r].table \in ProjectTables
    <3>1. IsOrgMember(u, ProjectOrgId(row[r].at))
      BY <2>2, <2>4 DEF MaySelect, MayUseRow, MayUseProject, IsSuperAdmin
    <3>2. row[r].at # None /\ row[r].at \in Projects
      BY <2>1, <2>4, <3>1 DEF Anchored, IsOrgMember, ProjectOrgId
    <3>3. home[row[r].at] \in Orgs /\ u \in members[home[row[r].at]]
      BY <2>1, <3>1, <3>2 DEF IsOrgMember, ProjectOrgId
    <3>4. u \in insiders[home[row[r].at]]
      BY <2>1, <3>3 DEF MembersWereLetIn
    <3> QED BY <2>1, <2>4, <3>2, <3>3, <3>4 DEF StayedHome
  <2> QED BY <2>2, <2>3, <2>4 DEF MaySelect
<1> QED BY <1>1, InvHolds, PTL

(* Only members who were let in and administrators create, change, move or *)
(* delete anything of an organization.                                     *)
THEOREM OutsidersChangeNothing == Spec => []OnlyInsidersChange
<1>1. Inv => OnlyInsidersChange
  BY DEF Inv, OnlyInsidersChange
<1> QED BY <1>1, InvHolds, PTL

-----------------------------------------------------------------------------
(***************************************************************************)
(* The sign-in state.  TabInv says what the components may rely on between *)
(* two answers: the context has seen the session the client keeps, or      *)
(* nothing yet; a session that is not being looked up has a role; the      *)
(* youngest look-up is about the session that is there, or, when there is  *)
(* none, the last answer was; and the youngest question of the guard was   *)
(* asked of the session that is there, so a session that lacks its second  *)
(* factor is not answered "pass".                                          *)
(***************************************************************************)
TabTypeOK ==
    /\ app \in Apps
    /\ factor \in [Accounts -> {"none", "unverified", "verified"}]
    /\ cur \in Session \cup {NoSession}
    /\ starting \subseteq {"getSession", "INITIAL_SESSION"}
    /\ session \in Session \cup {NoSession}
    /\ loading \in BOOLEAN
    /\ role \in {"unknown", "yes", "no"}
    /\ lookups \in Seq(Accounts)
    /\ page \in {"app", "login", "challenge"}
    /\ guard \in [checked : BOOLEAN, mfa : BOOLEAN, effect : BOOLEAN, blind : BOOLEAN]
    /\ asks \in Seq({"asked", "mfa", "pass", "empty"})
    /\ overtaken \in BOOLEAN

Unstarted ==
    /\ starting = {"getSession", "INITIAL_SESSION"}
    /\ session = NoSession /\ loading /\ lookups = <<>> /\ role = "unknown"

ContextFollows == session = cur \/ Unstarted

Newest(s) == s[Len(s)]

RoleFollows ==
    /\ app = "admin" /\ ~loading /\ session # NoSession => role # "unknown"
    /\ role = "yes" => roleOf \in Admins
    /\ app = "admin" /\ ~overtaken /\ session # NoSession =>
         IF lookups = <<>> THEN roleOf = session.user ELSE Newest(lookups) = session.user

GuardFollows ==
    /\ page # "app" => guard = FreshGuard /\ asks = <<>>
    /\ page = "app" /\ ~guard.effect /\ session # NoSession /\ Unsatisfied(cur) =>
         IF asks = <<>> THEN ~guard.checked \/ guard.mfa \/ guard.blind
         ELSE Newest(asks) # "pass"

TabInv == TabTypeOK /\ ContextFollows /\ RoleFollows /\ GuardFollows

(* A fresh guard is a guard, and what the client makes of a session is one. *)
LEMMA SessionsStaySessions ==
    ASSUME TabTypeOK
    PROVE  /\ FreshGuard \in [checked : BOOLEAN, mfa : BOOLEAN, effect : BOOLEAN, blind : BOOLEAN]
           /\ \A u \in Accounts :
                [user |-> u, aal |-> 1, factor |-> (factor[u] = "verified")] \in Session
           /\ cur # NoSession =>
                /\ Raised(cur) \in Session /\ Fresh(cur) \in Session
                /\ [cur EXCEPT !.factor = (factor[cur.user] = "verified")] \in Session
BY DEF FreshGuard, TabTypeOK, Session, Raised, Fresh

(* The queues of questions and of look-ups: none, one more, one less. *)
LEMMA EmptySeqIsSeq == ASSUME NEW S PROVE <<>> \in Seq(S)
OBVIOUS

(* The newest of a queue is what was appended to it. *)
LEMMA NewestOfAppend ==
    ASSUME NEW S, NEW q \in Seq(S), NEW x \in S
    PROVE  /\ Append(q, x) \in Seq(S) /\ Append(q, x) # <<>>
           /\ Newest(Append(q, x)) = x
BY DEF Newest

(* Taking the oldest of several leaves the newest where it is. *)
LEMMA NewestOfTail ==
    ASSUME NEW S, NEW q \in Seq(S), q # <<>>
    PROVE  /\ Tail(q) \in Seq(S) /\ Head(q) \in S
           /\ Tail(q) # <<>> => Newest(Tail(q)) = Newest(q)
           /\ Tail(q) = <<>> => Head(q) = Newest(q)
<1>1. Len(q) \in Nat /\ Len(q) >= 1 /\ Head(q) = q[1] /\ Head(q) \in S
  OBVIOUS
<1> DEFINE t == Tail(q)
<1>2. t \in Seq(S) /\ Len(t) = Len(q) - 1 /\ \A i \in 1..Len(t) : t[i] = q[i + 1]
  OBVIOUS
<1> HIDE DEF t
<1>3. t = <<>> <=> Len(t) = 0
  BY <1>2
<1>4. CASE Len(q) = 1
  <2>1. t = <<>> /\ Head(q) = q[Len(q)]
    BY <1>1, <1>2, <1>3, <1>4
  <2> QED BY <1>1, <1>2, <2>1 DEF t, Newest
<1>5. CASE Len(q) # 1
  <2>1. Len(t) \in 1..Len(t) /\ Len(t) + 1 = Len(q) /\ t # <<>>
    BY <1>1, <1>2, <1>3, <1>5
  <2>2. t[Len(t)] = q[Len(q)]
    BY <1>2, <2>1
  <2> QED BY <1>1, <1>2, <2>1, <2>2 DEF t, Newest
<1> QED BY <1>4, <1>5

(* The listener brings the context up to date with the session it is       *)
(* given: a look-up starts unless there is nobody to look up, and the      *)
(* mounted guard will check again.                                         *)
LEMMA ReceiveKeeps ==
    ASSUME TabInv, NEW s \in Session \cup {NoSession}, Receive(s),
           app' = app, page' = page, asks' = asks
    PROVE  /\ session' = s
           /\ session' \in Session \cup {NoSession} /\ loading' \in BOOLEAN
           /\ role' \in {"unknown", "yes", "no"} /\ lookups' \in Seq(Accounts)
           /\ overtaken' \in BOOLEAN
           /\ guard' \in [checked : BOOLEAN, mfa : BOOLEAN, effect : BOOLEAN, blind : BOOLEAN]
           /\ RoleFollows' /\ GuardFollows'
<1>1. guard' \in [checked : BOOLEAN, mfa : BOOLEAN, effect : BOOLEAN, blind : BOOLEAN]
      /\ GuardFollows'
  BY DEF TabInv, TabTypeOK, GuardFollows, Receive, Notice
<1>2. CASE s = NoSession
  BY <1>1, <1>2 DEF TabInv, TabTypeOK, RoleFollows, Receive, CheckAdminRole
<1>3. CASE s # NoSession
  <2>1. s.user \in Accounts
    BY <1>3 DEF Session
  <2>2. CASE app = "admin"
    <3>1. lookups' = Append(lookups, s.user) /\ loading' = TRUE
          /\ UNCHANGED <<role, roleOf, overtaken>>
      BY <1>3, <2>2 DEF Receive, CheckAdminRole
    <3>2. lookups' \in Seq(Accounts) /\ lookups' # <<>> /\ Newest(lookups') = s.user
      BY <2>1, <3>1, NewestOfAppend DEF TabInv, TabTypeOK
    <3>3. session' = s
      BY DEF Receive
    <3> QED BY <1>1, <3>1, <3>2, <3>3 DEF TabInv, TabTypeOK, RoleFollows
  <2>3. CASE app # "admin"
    BY <1>1, <2>3 DEF TabInv, TabTypeOK, RoleFollows, Receive
  <2> QED BY <2>2, <2>3
<1> QED BY <1>2, <1>3

(* The client changes its session and the context follows in one step. *)
LEMMA EmitKeeps ==
    ASSUME TabInv, NEW s \in Session \cup {NoSession}, Emit(s),
           UNCHANGED <<app, starting, page, asks>>,
           factor' \in [Accounts -> {"none", "unverified", "verified"}]
    PROVE  TabInv'
<1>1. Receive(s) /\ cur' = s
  BY DEF Emit
<1>2. ContextFollows'
  BY <1>1 DEF Receive, ContextFollows
<1> QED BY <1>1, <1>2, ReceiveKeeps DEF TabInv, TabTypeOK

(* In the beginning nothing has been heard. *)
LEMMA TabInitEstablishesInv == TabInit => TabInv
<1> SUFFICES ASSUME TabInit PROVE TabInv
  OBVIOUS
<1>1. TabTypeOK
  <2>1. factor \in [Accounts -> {"none", "unverified", "verified"}]
    BY DEF TabInit
  <2>2. lookups \in Seq(Accounts) /\ asks \in Seq({"asked", "mfa", "pass", "empty"})
    BY EmptySeqIsSeq DEF TabInit
  <2>3. guard \in [checked : BOOLEAN, mfa : BOOLEAN, effect : BOOLEAN, blind : BOOLEAN]
    BY DEF TabInit, FreshGuard
  <2>4. cur \in Session \cup {NoSession} /\ session \in Session \cup {NoSession}
    BY DEF TabInit
  <2> QED BY <2>1, <2>2, <2>3, <2>4 DEF TabInit, TabTypeOK
<1> QED BY <1>1 DEF TabInit, TabInv, ContextFollows, Unstarted, RoleFollows, GuardFollows, FreshGuard

(* The answer to getSession finds the context up to date, or finds nothing. *)
LEMMA GetSessionKeeps == ASSUME TabInv, GetSession PROVE TabInv'
<1> USE DEF TabInv
<1>1. session' = cur /\ cur' = cur /\ app' = app /\ page' = page /\ asks' = asks
  BY DEF GetSession
<1>2. guard' \in [checked : BOOLEAN, mfa : BOOLEAN, effect : BOOLEAN, blind : BOOLEAN]
      /\ GuardFollows'
  BY <1>1 DEF TabTypeOK, GuardFollows, GetSession, Notice
<1>3. starting' \subseteq {"getSession", "INITIAL_SESSION"} /\ ContextFollows'
  BY <1>1 DEF GetSession, TabTypeOK, ContextFollows
<1>4. CASE cur = NoSession
  BY <1>1, <1>2, <1>3, <1>4 DEF TabTypeOK, RoleFollows, GetSession, CheckAdminRole
<1>5. CASE cur # NoSession /\ app = "admin"
  <2>1. lookups' = Append(lookups, cur.user)
        /\ UNCHANGED <<role, roleOf, overtaken, loading>>
    BY <1>5 DEF GetSession, CheckAdminRole
  <2>2. cur.user \in Accounts
    BY <1>5 DEF TabTypeOK, Session
  <2>3. lookups' \in Seq(Accounts) /\ lookups' # <<>> /\ Newest(lookups') = cur.user
    BY <2>1, <2>2, NewestOfAppend DEF TabTypeOK
  <2>4. loading \/ session = cur
    BY DEF ContextFollows, Unstarted
  <2>5. RoleFollows'
    BY <1>1, <1>5, <2>1, <2>3, <2>4 DEF RoleFollows
  <2> QED BY <1>1, <1>2, <1>3, <2>1, <2>3, <2>5 DEF TabTypeOK, GetSession
<1>6. CASE cur # NoSession /\ app # "admin"
  BY <1>1, <1>2, <1>3, <1>6 DEF TabTypeOK, RoleFollows, GetSession
<1> QED BY <1>4, <1>5, <1>6

(* An answer about the oldest look-up leaves the newest under way, or was  *)
(* about the newest itself.                                                *)
LEMMA RoleAnswerKeeps ==
    ASSUME TabInv, NEW i \in DOMAIN lookups, RoleAnswer(i) PROVE TabInv'
<1> USE DEF TabInv
<1>1. lookups \in Seq(Accounts) /\ i \in 1..Len(lookups) /\ lookups # <<>>
      /\ lookups[i] \in Accounts
  BY DEF TabTypeOK
<1>2. RemoveAt(lookups, i) \in Seq(Accounts)
  BY <1>1 DEF RemoveAt
<1>3. i = 1 => RemoveAt(lookups, i) = Tail(lookups)
  BY <1>1 DEF RemoveAt
<1>4. PICK a \in {"yes", "no"} :
        Reply(a, "role", IF lookups[i] \in Admins THEN "yes" ELSE "no", "no") /\ role' = a
  BY DEF RoleAnswer
<1>5. /\ roleOf' = lookups[i] /\ overtaken' = (overtaken \/ i > 1) /\ loading' = FALSE
      /\ lookups' = RemoveAt(lookups, i)
      /\ UNCHANGED <<app, factor, cur, starting, session, page, guard, asks>>
  BY DEF RoleAnswer, pageVars
<1>6. role' = "yes" => roleOf' \in Admins
  BY <1>4, <1>5 DEF Reply
<1>7. TabTypeOK'
  BY <1>1, <1>2, <1>4, <1>5 DEF TabTypeOK
<1>8. RoleFollows'
  <2>1. CASE ~overtaken'
    <3>0. ~overtaken /\ ~(i > 1)
      BY <1>5, <2>1 DEF TabTypeOK
    <3>1. i = 1 /\ lookups' = Tail(lookups)
      BY <1>1, <1>3, <1>5, <3>0
    <3>2. /\ Tail(lookups) # <<>> => Newest(Tail(lookups)) = Newest(lookups)
          /\ Tail(lookups) = <<>> => lookups[1] = Newest(lookups)
      BY <1>1, NewestOfTail
    <3> QED BY <1>1, <1>4, <1>5, <1>6, <3>0, <3>1, <3>2 DEF RoleFollows
  <2>2. CASE overtaken'
    BY <1>4, <1>5, <1>6, <2>2 DEF RoleFollows
  <2> QED BY <2>1, <2>2
<1>9. ContextFollows'
  BY <1>1, <1>5 DEF ContextFollows, Unstarted
<1> QED BY <1>5, <1>7, <1>8, <1>9 DEF GuardFollows

(* The effect asks about the session the context has, and the answer of    *)
(* the client is about the session it keeps, which is the same.            *)
LEMMA GuardStepsKeep ==
    ASSUME TabInv, RunEffect \/ TakeAnswer \/ \E i \in DOMAIN asks : Answer(i)
    PROVE  TabInv'
<1> USE DEF TabInv
<1>0. asks \in Seq({"asked", "mfa", "pass", "empty"})
  BY DEF TabTypeOK
<1>1. CASE RunEffect
  <2>1. /\ page' = "app" /\ guard' = EffectOn(guard, session)
        /\ UNCHANGED <<app, factor, cur, starting, contextVars, page>>
        /\ asks' = IF session = NoSession THEN asks ELSE Append(asks, "asked")
    BY <1>1 DEF RunEffect
  <2>2. asks' \in Seq({"asked", "mfa", "pass", "empty"})
        /\ (session # NoSession => asks' # <<>> /\ Newest(asks') = "asked")
    BY <1>0, <2>1, NewestOfAppend
  <2>3. guard' \in [checked : BOOLEAN, mfa : BOOLEAN, effect : BOOLEAN, blind : BOOLEAN]
    BY <2>1 DEF TabTypeOK, EffectOn
  <2> QED BY <2>1, <2>2, <2>3
             DEF TabTypeOK, contextVars, ContextFollows, Unstarted, RoleFollows, GuardFollows
<1>2. CASE TakeAnswer
  <2>1. /\ asks # <<>> /\ Head(asks) # "asked" /\ asks' = Tail(asks)
        /\ guard' = Verdict(guard, Head(asks))
        /\ UNCHANGED <<app, factor, cur, starting, contextVars, page>>
    BY <1>2 DEF TakeAnswer
  <2>2. /\ Tail(asks) \in Seq({"asked", "mfa", "pass", "empty"})
        /\ Head(asks) \in {"asked", "mfa", "pass", "empty"}
        /\ Tail(asks) # <<>> => Newest(Tail(asks)) = Newest(asks)
        /\ Tail(asks) = <<>> => Head(asks) = Newest(asks)
    BY <1>0, <2>1, NewestOfTail
  <2>3. /\ guard' \in [checked : BOOLEAN, mfa : BOOLEAN, effect : BOOLEAN, blind : BOOLEAN]
        /\ guard'.effect = guard.effect /\ guard'.mfa = (Head(asks) = "mfa")
        /\ guard'.blind = (Head(asks) = "empty")
    BY <2>1 DEF TabTypeOK, Verdict
  <2>4. page = "app"
    BY <2>1 DEF GuardFollows
  <2>5. GuardFollows'
    BY <2>1, <2>2, <2>3, <2>4 DEF GuardFollows, contextVars
  <2> QED BY <2>1, <2>2, <2>3, <2>5
             DEF TabTypeOK, contextVars, ContextFollows, Unstarted, RoleFollows
<1>3. ASSUME NEW i \in DOMAIN asks, Answer(i) PROVE TabInv'
  <2>1. PICK a \in {"mfa", "pass", "empty"} :
          Reply(a, "aal", Level(cur), "empty") /\ asks' = [asks EXCEPT ![i] = a]
    BY <1>3 DEF Answer
  <2>2. UNCHANGED <<app, factor, cur, starting, contextVars, page, guard>>
    BY <1>3 DEF Answer
  <2>3. Unsatisfied(cur) => a # "pass"
    BY <2>1 DEF Reply, Level
  <2>4. /\ asks' \in Seq({"asked", "mfa", "pass", "empty"})
        /\ asks # <<>> /\ asks' # <<>> /\ Len(asks') = Len(asks)
        /\ Newest(asks') = IF i = Len(asks) THEN a ELSE Newest(asks)
    BY <1>0, <2>1 DEF Newest
  <2>5. GuardFollows'
    BY <2>2, <2>3, <2>4 DEF GuardFollows, contextVars
  <2> QED BY <2>2, <2>4, <2>5
             DEF TabTypeOK, contextVars, ContextFollows, Unstarted, RoleFollows
<1> QED BY <1>1, <1>2, <1>3

(* The other steps leave the session and the context alone. *)
LEMMA OtherStepsKeep ==
    ASSUME TabInv, UNCHANGED <<app, cur, starting, contextVars>>,
           factor' \in [Accounts -> {"none", "unverified", "verified"}],
           page' \in {"app", "login", "challenge"},
           \/ page' = page /\ guard' = guard /\ asks' = asks
           \/ guard' = FreshGuard /\ asks' = <<>>
    PROVE  TabInv'
<1>1. guard' \in [checked : BOOLEAN, mfa : BOOLEAN, effect : BOOLEAN, blind : BOOLEAN]
      /\ asks' \in Seq({"asked", "mfa", "pass", "empty"})
  <2>1. FreshGuard \in [checked : BOOLEAN, mfa : BOOLEAN, effect : BOOLEAN, blind : BOOLEAN]
    BY DEF FreshGuard
  <2> QED BY <2>1, EmptySeqIsSeq DEF TabInv, TabTypeOK
<1>2. GuardFollows'
  BY DEF TabInv, GuardFollows, FreshGuard, contextVars
<1> QED
  BY <1>1, <1>2 DEF TabInv, TabTypeOK, contextVars, ContextFollows, Unstarted, RoleFollows

(* Every step of the tab and of the other devices keeps the invariant. *)
LEMMA TabNextKeepsInv == TabInv /\ [TabNext]_tabVars => TabInv'
<1> SUFFICES ASSUME TabInv, [TabNext]_tabVars PROVE TabInv'
  OBVIOUS
<1>0. TabTypeOK /\ factor \in [Accounts -> {"none", "unverified", "verified"}]
      /\ page \in {"app", "login", "challenge"}
      /\ (page # "app" => guard = FreshGuard /\ asks = <<>>)
  BY DEF TabInv, TabTypeOK, GuardFollows
<1>s. cur # NoSession => cur.user \in Accounts
  BY <1>0 DEF TabTypeOK, Session
<1>1. CASE GetSession
  BY <1>1, GetSessionKeeps
<1>2. CASE InitialSession
  <2>1. Receive(cur) /\ starting' \subseteq {"getSession", "INITIAL_SESSION"}
        /\ UNCHANGED <<app, factor, cur, page, asks>>
    BY <1>0, <1>2 DEF InitialSession, TabTypeOK
  <2>2. cur \in Session \cup {NoSession}
    BY <1>0 DEF TabTypeOK
  <2> QED BY <2>1, <2>2, ReceiveKeeps DEF TabInv, TabTypeOK, ContextFollows
<1>3. CASE RunEffect \/ TakeAnswer \/ \E i \in DOMAIN asks : Answer(i)
  BY <1>3, GuardStepsKeep
<1>4. CASE \E i \in DOMAIN lookups : RoleAnswer(i)
  BY <1>4, RoleAnswerKeeps
<1>5. CASE Redirect
  BY <1>0, <1>5, OtherStepsKeep DEF Redirect
<1>6. CASE LoginRedirect
  <2>1. guard' = FreshGuard /\ asks' = <<>> /\ page' = "app" /\ factor' = factor
        /\ UNCHANGED <<app, cur, starting, contextVars>>
    BY <1>0, <1>6 DEF LoginRedirect
  <2> QED BY <1>0, <2>1, OtherStepsKeep
<1>7. CASE Challenge
  <2>1. CASE Leave
    <3>1. guard' = FreshGuard /\ asks' = <<>> /\ page' \in {"app", "login"} /\ factor' = factor
          /\ UNCHANGED <<app, cur, starting, contextVars>>
      BY <1>0, <2>1 DEF Leave
    <3> QED BY <1>0, <3>1, OtherStepsKeep
  <2>2. CASE CheckSession \/ CheckLevel \/ ListFactors
    <3>1. UNCHANGED <<app, factor, cur, starting, contextVars, page, guard, asks>>
      BY <2>2 DEF CheckSession, CheckLevel, ListFactors
    <3> QED BY <1>0, <3>1, OtherStepsKeep
  <2> QED BY <1>7, <2>1, <2>2 DEF Challenge
<1>8. CASE TokenRefresh
  <2>1. Fresh(cur) \in Session
    BY <1>0, <1>8, SessionsStaySessions DEF TokenRefresh
  <2> QED BY <1>0, <1>8, <2>1, EmitKeeps DEF TokenRefresh
<1>9. ASSUME NEW u \in Accounts, SignInAs(u) PROVE TabInv'
  <2> DEFINE s == [user |-> u, aal |-> 1, factor |-> (factor[u] = "verified")]
  <2>1. s \in Session
    BY <1>0, SessionsStaySessions
  <2> QED BY <1>0, <1>9, <2>1, EmitKeeps DEF SignInAs
<1>10. ASSUME NEW u \in Accounts, NEW f \in {"none", "verified"}, FactorElsewhere(u, f)
       PROVE  TabInv'
  <2>1. factor' \in [Accounts -> {"none", "unverified", "verified"}]
        /\ UNCHANGED <<app, cur, starting, contextVars, page, guard, asks>>
    BY <1>0, <1>10 DEF FactorElsewhere, pageVars
  <2> QED BY <1>0, <2>1, OtherStepsKeep
<1>11. CASE SignOut
  BY <1>0, <1>11, EmitKeeps DEF SignOut
<1>12. CASE UpdateUser
  <2>1. [cur EXCEPT !.factor = (factor[cur.user] = "verified")] \in Session
    BY <1>0, <1>12, SessionsStaySessions DEF UpdateUser
  <2> QED BY <1>0, <1>12, <2>1, EmitKeeps DEF UpdateUser
<1>13. CASE Submit
  <2>1. Raised(cur) \in Session
    BY <1>0, <1>13, SessionsStaySessions DEF Submit, Enrolled
  <2> QED BY <1>0, <1>13, <2>1, EmitKeeps DEF Submit
<1>14. CASE StartEnrollment \/ CancelEnrollment \/ Unenroll
  <2>1. factor' \in [Accounts -> {"none", "unverified", "verified"}]
        /\ UNCHANGED <<app, cur, starting, contextVars, page, guard, asks>>
    BY <1>0, <1>14 DEF StartEnrollment, CancelEnrollment, Unenroll, pageVars
  <2> QED BY <1>0, <2>1, OtherStepsKeep
<1>15. CASE ConfirmEnrollment
  <2>1. Raised(cur) \in Session
    BY <1>0, <1>15, SessionsStaySessions DEF ConfirmEnrollment, OnSettings
  <2>2. factor' \in [Accounts -> {"none", "unverified", "verified"}]
    BY <1>0, <1>15 DEF ConfirmEnrollment
  <2> QED BY <1>15, <2>1, <2>2, EmitKeeps DEF ConfirmEnrollment
<1>16. CASE UNCHANGED tabVars
  BY <1>0, <1>16, OtherStepsKeep DEF tabVars, contextVars
<1> QED
  BY <1>1, <1>2, <1>3, <1>4, <1>5, <1>6, <1>7, <1>8, <1>9, <1>10, <1>11, <1>12,
     <1>13, <1>14, <1>15, <1>16 DEF TabNext, Settling, People

(* The invariant holds in every reachable state of the tab. *)
THEOREM TabInvHolds == TabSpec => []TabInv
BY TabInitEstablishesInv, TabNextKeepsInv, PTL DEF TabSpec

(* For any accounts, changes of sessions and failures, a session that      *)
(* lacks its second factor is shown a page only while the check of it is   *)
(* under way or after a check that came back empty.                        *)
THEOREM SecondFactorIsAsked == TabSpec => []GuardCatchesUp
<1>1. TabInv => GuardCatchesUp
  <2> SUFFICES ASSUME TabInv, page = "app", View = "shown", Unsatisfied(cur),
                      ~guard.effect, asks = <<>>
               PROVE  guard.blind
    BY DEF GuardCatchesUp
  <2>1. guard.checked /\ session # NoSession /\ ~guard.mfa
    BY DEF View, RequireSuperAdmin, ProtectedRoute
  <2> QED BY <2>1 DEF TabInv, GuardFollows
<1> QED BY <1>1, TabInvHolds, PTL

(* For the same generality, the super-admin dashboard shows no session a   *)
(* page before a look-up has said yes.                                     *)
THEOREM NobodyIsShownUnasked == TabSpec => []ShownAfterYes
<1>1. TabInv => ShownAfterYes
  <2> SUFFICES ASSUME TabInv, app = "admin", page = "app", View = "shown"
               PROVE  role = "yes" /\ roleOf \in Admins
    BY DEF ShownAfterYes
  <2>1. ~loading /\ session # NoSession /\ role # "no"
    BY DEF View, RequireSuperAdmin
  <2> QED BY <2>1 DEF TabInv, TabTypeOK, RoleFollows
<1> QED BY <1>1, TabInvHolds, PTL

(* For the same generality, unless an answer overtook an older question,   *)
(* the role that stays is the role of the session that stays.              *)
THEOREM RoleStaysWithSession == TabSpec => []RoleIsOfSession
<1>1. TabInv => RoleIsOfSession
  BY DEF TabInv, RoleFollows, RoleIsOfSession
<1> QED BY <1>1, TabInvHolds, PTL
=============================================================================
