----------------------- MODULE OrgProvisioning_proofs -----------------------
(***************************************************************************)
(* The repair of migration 0007 for any number of developers and calls: no *)
(* organization without its owner's membership, no developer refused a     *)
(* project in the organization the function returned, and one default      *)
(* organization for a developer whose calls do not overlap, as long as no  *)
(* older invitation comes into sight.                                      *)
(***************************************************************************)
EXTENDS OrgProvisioning, TLAPS

\* The organization a call was answered with is one its user is a member of,
\* which is what the insert policy of projects asks for.
AnswerIsUsable == \A c \in Calls :
    /\ call[c].pc # "idle" => call[c].user \in Users
    /\ call[c].pc # "forbidden"
    /\ call[c].pc = "project" =>
         \E m \in members : m.org = call[c].org /\ m.user = call[c].user

Inv == TypeOK /\ OwnerIsMember /\ AnswerIsUsable

-----------------------------------------------------------------------------
LEMMA OrgInit == Init => Inv
  BY DEF Init, Inv, TypeOK, Call, Pc, OwnerIsMember, AnswerIsUsable

\* One call goes on: its record stays well typed, and the others keep theirs.
LEMMA AnswerIsKept ==
        ASSUME Inv, NEW c \in Calls, NEW row \in Call,
               call' = [call EXCEPT ![c] = row], members \subseteq members',
               row.user \in Users, row.pc # "forbidden",
               row.pc = "project" =>
                 \E m \in members' : m.org = row.org /\ m.user = row.user
        PROVE  call' \in [Calls -> Call] /\ AnswerIsUsable'
  <1>1. call' \in [Calls -> Call] /\ call'[c] = row
    BY DEF Inv, TypeOK
  <1>2. ASSUME NEW d \in Calls, d # c PROVE call'[d] = call[d]
    BY <1>2 DEF Inv, TypeOK
  <1>3. ASSUME NEW d \in Calls
        PROVE  /\ call'[d].pc # "idle" => call'[d].user \in Users
               /\ call'[d].pc # "forbidden"
               /\ call'[d].pc = "project" =>
                    \E m \in members' : m.org = call'[d].org /\ m.user = call'[d].user
    <2>1. CASE d = c
      BY <1>1, <2>1
    <2>2. CASE d # c
      BY <1>2, <2>2 DEF Inv, AnswerIsUsable
    <2> QED BY <2>1, <2>2
  <1> QED BY <1>1, <1>3 DEF AnswerIsUsable

LEMMA OrgStep == Inv /\ [Next]_vars => Inv'
  <1> SUFFICES ASSUME Inv, [Next]_vars PROVE Inv'
    OBVIOUS
  <1>a. TypeOK /\ OwnerIsMember /\ AnswerIsUsable
    BY DEF Inv
  <1>b. ASSUME NEW c \in Calls, call[c].pc # "idle"
        PROVE  call[c] \in Call /\ call[c].user \in Users
    BY <1>a, <1>b DEF TypeOK, AnswerIsUsable
  <1>1. ASSUME NEW u \in Users, SignUp(u) \/ Heal(u) PROVE Inv'
    BY <1>a, <1>1 DEF SignUp, Heal, Inv, TypeOK, OwnerIsMember, AnswerIsUsable
  <1>2. ASSUME NEW u \in Users, NEW o \in orgs, NEW at \in Stamps \cup {clock + 1},
               Invite(o, u, at)
        PROVE  Inv'
    <2> DEFINE row == [org |-> o.id, user |-> u, at |-> at]
    <2>1. at \in Nat
      BY <1>a, StampsAreNats DEF TypeOK
    <2>2. row \in Member /\ clock' \in Nat /\ displaced' \subseteq Users
      BY <1>a, <1>2, <2>1 DEF TypeOK, Member, Org, Invite
    <2>3. TypeOK'
      BY <1>a, <1>2, <2>2 DEF Invite, TypeOK
    <2>4. members \subseteq members' /\ UNCHANGED <<orgs, call>>
      BY <1>2 DEF Invite
    <2> QED BY <1>a, <2>3, <2>4 DEF Inv, OwnerIsMember, AnswerIsUsable
  <1>3. ASSUME NEW c \in Calls, NEW u \in Users, Begin(c, u) PROVE Inv'
    <2> DEFINE row == [pc |-> "owned", user |-> u, at |-> clock + 1, org |-> "none",
                       after |-> {d \in Calls : Over(d) /\ call[d].user = u}]
    <2>1. row \in Call /\ clock' \in Nat
      BY <1>a, <1>3 DEF Begin, Call, Pc, TypeOK
    <2>2. row.user \in Users /\ row.pc = "owned"
      OBVIOUS
    <2>3. call' = [call EXCEPT ![c] = row]
          /\ UNCHANGED <<accounts, profiles, orgs, members, displaced>>
      BY <1>3 DEF Begin
    <2> HIDE DEF row
    <2>4. call' \in [Calls -> Call] /\ AnswerIsUsable'
      BY <2>1, <2>2, <2>3, AnswerIsKept
    <2> QED BY <1>a, <2>1, <2>3, <2>4 DEF Inv, TypeOK, OwnerIsMember
  <1>4. ASSUME NEW c \in Calls, SelectOwned(c) \/ SelectMember(c) PROVE Inv'
    <2>0. call[c] \in Call /\ call[c].user \in Users
      BY <1>4, <1>b DEF SelectOwned, SelectMember
    <2>1. PICK row \in Call :
            /\ call' = [call EXCEPT ![c] = row]
            /\ row.user = call[c].user /\ row.pc # "forbidden"
            /\ row.pc = "project" =>
                 \E m \in members : m.org = row.org /\ m.user = row.user
      <3>1. CASE \E o \in Oldest({x \in orgs : x.owner = call[c].user}) :
                    Return(c, o.id)
        <4>1. PICK o \in orgs : o.owner = call[c].user /\ Return(c, o.id)
          BY <3>1 DEF Oldest
        <4> DEFINE row == [call[c] EXCEPT !.pc = "project", !.org = o.id]
        <4>2. row \in Call /\ row.pc = "project" /\ row.org = o.id
              /\ row.user = call[c].user
          BY <2>0, <1>a DEF Call, Pc, TypeOK, Org
        <4>3. call' = [call EXCEPT ![c] = row]
          BY <4>1 DEF Return
        <4>4. \E m \in members : m.org = o.id /\ m.user = call[c].user
          BY <1>a, <4>1 DEF OwnerIsMember
        <4> QED BY <4>2, <4>3, <4>4
      <3>2. CASE \E m \in Oldest({x \in members : x.user = call[c].user}) :
                    Return(c, m.org)
        <4>1. PICK m \in members : m.user = call[c].user /\ Return(c, m.org)
          BY <3>2 DEF Oldest
        <4> DEFINE row == [call[c] EXCEPT !.pc = "project", !.org = m.org]
        <4>2. row \in Call /\ row.pc = "project" /\ row.org = m.org
              /\ row.user = call[c].user
          BY <2>0, <1>a DEF Call, Pc, TypeOK, Member
        <4>3. call' = [call EXCEPT ![c] = row]
          BY <4>1 DEF Return
        <4> QED BY <4>1, <4>2, <4>3
      <3>3. CASE \E pc \in {"member", "insert"} : Goto(c, pc)
        <4>1. PICK pc \in {"member", "insert"} : Goto(c, pc)
          BY <3>3
        <4> DEFINE row == [call[c] EXCEPT !.pc = pc]
        <4>2. row \in Call /\ row.pc = pc /\ row.user = call[c].user
          BY <2>0 DEF Call, Pc
        <4>3. call' = [call EXCEPT ![c] = row]
          BY <4>1 DEF Goto
        <4> QED BY <4>2, <4>3
      <3> QED BY <1>4, <3>1, <3>2, <3>3 DEF SelectOwned, SelectMember, MembershipsOf
    <2>2. UNCHANGED <<accounts, profiles, orgs, members, clock, displaced>>
      BY <1>4 DEF SelectOwned, SelectMember
    <2>3. call' \in [Calls -> Call] /\ AnswerIsUsable'
      BY <2>0, <2>1, <2>2, AnswerIsKept
    <2> QED BY <1>a, <2>2, <2>3 DEF Inv, TypeOK, OwnerIsMember
  <1>5. ASSUME NEW c \in Calls, Insert(c) PROVE Inv'
    <2>0. call[c] \in Call /\ call[c].user \in Users
      BY <1>5, <1>b DEF Insert
    <2>1. PICK pc \in {"commit", "failed"} : Goto(c, pc)
      BY <1>5 DEF Insert
    <2> DEFINE row == [call[c] EXCEPT !.pc = pc]
    <2>2. row \in Call /\ row.pc = pc /\ row.user \in Users
      BY <2>0 DEF Call, Pc
    <2>3. call' = [call EXCEPT ![c] = row]
          /\ UNCHANGED <<accounts, profiles, orgs, members, clock, displaced>>
      BY <1>5, <2>1 DEF Insert, Goto
    <2> HIDE DEF row
    <2>4. call' \in [Calls -> Call] /\ AnswerIsUsable'
      BY <2>2, <2>3, AnswerIsKept
    <2> QED BY <1>a, <2>3, <2>4 DEF Inv, TypeOK, OwnerIsMember
  <1>6. ASSUME NEW c \in Calls, Commit(c) PROVE Inv'
    <2>0. call[c] \in Call /\ call[c].user \in Users /\ call[c].at \in Nat
      BY <1>6, <1>b DEF Commit, Call
    <2>1. OrgRow(c) \in Org /\ MemberRow(c) \in Member
      BY <2>0 DEF OrgRow, MemberRow, Org, Member
    <2>2. /\ orgs' = orgs \cup {OrgRow(c)} /\ members' = members \cup {MemberRow(c)}
          /\ UNCHANGED <<accounts, profiles, clock, displaced>>
      BY <1>6 DEF Commit
    <2>3. OwnerIsMember'
      <3>1. MemberRow(c).org = OrgRow(c).id /\ MemberRow(c).user = OrgRow(c).owner
        BY DEF MemberRow, OrgRow
      <3> QED BY <1>a, <2>2, <3>1 DEF OwnerIsMember
    <2>4. PICK row \in Call :
            /\ call' = [call EXCEPT ![c] = row]
            /\ row.user = call[c].user /\ row.pc # "forbidden"
            /\ row.pc = "project" => row.org = c
      <3> DEFINE answered == [call[c] EXCEPT !.pc = "project", !.org = c]
                 lost     == [call[c] EXCEPT !.pc = "failed"]
      <3>1. /\ answered \in Call /\ lost \in Call
            /\ answered.user = call[c].user /\ lost.user = call[c].user
            /\ answered.pc = "project" /\ answered.org = c /\ lost.pc = "failed"
        BY <2>0 DEF Call, Pc
      <3>2. call' = [call EXCEPT ![c] = answered] \/ call' = [call EXCEPT ![c] = lost]
        BY <1>6 DEF Commit, Return, Goto
      <3> QED BY <3>1, <3>2
    <2>5. MemberRow(c) \in members' /\ MemberRow(c).org = c
          /\ MemberRow(c).user = call[c].user
      BY <2>2 DEF MemberRow
    <2>6. call' \in [Calls -> Call] /\ AnswerIsUsable'
      BY <2>0, <2>2, <2>4, <2>5, AnswerIsKept
    <2> QED BY <1>a, <2>1, <2>2, <2>3, <2>6 DEF Inv, TypeOK
  <1>7. ASSUME NEW c \in Calls, CreateProject(c) PROVE Inv'
    <2>0. call[c] \in Call /\ call[c].user \in Users
      BY <1>7, <1>b DEF CreateProject
    <2>1. \E m \in members : m.org = call[c].org /\ m.user = call[c].user
      BY <1>a, <1>7 DEF CreateProject, AnswerIsUsable
    <2>2. PICK pc \in {"created", "failed"} : Goto(c, pc)
      BY <1>7, <2>1 DEF CreateProject
    <2> DEFINE row == [call[c] EXCEPT !.pc = pc]
    <2>3. row \in Call /\ row.pc = pc /\ row.user \in Users
      BY <2>0 DEF Call, Pc
    <2>4. call' = [call EXCEPT ![c] = row]
          /\ UNCHANGED <<accounts, profiles, orgs, members, clock, displaced>>
      BY <1>7, <2>2 DEF CreateProject, Goto
    <2> HIDE DEF row
    <2>5. call' \in [Calls -> Call] /\ AnswerIsUsable'
      BY <2>3, <2>4, AnswerIsKept
    <2> QED BY <1>a, <2>4, <2>5 DEF Inv, TypeOK, OwnerIsMember
  <1>8. CASE UNCHANGED vars
    BY <1>a, <1>8 DEF vars, Inv, TypeOK, OwnerIsMember, AnswerIsUsable
  <1> QED BY <1>1, <1>2, <1>3, <1>4, <1>5, <1>6, <1>7, <1>8 DEF Next

LEMMA OrgInvariant == Spec => []Inv
  BY OrgInit, OrgStep, PTL DEF Spec

-----------------------------------------------------------------------------
\* The tables and the calls stay well typed (0001_core_schema.sql:10-68).
THEOREM OrgTypeCorrect == Spec => []TypeOK
  <1>1. Inv => TypeOK
    BY DEF Inv
  <1> QED BY OrgInvariant, <1>1, PTL

\* No organization is ever visible without its owner's membership
\* (0007_fix_organization_provisioning.sql:106-112).
THEOREM OwnersAreMembers == Spec => []OwnerIsMember
  <1>1. Inv => OwnerIsMember
    BY DEF Inv
  <1> QED BY OrgInvariant, <1>1, PTL

\* The failure migration 0007 repairs cannot come back, however many calls race
\* (0007:3-18, 79-114; 0004_row_level_security.sql:106-108).
THEOREM ProjectsAreNeverForbidden == Spec => []NeverForbidden
  <1>1. Inv => NeverForbidden
    BY DEF Inv, AnswerIsUsable, NeverForbidden
  <1> QED BY OrgInvariant, <1>1, PTL

-----------------------------------------------------------------------------
(***************************************************************************)
(* The default organization of a developer whose calls do not overlap.     *)
(***************************************************************************)

OwnsNothing(u) == \A o \in orgs : o.owner # u

\* Calls that were over stay over; a developer who owns nothing has one oldest
\* membership, unless it was displaced.
Dated ==
    /\ \A c \in Calls : /\ call[c].pc = "idle" => call[c].org = "none"
                        /\ \A d \in call[c].after : Over(d)
    /\ \A m, n \in members :
         \/ m.user # n.user \/ m = n \/ m.at # n.at
         \/ m.user \in displaced \/ ~OwnsNothing(m.user)
         \/ \E k \in members : k.user = m.user /\ k.at < m.at

Serial(u) == \A c, d \in Calls : call[c].user = u => ~Overlap(c, d)

\* What get_or_create_default_organization answers u from now on.
IsDefault(u, x) ==
    \/ \E o \in orgs : o.owner = u /\ o.id = x
    \/ /\ OwnsNothing(u)
       /\ \E m \in members : /\ m.user = u /\ m.org = x
                             /\ \A n \in members : n.user = u => n = m \/ m.at < n.at

Answers(u) == {c \in Calls : call[c].user = u /\ Answered(c)}

Settled(u) ==
    /\ \A o, p \in orgs : o.owner = u /\ p.owner = u => o.id = p.id
    /\ \A c \in Calls : call[c].user = u =>
         /\ call[c].pc \in {"member", "insert", "commit"} => OwnsNothing(u)
         /\ call[c].pc \in {"insert", "commit"} => Answers(u) = {}
    /\ \A c \in Answers(u) : IsDefault(u, call[c].org)

DefaultInv == Inv /\ Dated /\
              \A u \in Users : Serial(u) /\ u \notin displaced => Settled(u)

\* What the statements of a call may come to.
Outcome(c, row) ==
    \/ /\ call[c].pc = "owned" /\ row.pc = "project"
       /\ \E o \in orgs : o.owner = call[c].user /\ row.org = o.id
       /\ UNCHANGED <<orgs, members>>
    \/ /\ call[c].pc = "owned" /\ row.pc = "member" /\ row.org = call[c].org
       /\ OwnsNothing(call[c].user)
       /\ UNCHANGED <<orgs, members>>
    \/ /\ call[c].pc = "member" /\ row.pc = "project"
       /\ \E m \in members : /\ m.user = call[c].user /\ row.org = m.org
                             /\ \A n \in members : n.user = call[c].user => m.at <= n.at
       /\ UNCHANGED <<orgs, members>>
    \/ /\ call[c].pc = "member" /\ row.pc = "insert" /\ row.org = call[c].org
       /\ \A m \in members : m.user # call[c].user
       /\ UNCHANGED <<orgs, members>>
    \/ /\ call[c].pc = "insert" /\ row.pc = "commit" /\ row.org = call[c].org
       /\ UNCHANGED <<orgs, members>>
    \/ /\ call[c].pc \in {"insert", "project"}
       /\ row.pc \in {"failed", "created", "forbidden"} /\ row.org = call[c].org
       /\ UNCHANGED <<orgs, members>>
    \/ /\ call[c].pc = "commit"
       /\ orgs' = orgs \cup {OrgRow(c)} /\ members' = members \cup {MemberRow(c)}
       /\ \/ row.pc = "project" /\ row.org = c
          \/ row.pc = "failed" /\ row.org = call[c].org

LEMMA OutcomeOfStep ==
    ASSUME Inv, NEW c \in Calls,
           SelectOwned(c) \/ SelectMember(c) \/ Insert(c) \/ Commit(c) \/ CreateProject(c)
    PROVE  \E row \in Call :
             /\ call' = [call EXCEPT ![c] = row]
             /\ row.user = call[c].user /\ row.at = call[c].at /\ row.after = call[c].after
             /\ Outcome(c, row)
  <1> DEFINE Row(pc, org) == [call[c] EXCEPT !.pc = pc, !.org = org]
  <1>0. TypeOK /\ call[c] \in Call
    BY DEF Inv, TypeOK
  <1>1. ASSUME NEW pc \in Pc, NEW org \in Calls \cup {"none"}
        PROVE  /\ Row(pc, org) \in Call
               /\ Row(pc, org).pc = pc /\ Row(pc, org).org = org
               /\ Row(pc, org).user = call[c].user /\ Row(pc, org).at = call[c].at
               /\ Row(pc, org).after = call[c].after
    BY <1>0 DEF Call
  <1>2. call[c].org \in Calls \cup {"none"}
    BY <1>0 DEF Call
  <1>3. ASSUME NEW pc \in Pc, Goto(c, pc)
        PROVE  call' = [call EXCEPT ![c] = Row(pc, call[c].org)]
    BY <1>0, <1>3 DEF Goto, Call
  <1>4. ASSUME NEW org \in Calls, Return(c, org)
        PROVE  call' = [call EXCEPT ![c] = Row("project", org)]
    BY <1>0, <1>4 DEF Return, Call
  <1>5. {"project", "member", "insert", "commit", "failed", "created", "forbidden"} \subseteq Pc
    BY DEF Pc
  <1> HIDE DEF Row
  <1>6. SUFFICES \E pc \in Pc, org \in Calls \cup {"none"} :
                   call' = [call EXCEPT ![c] = Row(pc, org)] /\ Outcome(c, Row(pc, org))
    BY <1>1
  <1>7. CASE SelectOwned(c)
    <2>1. CASE \E o \in Oldest({x \in orgs : x.owner = call[c].user}) : Return(c, o.id)
      <3>1. PICK o \in orgs : o.owner = call[c].user /\ Return(c, o.id)
        BY <2>1 DEF Oldest
      <3>2. o.id \in Calls
        BY <1>0 DEF TypeOK, Org
      <3>3. Outcome(c, Row("project", o.id))
        BY <1>1, <1>5, <1>7, <3>1, <3>2 DEF SelectOwned, Outcome
      <3> QED BY <1>4, <1>5, <3>1, <3>2, <3>3
    <2>2. CASE {x \in orgs : x.owner = call[c].user} = {} /\ Goto(c, "member")
      <3>1. OwnsNothing(call[c].user)
        BY <2>2 DEF OwnsNothing
      <3>2. Outcome(c, Row("member", call[c].org))
        BY <1>1, <1>2, <1>5, <1>7, <3>1 DEF SelectOwned, Outcome
      <3> QED BY <1>2, <1>3, <1>5, <2>2, <3>2
    <2> QED BY <1>7, <2>1, <2>2 DEF SelectOwned
  <1>8. CASE SelectMember(c)
    <2>1. CASE \E m \in Oldest({x \in members : x.user = call[c].user}) : Return(c, m.org)
      <3>1. PICK m \in members :
              /\ m.user = call[c].user /\ Return(c, m.org)
              /\ \A n \in members : n.user = call[c].user => m.at <= n.at
        BY <2>1 DEF Oldest
      <3>2. m.org \in Calls
        BY <1>0 DEF TypeOK, Member
      <3>3. Outcome(c, Row("project", m.org))
        BY <1>1, <1>5, <1>8, <3>1, <3>2 DEF SelectMember, Outcome
      <3> QED BY <1>4, <1>5, <3>1, <3>2, <3>3
    <2>2. CASE {x \in members : x.user = call[c].user} = {} /\ Goto(c, "insert")
      <3>1. \A m \in members : m.user # call[c].user
        BY <2>2
      <3>2. Outcome(c, Row("insert", call[c].org))
        BY <1>1, <1>2, <1>5, <1>8, <3>1 DEF SelectMember, Outcome
      <3> QED BY <1>2, <1>3, <1>5, <2>2, <3>2
    <2> QED BY <1>8, <2>1, <2>2 DEF SelectMember, MembershipsOf
  <1>9. CASE Insert(c) \/ CreateProject(c)
    <2>1. PICK pc \in {"commit", "failed", "created", "forbidden"} :
            /\ Goto(c, pc)
            /\ call[c].pc \in {"insert", "project"}
            /\ pc = "commit" => call[c].pc = "insert"
            /\ UNCHANGED <<orgs, members>>
      BY <1>9 DEF Insert, CreateProject
    <2>2. Outcome(c, Row(pc, call[c].org))
      BY <1>1, <1>2, <1>5, <2>1 DEF Outcome
    <2> QED BY <1>2, <1>3, <1>5, <2>1, <2>2
  <1>10. CASE Commit(c)
    <2>1. CASE Return(c, c)
      <3>1. Outcome(c, Row("project", c))
        BY <1>1, <1>5, <1>10 DEF Commit, Outcome
      <3> QED BY <1>4, <1>5, <2>1, <3>1
    <2>2. CASE Goto(c, "failed")
      <3>1. Outcome(c, Row("failed", call[c].org))
        BY <1>1, <1>2, <1>5, <1>10 DEF Commit, Outcome
      <3> QED BY <1>2, <1>3, <1>5, <2>2, <3>1
    <2> QED BY <1>10, <2>1, <2>2 DEF Commit
  <1> QED BY <1>7, <1>8, <1>9, <1>10

-----------------------------------------------------------------------------
\* Calls that overlapped have overlapped for good.
LEMMA SerialBack ==
    ASSUME NEW u, Serial(u)',
           \A c \in Calls : call[c].pc # "idle" =>
             /\ call'[c].pc # "idle"
             /\ call'[c].user = call[c].user /\ call'[c].after = call[c].after
    PROVE  Serial(u)
  BY DEF Serial, Overlap

\* While a call of a developer whose calls never overlap is under way, the
\* developer's other calls are over.
LEMMA Alone ==
    ASSUME Dated, NEW u, Serial(u),
           NEW c \in Calls, call[c].user = u, call[c].pc # "idle", ~Over(c),
           NEW d \in Calls, d # c, call[d].user = u, call[d].pc # "idle"
    PROVE  Over(d)
  BY DEF Dated, Serial, Overlap

\* A step of a call that answers nothing and writes no row.
LEMMA QuietStep ==
    ASSUME TypeOK, NEW u, Settled(u), NEW c \in Calls, NEW row \in Call,
           call' = [call EXCEPT ![c] = row], UNCHANGED <<orgs, members>>,
           row.org = call[c].org, row.org # "none" => row.user = call[c].user,
           row.user = u /\ row.pc \in {"member", "insert", "commit"} => OwnsNothing(u),
           row.user = u /\ row.pc \in {"insert", "commit"} => Answers(u) = {}
    PROVE  Settled(u)'
  <1>1. /\ call'[c] = row
        /\ \A d \in Calls : d # c => call'[d] = call[d]
    BY DEF TypeOK
  <1>2. Answers(u)' = Answers(u)
    BY <1>1 DEF Answers, Answered
  <1>3. \A d \in Calls : call'[d].org = call[d].org
    BY <1>1
  <1>4. OwnsNothing(u)' <=> OwnsNothing(u)
    BY DEF OwnsNothing
  <1>5. ASSUME NEW d \in Answers(u)' PROVE IsDefault(u, call[d].org)'
    <2>1. IsDefault(u, call[d].org) /\ call'[d].org = call[d].org
      BY <1>2, <1>3 DEF Settled, Answers
    <2> QED BY <1>4, <2>1 DEF IsDefault
  <1>6. ASSUME NEW d \in Calls, call'[d].user = u
        PROVE  /\ call'[d].pc \in {"member", "insert", "commit"} => OwnsNothing(u)'
               /\ call'[d].pc \in {"insert", "commit"} => Answers(u)' = {}
    <2>1. CASE d = c
      BY <1>1, <1>2, <1>4, <1>6, <2>1
    <2>2. CASE d # c
      BY <1>1, <1>2, <1>4, <1>6, <2>2 DEF Settled
    <2> QED BY <2>1, <2>2
  <1> QED BY <1>5, <1>6 DEF Settled

\* A call answers its developer with the default organization.
LEMMA AnswerStep ==
    ASSUME TypeOK, NEW u, Settled(u), NEW c \in Calls, NEW row \in Call,
           call' = [call EXCEPT ![c] = row], UNCHANGED <<orgs, members>>,
           row.user = u, row.pc = "project", IsDefault(u, row.org),
           \A d \in Calls : d # c /\ call[d].user = u =>
             call[d].pc \notin {"member", "insert", "commit"}
    PROVE  Settled(u)'
  <1>1. /\ call'[c] = row
        /\ \A d \in Calls : d # c => call'[d] = call[d]
    BY DEF TypeOK
  <1>2. ASSUME NEW d \in Answers(u)' PROVE IsDefault(u, call[d].org)'
    <2>1. IsDefault(u, call'[d].org)
      BY <1>1 DEF Answers, Answered, Settled
    <2> QED BY <2>1 DEF IsDefault, OwnsNothing
  <1>3. ASSUME NEW d \in Calls, call'[d].user = u
        PROVE  call'[d].pc \notin {"member", "insert", "commit"}
    BY <1>1, <1>3
  <1> QED BY <1>2, <1>3 DEF Settled

\* A call commits the organization of a developer who has none.
LEMMA CommitStep ==
    ASSUME TypeOK, NEW u, Settled(u), NEW c \in Calls, NEW row \in Call,
           call' = [call EXCEPT ![c] = row], call[c].pc = "commit", call[c].user = u,
           orgs' = orgs \cup {OrgRow(c)},
           row.pc \in {"project", "failed"}, row.org \in {c, call[c].org},
           \A d \in Calls : d # c /\ call[d].user = u =>
             call[d].pc \notin {"member", "insert", "commit"}
    PROVE  Settled(u)'
  <1>1. /\ call'[c] = row
        /\ \A d \in Calls : d # c => call'[d] = call[d]
    BY DEF TypeOK
  <1>2. OwnsNothing(u) /\ Answers(u) = {}
    BY DEF Settled
  <1>3. OrgRow(c).owner = u /\ OrgRow(c).id = c
    BY DEF OrgRow
  <1>4. call[c].org = "none"
    BY <1>2 DEF Answers, Answered
  <1>5. ASSUME NEW d \in Answers(u)' PROVE IsDefault(u, call[d].org)'
    <2>1. d = c /\ call'[d].org = c
      BY <1>1, <1>2, <1>4 DEF Answers, Answered
    <2> QED BY <1>3, <2>1 DEF IsDefault
  <1>6. ASSUME NEW d \in Calls, call'[d].user = u
        PROVE  call'[d].pc \notin {"member", "insert", "commit"}
    BY <1>1, <1>6
  <1>7. \A o, p \in orgs' : o.owner = u /\ p.owner = u => o.id = p.id
    BY <1>2, <1>3 DEF OwnsNothing
  <1> QED BY <1>5, <1>6, <1>7 DEF Settled

\* What is done for one developer leaves the default of another alone.
LEMMA OthersStep ==
    ASSUME TypeOK, NEW u, Settled(u), NEW c \in Calls, NEW row \in Call,
           call' = [call EXCEPT ![c] = row], call[c].user # u, row.user # u,
           orgs \subseteq orgs', \A o \in orgs' : o.owner = u => o \in orgs,
           members \subseteq members', \A m \in members' : m.user = u => m \in members
    PROVE  Settled(u)'
  <1>1. /\ call'[c] = row
        /\ \A d \in Calls : d # c => call'[d] = call[d]
    BY DEF TypeOK
  <1>2. ASSUME NEW d \in Calls, call'[d].user = u
        PROVE  call'[d] = call[d]
    BY <1>1, <1>2
  <1>3. Answers(u)' = Answers(u)
    BY <1>1 DEF Answers, Answered
  <1>4. OwnsNothing(u)' <=> OwnsNothing(u)
    BY DEF OwnsNothing
  <1>5. ASSUME NEW d \in Answers(u)' PROVE IsDefault(u, call[d].org)'
    <2>1. IsDefault(u, call[d].org) /\ call'[d].org = call[d].org
      BY <1>2, <1>3 DEF Settled, Answers
    <2> QED BY <1>4, <2>1 DEF IsDefault
  <1>6. ASSUME NEW d \in Calls, call'[d].user = u
        PROVE  /\ call'[d].pc \in {"member", "insert", "commit"} => OwnsNothing(u)'
               /\ call'[d].pc \in {"insert", "commit"} => Answers(u)' = {}
    BY <1>2, <1>3, <1>4, <1>6 DEF Settled
  <1>7. \A o, p \in orgs' : o.owner = u /\ p.owner = u => o.id = p.id
    BY DEF Settled
  <1> QED BY <1>5, <1>6, <1>7 DEF Settled

\* An invitation that displaces nothing is newer than the membership that decides.
LEMMA InviteStep ==
    ASSUME TypeOK, NEW u, Settled(u), NEW v \in Users, NEW o \in orgs, NEW at \in Nat,
           Invite(o, v, at), u \notin displaced'
    PROVE  Settled(u)'
  <1> DEFINE new == [org |-> o.id, user |-> v, at |-> at]
  <1>1. members' = members \cup {new} /\ UNCHANGED <<orgs, call>>
    BY DEF Invite
  <1>2. new.user = v /\ new.at = at
    OBVIOUS
  <1> HIDE DEF new
  <1>3. Answers(u)' = Answers(u) /\ (OwnsNothing(u)' <=> OwnsNothing(u))
    BY <1>1 DEF Answers, Answered, OwnsNothing
  <1>4. ASSUME NEW m \in members, m.user = u, v = u, OwnsNothing(u),
               \A n \in members : n.user = u => n = m \/ m.at < n.at
        PROVE  m.at < at
    <2>1. PICK k \in members : k.user = u /\ ~(at <= k.at)
      BY <1>4 DEF Invite, MembershipsOf, OwnsNothing
    <2>2. m.at \in Nat /\ k.at \in Nat
      BY DEF TypeOK, Member
    <2> QED BY <1>4, <2>1, <2>2
  <1>5. ASSUME NEW d \in Answers(u)' PROVE IsDefault(u, call[d].org)'
    <2>1. IsDefault(u, call[d].org)
      BY <1>3 DEF Settled
    <2> QED BY <1>1, <1>2, <1>3, <1>4, <2>1 DEF IsDefault
  <1> QED BY <1>1, <1>3, <1>5 DEF Settled

\* A statement of a call leaves its developer's default settled: every other
\* call of the developer is over.
LEMMA OwnStep ==
    ASSUME Inv, Dated, NEW u, u \notin displaced, Settled(u), NEW c \in Calls, NEW row \in Call,
           call' = [call EXCEPT ![c] = row], Outcome(c, row),
           call[c].user = u, row.user = u,
           \A d \in Calls : d # c /\ call[d].user = u =>
             call[d].pc \notin {"member", "insert", "commit"}
    PROVE  Settled(u)'
  <1>a. TypeOK
    BY DEF Inv
  <1>1. CASE /\ call[c].pc = "owned" /\ row.pc = "project"
             /\ \E o \in orgs : o.owner = u /\ row.org = o.id
             /\ UNCHANGED <<orgs, members>>
    <2>1. IsDefault(u, row.org)
      BY <1>1 DEF IsDefault
    <2> QED BY <1>a, <1>1, <2>1, AnswerStep
  <1>2. CASE /\ call[c].pc = "owned" /\ row.pc = "member" /\ row.org = call[c].org
             /\ OwnsNothing(u)
             /\ UNCHANGED <<orgs, members>>
    BY <1>a, <1>2, QuietStep
  <1>3. CASE /\ call[c].pc = "member" /\ row.pc = "project"
             /\ \E m \in members : /\ m.user = u /\ row.org = m.org
                                   /\ \A n \in members : n.user = u => m.at <= n.at
             /\ UNCHANGED <<orgs, members>>
    <2>1. OwnsNothing(u)
      BY <1>3 DEF Settled
    <2>2. PICK m \in members : /\ m.user = u /\ row.org = m.org
                               /\ \A n \in members : n.user = u => m.at <= n.at
      BY <1>3
    <2>3. ASSUME NEW n \in members, n.user = u, n # m PROVE m.at < n.at
      <3>1. \A k \in members : k.at \in Nat
        BY <1>a DEF TypeOK, Member
      <3>2. m.at # n.at
        BY <2>1, <2>2, <2>3, <3>1 DEF Dated
      <3> QED BY <2>2, <2>3, <3>1, <3>2
    <2>4. IsDefault(u, row.org)
      BY <2>1, <2>2, <2>3 DEF IsDefault
    <2> QED BY <1>a, <1>3, <2>4, AnswerStep
  <1>4. CASE /\ call[c].pc = "member" /\ row.pc = "insert" /\ row.org = call[c].org
             /\ \A m \in members : m.user # u
             /\ UNCHANGED <<orgs, members>>
    <2>1. OwnsNothing(u)
      BY <1>4 DEF Settled
    <2>2. \A x : ~IsDefault(u, x)
      BY <1>4, <2>1 DEF IsDefault, OwnsNothing
    <2>3. Answers(u) = {}
      BY <2>2 DEF Settled
    <2> QED BY <1>a, <1>4, <2>1, <2>3, QuietStep
  <1>5. CASE /\ call[c].pc = "insert" /\ row.pc = "commit" /\ row.org = call[c].org
             /\ UNCHANGED <<orgs, members>>
    <2>1. OwnsNothing(u) /\ Answers(u) = {}
      BY <1>5 DEF Settled
    <2> QED BY <1>a, <1>5, <2>1, QuietStep
  <1>6. CASE /\ row.pc \in {"failed", "created", "forbidden"} /\ row.org = call[c].org
             /\ UNCHANGED <<orgs, members>>
    BY <1>a, <1>6, QuietStep
  <1>7. CASE /\ call[c].pc = "commit"
             /\ orgs' = orgs \cup {OrgRow(c)} /\ members' = members \cup {MemberRow(c)}
             /\ \/ row.pc = "project" /\ row.org = c
                \/ row.pc = "failed" /\ row.org = call[c].org
    BY <1>a, <1>7, CommitStep
  <1> QED BY <1>1, <1>2, <1>3, <1>4, <1>5, <1>6, <1>7 DEF Outcome

LEMMA DatedStep ==
    ASSUME Inv, Dated, NEW c \in Calls, NEW row \in Call,
           call' = [call EXCEPT ![c] = row], Outcome(c, row), displaced' = displaced,
           row.user = call[c].user, row.after = call[c].after
    PROVE  Dated'
  <1>a. TypeOK
    BY DEF Inv
  <1>1. /\ call'[c] = row
        /\ \A d \in Calls : d # c => call'[d] = call[d]
    BY <1>a DEF TypeOK
  <1>2. ~Over(c) /\ row.pc # "idle"
    BY DEF Outcome, Over
  <1>3. ASSUME NEW d \in Calls, Over(d) PROVE Over(d)'
    BY <1>1, <1>2, <1>3 DEF Over
  <1>4. ASSUME NEW d \in Calls
        PROVE  /\ call'[d].pc = "idle" => call'[d].org = "none"
               /\ \A e \in call'[d].after : Over(e)'
    <2>1. call'[d].after = call[d].after
      BY <1>1
    <2>2. call[d].after \subseteq Calls
      BY <1>a DEF TypeOK, Call
    <2>3. call'[d].pc = "idle" => call'[d].org = "none"
      BY <1>1, <1>2 DEF Dated
    <2> QED BY <1>3, <2>1, <2>2, <2>3 DEF Dated
  <1>5. CASE UNCHANGED <<orgs, members>>
    BY <1>4, <1>5 DEF Dated, OwnsNothing
  <1>6. CASE /\ orgs' = orgs \cup {OrgRow(c)}
             /\ members' = members \cup {MemberRow(c)}
    <2>1. MemberRow(c).user = call[c].user /\ OrgRow(c).owner = call[c].user
      BY DEF MemberRow, OrgRow
    <2>2. ASSUME NEW u, OwnsNothing(u)'
          PROVE  OwnsNothing(u) /\ MemberRow(c).user # u
      BY <1>6, <2>1, <2>2 DEF OwnsNothing
    <2>3. ASSUME NEW m \in members', NEW n \in members', m.user = n.user, m # n,
                 m.at = n.at, m.user \notin displaced, OwnsNothing(m.user)'
          PROVE  \E k \in members' : k.user = m.user /\ k.at < m.at
      <3>1. m \in members /\ n \in members /\ OwnsNothing(m.user)
        BY <1>6, <2>2, <2>3
      <3> QED BY <1>6, <2>3, <3>1 DEF Dated
    <2> QED BY <1>4, <2>3 DEF Dated
  <1> QED BY <1>5, <1>6 DEF Outcome

LEMMA DefaultInit == Init => DefaultInv
  <1> SUFFICES ASSUME Init PROVE DefaultInv
    OBVIOUS
  <1>1. Inv
    BY OrgInit
  <1>2. Dated /\ \A u \in Users : Settled(u)
    BY DEF Init, Dated, Settled, Answers, Answered
  <1> QED BY <1>1, <1>2 DEF DefaultInv

LEMMA DefaultStep == DefaultInv /\ [Next]_vars => DefaultInv'
  <1> SUFFICES ASSUME DefaultInv, [Next]_vars PROVE DefaultInv'
    OBVIOUS
  <1>a. Inv /\ Dated /\ TypeOK /\ Inv'
    BY OrgStep DEF DefaultInv, Inv
  <1>1. ASSUME NEW u \in Users, SignUp(u) \/ Heal(u) PROVE DefaultInv'
    <2>1. UNCHANGED <<orgs, members, call, displaced>>
      BY <1>1 DEF SignUp, Heal
    <2>2. Dated'
      BY <1>a, <2>1 DEF Dated, Over, OwnsNothing
    <2>3. ASSUME NEW v \in Users, Serial(v)', v \notin displaced' PROVE Settled(v)'
      <3>1. Settled(v)
        BY <2>1, <2>3 DEF DefaultInv, Serial, Overlap
      <3> QED BY <2>1, <3>1 DEF Settled, Answers, Answered, OwnsNothing, IsDefault
    <2> QED BY <1>a, <2>2, <2>3 DEF DefaultInv
  <1>2. ASSUME NEW v \in Users, NEW o \in orgs, NEW at \in Stamps \cup {clock + 1},
               Invite(o, v, at)
        PROVE  DefaultInv'
    <2>0. at \in Nat
      BY <1>a, StampsAreNats DEF TypeOK
    <2> DEFINE new == [org |-> o.id, user |-> v, at |-> at]
    <2>1. /\ members' = members \cup {new} /\ new.user = v /\ new.at = at
          /\ UNCHANGED <<orgs, call>> /\ displaced \subseteq displaced'
      BY <1>2 DEF Invite
    <2>2. OwnsNothing(v) /\ v \notin displaced' =>
            \/ MembershipsOf(v) = {}
            \/ \E k \in members : k.user = v /\ ~(at <= k.at)
      BY <1>2 DEF Invite, OwnsNothing, MembershipsOf
    <2>3. \A m \in members : m.at \in Nat
      BY <1>a DEF TypeOK, Member
    <2> HIDE DEF new
    <2>4. ASSUME NEW m \in members', NEW n \in members', m.user = n.user, m # n,
                 m.at = n.at, m.user \notin displaced', OwnsNothing(m.user)'
          PROVE  \E k \in members' : k.user = m.user /\ k.at < m.at
      <3>1. OwnsNothing(m.user) /\ m.user \notin displaced
        BY <2>1, <2>4 DEF OwnsNothing
      <3>2. CASE m \in members /\ n \in members
        BY <1>a, <2>1, <2>4, <3>1, <3>2 DEF Dated
      <3>3. CASE m = new \/ n = new
        <4>1. /\ m.user = v /\ m.at = at
              /\ \E x \in members : x.user = v
          BY <2>1, <2>4, <3>3
        <4>2. PICK k \in members : k.user = v /\ ~(at <= k.at)
          BY <2>2, <2>4, <3>1, <4>1 DEF MembershipsOf
        <4> QED BY <2>0, <2>1, <2>3, <4>1, <4>2
      <3> QED BY <2>1, <3>2, <3>3
    <2>5. Dated'
      BY <1>a, <2>1, <2>4 DEF Dated, Over
    <2>6. ASSUME NEW u \in Users, Serial(u)', u \notin displaced' PROVE Settled(u)'
      <3>1. Settled(u)
        BY <2>1, <2>6 DEF DefaultInv, Serial, Overlap
      <3> QED BY <1>a, <1>2, <2>0, <2>6, <3>1, InviteStep
    <2> QED BY <1>a, <2>5, <2>6 DEF DefaultInv
  <1>3. ASSUME NEW c \in Calls, NEW v \in Users, Begin(c, v) PROVE DefaultInv'
    <2> DEFINE row == [pc |-> "owned", user |-> v, at |-> clock + 1, org |-> "none",
                       after |-> {d \in Calls : Over(d) /\ call[d].user = v}]
    <2>1. /\ call' = [call EXCEPT ![c] = row] /\ call[c].pc = "idle"
          /\ UNCHANGED <<orgs, members, displaced>>
      BY <1>3 DEF Begin
    <2>2. /\ row \in Call /\ row.pc = "owned" /\ row.org = "none"
          /\ \A d \in row.after : d \in Calls /\ Over(d)
      BY <1>a, <2>1 DEF TypeOK, Call, Pc
    <2> HIDE DEF row
    <2>3. /\ call'[c] = row
          /\ \A d \in Calls : d # c => call'[d] = call[d]
      BY <1>a, <2>1 DEF TypeOK
    <2>4. \A d \in Calls : Over(d) => Over(d)'
      BY <2>1, <2>3 DEF Over
    <2>5. ASSUME NEW d \in Calls
          PROVE  /\ call'[d].pc = "idle" => call'[d].org = "none"
                 /\ \A e \in call'[d].after : Over(e)'
      <3>1. CASE d = c
        BY <2>2, <2>3, <2>4, <3>1
      <3>2. CASE d # c
        <4>1. call[d].after \subseteq Calls
          BY <1>a DEF TypeOK, Call
        <4> QED BY <1>a, <2>3, <2>4, <3>2, <4>1 DEF Dated
      <3> QED BY <3>1, <3>2
    <2>7. Dated'
      BY <1>a, <2>1, <2>5 DEF Dated, OwnsNothing
    <2>8. ASSUME NEW u \in Users, Serial(u)', u \notin displaced' PROVE Settled(u)'
      <3>1. Serial(u)
        BY <2>1, <2>3, <2>8, SerialBack
      <3>2. Settled(u) /\ call[c].org = "none"
        BY <1>a, <2>1, <2>8, <3>1 DEF DefaultInv, Dated
      <3> QED BY <1>a, <2>1, <2>2, <3>2, QuietStep
    <2> QED BY <1>a, <2>7, <2>8 DEF DefaultInv
  <1>4. ASSUME NEW c \in Calls,
               SelectOwned(c) \/ SelectMember(c) \/ Insert(c) \/ Commit(c) \/ CreateProject(c)
        PROVE  DefaultInv'
    <2>1. PICK row \in Call :
            /\ call' = [call EXCEPT ![c] = row]
            /\ row.user = call[c].user /\ row.at = call[c].at /\ row.after = call[c].after
            /\ Outcome(c, row)
      BY <1>a, <1>4, OutcomeOfStep
    <2>2. displaced' = displaced
      BY <1>4 DEF SelectOwned, SelectMember, Insert, Commit, CreateProject
    <2>3. Dated'
      BY <1>a, <2>1, <2>2, DatedStep
    <2>4. /\ call'[c] = row
          /\ \A d \in Calls : d # c => call'[d] = call[d]
      BY <1>a, <2>1 DEF TypeOK
    <2>5. call[c].pc # "idle" /\ ~Over(c) /\ row.pc # "idle"
      BY <2>1 DEF Outcome, Over
    <2>6. ASSUME NEW u \in Users, Serial(u)', u \notin displaced' PROVE Settled(u)'
      <3>1. Serial(u)
        BY <2>1, <2>4, <2>5, <2>6, SerialBack
      <3>2. Settled(u)
        BY <2>2, <2>6, <3>1 DEF DefaultInv
      <3>3. CASE call[c].user = u
        <4>1. ASSUME NEW d \in Calls, d # c, call[d].user = u
              PROVE  call[d].pc \notin {"member", "insert", "commit"}
          <5>1. call[d].pc # "idle" => Over(d)
            BY <1>a, <2>5, <3>1, <3>3, <4>1, Alone
          <5> QED BY <5>1 DEF Over
        <4> QED BY <1>a, <2>1, <2>2, <2>6, <3>2, <3>3, <4>1, OwnStep
      <3>4. CASE call[c].user # u
        <4>1. /\ orgs \subseteq orgs' /\ members \subseteq members'
              /\ \A o \in orgs' : o.owner = u => o \in orgs
              /\ \A m \in members' : m.user = u => m \in members
          BY <2>1, <3>4 DEF Outcome, OrgRow, MemberRow
        <4> QED BY <1>a, <2>1, <3>2, <3>4, <4>1, OthersStep
      <3> QED BY <3>3, <3>4
    <2> QED BY <1>a, <2>3, <2>6 DEF DefaultInv
  <1>5. CASE UNCHANGED vars
    <2>1. Dated'
      BY <1>a, <1>5 DEF Dated, Over, OwnsNothing, vars
    <2>2. ASSUME NEW v \in Users, Serial(v)', v \notin displaced' PROVE Settled(v)'
      <3>1. Settled(v)
        BY <1>5, <2>2 DEF DefaultInv, Serial, Overlap, vars
      <3> QED BY <1>5, <3>1 DEF Settled, Answers, Answered, OwnsNothing, IsDefault, vars
    <2> QED BY <1>a, <2>1, <2>2 DEF DefaultInv
  <1> QED BY <1>1, <1>2, <1>3, <1>4, <1>5 DEF Next

\* A settled developer has one default, whatever the call that was answered.
LEMMA OneDefault ==
    ASSUME NEW u, Settled(u), NEW x, IsDefault(u, x), NEW y, IsDefault(u, y), Inv
    PROVE  x = y
  <1>1. CASE OwnsNothing(u)
    <2>1. PICK m \in members : /\ m.user = u /\ m.org = x
                               /\ \A n \in members : n.user = u => n = m \/ m.at < n.at
      BY <1>1 DEF IsDefault, OwnsNothing
    <2>2. PICK k \in members : /\ k.user = u /\ k.org = y
                               /\ \A n \in members : n.user = u => n = k \/ k.at < n.at
      BY <1>1 DEF IsDefault, OwnsNothing
    <2>3. m.at \in Nat /\ k.at \in Nat
      BY DEF Inv, TypeOK, Member
    <2> QED BY <2>1, <2>2, <2>3
  <1>2. CASE ~OwnsNothing(u)
    BY <1>2 DEF IsDefault, Settled
  <1> QED BY <1>1, <1>2

\* A developer whose calls never overlapped always got the same organization,
\* whatever invitations, aborts and lost answers came between, unless an older
\* invitation displaced their oldest membership while they owned nothing
\* (0007_fix_organization_provisioning.sql:57-60, 77-99).
THEOREM CallsInTurnAgree == Spec => []SerialCallsAgree
  <1>1. Spec => []DefaultInv
    BY DefaultInit, DefaultStep, PTL DEF Spec
  <1>2. ASSUME DefaultInv PROVE SerialCallsAgree
    <2> SUFFICES ASSUME NEW c \in Calls, NEW d \in Calls,
                        call[c].user = call[d].user, Answered(c), Answered(d),
                        \A e, f \in Calls : ~(call[e].user = call[c].user /\ Overlap(e, f)),
                        call[c].user \notin displaced
                 PROVE  call[c].org = call[d].org
      BY DEF SerialCallsAgree
    <2> DEFINE u == call[c].user
    <2>1. u \in Users
      BY <1>2 DEF DefaultInv, Inv, AnswerIsUsable, Dated, Answered
    <2>2. Serial(u)
      BY DEF Serial
    <2>3. Settled(u)
      BY <1>2, <2>1, <2>2 DEF DefaultInv
    <2>4. IsDefault(u, call[c].org) /\ IsDefault(u, call[d].org)
      BY <2>3 DEF Settled, Answers
    <2> QED BY <1>2, <2>3, <2>4, OneDefault DEF DefaultInv
  <1> QED BY <1>1, <1>2, PTL

=============================================================================
