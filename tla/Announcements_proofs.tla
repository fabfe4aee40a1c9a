------------------------ MODULE Announcements_proofs ------------------------
(***************************************************************************)
(* Proofs about Announcements. Sound(a) follows the call of announcement a *)
(* from read to read: what it owes is still among the rows in its hands,   *)
(* what it must spare is not.                                              *)
(***************************************************************************)
EXTENDS Announcements, TLAPS

Target == Users \X Channel
Reached(a, w) == <<a, w[1], w[2]>> \in delivered

\* Nothing is sent before the preferences are read, nothing owed before Begin;
\* the notifications are over before the e-mail.
Staged(a) ==
    /\ fan[a].pc \in {"draft", "start", "members", "profiles", "preferences"}
         => fan[a].todo = {} /\ \A w \in Target : ~Reached(a, w)
    /\ fan[a].pc \in {"draft", "start"} => fan[a].owed = {} /\ fan[a].out = {}
    /\ fan[a].pc = "email" => \A w \in fan[a].todo : w[2] = "email"
    /\ <<a, "success">> \in audits => fan[a].pc \in {"answer", "shown"}

\* Whoever is owed has an address and is opted in now, whoever is to be spared is opted out.
Standing(a) ==
    /\ \A w \in fan[a].owed : /\ <<w[1], Governing(a, w[2])>> \notin off
                              /\ w[2] \in fan[a].channels
                              /\ w[1] \notin unaddressed
    /\ \A w \in fan[a].out : <<w[1], Governing(a, w[2])>> \in off

Tracked(a, w) ==
    /\ fan[a].pc = "members" => w[1] \in members
    /\ fan[a].pc = "profiles" => w[1] \in profiles /\ w[1] \in fan[a].found
    /\ fan[a].pc = "preferences" => w[1] \in fan[a].found
    /\ fan[a].pc = "in_app" => w \in fan[a].todo
    /\ fan[a].pc = "email" =>
         Reached(a, w) \/ w \in fan[a].todo \/ w[2] \in fan[a].problems
    /\ fan[a].pc \in {"audit", "answer"} =>
         Reached(a, w) \/ w[2] \in fan[a].problems
    /\ fan[a].pc = "shown" =>
         Reached(a, w) \/ fan[a].problems \cap {w[2], "delivery"} # {}
    /\ <<a, "success">> \in audits => Reached(a, w)

Covered(a) == "audience" \notin fan[a].blind
                => \A w \in fan[a].owed : Tracked(a, w)

Spared(a) == "preferences" \notin fan[a].blind
               => \A w \in fan[a].out : ~Reached(a, w) /\ w \notin fan[a].todo

Sound(a) == Staged(a) /\ Standing(a) /\ Covered(a) /\ Spared(a)

AnnouncementInv == TypeOK /\ \A a \in Announcements : Sound(a)

-----------------------------------------------------------------------------
\* Every subset of the preferences, channels and targets is typed as such.
LEMMA FanType ==
    ASSUME TypeOK, NEW a \in Announcements
    PROVE  /\ fan[a] \in Fan
           /\ fan[a].pc \in Working \cup {"draft", "start", "shown"}
           /\ fan[a].channels \in SUBSET Channel
           /\ fan[a].audience \in {"everyone", "plan"}
           /\ fan[a].found \in SUBSET Users
           /\ fan[a].todo \in SUBSET Target
           /\ fan[a].problems \in SUBSET (Channel \cup {"delivery"})
           /\ fan[a].blind \in SUBSET {"audience", "preferences"}
           /\ fan[a].owed \in SUBSET Target
           /\ fan[a].out \in SUBSET Target
<1>1. fan[a] \in Fan  BY DEF TypeOK
<1> QED  BY <1>1 DEF Fan, Target

LEMMA RowsOf ==
    ASSUME NEW a \in Announcements, NEW ws \in SUBSET Target, NEW w \in Target
    PROVE  <<a, w[1], w[2]>> \in Rows(a, ws) <=> w \in ws
<1>1. w = <<w[1], w[2]>> /\ \A v \in ws : v = <<v[1], v[2]>>  BY DEF Target
<1>2. ASSUME <<a, w[1], w[2]>> \in Rows(a, ws) PROVE w \in ws
  <2>1. PICK v \in ws : <<a, w[1], w[2]>> = <<a, v[1], v[2]>>  BY <1>2 DEF Rows
  <2>2. w[1] = v[1] /\ w[2] = v[2]  BY <2>1
  <2> QED  BY <1>1, <2>2
<1> QED  BY <1>2 DEF Rows

\* An announcement nobody works on stays sound.
LEMMA OthersStaySound ==
    ASSUME NEW b, Sound(b), fan'[b] = fan[b], UNCHANGED <<off, members, profiles, unaddressed>>,
           fan[b].owed \in SUBSET Target, fan[b].out \in SUBSET Target,
           \A w \in Target : <<b, w[1], w[2]>> \in delivered'
                               <=> <<b, w[1], w[2]>> \in delivered,
           <<b, "success">> \in audits' <=> <<b, "success">> \in audits
    PROVE  Sound(b)'
<1>1. Staged(b)'  BY DEF Sound, Staged, Reached
<1>2. Standing(b)'  BY DEF Sound, Standing, Governing
<1>3. ASSUME NEW w \in fan[b].owed, Tracked(b, w) PROVE Tracked(b, w)'
  BY <1>3 DEF Tracked, Reached
<1>4. Covered(b)'  BY <1>3 DEF Sound, Covered
<1>5. Spared(b)'  BY DEF Sound, Spared, Reached
<1> QED  BY <1>1, <1>2, <1>4, <1>5 DEF Sound

\* What is left to show of a step of the call of one announcement.
LEMMA CallStep ==
    ASSUME AnnouncementInv, NEW a \in Announcements, NEW f \in Fan,
           UNCHANGED <<off, members, profiles, unaddressed>>, fan' = [fan EXCEPT ![a] = f],
           NEW ws \in SUBSET Target,
           delivered' \in {delivered, delivered \cup Rows(a, ws)},
           NEW result \in {"success", "failure"},
           audits' \in {audits, audits \cup {<<a, result>>}},
           Sound(a)'
    PROVE  AnnouncementInv'
<1>1. delivered' \subseteq Announcements \X Users \X Channel
  <2>1. Rows(a, ws) \subseteq Announcements \X Users \X Channel  BY DEF Rows, Target
  <2> QED  BY <2>1 DEF AnnouncementInv, TypeOK
<1>2. TypeOK'  BY <1>1 DEF AnnouncementInv, TypeOK
<1>3. ASSUME NEW b \in Announcements, b # a PROVE Sound(b)'
  <2>1. fan'[b] = fan[b]  BY <1>3 DEF AnnouncementInv, TypeOK
  <2>2. \A w \in Target : <<b, w[1], w[2]>> \in delivered'
                            <=> <<b, w[1], w[2]>> \in delivered
    BY <1>3 DEF Rows
  <2>3. <<b, "success">> \in audits' <=> <<b, "success">> \in audits  BY <1>3
  <2>4. fan[b].owed \in SUBSET Target /\ fan[b].out \in SUBSET Target
    BY FanType DEF AnnouncementInv
  <2>5. Sound(b)  BY DEF AnnouncementInv
  <2> QED  BY <2>1, <2>2, <2>3, <2>4, <2>5, OthersStaySound
<1> QED  BY <1>2, <1>3 DEF AnnouncementInv

-----------------------------------------------------------------------------
LEMMA InitSound == Init => AnnouncementInv
<1> SUFFICES ASSUME Init PROVE AnnouncementInv  OBVIOUS
<1>1. TypeOK  BY DEF Init, TypeOK, Fan, Working
<1>2. ASSUME NEW a \in Announcements PROVE Sound(a)
  BY DEF Init, Sound, Staged, Standing, Covered, Spared, Reached
<1> QED  BY <1>1, <1>2 DEF AnnouncementInv

LEMMA SignUpSound ==
    ASSUME AnnouncementInv, NEW u \in Users, SignUp(u) \/ Join(u)
    PROVE  AnnouncementInv'
<1>1. /\ UNCHANGED <<off, unaddressed, fan, delivered, audits>>
      /\ profiles \subseteq profiles' /\ members \subseteq members'
  BY DEF SignUp, Join
<1>2. TypeOK'  BY <1>1 DEF AnnouncementInv, TypeOK, SignUp, Join
<1>3. ASSUME NEW a \in Announcements PROVE Sound(a)'
  <2>1. Sound(a)  BY DEF AnnouncementInv
  <2>2. Staged(a)' /\ Standing(a)' /\ Spared(a)'
    BY <1>1, <2>1 DEF Sound, Staged, Standing, Spared, Reached, Governing
  <2>3. ASSUME NEW w, Tracked(a, w) PROVE Tracked(a, w)'
    BY <1>1, <2>3 DEF Tracked, Reached
  <2>4. Covered(a)'  BY <1>1, <2>1, <2>3 DEF Sound, Covered
  <2> QED  BY <2>2, <2>4 DEF Sound
<1> QED  BY <1>2, <1>3 DEF AnnouncementInv

\* A toggle takes whoever it governs out of both histories.
LEMMA SetToggleSound ==
    ASSUME AnnouncementInv, NEW u \in Users, NEW t \in Toggle, SetToggle(u, t)
    PROVE  AnnouncementInv'
<1> DEFINE Changed(a) == {<<u, ch>> : ch \in {ch \in Channel : Governing(a, ch) = t}}
<1>1. /\ UNCHANGED <<profiles, unaddressed, members, delivered, audits>>
      /\ fan' = [a \in Announcements |-> [fan[a] EXCEPT !.owed = @ \ Changed(a),
                                                       !.out = @ \ Changed(a)]]
      /\ u \in profiles
      /\ off' \in {off \ {<<u, t>>}, off \cup {<<u, t>>}}
  BY DEF SetToggle
<1>2. ASSUME NEW a \in Announcements
      PROVE  /\ fan'[a] \in Fan
             /\ fan'[a].pc = fan[a].pc /\ fan'[a].channels = fan[a].channels
             /\ fan'[a].critical = fan[a].critical
             /\ fan'[a].found = fan[a].found /\ fan'[a].todo = fan[a].todo
             /\ fan'[a].problems = fan[a].problems /\ fan'[a].blind = fan[a].blind
             /\ fan'[a].owed = fan[a].owed \ Changed(a)
             /\ fan'[a].out = fan[a].out \ Changed(a)
  <2>1. fan[a] \in Fan  BY FanType DEF AnnouncementInv
  <2>2. fan'[a] = [fan[a] EXCEPT !.owed = @ \ Changed(a), !.out = @ \ Changed(a)]
    BY <1>1
  <2> HIDE DEF Changed
  <2>3. PICK C : C = Changed(a)  OBVIOUS
  <2>4. fan'[a] = [fan[a] EXCEPT !.owed = fan[a].owed \ C, !.out = fan[a].out \ C]
    BY <2>1, <2>2, <2>3 DEF Fan
  <2>5. fan[a].owed \ C \in SUBSET (Users \X Channel)
        /\ fan[a].out \ C \in SUBSET (Users \X Channel)
    BY <2>1 DEF Fan
  <2>6. fan'[a] \in Fan  BY <2>1, <2>4, <2>5 DEF Fan
  <2> QED  BY <2>1, <2>3, <2>4, <2>6 DEF Fan
<1>3. TypeOK'
  <2>1. off' \subseteq profiles' \X Toggle
    <3>1. off \subseteq profiles \X Toggle /\ <<u, t>> \in profiles \X Toggle
      BY <1>1 DEF AnnouncementInv, TypeOK
    <3>2. \/ off' = off \ {<<u, t>>}
          \/ off' = off \cup {<<u, t>>}
      BY <1>1
    <3>3. profiles' = profiles  BY <1>1
    <3> QED  BY <3>1, <3>2, <3>3
  <2>2. fan' \in [Announcements -> Fan]  BY <1>1, <1>2
  <2> QED  BY <1>1, <2>1, <2>2 DEF AnnouncementInv, TypeOK
<1>4. ASSUME NEW a \in Announcements PROVE Sound(a)'
  <2>1. Sound(a)  BY DEF AnnouncementInv
  <2>2. fan[a].owed \in SUBSET Target /\ fan[a].out \in SUBSET Target
    BY FanType DEF AnnouncementInv
  <2>3. Staged(a)'  BY <1>1, <1>2, <2>1 DEF Sound, Staged, Reached
  <2>4. \A ch \in Channel : Governing(a, ch)' = Governing(a, ch)
    BY <1>2 DEF Governing
  <2>5. \A w \in Target : w \notin Changed(a) =>
          (<<w[1], Governing(a, w[2])>> \in off' <=>
           <<w[1], Governing(a, w[2])>> \in off)
    <3>1. ASSUME NEW w \in Target, w \notin Changed(a)
          PROVE  <<w[1], Governing(a, w[2])>> # <<u, t>>
      <4>1. PICK x \in Users, ch \in Channel : w = <<x, ch>>  BY <3>1 DEF Target
      <4>2. ~(x = u /\ Governing(a, ch) = t)  BY <3>1, <4>1
      <4> QED  BY <4>1, <4>2
    <3> QED  BY <1>1, <3>1
  <2>6. Standing(a)'
    <3> HIDE DEF Changed
    <3>1. \A w \in Target : Governing(a, w[2])' = Governing(a, w[2])
      BY <2>4 DEF Target
    <3>2. unaddressed' = unaddressed  BY <1>1
    <3> QED  BY <1>2, <2>1, <2>2, <2>5, <3>1, <3>2 DEF Sound, Standing
  <2>7. ASSUME NEW w, Tracked(a, w) PROVE Tracked(a, w)'
    BY <1>1, <1>2, <2>7 DEF Tracked, Reached
  <2> HIDE DEF Changed
  <2>8. Covered(a)'  BY <1>2, <2>1, <2>7 DEF Sound, Covered
  <2>9. Spared(a)'  BY <1>1, <1>2, <2>1 DEF Sound, Spared, Reached
  <2> QED  BY <2>3, <2>6, <2>8, <2>9 DEF Sound
<1> QED  BY <1>3, <1>4 DEF AnnouncementInv

\* A change of address takes its owner out of what is owed.
LEMMA SetAddressSound ==
    ASSUME AnnouncementInv, NEW u \in Users, SetAddress(u)
    PROVE  AnnouncementInv'
<1>1. /\ UNCHANGED <<profiles, members, off, delivered, audits>>
      /\ fan' = [a \in Announcements |-> [fan[a] EXCEPT !.owed = @ \ ({u} \X Channel)]]
      /\ u \in profiles
      /\ unaddressed' \in {unaddressed \ {u}, unaddressed \cup {u}}
  BY DEF SetAddress
<1>2. ASSUME NEW a \in Announcements
      PROVE  /\ fan'[a] \in Fan
             /\ fan'[a].pc = fan[a].pc /\ fan'[a].channels = fan[a].channels
             /\ fan'[a].critical = fan[a].critical
             /\ fan'[a].found = fan[a].found /\ fan'[a].todo = fan[a].todo
             /\ fan'[a].problems = fan[a].problems /\ fan'[a].blind = fan[a].blind
             /\ fan'[a].owed = fan[a].owed \ ({u} \X Channel)
             /\ fan'[a].out = fan[a].out
  <2>1. fan[a] \in Fan  BY FanType DEF AnnouncementInv
  <2>2. fan'[a] = [fan[a] EXCEPT !.owed = @ \ ({u} \X Channel)]  BY <1>1
  <2> QED  BY <2>1, <2>2 DEF Fan
<1>3. TypeOK'
  <2>1. fan' \in [Announcements -> Fan]  BY <1>1, <1>2
  <2> QED  BY <1>1, <2>1 DEF AnnouncementInv, TypeOK
<1>4. ASSUME NEW a \in Announcements PROVE Sound(a)'
  <2>1. Sound(a)  BY DEF AnnouncementInv
  <2>2. fan[a].owed \in SUBSET Target  BY FanType DEF AnnouncementInv
  <2>3. \A w \in fan'[a].owed : w \in fan[a].owed /\ w[1] # u
    BY <1>2, <2>2 DEF Target
  <2>4. Staged(a)'  BY <1>1, <1>2, <2>1 DEF Sound, Staged, Reached
  <2>5. Standing(a)'  BY <1>1, <1>2, <2>1, <2>3 DEF Sound, Standing, Governing
  <2>6. ASSUME NEW w, Tracked(a, w) PROVE Tracked(a, w)'
    BY <1>1, <1>2, <2>6 DEF Tracked, Reached
  <2>7. Covered(a)'  BY <1>2, <2>1, <2>3, <2>6 DEF Sound, Covered
  <2>8. Spared(a)'  BY <1>1, <1>2, <2>1 DEF Sound, Spared, Reached
  <2> QED  BY <2>4, <2>5, <2>7, <2>8 DEF Sound
<1> QED  BY <1>3, <1>4 DEF AnnouncementInv

-----------------------------------------------------------------------------
LEMMA PublishSound ==
    ASSUME AnnouncementInv, NEW a \in Announcements, NEW channels \in SUBSET Channel,
           NEW audience \in {"everyone", "plan"}, NEW critical \in BOOLEAN,
           Publish(a, channels, audience, critical)
    PROVE  AnnouncementInv'
<1> DEFINE pc == IF channels = {} THEN "shown" ELSE "start"
           f == [fan[a] EXCEPT !.channels = channels, !.audience = audience,
                               !.critical = critical, !.pc = pc]
<1>1. fan[a] \in Fan /\ Sound(a) /\ fan[a].pc = "draft"
  BY FanType DEF AnnouncementInv, Publish
<1>2. pc \in Working \cup {"draft", "start", "shown"}  OBVIOUS
<1>3. pc \in {"shown", "start"}  OBVIOUS
<1> HIDE DEF pc
<1>4. f \in Fan  BY <1>1, <1>2 DEF Fan
<1>5. fan' = [fan EXCEPT ![a] = f]  BY <1>1 DEF Publish, pc, Fan
<1>6. fan'[a] = f  BY <1>5 DEF AnnouncementInv, TypeOK
<1>7. /\ fan'[a].pc = pc /\ fan'[a].todo = fan[a].todo
      /\ fan'[a].owed = {} /\ fan'[a].out = {}
  BY <1>1, <1>6 DEF Fan, Sound, Staged
<1>8. UNCHANGED <<profiles, unaddressed, members, off, delivered, audits>>  BY DEF Publish
<1> HIDE DEF f
<1>9. Staged(a)'  BY <1>1, <1>3, <1>7, <1>8 DEF Sound, Staged, Reached
<1>10. Sound(a)'
  BY <1>7, <1>9 DEF Sound, Standing, Covered, Spared
<1> QED  BY <1>4, <1>5, <1>8, <1>10, CallStep

\* The page shows that the call failed, whatever the call had done.
LEMMA FailureSound ==
    ASSUME AnnouncementInv, NEW a \in Announcements, CallFails(a),
           UnderWay(a) \/ fan[a].pc = "start",
           UNCHANGED <<profiles, unaddressed, members, off, delivered, audits>>
    PROVE  AnnouncementInv'
<1> DEFINE f == [fan[a] EXCEPT !.pc = "shown", !.problems = {"delivery"},
                               !.found = {}, !.todo = {}]
<1>1. fan[a] \in Fan /\ Sound(a)  BY FanType DEF AnnouncementInv
<1>2. f \in Fan  BY <1>1 DEF Fan
<1>3. fan' = [fan EXCEPT ![a] = f]  BY <1>1 DEF CallFails, Fan
<1>4. fan'[a] = f  BY <1>3 DEF AnnouncementInv, TypeOK
<1>5. /\ fan'[a].pc = "shown" /\ fan'[a].todo = {}
      /\ fan'[a].problems = {"delivery"}
      /\ fan'[a].channels = fan[a].channels /\ fan'[a].critical = fan[a].critical
      /\ fan'[a].blind = fan[a].blind
      /\ fan'[a].owed = fan[a].owed /\ fan'[a].out = fan[a].out
  BY <1>1, <1>4 DEF Fan
<1> HIDE DEF f
<1>6. Staged(a)'  BY <1>5 DEF Staged
<1>7. Standing(a)'  BY <1>1, <1>5 DEF Sound, Standing, Governing
<1>8. ASSUME NEW w, Tracked(a, w) PROVE Tracked(a, w)'
  <2>1. fan'[a].problems \cap {w[2], "delivery"} # {}  BY <1>5
  <2> QED  BY <1>5, <1>8, <2>1 DEF Tracked, Reached
<1>9. Covered(a)'  BY <1>1, <1>5, <1>8 DEF Sound, Covered
<1>10. Spared(a)'  BY <1>1, <1>5 DEF Sound, Spared, Reached
<1>11. Sound(a)'  BY <1>6, <1>7, <1>9, <1>10 DEF Sound
<1> QED  BY <1>2, <1>3, <1>11, CallStep

LEMMA BeginSound ==
    ASSUME AnnouncementInv, NEW a \in Announcements, Begin(a)
    PROVE  AnnouncementInv'
<1>1. fan[a] \in Fan /\ Sound(a) /\ fan[a].pc = "start" /\ TypeOK
      /\ UNCHANGED <<profiles, unaddressed, members, off, delivered, audits>>
  BY FanType DEF AnnouncementInv, Begin
<1>2. CASE CallFails(a)  BY <1>1, <1>2, FailureSound
<1>3. CASE ~CallFails(a)
  <2> DEFINE plan == fan[a].audience = "plan"
             pc == IF plan THEN "members" ELSE "profiles"
             found == IF plan THEN {} ELSE Users
             owed == {w \in (Audience(a) \ unaddressed) \X fan[a].channels :
                        <<w[1], Governing(a, w[2])>> \notin off}
             out == {w \in Users \X Channel : <<w[1], Governing(a, w[2])>> \in off}
             f == [fan[a] EXCEPT !.pc = pc, !.found = found, !.owed = owed, !.out = out]
  <2>1. fan' = [fan EXCEPT ![a].pc = pc, ![a].found = found, ![a].owed = owed,
                           ![a].out = out]
    BY <1>3 DEF Begin
  <2>2. /\ pc \in {"members", "profiles"} /\ found \in SUBSET Users
        /\ pc = "members" => \A w \in owed : w[1] \in members
        /\ pc = "profiles" => \A w \in owed : w[1] \in profiles /\ w[1] \in found
    BY <1>1 DEF Audience, TypeOK
  <2>3. /\ owed \in SUBSET Target /\ out \in SUBSET Target
        /\ \A w \in owed : w[2] \in fan[a].channels
    <3>1. Audience(a) \subseteq Users  BY <1>1 DEF Audience, TypeOK
    <3>2. fan[a].channels \subseteq Channel  BY <1>1 DEF Fan
    <3> QED  BY <3>1, <3>2 DEF Target
  <2>4. /\ \A w \in owed : <<w[1], Governing(a, w[2])>> \notin off /\ w[1] \notin unaddressed
        /\ \A w \in out : <<w[1], Governing(a, w[2])>> \in off
    OBVIOUS
  <2> HIDE DEF pc, found, owed, out
  <2>5. f \in Fan  BY <1>1, <2>2, <2>3 DEF Fan, Target, Working
  <2>6. fan' = [fan EXCEPT ![a] = f]  BY <1>1, <2>1 DEF Fan
  <2>7. fan'[a] = f  BY <1>1, <2>6 DEF TypeOK
  <2>8. /\ fan'[a].pc = pc /\ fan'[a].found = found
        /\ fan'[a].owed = owed /\ fan'[a].out = out
        /\ fan'[a].todo = {}
        /\ fan'[a].channels = fan[a].channels /\ fan'[a].critical = fan[a].critical
    BY <1>1, <2>7 DEF Fan, Sound, Staged
  <2> HIDE DEF f
  <2>9. Staged(a)'  BY <1>1, <2>2, <2>8 DEF Sound, Staged, Reached
  <2>10. Standing(a)'  BY <1>1, <2>3, <2>4, <2>8 DEF Standing, Governing
  <2>11. Covered(a)'
    BY <1>1, <2>2, <2>8 DEF Covered, Tracked, Sound, Staged
  <2>12. Spared(a)'  BY <1>1, <2>3, <2>8 DEF Sound, Staged, Spared, Reached
  <2>13. Sound(a)'  BY <2>9, <2>10, <2>11, <2>12 DEF Sound
  <2> QED  BY <1>1, <2>5, <2>6, <2>13, CallStep
<1> QED  BY <1>2, <1>3

-----------------------------------------------------------------------------
\* A read that loses no row keeps whoever is owed.
LEMMA ReadMembersSound ==
    ASSUME AnnouncementInv, NEW a \in Announcements, ReadMembers(a)
    PROVE  AnnouncementInv'
<1>1. fan[a] \in Fan /\ Sound(a) /\ fan[a].pc = "members" /\ TypeOK
      /\ UNCHANGED <<profiles, unaddressed, members, off, delivered, audits>>
  BY FanType DEF AnnouncementInv, ReadMembers
<1>2. PICK part \in Lossy(members) :
        fan' = [fan EXCEPT ![a].pc = "profiles", ![a].found = part,
                           ![a].blind = Blind(a, "audience", part # members)]
  BY DEF ReadMembers
<1>3. part \subseteq members /\ members \subseteq profiles /\ profiles \subseteq Users
  BY <1>1, <1>2 DEF Lossy, TypeOK
<1> DEFINE blind == Blind(a, "audience", part # members)
           f == [fan[a] EXCEPT !.pc = "profiles", !.found = part, !.blind = blind]
<1>4. /\ blind \in SUBSET {"audience", "preferences"}
      /\ "audience" \notin blind => part = members /\ "audience" \notin fan[a].blind
      /\ "preferences" \notin blind => "preferences" \notin fan[a].blind
  BY <1>1 DEF Blind, Fan
<1> HIDE DEF blind
<1>5. f \in Fan  BY <1>1, <1>3, <1>4 DEF Fan, Working
<1>6. fan' = [fan EXCEPT ![a] = f]  BY <1>1, <1>2 DEF Fan, blind
<1>7. fan'[a] = f  BY <1>1, <1>6 DEF TypeOK
<1>8. /\ fan'[a].pc = "profiles" /\ fan'[a].found = part /\ fan'[a].blind = blind
      /\ fan'[a].todo = fan[a].todo /\ fan'[a].problems = fan[a].problems
      /\ fan'[a].channels = fan[a].channels /\ fan'[a].critical = fan[a].critical
      /\ fan'[a].owed = fan[a].owed /\ fan'[a].out = fan[a].out
  BY <1>1, <1>7 DEF Fan
<1> HIDE DEF f
<1>9. Staged(a)'  BY <1>1, <1>8 DEF Sound, Staged, Reached
<1>10. Standing(a)'  BY <1>1, <1>8 DEF Sound, Standing, Governing
<1>11. Covered(a)'
  BY <1>1, <1>3, <1>4, <1>8 DEF Sound, Staged, Covered, Tracked, Reached
<1>12. Spared(a)'  BY <1>1, <1>4, <1>8 DEF Sound, Spared, Reached
<1>13. Sound(a)'  BY <1>9, <1>10, <1>11, <1>12 DEF Sound
<1> QED  BY <1>1, <1>5, <1>6, <1>13, CallStep

LEMMA ReadProfilesSound ==
    ASSUME AnnouncementInv, NEW a \in Announcements, ReadProfiles(a)
    PROVE  AnnouncementInv'
<1> DEFINE rows == (profiles \cap fan[a].found) \ unaddressed
<1>1. fan[a] \in Fan /\ Sound(a) /\ fan[a].pc = "profiles" /\ TypeOK
      /\ UNCHANGED <<profiles, unaddressed, members, off, delivered, audits>>
  BY FanType DEF AnnouncementInv, ReadProfiles
<1>2. PICK part \in Lossy(rows) :
        fan' = [fan EXCEPT ![a].pc = "preferences", ![a].found = part,
                           ![a].blind = Blind(a, "audience", part # rows)]
  BY DEF ReadProfiles
<1>3. part \subseteq Users
  BY <1>1, <1>2 DEF Lossy, TypeOK
<1> DEFINE blind == Blind(a, "audience", part # rows)
           f == [fan[a] EXCEPT !.pc = "preferences", !.found = part, !.blind = blind]
<1>4. /\ blind \in SUBSET {"audience", "preferences"}
      /\ "audience" \notin blind => part = rows /\ "audience" \notin fan[a].blind
      /\ "preferences" \notin blind => "preferences" \notin fan[a].blind
  BY <1>1 DEF Blind, Fan
<1> HIDE DEF blind
<1>5. f \in Fan  BY <1>1, <1>3, <1>4 DEF Fan, Working
<1>6. fan' = [fan EXCEPT ![a] = f]  BY <1>1, <1>2 DEF Fan, blind
<1>7. fan'[a] = f  BY <1>1, <1>6 DEF TypeOK
<1>8. /\ fan'[a].pc = "preferences" /\ fan'[a].found = part /\ fan'[a].blind = blind
      /\ fan'[a].todo = fan[a].todo /\ fan'[a].problems = fan[a].problems
      /\ fan'[a].channels = fan[a].channels /\ fan'[a].critical = fan[a].critical
      /\ fan'[a].owed = fan[a].owed /\ fan'[a].out = fan[a].out
  BY <1>1, <1>7 DEF Fan
<1> HIDE DEF f
<1>9. Staged(a)'  BY <1>1, <1>8 DEF Sound, Staged, Reached
<1>10. Standing(a)'  BY <1>1, <1>8 DEF Sound, Standing, Governing
<1>11. Covered(a)'
  BY <1>1, <1>4, <1>8 DEF Sound, Staged, Standing, Covered, Tracked, Reached
<1>12. Spared(a)'  BY <1>1, <1>4, <1>8 DEF Sound, Spared, Reached
<1>13. Sound(a)'  BY <1>9, <1>10, <1>11, <1>12 DEF Sound
<1> QED  BY <1>1, <1>5, <1>6, <1>13, CallStep

\* The filter keeps whoever is owed, and whoever is to be spared only when the
\* read failed.
LEMMA ReadPreferencesSound ==
    ASSUME AnnouncementInv, NEW a \in Announcements, ReadPreferences(a)
    PROVE  AnnouncementInv'
<1>1. fan[a] \in Fan /\ Sound(a) /\ fan[a].pc = "preferences" /\ TypeOK
      /\ UNCHANGED <<profiles, unaddressed, members, off, delivered, audits>>
  BY FanType DEF AnnouncementInv, ReadPreferences
<1> DEFINE kept(lost) == {w \in fan[a].found \X fan[a].channels :
                            lost \/ <<w[1], Governing(a, w[2])>> \notin off}
<1>2. PICK lost \in BOOLEAN :
        fan' = [fan EXCEPT ![a].pc = "in_app", ![a].found = {},
                           ![a].blind = Blind(a, "preferences", lost),
                           ![a].todo = kept(lost)]
  BY DEF ReadPreferences
<1> DEFINE blind == Blind(a, "preferences", lost)
           todo == kept(lost)
           f == [fan[a] EXCEPT !.pc = "in_app", !.found = {}, !.blind = blind,
                               !.todo = todo]
<1>3. /\ blind \in SUBSET {"audience", "preferences"}
      /\ "audience" \notin blind => "audience" \notin fan[a].blind
      /\ "preferences" \notin blind => ~lost /\ "preferences" \notin fan[a].blind
  BY <1>1 DEF Blind, Fan
<1>4. todo \in SUBSET Target
  <2>1. fan[a].found \subseteq Users /\ fan[a].channels \subseteq Channel
    BY <1>1 DEF Fan
  <2> QED  BY <2>1 DEF Target
<1>5. ASSUME "audience" \notin fan[a].blind, NEW w \in fan[a].owed PROVE w \in todo
  <2>1. w[1] \in fan[a].found  BY <1>1, <1>5 DEF Sound, Covered, Tracked
  <2>2. w[2] \in fan[a].channels /\ <<w[1], Governing(a, w[2])>> \notin off
    BY <1>1, <1>5 DEF Sound, Standing
  <2>3. w = <<w[1], w[2]>>  BY <1>5, FanType DEF AnnouncementInv, Target
  <2> QED  BY <2>1, <2>2, <2>3
<1>6. ~lost => \A w \in fan[a].out : w \notin todo
  BY <1>1 DEF Sound, Standing
<1> HIDE DEF blind, todo
<1>7. f \in Fan  BY <1>1, <1>3, <1>4 DEF Fan, Working, Target
<1>8. fan' = [fan EXCEPT ![a] = f]  BY <1>1, <1>2 DEF Fan, blind, todo
<1>9. fan'[a] = f  BY <1>1, <1>8 DEF TypeOK
<1>10. /\ fan'[a].pc = "in_app" /\ fan'[a].todo = todo /\ fan'[a].blind = blind
       /\ fan'[a].problems = fan[a].problems
       /\ fan'[a].channels = fan[a].channels /\ fan'[a].critical = fan[a].critical
       /\ fan'[a].owed = fan[a].owed /\ fan'[a].out = fan[a].out
  BY <1>1, <1>9 DEF Fan
<1> HIDE DEF f
<1>11. /\ \A w \in Target : ~Reached(a, w)
       /\ <<a, "success">> \notin audits
  BY <1>1 DEF Sound, Staged
<1>12. Staged(a)'  BY <1>1, <1>10, <1>11 DEF Staged
<1>13. Standing(a)'  BY <1>1, <1>10 DEF Sound, Standing, Governing
<1>14. Covered(a)'  BY <1>1, <1>3, <1>5, <1>10, <1>11 DEF Covered, Tracked
<1>15. fan[a].out \subseteq Target  BY FanType DEF AnnouncementInv
<1>16. Spared(a)'  BY <1>1, <1>3, <1>6, <1>10, <1>11, <1>15 DEF Spared, Reached
<1>17. Sound(a)'  BY <1>12, <1>13, <1>14, <1>16 DEF Sound
<1> QED  BY <1>1, <1>7, <1>8, <1>17, CallStep

-----------------------------------------------------------------------------
LEMMA NotifySound ==
    ASSUME AnnouncementInv, NEW a \in Announcements, NotifyInApp(a)
    PROVE  AnnouncementInv'
<1> DEFINE ws == Of(a, "in_app")
<1>1. fan[a] \in Fan /\ Sound(a) /\ fan[a].pc = "in_app" /\ TypeOK
      /\ UNCHANGED <<profiles, unaddressed, members, off, audits>>
  BY FanType DEF AnnouncementInv, NotifyInApp
<1> DEFINE Left(failed) == IF "email" \in failed THEN {} ELSE Of(a, "email")
<1>2. PICK failed \in SUBSET Channel :
        /\ fan' = [fan EXCEPT ![a].pc = IF Left(failed) = {} THEN "audit" ELSE "email",
                              ![a].todo = Left(failed), ![a].problems = failed]
        /\ \/ delivered' = delivered \cup Rows(a, ws)
           \/ "in_app" \in failed /\ UNCHANGED delivered
  BY DEF NotifyInApp
<1> DEFINE left == Left(failed)
           pc == IF left = {} THEN "audit" ELSE "email"
           f == [fan[a] EXCEPT !.pc = pc, !.todo = left, !.problems = failed]
<1>3. pc \in {"audit", "email"} /\ (pc = "audit" => left = {})  OBVIOUS
<1>4. ws \in SUBSET Target /\ left \subseteq fan[a].todo /\ left \in SUBSET Target
      /\ fan[a].owed \subseteq Target /\ fan[a].out \subseteq Target
      /\ fan[a].todo \subseteq Target
      /\ \A w \in left : w[2] = "email"
  BY <1>2, FanType DEF AnnouncementInv, Of
<1> HIDE DEF pc, left, Left
<1>5. f \in Fan  BY <1>1, <1>2, <1>3, <1>4 DEF Fan, Working, Target
<1>6. fan' = [fan EXCEPT ![a] = f]  BY <1>1, <1>2 DEF Fan, pc, left
<1>7. fan'[a] = f  BY <1>1, <1>6 DEF TypeOK
<1>8. /\ fan'[a].pc = pc /\ fan'[a].todo = left /\ fan'[a].problems = failed
      /\ fan'[a].channels = fan[a].channels /\ fan'[a].critical = fan[a].critical
      /\ fan'[a].blind = fan[a].blind
      /\ fan'[a].owed = fan[a].owed /\ fan'[a].out = fan[a].out
  BY <1>1, <1>7 DEF Fan
<1> HIDE DEF f
<1>9. ASSUME NEW w \in fan[a].todo
      PROVE  w \in left \/ w[2] \in failed \/ Reached(a, w)'
  <2>1. w[2] = "in_app" \/ w[2] = "email"  BY <1>4 DEF Target, Channel
  <2>2. ASSUME w[2] = "email" PROVE w \in left \/ w[2] \in failed
    <3>1. left = IF "email" \in failed THEN {} ELSE Of(a, "email")  BY DEF left, Left
    <3> QED  BY <1>9, <2>2, <3>1 DEF Of
  <2>3. ASSUME w[2] = "in_app" PROVE w[2] \in failed \/ Reached(a, w)'
    <3>1. w \in ws /\ w \in Target  BY <1>4, <2>3 DEF Of
    <3>2. <<a, w[1], w[2]>> \in Rows(a, ws)  BY <1>4, <3>1, RowsOf
    <3> QED  BY <1>2, <2>3, <3>2 DEF Reached
  <2> QED  BY <2>1, <2>2, <2>3
<1>10. ASSUME NEW w \in Target, w \notin fan[a].todo, ~Reached(a, w)
       PROVE  ~Reached(a, w)'
  <2>1. w \notin ws  BY <1>10 DEF Of
  <2>2. <<a, w[1], w[2]>> \notin Rows(a, ws)  BY <1>4, <2>1, RowsOf
  <2> QED  BY <1>2, <1>10, <2>2 DEF Reached
<1>11. <<a, "success">> \notin audits  BY <1>1 DEF Sound, Staged
<1>12. Staged(a)'  BY <1>1, <1>3, <1>4, <1>8, <1>11 DEF Staged
<1>13. Standing(a)'  BY <1>1, <1>8 DEF Sound, Standing, Governing
<1>14. Covered(a)'
  <2>1. ASSUME "audience" \notin fan[a].blind, NEW w \in fan[a].owed
        PROVE  w \in fan[a].todo
    BY <1>1, <2>1 DEF Sound, Covered, Tracked
  <2>2. ASSUME "audience" \notin fan[a].blind, NEW w \in fan[a].owed
        PROVE  Tracked(a, w)'
    BY <1>1, <1>3, <1>8, <1>9, <1>11, <2>1, <2>2 DEF Tracked
  <2> QED  BY <1>8, <2>2 DEF Covered
<1>15. Spared(a)'
  BY <1>1, <1>4, <1>8, <1>10 DEF Sound, Spared
<1>16. Sound(a)'  BY <1>12, <1>13, <1>14, <1>15 DEF Sound
<1>17. delivered' \in {delivered, delivered \cup Rows(a, ws)}  BY <1>2
<1> HIDE DEF ws
<1> QED  BY <1>1, <1>4, <1>5, <1>6, <1>16, <1>17, CallStep

\* A batch is delivered or its channel has a problem; the rest stays to be tried.
LEMMA SendBatchSound ==
    ASSUME AnnouncementInv, NEW a \in Announcements, SendBatch(a)
    PROVE  AnnouncementInv'
<1>1. fan[a] \in Fan /\ Sound(a) /\ fan[a].pc = "email" /\ TypeOK
      /\ UNCHANGED <<profiles, unaddressed, members, off, audits>>
  BY FanType DEF AnnouncementInv, SendBatch
<1>2. PICK batch \in Batches(fan[a].todo), failed \in BOOLEAN :
        /\ fan' = [fan EXCEPT
             ![a].pc = IF fan[a].todo \ batch = {} THEN "audit" ELSE "email",
             ![a].todo = fan[a].todo \ batch,
             ![a].problems = IF failed THEN @ \cup {"email"} ELSE @]
        /\ \/ delivered' = delivered \cup Rows(a, batch)
           \/ failed /\ UNCHANGED delivered
  BY DEF SendBatch
<1> DEFINE left == fan[a].todo \ batch
           pc == IF left = {} THEN "audit" ELSE "email"
           problems == IF failed THEN fan[a].problems \cup {"email"}
                       ELSE fan[a].problems
           f == [fan[a] EXCEPT !.pc = pc, !.todo = left, !.problems = problems]
<1>3. pc \in {"audit", "email"} /\ (pc = "audit" => left = {})  OBVIOUS
<1>4. /\ batch \subseteq fan[a].todo
      /\ fan[a].todo \subseteq Target
      /\ batch \in SUBSET Target
      /\ left \in SUBSET Target
      /\ left \subseteq fan[a].todo
      /\ \A w \in fan[a].todo : w \in left \/ w \in batch
      /\ fan[a].owed \subseteq Target
      /\ fan[a].out \subseteq Target
  BY <1>2, FanType DEF AnnouncementInv, Batches
<1>5. /\ problems \in SUBSET (Channel \cup {"delivery"})
      /\ fan[a].problems \subseteq problems
      /\ failed => "email" \in problems
  BY <1>1, <1>2 DEF Fan, Channel
<1> HIDE DEF pc, left, problems
<1>6. f \in Fan  BY <1>1, <1>3, <1>4, <1>5 DEF Fan, Working, Target
<1>7. fan' = [fan EXCEPT ![a] = f]  BY <1>1, <1>2 DEF Fan, pc, left, problems
<1>8. fan'[a] = f  BY <1>1, <1>7 DEF TypeOK
<1>9. /\ fan'[a].pc = pc /\ fan'[a].todo = left /\ fan'[a].problems = problems
      /\ fan'[a].channels = fan[a].channels /\ fan'[a].critical = fan[a].critical
      /\ fan'[a].blind = fan[a].blind
      /\ fan'[a].owed = fan[a].owed /\ fan'[a].out = fan[a].out
  BY <1>1, <1>8 DEF Fan
<1> HIDE DEF f
<1>10. \A w \in fan[a].todo : w[2] = "email"  BY <1>1 DEF Sound, Staged
<1>11. ASSUME NEW w \in batch PROVE Reached(a, w)' \/ w[2] \in problems
  <2>1. w \in Target /\ w[2] = "email"  BY <1>4, <1>10, <1>11
  <2>2. <<a, w[1], w[2]>> \in Rows(a, batch)  BY <1>4, <1>11, <2>1, RowsOf
  <2> QED  BY <1>2, <1>5, <2>1, <2>2 DEF Reached
<1>12. ASSUME NEW w, Reached(a, w) PROVE Reached(a, w)'
  BY <1>2, <1>12 DEF Reached
<1>13. ASSUME NEW w \in Target, w \notin fan[a].todo, ~Reached(a, w)
       PROVE  ~Reached(a, w)'
  <2>1. <<a, w[1], w[2]>> \notin Rows(a, batch)  BY <1>4, <1>13, RowsOf
  <2>2. delivered' = delivered \/ delivered' = delivered \cup Rows(a, batch)
    BY <1>2
  <2> QED  BY <1>13, <2>1, <2>2 DEF Reached
<1>14. <<a, "success">> \notin audits  BY <1>1 DEF Sound, Staged
<1>15. Staged(a)'  BY <1>1, <1>3, <1>4, <1>9, <1>10, <1>14 DEF Staged
<1>16. Standing(a)'  BY <1>1, <1>9 DEF Sound, Standing, Governing
<1>17. Covered(a)'
  <2>1. ASSUME "audience" \notin fan[a].blind, NEW w \in fan[a].owed
        PROVE  Reached(a, w)' \/ w \in left \/ w[2] \in problems
    <3>1. Reached(a, w) \/ w \in fan[a].todo \/ w[2] \in fan[a].problems
      BY <1>1, <2>1 DEF Sound, Covered, Tracked
    <3> QED  BY <1>4, <1>5, <1>11, <1>12, <3>1
  <2>2. ASSUME "audience" \notin fan[a].blind, NEW w \in fan[a].owed
        PROVE  Tracked(a, w)'
    BY <1>1, <1>3, <1>9, <1>14, <2>1, <2>2 DEF Tracked
  <2> QED  BY <1>9, <2>2 DEF Covered
<1>18. Spared(a)'
  <2>1. ASSUME "preferences" \notin fan[a].blind, NEW w \in fan[a].out
        PROVE  ~Reached(a, w)' /\ w \notin left
    <3>1. w \in Target  BY <2>1, FanType DEF AnnouncementInv
    <3>2. Spared(a)  BY <1>1 DEF Sound
    <3>3. ~Reached(a, w) /\ w \notin fan[a].todo  BY <2>1, <3>2 DEF Spared
    <3>4. ~Reached(a, w)'  BY <1>13, <3>1, <3>3
    <3>5. w \notin left  BY <1>4, <3>3
    <3> QED  BY <3>4, <3>5
  <2> QED  BY <1>9, <2>1 DEF Spared
<1>19. Sound(a)'  BY <1>15, <1>16, <1>17, <1>18 DEF Sound
<1>20. delivered' \in {delivered, delivered \cup Rows(a, batch)}  BY <1>2
<1> QED  BY <1>1, <1>4, <1>6, <1>7, <1>19, <1>20, CallStep

-----------------------------------------------------------------------------
\* Success is written only when no channel has a problem.
LEMMA AuditSound ==
    ASSUME AnnouncementInv, NEW a \in Announcements, Audit(a)
    PROVE  AnnouncementInv'
<1> DEFINE f == [fan[a] EXCEPT !.pc = "answer"]
           result == IF fan[a].problems # {} THEN "failure" ELSE "success"
<1>1. fan[a] \in Fan /\ Sound(a) /\ fan[a].pc = "audit" /\ TypeOK
      /\ UNCHANGED <<profiles, unaddressed, members, off, delivered>>
  BY FanType DEF AnnouncementInv, Audit
<1>2. f \in Fan  BY <1>1 DEF Fan, Working
<1>3. fan' = [fan EXCEPT ![a] = f]  BY <1>1 DEF Audit, Fan
<1>4. fan'[a] = f  BY <1>1, <1>3 DEF TypeOK
<1>5. /\ fan'[a].pc = "answer" /\ fan'[a].todo = fan[a].todo
      /\ fan'[a].problems = fan[a].problems
      /\ fan'[a].channels = fan[a].channels /\ fan'[a].critical = fan[a].critical
      /\ fan'[a].blind = fan[a].blind
      /\ fan'[a].owed = fan[a].owed /\ fan'[a].out = fan[a].out
  BY <1>1, <1>4 DEF Fan
<1> HIDE DEF f
<1>6. audits' \in {audits, audits \cup {<<a, result>>}}  BY DEF Audit
<1>7. /\ result \in {"success", "failure"}
      /\ <<a, "success">> \in audits' => fan[a].problems = {}
  BY <1>1, <1>6 DEF Sound, Staged
<1> HIDE DEF result
<1>8. Staged(a)'  BY <1>5 DEF Staged
<1>9. Standing(a)'  BY <1>1, <1>5 DEF Sound, Standing, Governing
<1>10. Covered(a)'
  <2>1. ASSUME "audience" \notin fan[a].blind, NEW w \in fan[a].owed
        PROVE  Tracked(a, w)'
    <3>1. Reached(a, w) \/ w[2] \in fan[a].problems
      BY <1>1, <2>1 DEF Sound, Covered, Tracked
    <3> QED  BY <1>1, <1>5, <1>7, <3>1 DEF Tracked, Reached
  <2> QED  BY <1>5, <2>1 DEF Covered
<1>11. Spared(a)'  BY <1>1, <1>5 DEF Sound, Spared, Reached
<1>12. Sound(a)'  BY <1>8, <1>9, <1>10, <1>11 DEF Sound
<1>13. delivered' \in {delivered, delivered \cup Rows(a, {})}  BY <1>1
<1> QED  BY <1>1, <1>2, <1>3, <1>6, <1>7, <1>12, <1>13, CallStep

LEMMA AnswerSound ==
    ASSUME AnnouncementInv, NEW a \in Announcements, Answer(a)
    PROVE  AnnouncementInv'
<1> DEFINE f == [fan[a] EXCEPT !.pc = "shown"]
<1>1. fan[a] \in Fan /\ Sound(a) /\ fan[a].pc = "answer" /\ TypeOK
      /\ UNCHANGED <<profiles, unaddressed, members, off, delivered, audits>>
  BY FanType DEF AnnouncementInv, Answer
<1>2. f \in Fan  BY <1>1 DEF Fan
<1>3. fan' = [fan EXCEPT ![a] = f]  BY <1>1 DEF Answer, Fan
<1>4. fan'[a] = f  BY <1>1, <1>3 DEF TypeOK
<1>5. /\ fan'[a].pc = "shown" /\ fan'[a].todo = fan[a].todo
      /\ fan'[a].problems = fan[a].problems
      /\ fan'[a].channels = fan[a].channels /\ fan'[a].critical = fan[a].critical
      /\ fan'[a].blind = fan[a].blind
      /\ fan'[a].owed = fan[a].owed /\ fan'[a].out = fan[a].out
  BY <1>1, <1>4 DEF Fan
<1> HIDE DEF f
<1>6. Staged(a)'  BY <1>5 DEF Staged
<1>7. Standing(a)'  BY <1>1, <1>5 DEF Sound, Standing, Governing
<1>8. Covered(a)'
  <2>1. ASSUME "audience" \notin fan[a].blind, NEW w \in fan[a].owed
        PROVE  Tracked(a, w)'
    <3>1. /\ Reached(a, w) \/ w[2] \in fan[a].problems
          /\ <<a, "success">> \in audits => Reached(a, w)
      BY <1>1, <2>1 DEF Sound, Covered, Tracked
    <3>2. Reached(a, w) \/ fan[a].problems \cap {w[2], "delivery"} # {}  BY <3>1
    <3> QED  BY <1>1, <1>5, <3>1, <3>2 DEF Tracked, Reached
  <2> QED  BY <1>5, <2>1 DEF Covered
<1>9. Spared(a)'  BY <1>1, <1>5 DEF Sound, Spared, Reached
<1>10. Sound(a)'  BY <1>6, <1>7, <1>8, <1>9 DEF Sound
<1>11. delivered' \in {delivered, delivered \cup Rows(a, {})}  BY <1>1
<1> QED  BY <1>1, <1>2, <1>3, <1>10, <1>11, CallStep

LEMMA StepSound == AnnouncementInv /\ [Next]_vars => AnnouncementInv'
<1> SUFFICES ASSUME AnnouncementInv, [Next]_vars PROVE AnnouncementInv'  OBVIOUS
<1>1. ASSUME NEW u \in Users, SignUp(u) \/ Join(u) PROVE AnnouncementInv'
  BY <1>1, SignUpSound
<1>2. ASSUME NEW u \in Users, NEW t \in Toggle, SetToggle(u, t) PROVE AnnouncementInv'
  BY <1>2, SetToggleSound
<1>14. ASSUME NEW u \in Users, SetAddress(u) PROVE AnnouncementInv'
  BY <1>14, SetAddressSound
<1>3. ASSUME NEW a \in Announcements, NEW channels \in SUBSET Channel,
             NEW audience \in {"everyone", "plan"}, NEW critical \in BOOLEAN,
             Publish(a, channels, audience, critical)
      PROVE  AnnouncementInv'
  BY <1>3, PublishSound
<1>4. ASSUME NEW a \in Announcements, Begin(a) PROVE AnnouncementInv'
  BY <1>4, BeginSound
<1>5. ASSUME NEW a \in Announcements, ReadMembers(a) PROVE AnnouncementInv'
  BY <1>5, ReadMembersSound
<1>6. ASSUME NEW a \in Announcements, ReadProfiles(a) PROVE AnnouncementInv'
  BY <1>6, ReadProfilesSound
<1>7. ASSUME NEW a \in Announcements, ReadPreferences(a) PROVE AnnouncementInv'
  BY <1>7, ReadPreferencesSound
<1>8. ASSUME NEW a \in Announcements, NotifyInApp(a) PROVE AnnouncementInv'
  BY <1>8, NotifySound
<1>9. ASSUME NEW a \in Announcements, SendBatch(a) PROVE AnnouncementInv'
  BY <1>9, SendBatchSound
<1>10. ASSUME NEW a \in Announcements, Audit(a) PROVE AnnouncementInv'
  BY <1>10, AuditSound
<1>11. ASSUME NEW a \in Announcements, Answer(a) PROVE AnnouncementInv'
  BY <1>11, AnswerSound
<1>12. ASSUME NEW a \in Announcements, Kill(a) PROVE AnnouncementInv'
  BY <1>12, FailureSound DEF Kill
<1>13. CASE UNCHANGED vars
  <2>1. TypeOK'  BY <1>13 DEF AnnouncementInv, TypeOK, vars
  <2>2. ASSUME NEW a \in Announcements PROVE Sound(a)'
    <3>1. fan[a].owed \in SUBSET Target /\ fan[a].out \in SUBSET Target /\ Sound(a)
      BY FanType DEF AnnouncementInv
    <3> QED  BY <1>13, <3>1, OthersStaySound DEF vars
  <2> QED  BY <2>1, <2>2 DEF AnnouncementInv
<1> QED  BY <1>1, <1>2, <1>3, <1>4, <1>5, <1>6, <1>7, <1>8, <1>9, <1>10, <1>11,
            <1>12, <1>13, <1>14 DEF Next

LEMMA AlwaysSound == Spec => []AnnouncementInv
  BY InitSound, StepSound, PTL DEF Spec

-----------------------------------------------------------------------------
\* The tables and the calls stay well typed (TypeOK).
THEOREM AnnouncementsTypeCorrect == Spec => []TypeOK
<1>1. AnnouncementInv => TypeOK  BY DEF AnnouncementInv
<1> QED  BY <1>1, AlwaysSound, PTL

\* For any number of developers, any batch size and any failures: what the page
\* shows without a problem was delivered to everyone owed, unless a read of the
\* audience lost rows (send-announcement-email:18-24).
THEOREM SilenceMeansDelivery == Spec => []UnreportedMeansDelivered
<1>1. AnnouncementInv => UnreportedMeansDelivered
  BY DEF AnnouncementInv, Sound, Covered, Tracked, Reached, Missed,
         UnreportedMeansDelivered
<1> QED  BY <1>1, AlwaysSound, PTL

\* For the same generality, whoever had opted out is not reached, unless the read
\* of the preferences failed (send-announcement-email:26-31).
THEOREM OptOutsAreRespected == Spec => []OptedOutIsSpared
<1>1. AnnouncementInv => OptedOutIsSpared
  BY DEF AnnouncementInv, Sound, Spared, Reached, OptedOutIsSpared
<1> QED  BY <1>1, AlwaysSound, PTL

\* For the same generality, an audit row that says success belongs to a complete
\* publication (send-announcement-email:236-252).
THEOREM AuditsAreTruthful == Spec => []AuditIsTruthful
<1>1. AnnouncementInv => AuditIsTruthful
  BY DEF AnnouncementInv, Sound, Covered, Tracked, Reached, Missed, AuditIsTruthful
<1> QED  BY <1>1, AlwaysSound, PTL

=============================================================================
