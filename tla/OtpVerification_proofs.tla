----------------------- MODULE OtpVerification_proofs -----------------------
(***************************************************************************)
(* Proofs about OtpVerification for any number of requests, verifications  *)
(* and attempts, and for any set of failures.                              *)
(***************************************************************************)
EXTENDS OtpVerification, FiniteSetTheorems, TLAPS

\* What a row satisfies whoever wrote it last.
RowSound(v) ==
    /\ otps[v].attempts <= MaxAttempts
    /\ otps[v].status = "pending" => /\ otps[v].attempts < MaxAttempts
                                     /\ otps[v].attempts <= wrongs[v]
    /\ otps[v].status = "failed" => wrongs[v] >= MaxAttempts
    /\ otps[v].status = "expired" => now > otps[v].expires
    /\ <<v, "otp.failed">> \in emitted => wrongs[v] >= MaxAttempts

\* What a request in flight still knows about its row, however old its read is.
RequestSound(r) == request[r] # Idle =>
    LET q == request[r] IN
    /\ otps[q.vid].status # "absent"
    /\ q.seen < MaxAttempts
    /\ q.decision # "lockout"
    /\ q.pc = "write" => q.seen <= wrongs[q.vid]
    /\ q.decision = "expire" => now > otps[q.vid].expires
    /\ q.pc = "emit" /\ q.decision = "wrong" => wrongs[q.vid] >= q.seen + 1

IInv ==
    /\ TypeOK
    /\ \A v \in Verifications : RowSound(v)
    /\ \A r \in Requests : RequestSound(r)

-----------------------------------------------------------------------------
LEMMA RequestCases ==
    ASSUME TypeOK, NEW r \in Requests
    PROVE  /\ request[r] = Idle <=> request[r].pc = "idle"
           /\ request[r] # Idle => request[r] \in InFlight
  BY DEF TypeOK, Idle, InFlight

\* The row an update leaves behind is a row of the table.
LEMMA UpdatedType ==
    ASSUME NEW row \in Row, NEW d \in Decisions, NEW seen \in Nat
    PROVE  /\ Updated(row, d, seen) \in Row
           /\ Updated(row, d, seen).expires = row.expires
           /\ Updated(row, d, seen).status # "absent"
           /\ d = "expire" => /\ Updated(row, d, seen).attempts = row.attempts
                              /\ Updated(row, d, seen).status = "expired"
           /\ d \in {"wrong", "right"} => Updated(row, d, seen).attempts = seen + 1
           /\ d = "right" => Updated(row, d, seen).status = "verified"
           /\ d = "wrong" => Updated(row, d, seen).status =
                               IF seen + 1 >= MaxAttempts THEN "failed" ELSE "pending"
  <1>1. CASE d = "expire"
    BY <1>1 DEF Updated, Row, Final
  <1>2. CASE d = "lockout"
    BY <1>2 DEF Updated, Row, Final
  <1>3. CASE d = "wrong"
    <2>1. Updated(row, d, seen) =
            [row EXCEPT !.attempts = seen + 1,
                        !.status = IF seen + 1 >= MaxAttempts THEN "failed"
                                                              ELSE "pending"]
      BY <1>3 DEF Updated, WillExceed
    <2>2. seen + 1 \in Nat
      OBVIOUS
    <2> QED BY <1>3, <2>1, <2>2 DEF Row, Final
  <1>4. CASE d = "right"
    <2>1. Updated(row, d, seen) =
            [row EXCEPT !.attempts = seen + 1, !.status = "verified"]
      BY <1>4 DEF Updated
    <2>2. seen + 1 \in Nat
      OBVIOUS
    <2> QED BY <1>4, <2>1, <2>2 DEF Row, Final
  <1> QED BY <1>1, <1>2, <1>3, <1>4 DEF Decisions

-----------------------------------------------------------------------------
LEMMA InitIInv == Init => IInv
  BY AttemptsAssumption
     DEF Init, IInv, TypeOK, Row, Final, Idle, InFlight, RowSound, RequestSound

LEMMA TickIInv == IInv /\ Tick => IInv'
  <1> SUFFICES ASSUME IInv, Tick PROVE IInv'
    OBVIOUS
  <1> USE DEF Tick
  <1>1. TypeOK'
    BY DEF IInv, TypeOK
  <1>2. ASSUME NEW v \in Verifications PROVE RowSound(v)'
    BY DEF IInv, TypeOK, RowSound, Row
  <1>3. ASSUME NEW r \in Requests PROVE RequestSound(r)'
    BY RequestCases DEF IInv, TypeOK, RequestSound, InFlight, Row
  <1> QED BY <1>1, <1>2, <1>3 DEF IInv

LEMMA SendIInv == ASSUME NEW v \in Verifications, IInv, Send(v) PROVE IInv'
  <1> USE DEF Send
  <1>1. TypeOK'
    BY TTLAssumption DEF IInv, TypeOK, Row, Final
  <1>2. ASSUME NEW u \in Verifications PROVE RowSound(u)'
    BY AttemptsAssumption DEF IInv, TypeOK, RowSound, Row
  <1>3. ASSUME NEW r \in Requests PROVE RequestSound(r)'
    BY RequestCases DEF IInv, TypeOK, RequestSound, InFlight, Row
  <1> QED BY <1>1, <1>2, <1>3 DEF IInv

\* A row that is read as open is below the limit, so "lockout" is never decided.
LEMMA DecideSound ==
    ASSUME IInv, NEW v \in Verifications, NEW match \in BOOLEAN,
           Decide(otps[v], match) # "reject"
    PROVE  /\ Decide(otps[v], match) \in Decisions \ {"lockout"}
           /\ otps[v].status = "pending"
           /\ Decide(otps[v], match) = "expire" => now > otps[v].expires
  <1> DEFINE row == otps[v]
  <1>1. RowSound(v) /\ row \in Row /\ now \in Nat
    BY DEF IInv, TypeOK
  <1>2. row.status = "pending"
    BY DEF Decide
  <1>3. row.attempts < MaxAttempts /\ row.attempts \in Nat /\ row.expires \in Nat
    BY <1>1, <1>2 DEF RowSound, Row
  <1>4. CASE row.expires < now
    BY <1>2, <1>3, <1>4, <1>1 DEF Decide, Decisions
  <1>5. CASE ~(row.expires < now)
    <2>1. Decide(row, match) = IF match THEN "right" ELSE "wrong"
      BY <1>2, <1>3, <1>5, AttemptsAssumption DEF Decide
    <2> QED BY <1>2, <2>1 DEF Decisions
  <1> QED BY <1>4, <1>5

LEMMA ReadIInv ==
    ASSUME NEW r \in Requests, NEW v \in Verifications, NEW match \in BOOLEAN,
           IInv, Read(r, v, match)
    PROVE  IInv'
  <1> DEFINE d == Decide(otps[v], match)
             q == [pc |-> "write", vid |-> v, seen |-> otps[v].attempts,
                   decision |-> d]
  <1>1. /\ request' = [request EXCEPT ![r] = q]
        /\ UNCHANGED <<now, otps, wrongs, lost, emitted>>
        /\ d \in Decisions \ {"lockout"}
        /\ otps[v].status = "pending"
        /\ d = "expire" => now > otps[v].expires
    BY DecideSound DEF Read
  <1> HIDE DEF d
  <1>2. q \in InFlight
    BY <1>1 DEF InFlight, IInv, TypeOK, Row
  <1>3. TypeOK'
    BY <1>1, <1>2 DEF IInv, TypeOK
  <1>4. ASSUME NEW u \in Verifications PROVE RowSound(u)'
    BY <1>1 DEF IInv, RowSound
  <1>5. ASSUME NEW s \in Requests PROVE RequestSound(s)'
    <2>1. CASE s = r
      <3>1. request'[s] = q
        BY <1>1, <2>1 DEF IInv, TypeOK
      <3>2. RowSound(v)
        BY DEF IInv
      <3> QED BY <1>1, <3>1, <3>2 DEF RequestSound, RowSound
    <2>2. CASE s # r
      BY <1>1, <2>2 DEF IInv, TypeOK, RequestSound
    <2> QED BY <2>1, <2>2
  <1> QED BY <1>3, <1>4, <1>5 DEF IInv

LEMMA WriteIInv == ASSUME NEW r \in Requests, IInv, Write(r) PROVE IInv'
  <1> DEFINE q == request[r]
  <1>1. /\ q \in InFlight
        /\ q.pc = "write"
        /\ q.decision \in {"expire", "wrong", "right"}
        /\ RequestSound(r)
        /\ q # Idle
    BY RequestCases DEF Write, IInv, RequestSound, InFlight, Decisions, Idle
  <1>2. /\ \/ otps' = [otps EXCEPT ![q.vid] = Updated(@, q.decision, q.seen)]
           \/ otps' = otps
        /\ wrongs' = [wrongs EXCEPT ![q.vid] =
                        IF q.decision = "wrong" THEN @ + 1 ELSE @]
        /\ request' = [request EXCEPT ![r] =
                         IF EventsOf(q.decision, q.seen) = {} THEN Idle
                         ELSE [q EXCEPT !.pc = "emit"]]
        /\ lost' \in {lost, lost \cup {q.vid}}
        /\ UNCHANGED <<now, emitted>>
    BY DEF Write
  <1>3. /\ TypeOK
        /\ q.vid \in Verifications
        /\ q.seen \in Nat
        /\ q.decision \in Decisions
        /\ otps[q.vid] \in Row
    BY <1>1 DEF IInv, TypeOK, InFlight
  <1> DEFINE new == Updated(otps[q.vid], q.decision, q.seen)
  <1>4. /\ new \in Row
        /\ new.expires = otps[q.vid].expires
        /\ new.status # "absent"
        /\ q.decision = "expire" => /\ new.attempts = otps[q.vid].attempts
                                    /\ new.status = "expired"
        /\ q.decision \in {"wrong", "right"} => new.attempts = q.seen + 1
        /\ q.decision = "right" => new.status = "verified"
        /\ q.decision = "wrong" =>
             new.status = IF q.seen + 1 >= MaxAttempts THEN "failed" ELSE "pending"
    BY <1>3, UpdatedType
  <1>5. [q EXCEPT !.pc = "emit"] \in InFlight
    BY <1>1 DEF InFlight
  <1>6. \A v \in Verifications :
          /\ wrongs[v] \in Nat /\ wrongs'[v] \in Nat
          /\ wrongs'[v] >= wrongs[v]
          /\ v = q.vid /\ q.decision = "wrong" => wrongs'[v] = wrongs[v] + 1
    BY <1>2, <1>3 DEF TypeOK
  <1>7. \A v \in Verifications :
          \/ otps'[v] = otps[v]
          \/ v = q.vid /\ otps'[v] = new
    BY <1>2, <1>3 DEF TypeOK
  <1> HIDE DEF new
  <1>8. TypeOK'
    <2>1. otps' \in [Verifications -> Row]
      BY <1>2, <1>3, <1>4 DEF TypeOK, new
    <2> QED BY <1>2, <1>3, <1>5, <2>1 DEF TypeOK
  <1>9. ASSUME NEW v \in Verifications PROVE RowSound(v)'
    <2>1. RowSound(v) /\ otps[v] \in Row /\ now \in Nat
      BY <1>3 DEF IInv, TypeOK
    <2>2. CASE otps'[v] = otps[v]
      BY <1>2, <1>6, <2>1, <2>2, AttemptsAssumption DEF RowSound, Row
    <2>3. CASE v = q.vid /\ otps'[v] = new
      BY <1>1, <1>2, <1>3, <1>4, <1>6, <2>1, <2>3, AttemptsAssumption
         DEF RowSound, RequestSound, Row
    <2> QED BY <1>7, <2>2, <2>3
  <1>10. ASSUME NEW s \in Requests PROVE RequestSound(s)'
    <2>1. ASSUME NEW v \in Verifications, otps[v].status # "absent"
          PROVE  /\ otps'[v].status # "absent"
                 /\ otps'[v].expires = otps[v].expires
      BY <1>4, <1>7, <2>1
    <2>2. CASE s # r
      <3>1. request'[s] = request[s] /\ RequestSound(s)
        BY <1>2, <1>3, <2>2 DEF TypeOK, IInv
      <3>2. CASE request[s] = Idle
        BY <3>1, <3>2 DEF RequestSound
      <3>3. CASE request[s] # Idle
        <4>1. /\ request[s] \in InFlight
              /\ request[s].vid \in Verifications
              /\ request[s].seen \in Nat
          BY <1>3, <3>3, RequestCases DEF InFlight
        <4>2. /\ wrongs[request[s].vid] \in Nat
              /\ wrongs'[request[s].vid] \in Nat
              /\ wrongs'[request[s].vid] >= wrongs[request[s].vid]
              /\ otps[request[s].vid].status # "absent"
          BY <1>6, <3>1, <3>3, <4>1 DEF RequestSound
        <4>3. /\ otps'[request[s].vid].status # "absent"
              /\ otps'[request[s].vid].expires = otps[request[s].vid].expires
              /\ now' = now
          BY <1>2, <2>1, <4>1, <4>2
        <4> QED BY <3>1, <3>3, <4>1, <4>2, <4>3 DEF RequestSound
      <3> QED BY <3>2, <3>3
    <2>3. CASE s = r
      <3>1. CASE request'[s] = Idle
        BY <3>1 DEF RequestSound
      <3>2. CASE request'[s] # Idle
        <4>1. /\ request'[s] = [q EXCEPT !.pc = "emit"]
              /\ request'[s].vid = q.vid
              /\ request'[s].seen = q.seen
              /\ request'[s].decision = q.decision
              /\ request'[s].pc = "emit"
          BY <1>1, <1>2, <1>3, <2>3, <3>2 DEF TypeOK, InFlight
        <4> QED BY <1>1, <1>2, <1>3, <1>6, <2>1, <4>1 DEF RequestSound
      <3> QED BY <3>1, <3>2
    <2> QED BY <2>2, <2>3
  <1> QED BY <1>8, <1>9, <1>10 DEF IInv

LEMMA EmitIInv == ASSUME NEW r \in Requests, IInv, Emit(r) PROVE IInv'
  <1> DEFINE q == request[r]
  <1>1. /\ q \in InFlight
        /\ q.pc = "emit"
        /\ RequestSound(r)
        /\ q # Idle
        /\ TypeOK
        /\ q.vid \in Verifications /\ q.seen \in Nat
    BY RequestCases DEF Emit, IInv, InFlight, Idle
  <1>2. /\ emitted' = emitted \cup ({q.vid} \X EventsOf(q.decision, q.seen))
        /\ request' = [request EXCEPT ![r] = Idle]
        /\ UNCHANGED <<now, otps, wrongs, lost>>
    BY DEF Emit
  <1>3. TypeOK'
    <2>1. EventsOf(q.decision, q.seen) \subseteq Events
      BY DEF EventsOf, Events
    <2> QED BY <1>1, <1>2, <2>1 DEF TypeOK
  <1>4. ASSUME NEW v \in Verifications PROVE RowSound(v)'
    <2>1. ASSUME <<v, "otp.failed">> \in emitted', <<v, "otp.failed">> \notin emitted
          PROVE  wrongs[v] >= MaxAttempts
      <3>1. v = q.vid /\ "otp.failed" \in EventsOf(q.decision, q.seen)
        BY <1>2, <2>1
      <3>2. q.decision = "wrong" /\ q.seen + 1 >= MaxAttempts
        BY <3>1 DEF EventsOf, WillExceed
      <3>3. wrongs[v] \in Nat
        BY <1>1 DEF TypeOK
      <3> QED BY <1>1, <3>1, <3>2, <3>3, AttemptsAssumption DEF RequestSound
    <2> QED BY <1>2, <2>1 DEF IInv, RowSound
  <1>5. ASSUME NEW s \in Requests PROVE RequestSound(s)'
    BY <1>1, <1>2 DEF IInv, TypeOK, RequestSound
  <1> QED BY <1>3, <1>4, <1>5 DEF IInv

LEMMA CrashIInv == ASSUME NEW r \in Requests, IInv, Crash(r) PROVE IInv'
  <1> USE DEF Crash
  <1>1. TypeOK'
    BY DEF IInv, TypeOK
  <1>2. ASSUME NEW v \in Verifications PROVE RowSound(v)'
    BY DEF IInv, RowSound
  <1>3. ASSUME NEW s \in Requests PROVE RequestSound(s)'
    BY DEF IInv, TypeOK, RequestSound
  <1> QED BY <1>1, <1>2, <1>3 DEF IInv

LEMMA NextIInv == IInv /\ [Next]_vars => IInv'
  <1> SUFFICES ASSUME IInv, [Next]_vars PROVE IInv'
    OBVIOUS
  <1>1. CASE Tick
    BY <1>1, TickIInv
  <1>2. ASSUME NEW v \in Verifications, Send(v) PROVE IInv'
    BY <1>2, SendIInv
  <1>3. ASSUME NEW r \in Requests, NEW v \in Verifications,
               NEW match \in BOOLEAN, Read(r, v, match)
        PROVE  IInv'
    BY <1>3, ReadIInv
  <1>4. ASSUME NEW r \in Requests, Write(r) PROVE IInv'
    BY <1>4, WriteIInv
  <1>5. ASSUME NEW r \in Requests, Emit(r) PROVE IInv'
    BY <1>5, EmitIInv
  <1>6. ASSUME NEW r \in Requests, Crash(r) PROVE IInv'
    BY <1>6, CrashIInv
  <1>7. CASE UNCHANGED vars
    BY <1>7 DEF vars, IInv, TypeOK, RowSound, RequestSound
  <1> QED BY <1>1, <1>2, <1>3, <1>4, <1>5, <1>6, <1>7 DEF Next

THEOREM InductiveInvariant == Spec => []IInv
  BY InitIInv, NextIInv, PTL DEF Spec

-----------------------------------------------------------------------------
\* Every reachable state is well typed.
THEOREM TypeCorrect == Spec => []TypeOK
  BY InductiveInvariant, PTL DEF IInv

\* The stored attempt count never passes max_attempts and an open row is
\* below it, for any number of racing requests and any lost updates.
THEOREM AttemptsStayBounded == Spec => []AttemptsBounded
  <1>1. IInv => AttemptsBounded
    BY DEF IInv, RowSound, AttemptsBounded
  <1> QED BY <1>1, InductiveInvariant, PTL

\* No verification fails before MaxAttempts wrong codes, is announced as failed
\* before that, or expires before its deadline.
THEOREM NeverClosedEarly == Spec => []ClosedForCause
  <1>1. IInv => ClosedForCause
    BY DEF IInv, RowSound, ClosedForCause
  <1> QED BY <1>1, InductiveInvariant, PTL

-----------------------------------------------------------------------------
(***************************************************************************)
(* How many wrong codes can be answered for one verification.              *)
(*                                                                         *)
(* A request stands at the count it would write over: the count it has     *)
(* read if it is still to write and the row has moved on, the count of the *)
(* row otherwise.  A write takes the requests that stand at the count it   *)
(* read, its own request among them, no further back than they stood, and  *)
(* its own request past it; nothing else moves anybody back.  So the       *)
(* profile of the requests, which says how many stand at each count or     *)
(* below, gets lexicographically smaller with every wrong code, and no     *)
(* more wrong codes are answered than there are profiles to pass.          *)
(***************************************************************************)
Counts == 0 .. MaxAttempts - 1

Stands == [Requests -> Nat]

Below(at, x) == {r \in Requests : at[r] <= x}

Profile(at) == [x \in Counts |-> Cardinality(Below(at, x))]

Before(g, h) == \E x \in Counts : g[x] > h[x] /\ \A y \in 0 .. x - 1 : g[y] = h[y]

Passed(at) == {g \in Profiles : Before(g, Profile(at))}

Stand(r, v) ==
    IF request[r].pc = "write" /\ request[r].vid = v /\ request[r].seen < otps[v].attempts
    THEN request[r].seen ELSE otps[v].attempts

StandsAt(v) == [r \in Requests |-> Stand(r, v)]

BudgetInv ==
    /\ IInv
    /\ \A v \in Verifications :
         /\ otps[v].status = "absent" => otps[v].attempts = 0
         /\ v \notin lost => wrongs[v] <= Cardinality(Passed(StandsAt(v)))

\* There are finitely many profiles: each is a relation between two intervals.
LEMMA ProfilesAreFinite == IsFiniteSet(Profiles) /\ Cardinality(Profiles) \in Nat
  <1> DEFINE W == Cardinality(Requests)
             Cells == Counts \X (0 .. W)
             Graph(g) == {p \in Cells : g[p[1]] = p[2]}
             f == [g \in Profiles |-> Graph(g)]
  <1>1. W \in Nat /\ IsFiniteSet(Counts) /\ IsFiniteSet(0 .. W)
    BY FS_CardinalityType, FS_Interval, RequestsAssumption, AttemptsAssumption DEF Counts
  <1>2. IsFiniteSet(SUBSET Cells)
    <2>1. IsFiniteSet(Cells)
      BY <1>1, FS_Product
    <2> QED BY <2>1, FS_SUBSET
  <1>3. f \in Injection(Profiles, SUBSET Cells)
    <2>1. f \in [Profiles -> SUBSET Cells]
      OBVIOUS
    <2>2. ASSUME NEW g \in Profiles, NEW h \in Profiles, f[g] = f[h] PROVE g = h
      <3>1. g \in [Counts -> 0 .. W] /\ h \in [Counts -> 0 .. W]
        BY DEF Profiles, Counts
      <3>2. ASSUME NEW x \in Counts PROVE g[x] = h[x]
        <4>1. <<x, g[x]>> \in Graph(g)
          BY <3>1
        <4>2. <<x, g[x]>> \in Graph(h)
          BY <2>2, <4>1
        <4> QED BY <4>2
      <3> QED BY <3>1, <3>2
    <2> QED BY <2>1, <2>2 DEF Injection, IsInjective
  <1> QED BY <1>2, <1>3, FS_Injection, FS_CardinalityType

LEMMA BelowIsFinite ==
    ASSUME NEW at, NEW x
    PROVE  /\ IsFiniteSet(Below(at, x)) /\ Below(at, x) \subseteq Requests
           /\ Cardinality(Below(at, x)) \in 0 .. Cardinality(Requests)
  <1>1. Below(at, x) \in SUBSET Requests
    BY DEF Below
  <1>2. IsFiniteSet(Below(at, x)) /\ Cardinality(Below(at, x)) <= Cardinality(Requests)
    BY <1>1, FS_Subset, RequestsAssumption
  <1> QED BY <1>1, <1>2, FS_CardinalityType, RequestsAssumption

\* Wherever requests stand, their profile is one of them.
LEMMA ProfileIsOne == ASSUME NEW at \in Stands PROVE Profile(at) \in Profiles
  <1>1. Profile(at) \in [Counts -> 0 .. Cardinality(Requests)]
    BY BelowIsFinite DEF Profile
  <1>2. ASSUME NEW x \in Counts, NEW y \in Counts, x <= y
        PROVE  Profile(at)[x] <= Profile(at)[y]
    <2>1. Below(at, x) \in SUBSET Below(at, y)
      BY <1>2 DEF Below, Stands, Counts
    <2>2. Cardinality(Below(at, x)) <= Cardinality(Below(at, y))
      BY <2>1, BelowIsFinite, FS_Subset
    <2> QED BY <2>2 DEF Profile
  <1> QED BY <1>1, <1>2 DEF Profiles, Counts

LEMMA PassedIsFinite ==
    ASSUME NEW at
    PROVE  IsFiniteSet(Passed(at)) /\ Cardinality(Passed(at)) \in Nat
  <1>1. Passed(at) \in SUBSET Profiles
    BY DEF Passed
  <1> QED BY <1>1, ProfilesAreFinite, FS_Subset, FS_CardinalityType

\* When a request leaves the count z, nobody below z moves, nobody at z or
\* above moves below z, and nobody above z moves to z, then the old profile is
\* passed, and every profile passed before still is.
LEMMA LeavingPasses ==
    ASSUME NEW at \in Stands, NEW to \in Stands, NEW z \in Counts,
           NEW w \in Requests, at[w] = z, to[w] > z,
           \A r \in Requests : /\ at[r] < z => to[r] = at[r]
                               /\ at[r] >= z => to[r] >= z
                               /\ at[r] > z => to[r] > z
    PROVE  Cardinality(Passed(to)) >= Cardinality(Passed(at)) + 1
  <1>1. Counts \subseteq Nat /\ z \in Nat
    BY DEF Counts
  <1>2. Profile(at) \in Profiles /\ Profile(to) \in Profiles
    BY ProfileIsOne
  <1>3. \A x \in Counts : Profile(at)[x] \in Nat /\ Profile(to)[x] \in Nat
    BY BelowIsFinite DEF Profile
  <1>4. \A y \in 0 .. z - 1 : y \in Counts /\ Profile(to)[y] = Profile(at)[y]
    <2> SUFFICES ASSUME NEW y \in 0 .. z - 1
                 PROVE  y \in Counts /\ Profile(to)[y] = Profile(at)[y]
      OBVIOUS
    <2>1. y \in Counts /\ y < z /\ y \in Nat
      BY <1>1, AttemptsAssumption DEF Counts
    <2>2. \A r \in Requests : at[r] \in Nat /\ to[r] \in Nat
      BY DEF Stands
    <2>3. \A r \in Requests : at[r] <= y <=> to[r] <= y
      BY <1>1, <2>1, <2>2
    <2>4. Below(to, y) = Below(at, y)
      BY <2>3 DEF Below
    <2> QED BY <2>1, <2>4 DEF Profile
  <1>5. Profile(to)[z] < Profile(at)[z]
    <2>1. \A r \in Requests : at[r] \in Nat /\ to[r] \in Nat
      BY DEF Stands
    <2>2. \A r \in Requests : to[r] <= z => at[r] <= z
      BY <1>1, <2>1
    <2>3. Below(to, z) \in SUBSET Below(at, z)
      BY <2>2 DEF Below
    <2>4. w \in Below(at, z) /\ w \notin Below(to, z)
      BY <1>1, <2>1 DEF Below
    <2>5. /\ Cardinality(Below(to, z)) <= Cardinality(Below(at, z))
          /\ Cardinality(Below(to, z)) # Cardinality(Below(at, z))
      BY <2>3, <2>4, BelowIsFinite, FS_Subset
    <2>6. Cardinality(Below(to, z)) \in Nat /\ Cardinality(Below(at, z)) \in Nat
      BY BelowIsFinite
    <2> QED BY <2>5, <2>6 DEF Profile
  <1>6. Profile(at) \in Passed(to) /\ Profile(at) \notin Passed(at)
    <2>1. Before(Profile(at), Profile(to))
      BY <1>4, <1>5, <1>3 DEF Before
    <2>2. ~Before(Profile(at), Profile(at))
      BY <1>3 DEF Before
    <2> QED BY <1>2, <2>1, <2>2 DEF Passed
  <1>7. Passed(at) \subseteq Passed(to)
    <2> SUFFICES ASSUME NEW g \in Profiles, Before(g, Profile(at))
                 PROVE  Before(g, Profile(to))
      BY DEF Passed
    <2>0. \A x \in Counts : g[x] \in Nat
      BY DEF Profiles, Counts
    <2>1. PICK x \in Counts : g[x] > Profile(at)[x] /\ \A y \in 0 .. x - 1 : g[y] = Profile(at)[y]
      BY DEF Before
    <2>2. x \in Nat
      BY <1>1
    <2>3. CASE x < z
      <3>1. x \in 0 .. z - 1 /\ \A y \in 0 .. x - 1 : y \in 0 .. z - 1
        BY <1>1, <2>2, <2>3
      <3>2. g[x] > Profile(to)[x] /\ \A y \in 0 .. x - 1 : g[y] = Profile(to)[y]
        BY <1>4, <2>1, <3>1
      <3> QED BY <3>2 DEF Before
    <2>4. CASE x >= z
      <3>1. g[z] >= Profile(at)[z]
        <4>1. CASE x = z
          BY <1>3, <2>0, <2>1, <4>1
        <4>2. CASE x # z
          <5>1. z \in 0 .. x - 1
            BY <1>1, <2>2, <2>4, <4>2
          <5> QED BY <1>3, <2>0, <2>1, <5>1
        <4> QED BY <4>1, <4>2
      <3>2. g[z] > Profile(to)[z]
        BY <1>3, <1>5, <2>0, <3>1
      <3>3. \A y \in 0 .. z - 1 : g[y] = Profile(to)[y]
        <4>1. \A y \in 0 .. z - 1 : y \in 0 .. x - 1
          BY <1>1, <2>2, <2>4
        <4> QED BY <1>4, <2>1, <4>1
      <3> QED BY <3>2, <3>3 DEF Before
    <2> QED BY <1>1, <2>2, <2>3, <2>4
  <1>8. /\ Cardinality(Passed(at)) <= Cardinality(Passed(to))
        /\ Cardinality(Passed(at)) # Cardinality(Passed(to))
    BY <1>6, <1>7, PassedIsFinite, FS_Subset
  <1> QED BY <1>8, PassedIsFinite

\* One profile is never passed: the one the requests have.
LEMMA OneProfileIsLeft ==
    ASSUME NEW at \in Stands
    PROVE  Cardinality(Passed(at)) <= GuessBudget
  <1>1. Profile(at) \in Profiles /\ \A x \in Counts : Profile(at)[x] \in Nat
    BY ProfileIsOne, BelowIsFinite DEF Profile
  <1>2. Profile(at) \notin Passed(at)
    BY <1>1 DEF Passed, Before
  <1>3. Passed(at) \in SUBSET Profiles /\ Passed(at) # Profiles
    BY <1>1, <1>2 DEF Passed
  <1>4. /\ Cardinality(Passed(at)) <= Cardinality(Profiles)
        /\ Cardinality(Passed(at)) # Cardinality(Profiles)
    BY <1>3, ProfilesAreFinite, FS_Subset
  <1> QED BY <1>4, ProfilesAreFinite, PassedIsFinite DEF GuessBudget

\* Where requests stand is a count, and only their own row decides it.
LEMMA StandsAtType ==
    ASSUME TypeOK, NEW v \in Verifications
    PROVE  StandsAt(v) \in Stands
  <1>1. ASSUME NEW r \in Requests PROVE Stand(r, v) \in Nat
    <2>1. otps[v].attempts \in Nat
      BY DEF TypeOK, Row
    <2>2. request[r].pc = "write" => request[r].seen \in Nat
      BY RequestCases DEF Idle, InFlight
    <2> QED BY <2>1, <2>2 DEF Stand
  <1> QED BY <1>1 DEF StandsAt, Stands

\* One update of the row of v, by the request w that has read it: the stands
\* before and after are those LeavingPasses speaks of.
LEMMA WriteLeaves ==
    ASSUME IInv, NEW w \in Requests, NEW v \in Verifications,
           request[w].pc = "write", request[w].vid = v,
           NEW to \in Stands,
           \A r \in Requests :
             to[r] = IF r # w /\ request[r].pc = "write" /\ request[r].vid = v
                        /\ request[r].seen < request[w].seen + 1
                     THEN request[r].seen ELSE request[w].seen + 1
    PROVE  Cardinality(Passed(to)) >= Cardinality(Passed(StandsAt(v))) + 1
  <1> DEFINE s == request[w].seen
             k == otps[v].attempts
             at == StandsAt(v)
             z == IF s < k THEN s ELSE k
  <1>1. TypeOK /\ request[w] # Idle /\ request[w] \in InFlight /\ RequestSound(w)
    BY RequestCases DEF IInv, Idle
  <1>2. s \in Nat /\ s < MaxAttempts /\ k \in Nat
    BY <1>1 DEF RequestSound, InFlight, TypeOK, Row
  <1>3. z \in Counts /\ at \in Stands
    BY <1>1, <1>2, AttemptsAssumption, StandsAtType DEF Counts
  <1>4. at[w] = z /\ to[w] = s + 1
    BY DEF StandsAt, Stand
  <1>5. ASSUME NEW r \in Requests
        PROVE  /\ at[r] < z => to[r] = at[r]
               /\ at[r] >= z => to[r] >= z
               /\ at[r] > z => to[r] > z
    <2>1. request[r].pc = "write" => request[r].seen \in Nat
      BY <1>1, RequestCases DEF Idle, InFlight
    <2>2. at[r] = IF request[r].pc = "write" /\ request[r].vid = v /\ request[r].seen < k
                  THEN request[r].seen ELSE k
      BY DEF StandsAt, Stand
    <2>3. r = w => at[r] = z
      BY <1>4
    <2> HIDE DEF at
    <2> QED BY <1>2, <2>1, <2>2, <2>3
  <1>6. to[w] > z
    BY <1>2, <1>4
  <1> HIDE DEF at, z
  <1> QED BY <1>3, <1>4, <1>5, <1>6, LeavingPasses DEF at

\* What a step does to the row v of BudgetInv.
RowInv(v) ==
    /\ otps[v].status = "absent" => otps[v].attempts = 0
    /\ v \notin lost => wrongs[v] <= Cardinality(Passed(StandsAt(v)))

\* A step that writes nothing and leaves every request where it stands.
LEMMA StandingStillKeeps ==
    ASSUME NEW v \in Verifications, RowInv(v), lost \subseteq lost',
           otps'[v].status = "absent" => otps'[v].attempts = 0,
           wrongs'[v] = wrongs[v], StandsAt(v)' = StandsAt(v)
    PROVE  RowInv(v)'
  BY DEF RowInv

\* A request that goes away without writing the count stood at the count of its
\* row, or below it and has left.
LEMMA RequestLeaves ==
    ASSUME IInv, IInv', NEW w \in Requests, NEW v \in Verifications, RowInv(v),
           otps'[v].attempts = otps[v].attempts,
           otps'[v].status = "absent" => otps[v].status = "absent",
           wrongs' = wrongs, lost \subseteq lost',
           \A r \in Requests \ {w} : request'[r] = request[r],
           request'[w].pc # "write"
    PROVE  RowInv(v)'
  <1> DEFINE k == otps[v].attempts
             at == StandsAt(v)
             to == StandsAt(v)'
             z == request[w].seen
  <1>1. TypeOK /\ TypeOK' /\ k \in Nat /\ Cardinality(Passed(at)) \in Nat
    BY PassedIsFinite DEF IInv, TypeOK, Row
  <1>2. at \in Stands
    BY <1>1, StandsAtType
  <1>3. \A r \in Requests :
          to[r] = IF r # w /\ request[r].pc = "write" /\ request[r].vid = v /\ request[r].seen < k
                  THEN request[r].seen ELSE k
    BY DEF StandsAt, Stand
  <1>4. \A r \in Requests :
          at[r] = IF request[r].pc = "write" /\ request[r].vid = v /\ request[r].seen < k
                  THEN request[r].seen ELSE k
    BY DEF StandsAt, Stand
  <1>5. to = [r \in Requests |-> to[r]] /\ at = [r \in Requests |-> at[r]]
    BY DEF StandsAt
  <1>6. \A r \in Requests : request[r].pc = "write" => request[r].seen \in Nat
    BY <1>1, RequestCases DEF Idle, InFlight
  <1> HIDE DEF at, to
  <1>7. CASE request[w].pc = "write" /\ request[w].vid = v /\ z < k
    <2>1. to \in Stands
      <3>1. \A r \in Requests : to[r] \in Nat
        BY <1>1, <1>3, <1>6
      <3> QED BY <1>5, <3>1 DEF Stands
    <2>2. request[w] # Idle /\ RequestSound(w)
      BY <1>7 DEF Idle, IInv
    <2>3. z \in Counts
      BY <1>6, <1>7, <2>2, AttemptsAssumption DEF RequestSound, Counts
    <2>4. at[w] = z /\ to[w] > z
      BY <1>1, <1>3, <1>4, <1>6, <1>7
    <2>5. ASSUME NEW r \in Requests
          PROVE  /\ at[r] < z => to[r] = at[r]
                 /\ at[r] >= z => to[r] >= z
                 /\ at[r] > z => to[r] > z
      BY <1>1, <1>3, <1>4, <1>6, <1>7
    <2>6. Cardinality(Passed(to)) >= Cardinality(Passed(at)) + 1
      BY <1>2, <2>1, <2>3, <2>4, <2>5, LeavingPasses
    <2>7. Cardinality(Passed(to)) \in Nat /\ wrongs[v] \in Nat
      BY <1>1, PassedIsFinite DEF TypeOK
    <2>8. v \notin lost' => wrongs'[v] <= Cardinality(Passed(to))
      BY <1>1, <2>6, <2>7 DEF RowInv, at
    <2> QED BY <2>8 DEF RowInv, to
  <1>8. CASE ~(request[w].pc = "write" /\ request[w].vid = v /\ z < k)
    <2>1. \A r \in Requests : to[r] = at[r]
      BY <1>3, <1>4, <1>8
    <2>2. to = at
      BY <1>5, <2>1
    <2> QED BY <2>2, StandingStillKeeps DEF RowInv, to, at
  <1> QED BY <1>7, <1>8

LEMMA WriteKeepsBudget ==
    ASSUME BudgetInv, IInv', NEW w \in Requests, Write(w), NEW v \in Verifications
    PROVE  RowInv(v)'
  <1> DEFINE q == request[w]
             new == Updated(otps[q.vid], q.decision, q.seen)
  <1>1. IInv /\ RowInv(v) /\ TypeOK /\ TypeOK'
    BY DEF BudgetInv, RowInv, IInv
  <1>2. /\ q \in InFlight /\ q.pc = "write" /\ q.vid \in Verifications /\ q.seen \in Nat
        /\ q.decision \in {"expire", "wrong", "right"}
        /\ otps[q.vid] \in Row
        /\ otps[q.vid].status # "absent"
        /\ q.decision \in Decisions
    BY <1>1, RequestCases DEF Write, IInv, TypeOK, RequestSound, InFlight, Decisions, Idle
  <1>3. /\ lost \subseteq lost'
        /\ \/ otps' = [otps EXCEPT ![q.vid] = new]
           \/ otps' = otps /\ q.vid \in lost'
        /\ wrongs' = [wrongs EXCEPT ![q.vid] =
                        IF q.decision = "wrong" THEN @ + 1 ELSE @]
        /\ \A r \in Requests \ {w} : request'[r] = request[r]
        /\ request'[w].pc # "write"
    BY <1>1, <1>2 DEF Write, TypeOK, Idle, InFlight
  <1>4. /\ new \in Row /\ new.status # "absent"
        /\ q.decision = "expire" => new.attempts = otps[q.vid].attempts
        /\ q.decision \in {"wrong", "right"} => new.attempts = q.seen + 1
    BY <1>2, UpdatedType
  <1> HIDE DEF new
  <1>5. CASE v # q.vid
    <2>1. otps'[v] = otps[v] /\ wrongs'[v] = wrongs[v]
      BY <1>1, <1>2, <1>3, <1>5 DEF TypeOK
    <2>2. \A r \in Requests : Stand(r, v)' = Stand(r, v)
      BY <1>2, <1>3, <1>5, <2>1 DEF Stand
    <2>3. StandsAt(v)' = StandsAt(v)
      BY <2>2 DEF StandsAt
    <2> QED BY <1>1, <1>3, <2>1, <2>3, StandingStillKeeps DEF RowInv
  <1>6. CASE v = q.vid /\ v \in lost'
    <2>1. otps'[v] = otps[v] \/ otps'[v] = new
      BY <1>1, <1>2, <1>3, <1>6 DEF TypeOK
    <2> QED BY <1>1, <1>2, <1>4, <1>6, <2>1 DEF RowInv
  <1>7. CASE v = q.vid /\ v \notin lost'
    <2>1. otps' = [otps EXCEPT ![v] = new] /\ otps'[v] = new /\ v \notin lost
      BY <1>1, <1>2, <1>3, <1>7 DEF TypeOK
    <2>2. wrongs'[v] = IF q.decision = "wrong" THEN wrongs[v] + 1 ELSE wrongs[v]
      BY <1>1, <1>2, <1>3, <1>7 DEF TypeOK
    <2>3. CASE q.decision = "expire"
      <3>1. wrongs' = wrongs
        BY <1>1, <1>3, <2>3 DEF TypeOK
      <3> QED BY <1>1, <1>2, <1>3, <1>4, <1>7, <2>1, <2>3, <3>1, RequestLeaves
    <2>4. CASE q.decision \in {"wrong", "right"}
      <3> DEFINE to == StandsAt(v)'
      <3>1. to \in Stands
        <4>1. \A r \in Requests : Stand(r, v)' \in Nat
          <5>1. otps'[v].attempts \in Nat
            BY <1>1 DEF TypeOK, Row
          <5>2. \A r \in Requests \ {w} : request'[r].pc = "write" => request'[r].seen \in Nat
            BY <1>1, <1>3, RequestCases DEF Idle, InFlight
          <5> QED BY <1>3, <5>1, <5>2 DEF Stand
        <4> QED BY <4>1 DEF StandsAt, Stands
      <3>2. \A r \in Requests :
              to[r] = IF r # w /\ request[r].pc = "write" /\ request[r].vid = v
                         /\ request[r].seen < q.seen + 1
                      THEN request[r].seen ELSE q.seen + 1
        BY <1>3, <1>4, <2>1, <2>4 DEF StandsAt, Stand
      <3> HIDE DEF to
      <3>3. Cardinality(Passed(to)) >= Cardinality(Passed(StandsAt(v))) + 1
        BY <1>1, <1>2, <1>7, <3>1, <3>2, WriteLeaves
      <3>4. Cardinality(Passed(to)) \in Nat /\ Cardinality(Passed(StandsAt(v))) \in Nat
            /\ wrongs[v] \in Nat
        BY <1>1, PassedIsFinite DEF TypeOK
      <3>5. wrongs'[v] <= Cardinality(Passed(to))
        BY <1>1, <2>1, <2>2, <3>3, <3>4 DEF RowInv
      <3> QED BY <1>4, <2>1, <3>5 DEF RowInv, to
    <2> QED BY <1>2, <2>3, <2>4
  <1> QED BY <1>5, <1>6, <1>7

LEMMA BudgetInit == Init => BudgetInv
  <1> SUFFICES ASSUME Init PROVE BudgetInv
    OBVIOUS
  <1>1. IInv
    BY InitIInv
  <1>2. \A v \in Verifications : otps[v].attempts = 0 /\ wrongs[v] = 0
    BY DEF Init
  <1> QED BY <1>1, <1>2, PassedIsFinite DEF BudgetInv

LEMMA BudgetNext == BudgetInv /\ [Next]_vars => BudgetInv'
  <1> SUFFICES ASSUME BudgetInv, [Next]_vars PROVE BudgetInv'
    OBVIOUS
  <1>1. IInv /\ IInv' /\ TypeOK /\ TypeOK'
    BY NextIInv DEF BudgetInv, IInv
  <1> SUFFICES ASSUME NEW v \in Verifications PROVE RowInv(v)'
    BY <1>1 DEF BudgetInv, RowInv
  <1>2. RowInv(v)
    BY DEF BudgetInv, RowInv
  <1>3. ASSUME UNCHANGED <<otps, request, wrongs, lost>> PROVE RowInv(v)'
    <2>1. StandsAt(v)' = StandsAt(v)
      BY <1>3 DEF StandsAt, Stand
    <2> QED BY <1>2, <1>3, <2>1, StandingStillKeeps DEF RowInv
  <1>4. ASSUME NEW u \in Verifications, Send(u) PROVE RowInv(v)'
    <2>1. otps[u].status = "absent" /\ otps[u].attempts = 0
      BY <1>4 DEF Send, BudgetInv
    <2>2. otps'[v].attempts = otps[v].attempts
          /\ (otps'[v].status = "absent" => otps[v].status = "absent")
      BY <1>1, <1>4, <2>1 DEF Send, TypeOK
    <2>3. UNCHANGED <<request, wrongs, lost>>
      BY <1>4 DEF Send
    <2>4. StandsAt(v)' = StandsAt(v)
      BY <2>2, <2>3 DEF StandsAt, Stand
    <2> QED BY <1>2, <2>2, <2>3, <2>4, StandingStillKeeps DEF RowInv
  <1>5. ASSUME NEW r \in Requests, NEW u \in Verifications, NEW match \in BOOLEAN,
               Read(r, u, match)
        PROVE  RowInv(v)'
    <2>1. /\ UNCHANGED <<otps, wrongs, lost>>
          /\ request[r].pc # "write"
          /\ request'[r].seen = otps[u].attempts /\ request'[r].vid = u
          /\ \A s \in Requests \ {r} : request'[s] = request[s]
      BY <1>1, <1>5 DEF Read, TypeOK, Idle
    <2>2. \A s \in Requests : Stand(s, v)' = Stand(s, v)
      BY <2>1 DEF Stand
    <2>3. StandsAt(v)' = StandsAt(v)
      BY <2>2 DEF StandsAt
    <2> QED BY <1>2, <2>1, <2>3, StandingStillKeeps DEF RowInv
  <1>6. ASSUME NEW r \in Requests, Write(r) PROVE RowInv(v)'
    BY <1>1, <1>6, WriteKeepsBudget
  <1>7. ASSUME NEW r \in Requests, Emit(r) \/ Crash(r) PROVE RowInv(v)'
    <2>1. /\ UNCHANGED <<otps, wrongs, lost>>
          /\ request'[r].pc # "write"
          /\ \A s \in Requests \ {r} : request'[s] = request[s]
      BY <1>1, <1>7 DEF Emit, Crash, TypeOK, Idle
    <2> QED BY <1>1, <1>2, <2>1, RequestLeaves
  <1> QED BY <1>3, <1>4, <1>5, <1>6, <1>7 DEF Next, vars, Tick

\* For any number of requests, rows and attempts, and any failures: the wrong
\* codes answered for a verification no update of which was lost stay within the
\* budget (otp-verify/index.ts:86-93).
THEOREM GuessesStayWithinBudget == Spec => []BudgetKept
  <1>1. BudgetInv => BudgetKept
    <2> SUFFICES ASSUME BudgetInv, NEW v \in Verifications \ lost
                 PROVE  wrongs[v] <= GuessBudget
      BY DEF BudgetKept
    <2>1. wrongs[v] <= Cardinality(Passed(StandsAt(v))) /\ wrongs[v] \in Nat
      BY DEF BudgetInv, IInv, TypeOK
    <2>2. Cardinality(Passed(StandsAt(v))) <= GuessBudget
      BY StandsAtType, OneProfileIsLeft DEF BudgetInv, IInv
    <2>3. Cardinality(Passed(StandsAt(v))) \in Nat /\ GuessBudget \in Int
      BY PassedIsFinite, ProfilesAreFinite DEF GuessBudget
    <2> QED BY <2>1, <2>2, <2>3
  <1> QED BY <1>1, BudgetInit, BudgetNext, PTL DEF Spec


-----------------------------------------------------------------------------
(***************************************************************************)
(* Requests served one at a time, with updates that are not lost.          *)
(***************************************************************************)

OneAtATime == /\ \A r, s \in Requests : r = s
              /\ "write" \notin Failures

\* With nobody else in flight, a request writes over the row it read.
SerialInv ==
    /\ IInv
    /\ \A v \in Verifications :
         /\ otps[v].status = "absent" => wrongs[v] = 0
         /\ otps[v].status = "pending" => otps[v].attempts = wrongs[v]
    /\ \A r \in Requests : request[r].pc = "write" =>
         /\ otps[request[r].vid].status = "pending"
         /\ request[r].seen = wrongs[request[r].vid]

LEMMA PolicyNext ==
    ASSUME NEW u \in Verifications,
           Policy!WrongCode(u) \/ Policy!RightCode(u) \/ Policy!Lapse(u)
    PROVE  Policy!Next
  BY DEF Policy!Next

\* One update by a request that still owns its row is one step of the policy.
LEMMA WriteStep ==
    ASSUME OneAtATime, SerialInv, NEW r \in Requests, Write(r)
    PROVE  SerialInv' /\ Policy!Next
  <1> DEFINE q == request[r]
  <1>0. PICK v \in Verifications : q.vid = v
    BY RequestCases DEF Write, SerialInv, IInv, InFlight, Idle
  <1> DEFINE st == [u \in Verifications |-> otps[u].status]
             new == Updated(otps[v], q.decision, q.seen)
  <1>1. /\ q \in InFlight /\ q # Idle /\ q.pc = "write"
        /\ q.decision \in {"expire", "wrong", "right"}
        /\ q.vid = v /\ q.seen \in Nat
        /\ otps[v] \in Row
        /\ otps[v].status = "pending"
        /\ q.seen = wrongs[v]
        /\ TypeOK
    BY <1>0, RequestCases DEF Write, SerialInv, IInv, TypeOK, RequestSound, InFlight,
                        Decisions, Idle
  <1>2. /\ otps' = [otps EXCEPT ![v] = new]
        /\ wrongs' = [wrongs EXCEPT ![v] =
                        IF q.decision = "wrong" THEN @ + 1 ELSE @]
        /\ request'[r].pc # "write"
    BY <1>1 DEF Write, OneAtATime, TypeOK, Idle, InFlight
  <1>3. /\ q.decision = "expire" => new.status = "expired"
        /\ q.decision = "right" => new.status = "verified"
        /\ q.decision = "wrong" =>
             /\ new.status = IF wrongs[v] + 1 >= MaxAttempts
                             THEN "failed" ELSE "pending"
             /\ new.attempts = wrongs[v] + 1
    <2>1. q.decision \in Decisions
      BY <1>1 DEF Decisions
    <2>2. wrongs[v] + 1 = q.seen + 1
      BY <1>1
    <2>3. /\ q.decision = "expire" => new.status = "expired"
          /\ q.decision \in {"wrong", "right"} => new.attempts = q.seen + 1
          /\ q.decision = "right" => new.status = "verified"
          /\ q.decision = "wrong" => new.status =
               IF q.seen + 1 >= MaxAttempts THEN "failed" ELSE "pending"
      BY <1>1, <2>1, UpdatedType
    <2> HIDE DEF new
    <2> QED BY <2>2, <2>3
  <1> HIDE DEF new
  <1>4. IInv'
    BY NextIInv DEF SerialInv, Next
  <1>5. /\ st \in [Verifications -> {"absent", "pending"} \cup Final]
        /\ st' = [st EXCEPT ![v] = new.status]
    <2>1. \A u \in Verifications :
            otps'[u] = IF u = v THEN new ELSE otps[u]
      BY <1>1, <1>2 DEF TypeOK
    <2>2. \A u \in Verifications :
            st'[u] = IF u = v THEN new.status ELSE st[u]
      BY <2>1
    <2>3. \A u \in Verifications :
            otps[u].status \in {"absent", "pending"} \cup Final
      BY <1>1 DEF TypeOK, Row
    <2> QED BY <2>2, <2>3
  <1> HIDE DEF st
  <1>6. st[v] = "pending"
    BY <1>1 DEF st
  <1>7. Policy!Next
    <2>1. CASE q.decision = "expire"
      <3>1. Policy!Lapse(v)
        BY <1>1, <1>2, <1>3, <1>5, <1>6, <2>1 DEF Policy!Lapse, TypeOK, st
      <3> QED BY <1>1, <3>1, PolicyNext
    <2>2. CASE q.decision = "right"
      <3>1. Policy!RightCode(v)
        BY <1>1, <1>2, <1>3, <1>5, <1>6, <2>2 DEF Policy!RightCode, TypeOK, st
      <3> QED BY <1>1, <3>1, PolicyNext
    <2>3. CASE q.decision = "wrong"
      <3>1. wrongs' = [wrongs EXCEPT ![v] = @ + 1]
        BY <1>2, <2>3
      <3>2. st' = IF wrongs[v] + 1 >= MaxAttempts
                  THEN [st EXCEPT ![v] = "failed"] ELSE st
        BY <1>1, <1>3, <1>5, <1>6, <2>3
      <3>3. Policy!WrongCode(v)
        BY <3>1, <3>2, <1>6 DEF Policy!WrongCode, st
      <3> QED BY <1>1, <3>3, PolicyNext
    <2> QED BY <1>1, <2>1, <2>2, <2>3
  <1>8. SerialInv'
    <2>1. ASSUME NEW u \in Verifications
          PROVE  /\ otps'[u].status = "absent" => wrongs'[u] = 0
                 /\ otps'[u].status = "pending" => otps'[u].attempts = wrongs'[u]
      <3>1. CASE u = v
        BY <1>1, <1>2, <1>3, <3>1 DEF TypeOK
      <3>2. CASE u # v
        BY <1>1, <1>2, <3>2 DEF TypeOK, SerialInv
      <3> QED BY <3>1, <3>2
    <2>2. ASSUME NEW s \in Requests PROVE request'[s].pc # "write"
      BY <1>2 DEF OneAtATime
    <2> QED BY <1>4, <2>1, <2>2 DEF SerialInv
  <1> QED BY <1>7, <1>8

\* Every step is a step of the policy or leaves its variables alone.
LEMMA SerialStep ==
    ASSUME OneAtATime, SerialInv, [Next]_vars
    PROVE  SerialInv' /\ [Policy!Next]_(Policy!vars)
  <1>0. IInv' /\ IInv /\ TypeOK
    BY NextIInv DEF SerialInv, IInv
  <1> DEFINE st == [u \in Verifications |-> otps[u].status]
  <1>1. CASE UNCHANGED <<otps, wrongs>> /\
             \A r \in Requests : request'[r].pc = "write" => request'[r] = request[r]
    <2>1. UNCHANGED Policy!vars
      BY <1>1 DEF Policy!vars
    <2>2. SerialInv'
      BY <1>0, <1>1 DEF SerialInv
    <2> QED BY <2>1, <2>2
  <1>2. CASE Tick
    BY <1>1, <1>2 DEF Tick
  <1>3. ASSUME NEW v \in Verifications, Send(v)
        PROVE  SerialInv' /\ [Policy!Next]_(Policy!vars)
    <2>1. /\ otps[v].status = "absent" /\ wrongs[v] = 0
          /\ UNCHANGED <<request, wrongs>>
          /\ \A u \in Verifications : u # v => otps'[u] = otps[u]
          /\ otps'[v].status = "pending" /\ otps'[v].attempts = 0
      BY <1>0, <1>3 DEF Send, TypeOK, SerialInv
    <2>2. st' = [st EXCEPT ![v] = "pending"]
      BY <2>1
    <2>3. Policy!Issue(v)
      BY <2>1, <2>2 DEF Policy!Issue
    <2>4. ASSUME NEW r \in Requests, request[r].pc = "write"
          PROVE  request[r].vid \in Verifications /\ request[r].vid # v
      BY <1>0, <2>1, <2>4, RequestCases DEF SerialInv, Idle, InFlight
    <2>5. SerialInv'
      BY <1>0, <2>1, <2>4 DEF SerialInv
    <2> QED BY <2>3, <2>5 DEF Policy!Next
  <1>4. ASSUME NEW r \in Requests, NEW v \in Verifications,
               NEW match \in BOOLEAN, Read(r, v, match)
        PROVE  SerialInv' /\ [Policy!Next]_(Policy!vars)
    <2>1. /\ UNCHANGED <<otps, wrongs>>
          /\ request'[r].vid = v /\ request'[r].seen = otps[v].attempts
          /\ otps[v].status = "pending"
          /\ otps[v].attempts = wrongs[v]
      BY <1>0, <1>4, DecideSound DEF Read, TypeOK, SerialInv
    <2>2. UNCHANGED Policy!vars
      BY <2>1 DEF Policy!vars
    <2>3. \A s \in Requests : s = r
      BY DEF OneAtATime
    <2>4. SerialInv'
      BY <1>0, <2>1, <2>3 DEF SerialInv
    <2> QED BY <2>2, <2>4
  <1>5. ASSUME NEW r \in Requests, Write(r)
        PROVE  SerialInv' /\ [Policy!Next]_(Policy!vars)
    BY <1>5, WriteStep
  <1>6. ASSUME NEW r \in Requests, Emit(r) \/ Crash(r)
        PROVE  SerialInv' /\ [Policy!Next]_(Policy!vars)
    <2>1. /\ UNCHANGED <<otps, wrongs>>
          /\ request' = [request EXCEPT ![r] = Idle]
      BY <1>6 DEF Emit, Crash
    <2>2. \A s \in Requests : request'[s].pc = "write" => request'[s] = request[s]
      BY <1>0, <2>1 DEF TypeOK, Idle
    <2> QED BY <1>1, <2>1, <2>2
  <1>7. CASE UNCHANGED vars
    BY <1>1, <1>7 DEF vars
  <1> QED BY <1>2, <1>3, <1>4, <1>5, <1>6, <1>7 DEF Next

\* Requests served one at a time, whenever they are killed, move the table as
\* the atomic policy says: exactly MaxAttempts wrong codes, final outcomes.
THEOREM SerialImplementsPolicy ==
    ASSUME OneAtATime
    PROVE  Spec => ImplementsPolicy
  <1>1. Init => SerialInv
    BY InitIInv DEF Init, SerialInv, Idle
  <1>2. Init => Policy!Init
    BY DEF Init, Policy!Init
  <1>3. SerialInv /\ [Next]_vars => SerialInv' /\ [Policy!Next]_(Policy!vars)
    BY SerialStep
  <1> QED BY <1>1, <1>2, <1>3, PTL DEF Spec, ImplementsPolicy, Policy!Spec

\* The policy's own invariant: the limit is exact.
LEMMA PolicyLimit == Policy!Spec => [](Policy!PolicyTypeOK /\ LimitIsExact)
  <1> DEFINE st == [v \in Verifications |-> otps[v].status]
             Exact == /\ st \in [Verifications ->
                              {"absent", "pending", "verified", "failed", "expired"}]
                      /\ wrongs \in [Verifications -> Nat]
                      /\ \A v \in Verifications :
                           /\ wrongs[v] <= MaxAttempts
                           /\ st[v] = "failed" <=> wrongs[v] = MaxAttempts
             Inv == Policy!PolicyTypeOK /\ LimitIsExact
  <1>1. (Inv <=> Exact) /\ (Inv <=> Exact)'
    BY DEF Policy!PolicyTypeOK, Policy!Final, LimitIsExact, Policy!LimitIsExact
  <1>2. Policy!Init => Inv
    BY <1>1, AttemptsAssumption DEF Policy!Init
  <1>3. ASSUME Inv, [Policy!Next]_(Policy!vars) PROVE Inv'
    <2>1. CASE st' = st /\ wrongs' = wrongs
      <3> HIDE DEF st, Inv
      <3> QED BY <1>1, <1>3, <2>1
    <2>2. ASSUME NEW v \in Verifications, st[v] \in {"absent", "pending"},
                 \/ /\ wrongs' = wrongs
                    /\ \E s \in {"pending", "verified", "expired"} :
                         st' = [st EXCEPT ![v] = s]
                 \/ /\ wrongs' = [wrongs EXCEPT ![v] = @ + 1]
                    /\ st' = IF wrongs[v] + 1 >= MaxAttempts
                             THEN [st EXCEPT ![v] = "failed"] ELSE st
          PROVE  Inv'
      <3> HIDE DEF st, Inv
      <3> QED BY <1>1, <1>3, <2>2, AttemptsAssumption
    <2>3. CASE UNCHANGED Policy!vars
      BY <2>1, <2>3 DEF Policy!vars
    <2>4. CASE Policy!Next
      <3>1. PICK v \in Verifications :
              \/ Policy!Issue(v) \/ Policy!WrongCode(v)
              \/ Policy!RightCode(v) \/ Policy!Lapse(v)
        BY <2>4 DEF Policy!Next
      <3> QED
        BY <2>2, <3>1
           DEF Policy!Issue, Policy!WrongCode, Policy!RightCode, Policy!Lapse
    <2> QED BY <1>3, <2>3, <2>4
  <1> QED BY <1>2, <1>3, PTL DEF Policy!Spec

\* Served one at a time, exactly MaxAttempts wrong codes fail a verification.
THEOREM SerialLimitIsExact ==
    ASSUME OneAtATime
    PROVE  Spec => []LimitIsExact
  BY SerialImplementsPolicy, PolicyLimit, PTL DEF ImplementsPolicy

-----------------------------------------------------------------------------
\* A request about to dispatch an event has left its row with that outcome.
EventSound ==
    /\ EventsAgreeWithRow
    /\ \A r \in Requests : request[r].pc = "emit" =>
         LET q == request[r] IN
         /\ q.decision = "right" => otps[q.vid].status = "verified"
         /\ q.decision = "wrong" /\ WillExceed(q.seen) => otps[q.vid].status = "failed"

\* A row that is written over was open, so nothing was said of it yet.
LEMMA WriteEvent ==
    ASSUME OneAtATime, SerialInv, EventSound, NEW r \in Requests, Write(r)
    PROVE  EventSound'
  <1> DEFINE q == request[r]
             v == q.vid
             new == Updated(otps[v], q.decision, q.seen)
  <1>1. /\ q.pc = "write" /\ q \in InFlight /\ TypeOK /\ v \in Verifications
        /\ otps[v] \in Row /\ otps[v].status = "pending"
        /\ q.decision \in Decisions /\ q.seen \in Nat
    BY RequestCases DEF Write, SerialInv, IInv, TypeOK, InFlight, Idle
  <1>2. /\ otps' = [otps EXCEPT ![v] = new] /\ emitted' = emitted
        /\ request' = [request EXCEPT ![r] = IF EventsOf(q.decision, q.seen) = {} THEN Idle
                                             ELSE [q EXCEPT !.pc = "emit"]]
    BY DEF Write, OneAtATime
  <1>3. /\ q.decision = "right" => new.status = "verified"
        /\ q.decision = "wrong" /\ WillExceed(q.seen) => new.status = "failed"
    BY <1>1, UpdatedType DEF WillExceed
  <1> HIDE DEF new
  <1>4. otps'[v] = new /\ \A u \in Verifications \ {v} : otps'[u] = otps[u]
    BY <1>1, <1>2 DEF TypeOK
  <1>5. ASSUME NEW u \in Verifications
        PROVE  /\ <<u, "otp.verified">> \in emitted' => otps'[u].status = "verified"
               /\ <<u, "otp.failed">> \in emitted' => otps'[u].status = "failed"
    BY <1>1, <1>2, <1>4 DEF EventSound, EventsAgreeWithRow
  <1>6. ASSUME NEW s \in Requests, request'[s].pc = "emit"
        PROVE  /\ request'[s].decision = "right" =>
                     otps'[request'[s].vid].status = "verified"
               /\ request'[s].decision = "wrong" /\ WillExceed(request'[s].seen) =>
                     otps'[request'[s].vid].status = "failed"
    <2>1. s = r
      BY DEF OneAtATime
    <2>2. request'[s] = Idle \/ request'[s] = [q EXCEPT !.pc = "emit"]
      BY <1>1, <1>2, <2>1 DEF TypeOK
    <2>3. /\ request'[s].vid = v /\ request'[s].decision = q.decision
          /\ request'[s].seen = q.seen
      BY <1>1, <1>6, <2>2 DEF Idle, InFlight
    <2> QED BY <1>3, <1>4, <2>3 DEF WillExceed
  <1> QED BY <1>5, <1>6 DEF EventSound, EventsAgreeWithRow, WillExceed

LEMMA EventStep ==
    ASSUME OneAtATime, SerialInv, EventSound, [Next]_vars
    PROVE  EventSound'
  <1>0. TypeOK
    BY DEF SerialInv, IInv
  <1>1. CASE UNCHANGED <<otps, emitted>> /\
             \A r \in Requests : request'[r].pc = "emit" => request'[r] = request[r]
    BY <1>1 DEF EventSound, EventsAgreeWithRow, WillExceed
  <1>2. CASE Tick
    BY <1>1, <1>2 DEF Tick
  <1>3. ASSUME NEW v \in Verifications, Send(v) PROVE EventSound'
    <2>1. /\ otps[v].status = "absent" /\ UNCHANGED <<request, emitted>>
          /\ \A u \in Verifications \ {v} : otps'[u] = otps[u]
      BY <1>0, <1>3 DEF Send, TypeOK
    <2>2. EventsAgreeWithRow'
      BY <2>1 DEF EventSound, EventsAgreeWithRow
    <2>3. ASSUME NEW r \in Requests, request[r].pc = "emit"
          PROVE  request[r].vid \in Verifications \ {v}
      BY <1>0, <2>1, <2>3, RequestCases DEF SerialInv, IInv, RequestSound, Idle, InFlight
    <2> QED BY <2>1, <2>2, <2>3 DEF EventSound, WillExceed
  <1>4. ASSUME NEW r \in Requests, NEW v \in Verifications,
               NEW match \in BOOLEAN, Read(r, v, match)
        PROVE  EventSound'
    <2>1. UNCHANGED <<otps, emitted>> /\ request'[r].pc = "write"
      BY <1>0, <1>4 DEF Read, TypeOK
    <2>2. \A s \in Requests : s = r
      BY DEF OneAtATime
    <2> QED BY <1>1, <2>1, <2>2
  <1>5. ASSUME NEW r \in Requests, Write(r) PROVE EventSound'
    BY <1>5, WriteEvent
  <1>6. ASSUME NEW r \in Requests, Emit(r) PROVE EventSound'
    <2> DEFINE q == request[r]
    <2>1. /\ q.pc = "emit" /\ otps' = otps
          /\ emitted' = emitted \cup ({q.vid} \X EventsOf(q.decision, q.seen))
          /\ request' = [request EXCEPT ![r] = Idle]
      BY <1>6 DEF Emit
    <2>2. /\ EventsOf(q.decision, q.seen) \subseteq Events
          /\ "otp.verified" \in EventsOf(q.decision, q.seen) => otps[q.vid].status = "verified"
          /\ "otp.failed" \in EventsOf(q.decision, q.seen) => otps[q.vid].status = "failed"
      BY <2>1 DEF EventsOf, EventSound, Events, WillExceed
    <2>3. ASSUME NEW u \in Verifications
          PROVE  /\ <<u, "otp.verified">> \in emitted' => otps'[u].status = "verified"
                 /\ <<u, "otp.failed">> \in emitted' => otps'[u].status = "failed"
      <3>1. \A e : <<u, e>> \in emitted' =>
                     <<u, e>> \in emitted \/ (u = q.vid /\ e \in EventsOf(q.decision, q.seen))
        BY <2>1
      <3> QED BY <2>1, <2>2, <3>1 DEF EventSound, EventsAgreeWithRow
    <2>4. \A s \in Requests : request'[s].pc = "emit" => request'[s] = request[s]
      BY <1>0, <2>1 DEF TypeOK, Idle
    <2> QED BY <2>1, <2>3, <2>4 DEF EventSound, EventsAgreeWithRow, WillExceed
  <1>7. ASSUME NEW r \in Requests, Crash(r) PROVE EventSound'
    <2>1. UNCHANGED <<otps, emitted>> /\ request' = [request EXCEPT ![r] = Idle]
      BY <1>7 DEF Crash
    <2>2. \A s \in Requests : request'[s].pc = "emit" => request'[s] = request[s]
      BY <1>0, <2>1 DEF TypeOK, Idle
    <2> QED BY <1>1, <2>1, <2>2
  <1>8. CASE UNCHANGED vars
    BY <1>1, <1>8 DEF vars
  <1> QED BY <1>2, <1>3, <1>4, <1>5, <1>6, <1>7, <1>8 DEF Next

\* Served one at a time, whenever requests are killed, a subscriber is told only
\* of the outcome its row has (otp-verify/index.ts:95-99, 105-112).
THEOREM SerialEventsAgree ==
    ASSUME OneAtATime
    PROVE  Spec => []EventsAgreeWithRow
  <1>1. Init => SerialInv /\ EventSound
    BY InitIInv DEF Init, SerialInv, EventSound, EventsAgreeWithRow, Idle
  <1>2. SerialInv /\ EventSound /\ [Next]_vars => (SerialInv /\ EventSound)'
    BY SerialStep, EventStep
  <1>3. EventSound => EventsAgreeWithRow
    BY DEF EventSound
  <1> QED BY <1>1, <1>2, <1>3, PTL DEF Spec

=============================================================================
