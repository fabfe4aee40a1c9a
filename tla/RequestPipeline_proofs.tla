----------------------- MODULE RequestPipeline_proofs -----------------------
(***************************************************************************)
(* The rate limiter's guarantee for any number of requests, any window and *)
(* any limit.                                                              *)
(***************************************************************************)
EXTENDS RequestPipeline, FiniteSetTheorems, TLAPS

\* Requests a count let through whose row is not in the log yet.
Pending == {r \in Requests : request[r].pc \in {"run", "log"} /\
                             request[r].class = "served"}

\* The served rows of the window and the ones still to come share one bound,
\* which is what makes BurstBounded inductive.
LoadBounded == Cardinality(ServedSince(now - Window)) + Cardinality(Pending)
                  <= MaxPerWindow - 1 + Cardinality(Requests)

\* A request without a valid key never reaches the log, and what runs was let
\* through.
ClassSound == \A r \in Requests :
    /\ request[r].pc = "log" => request[r].class # "unauthenticated"
    /\ request[r].pc = "run" => request[r].class \in {"served", "unchecked"}

TypeInv  == TypeOK /\ ClassSound
BurstInv == TypeInv /\ LoadBounded

-----------------------------------------------------------------------------
LEMMA TypeInit == Init => TypeInv
  BY DEF Init, TypeInv, TypeOK, ClassSound, Idle

LEMMA TypeStep == TypeInv /\ [Next]_vars => TypeInv'
  <1> SUFFICES ASSUME TypeInv, [Next]_vars PROVE TypeInv'
    OBVIOUS
  <1> USE DEF TypeInv, TypeOK, ClassSound
  <1>0. ASSUME NEW r \in Requests, request[r].pc # "idle" PROVE request[r] \in Active
    BY <1>0 DEF Idle
  <1>1. CASE Tick
    BY <1>1 DEF Tick
  <1>2. ASSUME NEW r \in Requests, NEW kind \in Kinds, Authenticate(r, kind)
        PROVE  TypeInv'
    BY <1>2 DEF Authenticate, Active, Classes
  <1>3. ASSUME NEW r \in Requests, Count(r) PROVE TypeInv'
    <2>1. request[r] \in Active /\ UNCHANGED <<now, logs>>
      BY <1>0, <1>3 DEF Count
    <2>2. PICK pc \in {"run", "log"}, class \in {"served", "unchecked", "limited"} :
            /\ request' = [request EXCEPT ![r] =
                             [request[r] EXCEPT !.pc = pc, !.class = class]]
            /\ pc = "run" <=> class # "limited"
      BY <1>3 DEF Count, Goto
    <2> DEFINE q == [request[r] EXCEPT !.pc = pc, !.class = class]
    <2>3. q \in Active /\ q.pc = pc /\ q.class = class
      BY <2>1 DEF Active, Classes
    <2>4. request' = [request EXCEPT ![r] = q]
      BY <2>2
    <2> HIDE DEF q
    <2>5. TypeOK'
      BY <2>1, <2>3, <2>4
    <2>6. ClassSound'
      BY <2>2, <2>3, <2>4
    <2> QED BY <2>5, <2>6
  <1>4. ASSUME NEW r \in Requests, Run(r) PROVE TypeInv'
    BY <1>0, <1>4 DEF Run, Active, Classes
  <1>5. ASSUME NEW r \in Requests, Log(r) PROVE TypeInv'
    <2> DEFINE entry == [at |-> now, class |-> request[r].class]
    <2>1. /\ request[r] \in Active /\ request[r].pc = "log"
          /\ request[r].class \in Classes \ {"unauthenticated"}
      BY <1>0, <1>5 DEF Log, Active
    <2>2. CASE /\ logs' = Append(logs, entry)
               /\ request' = [request EXCEPT ![r].pc = "answer", ![r].logged = TRUE]
               /\ UNCHANGED now
      <3>1. entry \in [at : Nat, class : Classes \ {"unauthenticated"}]
        BY <2>1
      <3>2. logs' \in Seq([at : Nat, class : Classes \ {"unauthenticated"}])
        BY <2>2, <3>1
      <3>3. request' \in [Requests -> Active \cup {Idle}] /\ ClassSound'
        BY <2>1, <2>2 DEF Active
      <3> QED BY <2>2, <3>2, <3>3
    <2>3. CASE /\ request' = [request EXCEPT ![r].pc = "answer"]
               /\ UNCHANGED <<now, logs>>
      BY <2>1, <2>3 DEF Active
    <2> QED BY <1>5, <2>2, <2>3 DEF Log
  <1>6. ASSUME NEW r \in Requests, Answer(r) PROVE TypeInv'
    BY <1>6 DEF Answer, Idle
  <1>7. ASSUME NEW r \in Requests, Abandon(r) PROVE TypeInv'
    BY <1>7 DEF Abandon, Idle
  <1>8. CASE UNCHANGED vars
    BY <1>8 DEF vars
  <1> QED BY <1>1, <1>2, <1>3, <1>4, <1>5, <1>6, <1>7, <1>8 DEF Next

\* Every reachable state is well typed.
THEOREM PipelineTypeCorrect == Spec => []TypeOK
  <1>1. TypeInv => TypeOK
    BY DEF TypeInv
  <1> QED BY <1>1, TypeInit, TypeStep, PTL DEF Spec

-----------------------------------------------------------------------------
\* The sets that are counted are finite.
LEMMA Finite ==
    ASSUME TypeOK, NEW start \in Int
    PROVE  /\ IsFiniteSet(Since(start))
           /\ IsFiniteSet(ServedSince(start))
           /\ Cardinality(ServedSince(start)) <= Cardinality(Since(start))
           /\ Cardinality(ServedSince(start)) \in Nat
           /\ Cardinality(Since(start)) \in Nat
           /\ IsFiniteSet(Pending)
           /\ Cardinality(Pending) <= Cardinality(Requests)
           /\ Cardinality(Pending) \in Nat
           /\ Cardinality(Requests) \in Nat
  <1>1. Len(logs) \in Nat
    BY DEF TypeOK
  <1>2. IsFiniteSet(1 .. Len(logs))
    BY <1>1, FS_Interval
  <1>3. IsFiniteSet(Since(start))
    BY <1>2, FS_Subset DEF Since
  <1>4. /\ IsFiniteSet(ServedSince(start))
        /\ Cardinality(ServedSince(start)) <= Cardinality(Since(start))
    BY <1>3, FS_Subset DEF ServedSince
  <1>5. IsFiniteSet(Pending) /\ Cardinality(Pending) <= Cardinality(Requests)
    BY RequestsAssumption, FS_Subset DEF Pending
  <1> QED BY <1>3, <1>4, <1>5, RequestsAssumption, FS_CardinalityType

\* A step that adds no served row to the window and lets nobody through
\* keeps the bound.
LEMMA NoNewLoad ==
    ASSUME TypeOK, TypeOK', LoadBounded,
           ServedSince(now - Window)' \subseteq ServedSince(now - Window),
           Pending' \subseteq Pending
    PROVE  LoadBounded'
  <1>1. now - Window \in Int /\ (now - Window)' \in Int
    BY WindowAssumption DEF TypeOK
  <1> DEFINE S == ServedSince(now - Window)
  <1>2. IsFiniteSet(S) /\ Cardinality(S) \in Nat
        /\ IsFiniteSet(Pending) /\ Cardinality(Pending) \in Nat
        /\ Cardinality(Requests) \in Nat
    BY <1>1, Finite
  <1>3. IsFiniteSet(S') /\ Cardinality(S') <= Cardinality(S)
    BY <1>2, FS_Subset
  <1>4. IsFiniteSet(Pending') /\ Cardinality(Pending') <= Cardinality(Pending)
    BY <1>2, FS_Subset
  <1>5. Cardinality(S') \in Nat /\ Cardinality(Pending') \in Nat
    BY <1>3, <1>4, FS_CardinalityType
  <1> HIDE DEF S
  <1>6. Cardinality(S) + Cardinality(Pending) <= MaxPerWindow - 1 + Cardinality(Requests)
    BY DEF LoadBounded, S
  <1>7. Cardinality(S') + Cardinality(Pending') <= MaxPerWindow - 1 + Cardinality(Requests)
    BY <1>2, <1>3, <1>4, <1>5, <1>6, WindowAssumption
  <1> QED BY <1>7 DEF LoadBounded, S

LEMMA LoadInit == Init => LoadBounded
  <1> SUFFICES ASSUME Init PROVE LoadBounded
    OBVIOUS
  <1>1. ServedSince(now - Window) = {} /\ Pending = {}
    BY DEF Init, ServedSince, Since, Pending, Idle
  <1>2. Cardinality(Requests) \in Nat
    BY RequestsAssumption, FS_CardinalityType
  <1> QED BY <1>1, <1>2, FS_EmptySet, WindowAssumption DEF LoadBounded

\* A request that runs was let through by its count.
LEMMA RunPending ==
    ASSUME TypeInv, NEW r \in Requests, Run(r)
    PROVE  Pending' \subseteq Pending
  BY DEF TypeInv, TypeOK, Run, Pending, Active, Idle

\* The row of a served request takes the place of the request in the bound.
LEMMA LogLoad ==
    ASSUME TypeInv, LoadBounded, NEW r \in Requests, Log(r)
    PROVE  LoadBounded'
  <1>0. TypeOK /\ TypeOK'
    BY TypeStep DEF TypeInv, Next
  <1>1. /\ request \in [Requests -> Active \cup {Idle}]
        /\ request[r] \in Active /\ request[r].pc = "log"
        /\ now \in Nat /\ Len(logs) \in Nat /\ now - Window \in Int
        /\ UNCHANGED now
    BY <1>0, WindowAssumption DEF TypeOK, Log, Idle
  <1> DEFINE S == ServedSince(now - Window)
  <1>2. /\ IsFiniteSet(S) /\ Cardinality(S) \in Nat
        /\ IsFiniteSet(Pending) /\ Cardinality(Pending) \in Nat
        /\ Cardinality(Requests) \in Nat
    BY <1>0, <1>1, Finite
  <1>3. request'[r].pc = "answer" /\ \A s \in Requests : s # r => request'[s] = request[s]
    BY <1>1 DEF Log, Active
  <1>4. Pending' = Pending \ {r}
    BY <1>3 DEF Pending
  <1>5. CASE UNCHANGED logs
    <2>1. S' = S
      BY <1>1, <1>5 DEF ServedSince, Since
    <2> QED BY <1>0, <1>4, <2>1, NoNewLoad
  <1>6. CASE logs' = Append(logs, [at |-> now, class |-> request[r].class])
    <2>1. /\ Len(logs') = Len(logs) + 1
          /\ logs'[Len(logs) + 1] = [at |-> now, class |-> request[r].class]
          /\ \A i \in 1 .. Len(logs) : logs'[i] = logs[i]
      BY <1>0, <1>6 DEF TypeOK
    <2>2. CASE request[r].class = "served"
      <3>1. S' = S \cup {Len(logs) + 1} /\ Len(logs) + 1 \notin S
        BY <1>1, <2>1, <2>2, WindowAssumption DEF ServedSince, Since
      <3>2. r \in Pending
        BY <1>1, <2>2 DEF Pending
      <3>3. Cardinality(S') = Cardinality(S) + 1
        BY <1>2, <3>1, FS_AddElement
      <3>4. Cardinality(Pending') = Cardinality(Pending) - 1
        BY <1>2, <1>4, <3>2, FS_RemoveElement
      <3> HIDE DEF S
      <3>5. Cardinality(S) + Cardinality(Pending)
              <= MaxPerWindow - 1 + Cardinality(Requests)
        BY DEF LoadBounded, S
      <3>6. Cardinality(S') + Cardinality(Pending')
              <= MaxPerWindow - 1 + Cardinality(Requests)
        BY <1>2, <3>3, <3>4, <3>5, WindowAssumption
      <3> QED BY <3>6 DEF LoadBounded, S
    <2>3. CASE request[r].class # "served"
      <3>1. S' \subseteq S
        BY <1>1, <2>1, <2>3 DEF ServedSince, Since
      <3> QED BY <1>0, <1>4, <3>1, NoNewLoad
    <2> QED BY <2>2, <2>3
  <1> QED BY <1>5, <1>6 DEF Log

LEMMA LoadStep ==
    ASSUME BurstInv, [Next]_vars
    PROVE  LoadBounded'
  <1>0. TypeOK /\ TypeOK' /\ LoadBounded
    BY TypeStep DEF BurstInv, TypeInv
  <1>00. /\ now \in Nat /\ now' \in Nat
         /\ now - Window \in Int
         /\ request \in [Requests -> Active \cup {Idle}]
         /\ Len(logs) \in Nat
    BY <1>0, WindowAssumption DEF TypeOK
  <1>1. ASSUME UNCHANGED logs, now' >= now, Pending' \subseteq Pending
        PROVE  LoadBounded'
    <2>1. ServedSince(now - Window)' \subseteq ServedSince(now - Window)
      <3>1. \A i \in 1 .. Len(logs) : logs[i].at \in Nat
        <4> DEFINE Entry == [at : Nat, class : Classes \ {"unauthenticated"}]
        <4>1. logs \in Seq(Entry)
          BY <1>0 DEF TypeOK
        <4>2. \A e \in Entry : e.at \in Nat
          OBVIOUS
        <4> HIDE DEF Entry
        <4> QED BY <4>1, <4>2
      <3>2. \A i \in 1 .. Len(logs) :
              logs[i].at >= now' - Window => logs[i].at >= now - Window
        BY <1>00, <1>1, <3>1, WindowAssumption
      <3> QED BY <1>1, <3>2 DEF ServedSince, Since
    <2> QED BY <1>0, <1>1, <2>1, NoNewLoad
  <1>2. CASE Tick
    BY <1>00, <1>1, <1>2 DEF Tick, Pending
  <1>3. ASSUME NEW r \in Requests, NEW kind \in Kinds, Authenticate(r, kind)
        PROVE  LoadBounded'
    <2>1. Pending' \subseteq Pending
      <3> SUFFICES ASSUME NEW s \in Requests, s \in Pending' PROVE s \in Pending
        BY DEF Pending
      <3>1. CASE s = r
        BY <1>00, <1>3, <3>1 DEF Authenticate, Pending, Kinds
      <3>2. CASE s # r
        BY <1>00, <1>3, <3>2 DEF Authenticate, Pending
      <3> QED BY <3>1, <3>2
    <2> QED BY <1>00, <1>1, <1>3, <2>1 DEF Authenticate
  <1>4. ASSUME NEW r \in Requests, Count(r) PROVE LoadBounded'
    <2>1. CASE Allowed
      <3>1. Cardinality(Since(now - Window)) < MaxPerWindow
        BY <2>1 DEF Allowed, Used
      <3>2. UNCHANGED <<now, logs>>
        BY <1>4 DEF Count
      <3>3. ServedSince(now - Window)' = ServedSince(now - Window)
        BY <3>2 DEF ServedSince, Since
      <3>4. /\ Cardinality(ServedSince(now - Window)) <= Cardinality(Since(now - Window))
            /\ Cardinality(ServedSince(now - Window)) \in Nat
            /\ Cardinality(Since(now - Window)) \in Nat
        BY <1>0, <1>00, Finite
      <3>5. /\ Cardinality(Pending') <= Cardinality(Requests)
            /\ Cardinality(Pending') \in Nat /\ Cardinality(Requests) \in Nat
        <4>1. IsFiniteSet(Pending') /\ Cardinality(Pending') <= Cardinality(Requests)
          BY RequestsAssumption, FS_Subset DEF Pending
        <4> QED BY <4>1, RequestsAssumption, FS_CardinalityType
      <3> QED BY <3>1, <3>3, <3>4, <3>5, WindowAssumption DEF LoadBounded
    <2>2. CASE ~Allowed
      <3>1. Pending' \subseteq Pending
        <4>1. PICK pc \in {"log", "run"}, class \in {"limited", "unchecked"} :
                request' = [request EXCEPT ![r] =
                              [@ EXCEPT !.pc = pc, !.class = class]]
          BY <1>4, <2>2 DEF Count, Goto
        <4>2. request[r] \in Active
          BY <1>00, <1>4 DEF Count, Idle
        <4>3. request'[r].class # "served"
          BY <1>00, <4>1, <4>2 DEF Active
        <4> QED BY <1>00, <4>1, <4>3 DEF Pending
      <3> QED BY <1>00, <1>1, <1>4, <3>1 DEF Count
    <2> QED BY <2>1, <2>2
  <1>5. ASSUME NEW r \in Requests, Run(r) PROVE LoadBounded'
    <2>1. Pending' \subseteq Pending
      BY <1>00, <1>5, RunPending DEF BurstInv
    <2> QED BY <1>00, <1>1, <1>5, <2>1 DEF Run
  <1>6. ASSUME NEW r \in Requests, Log(r) PROVE LoadBounded'
    BY <1>6, LogLoad DEF BurstInv
  <1>7. ASSUME NEW r \in Requests, Answer(r) \/ Abandon(r) PROVE LoadBounded'
    <2>1. Pending' \subseteq Pending
      BY <1>00, <1>7 DEF Answer, Abandon, Pending, Idle
    <2> QED BY <1>00, <1>1, <1>7, <2>1 DEF Answer, Abandon
  <1>8. CASE UNCHANGED vars
    BY <1>00, <1>1, <1>8 DEF vars, Pending
  <1> QED BY <1>2, <1>3, <1>4, <1>5, <1>6, <1>7, <1>8 DEF BurstInv, Next

\* The limiter lets at most MaxPerWindow - 1 + Cardinality(Requests) counted
\* requests into any window, however long they take between count and row.
THEOREM BurstsAreBounded == Spec => []BurstBounded
  <1>1. Init => BurstInv
    BY TypeInit, LoadInit DEF BurstInv
  <1>2. BurstInv /\ [Next]_vars => BurstInv'
    BY TypeStep, LoadStep DEF BurstInv
  <1>3. BurstInv => BurstBounded
    <2> SUFFICES ASSUME BurstInv PROVE BurstBounded
      OBVIOUS
    <2>1. now - Window \in Int /\ TypeOK
      BY WindowAssumption DEF BurstInv, TypeInv, TypeOK
    <2>2. /\ Cardinality(Pending) \in Nat /\ Cardinality(Requests) \in Nat
          /\ Cardinality(ServedSince(now - Window)) \in Nat
      BY <2>1, Finite
    <2> QED BY <2>2, WindowAssumption DEF BurstInv, LoadBounded, BurstBounded
  <1> QED BY <1>1, <1>2, <1>3, PTL DEF Spec

=============================================================================
