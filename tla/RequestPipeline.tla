-------------------------- MODULE RequestPipeline --------------------------
(***************************************************************************)
(* The path every /v1 request takes behind one API key: authenticate,      *)
(* check the scope, count the key's rows of the last window in             *)
(* request_logs, run the endpoint, insert the request's own row, answer.   *)
(* The count and the insert are separate awaited calls, with the whole     *)
(* endpoint between them.                                                  *)
(*                                                                         *)
(* Endpoints come in two kinds: those built by defineEndpoint ("wrapped")  *)
(* and those that carry their own copy of the pipeline ("direct"), which   *)
(* do not log a request refused for its scope. Which key and project a     *)
(* request authenticates as is ApiKeys' subject. An endpoint's outcome     *)
(* (200, 400, 404, 413, 500) is one class, "served": all are logged alike; *)
(* "unchecked" is the same for a request let through by a failed count.    *)
(***************************************************************************)
EXTENDS Integers, Sequences, FiniteSets

CONSTANTS Requests,   \* requests that can be in flight at once
          Window,     \* WINDOW_SECONDS, in clock ticks
          MaxPerWindow, \* MAX_REQUESTS_PER_WINDOW
          Failures,   \* which of "count", "log" and "crash" can happen
          MaxTime,    \* bound of the model: last clock value
          MaxRows     \* bound of the model: requests accepted for processing

ASSUME WindowAssumption == Window \in Nat /\ MaxPerWindow \in Nat \ {0}
ASSUME RequestsAssumption == IsFiniteSet(Requests)
ASSUME ModelBounds == MaxTime \in Nat /\ MaxRows \in Nat

VARIABLES now,      \* the clock of the functions and of the database
          logs,     \* table request_logs of the key, in insertion order
          request   \* local state of every request

vars == <<now, logs, request>>

Kinds   == {"wrapped", "direct"}
Classes == {"unauthenticated", "forbidden", "limited", "served", "unchecked"}
Idle    == [pc |-> "idle"]
Active  == [pc : {"count", "run", "log", "answer"}, kind : Kinds,
            class : Classes, logged : BOOLEAN]

TypeOK ==
    /\ now \in Nat
    /\ logs \in Seq([at : Nat, class : Classes \ {"unauthenticated"}])
    /\ request \in [Requests -> Active \cup {Idle}]

Init ==
    /\ now = 0
    /\ logs = <<>>
    /\ request = [r \in Requests |-> Idle]

-----------------------------------------------------------------------------
\* Rows of the log that a count with this window start sees, whatever the
\* request behind a row was answered.
Since(start) == {i \in 1 .. Len(logs) : logs[i].at >= start}

\* The number of rows of the rolling window.
Used == Cardinality(Since(now - Window))

AllowedAtLimit == Used <= MaxPerWindow

Allowed == Used < MaxPerWindow

Goto(r, pc, class) ==
    request' = [request EXCEPT ![r] = [@ EXCEPT !.pc = pc, !.class = class]]

Busy == {r \in Requests : request[r] # Idle}

-----------------------------------------------------------------------------
Tick ==
    /\ now < MaxTime
    /\ now' = now + 1
    /\ UNCHANGED <<logs, request>>

AuthenticateLogsAll(r, kind) ==
    /\ request[r] = Idle
    /\ Len(logs) + Cardinality(Busy) < MaxRows
    /\ \E class \in Classes \ {"limited", "unchecked"} :
         request' = [request EXCEPT ![r] =
                       [pc |-> IF class = "served" THEN "count" ELSE "log",
                        kind |-> kind, class |-> class, logged |-> FALSE]]
    /\ UNCHANGED <<now, logs>>

\* authenticateRequest and hasScope. A request that fails either is answered
\* without a row, except that a wrapped endpoint logs the missing scope; it
\* never reaches the count.
Authenticate(r, kind) ==
    /\ request[r] = Idle
    /\ Len(logs) + Cardinality(Busy) < MaxRows
    /\ \E step \in {[pc |-> "answer", class |-> "unauthenticated"],
                    [pc |-> IF kind = "wrapped" THEN "log" ELSE "answer",
                     class |-> "forbidden"],
                    [pc |-> "count", class |-> "served"]} :
         request' = [request EXCEPT ![r] =
                       [pc |-> step.pc, kind |-> kind,
                        class |-> step.class, logged |-> FALSE]]
    /\ UNCHANGED <<now, logs>>

CountWithoutRefusal(r) ==
    /\ request[r].pc = "count"
    /\ Allowed
    /\ Goto(r, "run", "served")
    /\ UNCHANGED <<now, logs>>

\* checkRateLimit: allowed below the limit, or when the count itself fails.
Count(r) ==
    /\ request[r].pc = "count"
    /\ \/ Allowed /\ Goto(r, "run", "served")
       \/ ~Allowed /\ Goto(r, "log", "limited")
       \/ "count" \in Failures /\ Goto(r, "run", "unchecked")
    /\ UNCHANGED <<now, logs>>

\* The body is read, parsed, validated and the endpoint executed, every
\* outcome leading to the same log call.
Run(r) ==
    /\ request[r].pc = "run"
    /\ request' = [request EXCEPT ![r].pc = "log"]
    /\ UNCHANGED <<now, logs>>

\* logRequest: one insert, stamped by the database; its error is not looked at.
Log(r) ==
    /\ request[r].pc = "log"
    /\ \/ /\ logs' = Append(logs, [at |-> now, class |-> request[r].class])
          /\ request' = [request EXCEPT ![r].pc = "answer", ![r].logged = TRUE]
       \/ /\ "log" \in Failures
          /\ request' = [request EXCEPT ![r].pc = "answer"]
          /\ UNCHANGED logs
    /\ UNCHANGED now

Answer(r) ==
    /\ request[r].pc = "answer"
    /\ request' = [request EXCEPT ![r] = Idle]
    /\ UNCHANGED <<now, logs>>

\* The isolate is killed, or the endpoint throws where nothing catches it (a
\* body of null is parsed, then dereferenced outside the handler's try).
Abandon(r) ==
    /\ \/ "crash" \in Failures /\ request[r] # Idle
       \/ request[r].pc = "run"
    /\ request' = [request EXCEPT ![r] = Idle]
    /\ UNCHANGED <<now, logs>>

Next ==
    \/ Tick
    \/ \E r \in Requests :
         \/ \E kind \in Kinds : Authenticate(r, kind)
         \/ Count(r)
         \/ Run(r)
         \/ Log(r)
         \/ Answer(r)
         \/ Abandon(r)

Spec == Init /\ [][Next]_vars

\* Every awaited call of a request in flight returns, with or without an error.
Fairness == \A r \in Requests :
    WF_vars(Count(r)) /\ WF_vars(Run(r)) /\ WF_vars(Log(r)) /\ WF_vars(Answer(r))

FairSpec == Spec /\ Fairness

-----------------------------------------------------------------------------
ServedSince(start) == {i \in Since(start) : logs[i].class = "served"}

\* What the limiter guarantees of the requests its count let through: a rolling
\* window never holds more of their rows than the limit, plus one for every
\* request counted and not yet logged, less the one that filled it. Rows of
\* requests let through by a failed count come on top of that
\* (rateLimit.ts:14-28, the row inserted by logRequest.ts:18-29 much later).
BurstBounded == Cardinality(ServedSince(now - Window))
                   <= MaxPerWindow - 1 + Cardinality(Requests)

\* A request in flight is answered or abandoned (handler.ts:21-72).
EventuallyDone == \A r \in Requests : request[r] # Idle ~> request[r] = Idle

=============================================================================
