-------------------------- MODULE OtpVerification --------------------------
(***************************************************************************)
(* The one-time-code service: otp-send creates a verification, any number  *)
(* of concurrent otp-verify requests read it, decide what to do from the   *)
(* row they read, and write the decision back with an update whose only    *)
(* filter is the id. Each awaited database call is a step of its own, so a *)
(* request acts on a row other requests may have changed since.            *)
(*                                                                         *)
(* Left out: authentication, rate limit and request logging, which are     *)
(* RequestPipeline's, the deliveries of an emitted event, which are        *)
(* WebhookDispatch's, and the e-mail sent by otp-send, whose errors are    *)
(* swallowed and change no state. Requests answered without a write (404,  *)
(* already completed, no longer valid) are stuttering steps. A code is     *)
(* either the right one or a wrong one.                                    *)
(***************************************************************************)
EXTENDS Integers, FiniteSets

CONSTANTS Requests,       \* otp-verify requests that can be in flight at once
          Verifications,  \* ids of otp_verifications rows
          MaxAttempts,    \* MAX_ATTEMPTS of otp-send
          TTL,            \* OTP_TTL_SECONDS of otp-send, in clock ticks
          Failures,       \* which of "crash" and "write" can happen
          MaxTime,        \* bound of the model: last clock value
          MaxWrongs       \* bound of the model: no request is accepted for
                          \* a row once this many wrong codes were answered

ASSUME RequestsAssumption == IsFiniteSet(Requests)
ASSUME AttemptsAssumption == MaxAttempts \in Nat \ {0}
ASSUME TTLAssumption      == TTL \in Nat
ASSUME BoundsAssumption   == MaxTime \in Nat /\ MaxWrongs \in Nat

VARIABLES now,      \* the clock of the functions and of the database
          otps,     \* table otp_verifications
          request,  \* local state of every otp-verify request
          wrongs,   \* history: wrong codes compared and written back, per row
          lost,     \* history: rows some update of which failed unnoticed
          emitted   \* history: events handed to dispatchWebhookEvent

vars == <<now, otps, request, wrongs, lost, emitted>>

Final     == {"verified", "failed", "expired"}
Row       == [status : {"absent", "pending"} \cup Final,
              attempts : Nat, expires : Nat]
Decisions == {"expire", "lockout", "wrong", "right"}
Events    == {"otp.verified", "otp.failed"}
Idle      == [pc |-> "idle"]
InFlight  == [pc : {"write", "emit"}, vid : Verifications,
              seen : Nat, decision : Decisions]

TypeOK ==
    /\ now \in Nat
    /\ otps \in [Verifications -> Row]
    /\ request \in [Requests -> InFlight \cup {Idle}]
    /\ wrongs \in [Verifications -> Nat]
    /\ lost \subseteq Verifications
    /\ emitted \subseteq Verifications \X Events

Init ==
    /\ now = 0
    /\ otps = [v \in Verifications |->
                 [status |-> "absent", attempts |-> 0, expires |-> 0]]
    /\ request = [r \in Requests |-> Idle]
    /\ wrongs = [v \in Verifications |-> 0]
    /\ lost = {}
    /\ emitted = {}

-----------------------------------------------------------------------------
DecideExpiresEarly(row, match) ==
    IF row.status # "pending" THEN "reject"
    ELSE IF row.expires <= now THEN "expire"
    ELSE IF row.attempts >= MaxAttempts THEN "lockout"
    ELSE IF match THEN "right" ELSE "wrong"

\* The decision otp-verify takes from the row it read, in the code's order.
\* "lockout" is the explicit test of attempt_count against max_attempts.
Decide(row, match) ==
    IF row.status # "pending" THEN "reject"
    ELSE IF row.expires < now THEN "expire"
    ELSE IF row.attempts >= MaxAttempts THEN "lockout"
    ELSE IF match THEN "right" ELSE "wrong"

WillExceedOneLate(seen)  == seen + 1 > MaxAttempts

\* newAttemptCount is computed from the row as it was read.
WillExceed(seen) == seen + 1 >= MaxAttempts

UpdatedNotCounting(row, decision, seen) ==
    IF decision = "right" THEN [row EXCEPT !.status = "verified"]
    ELSE IF decision = "wrong"
    THEN [row EXCEPT !.attempts = seen,
                     !.status = IF WillExceed(seen) THEN "failed" ELSE "pending"]
    ELSE [row EXCEPT !.status = IF decision = "expire" THEN "expired" ELSE "failed"]

UpdatedUnknownStatus(row, decision, seen) ==
    IF decision = "expire" THEN [row EXCEPT !.status = "lapsed"]
    ELSE IF decision = "wrong" THEN [row EXCEPT !.attempts = seen + 1]
    ELSE [row EXCEPT !.status = "verified"]

\* The update each decision sends, applied to the row as it is by then.
Updated(row, decision, seen) ==
    CASE decision = "expire"  -> [row EXCEPT !.status = "expired"]
      [] decision = "lockout" -> [row EXCEPT !.status = "failed"]
      [] decision = "wrong"   ->
           [row EXCEPT !.attempts = seen + 1,
                       !.status = IF WillExceed(seen) THEN "failed"
                                                      ELSE "pending"]
      [] decision = "right"   -> [row EXCEPT !.attempts = seen + 1,
                                             !.status = "verified"]

EventsOfCountOnly(decision, seen) ==
    IF decision \in {"right", "wrong"} /\ WillExceed(seen) THEN {"otp.failed"}
    ELSE IF decision = "right" THEN {"otp.verified"}
    ELSE {}

\* The events a decision leads to, dispatched after its update.
EventsOf(decision, seen) ==
    IF decision = "right" THEN {"otp.verified"}
    ELSE IF decision = "wrong" /\ WillExceed(seen) THEN {"otp.failed"}
    ELSE {}

-----------------------------------------------------------------------------
Tick ==
    /\ now < MaxTime
    /\ now' = now + 1
    /\ UNCHANGED <<otps, request, wrongs, lost, emitted>>

\* otp-send: one insert; when it fails the handler answers 500 and no row exists.
Send(v) ==
    /\ otps[v].status = "absent"
    /\ otps' = [otps EXCEPT ![v] = [status |-> "pending", attempts |-> 0,
                                    expires |-> now + TTL]]
    /\ UNCHANGED <<now, request, wrongs, lost, emitted>>

\* A request reads the row and decides. Decisions that write nothing end it.
Read(r, v, match) ==
    LET decision == Decide(otps[v], match) IN
    /\ request[r] = Idle
    /\ wrongs[v] < MaxWrongs
    /\ decision # "reject"
    /\ request' = [request EXCEPT ![r] =
                     [pc |-> "write", vid |-> v, seen |-> otps[v].attempts,
                      decision |-> decision]]
    /\ UNCHANGED <<now, otps, wrongs, lost, emitted>>

\* The update returns, with or without an error: the handler does not look.
Write(r) ==
    LET q == request[r] IN
    /\ q.pc = "write"
    /\ \/ /\ otps' = [otps EXCEPT ![q.vid] = Updated(@, q.decision, q.seen)]
          /\ UNCHANGED lost
       \/ /\ "write" \in Failures
          /\ lost' = lost \cup {q.vid}
          /\ UNCHANGED otps
    /\ wrongs' = [wrongs EXCEPT ![q.vid] =
                    IF q.decision = "wrong" THEN @ + 1 ELSE @]
    /\ request' = [request EXCEPT ![r] =
                     IF EventsOf(q.decision, q.seen) = {} THEN Idle
                     ELSE [q EXCEPT !.pc = "emit"]]
    /\ UNCHANGED <<now, emitted>>

\* dispatchWebhookEvent, awaited before the request is answered.
Emit(r) ==
    LET q == request[r] IN
    /\ q.pc = "emit"
    /\ emitted' = emitted \cup ({q.vid} \X EventsOf(q.decision, q.seen))
    /\ request' = [request EXCEPT ![r] = Idle]
    /\ UNCHANGED <<now, otps, wrongs, lost>>

\* The isolate running the request is killed between two awaited calls.
Crash(r) ==
    /\ "crash" \in Failures
    /\ request[r] # Idle
    /\ request' = [request EXCEPT ![r] = Idle]
    /\ UNCHANGED <<now, otps, wrongs, lost, emitted>>

Next ==
    \/ Tick
    \/ \E v \in Verifications : Send(v)
    \/ \E r \in Requests :
         \/ \E v \in Verifications, match \in BOOLEAN : Read(r, v, match)
         \/ Write(r)
         \/ Emit(r)
         \/ Crash(r)

Spec == Init /\ [][Next]_vars

-----------------------------------------------------------------------------
(***************************************************************************)
(* Properties that hold however many requests interleave.                  *)
(***************************************************************************)

\* However requests interleave and whatever updates are lost, the stored count
\* stays within max_attempts and a row still open is below it; so the test of
\* otp-verify/index.ts:77 never finds a row to fail.
AttemptsBounded == \A v \in Verifications :
    /\ otps[v].attempts <= MaxAttempts
    /\ otps[v].status = "pending" => otps[v].attempts < MaxAttempts

\* No verification is closed early: it is failed, or announced as failed, only
\* after MaxAttempts wrong codes were answered, and expired only past its
\* deadline, even by a request that acts on an old row
\* (otp-verify/index.ts:69-71, 88-99).
ClosedForCause == \A v \in Verifications :
    /\ \/ otps[v].status = "failed"
       \/ <<v, "otp.failed">> \in emitted
       => wrongs[v] >= MaxAttempts
    /\ otps[v].status = "expired" => now > otps[v].expires

\* The cost of not counting atomically. With W requests in flight and no update
\* of the row lost, C(MaxAttempts + W, W) - 1 wrong codes can be answered for one
\* verification, and no more: MaxAttempts for W = 1, 20 for W = 2 and 251 for
\* W = 5 when MaxAttempts = 5 (otp-verify/index.ts:86-93). A profile counts, for
\* every count below the limit, the requests that know of no higher one.
Profiles == {g \in [0 .. MaxAttempts - 1 -> 0 .. Cardinality(Requests)] :
               \A x, y \in 0 .. MaxAttempts - 1 : x <= y => g[x] <= g[y]}

GuessBudget == Cardinality(Profiles) - 1

BudgetKept == \A v \in Verifications \ lost : wrongs[v] <= GuessBudget

(***************************************************************************)
(* Properties of requests that are served one at a time.                   *)
(***************************************************************************)

Policy == INSTANCE OtpPolicy
              WITH status <- [v \in Verifications |-> otps[v].status]

\* With one request at a time the table moves exactly as the policy says,
\* crashes included (otp-verify/index.ts:5-7).
ImplementsPolicy == Policy!Spec

\* With one request at a time the limit is exact, as the policy promises
\* (otp-verify/index.ts:88-92).
LimitIsExact == Policy!LimitIsExact

\* A webhook subscriber is never told of an outcome the row does not have, nor
\* of two outcomes of one verification (otp-verify/index.ts:95-99, 105-112).
EventsAgreeWithRow == \A v \in Verifications :
    /\ <<v, "otp.verified">> \in emitted => otps[v].status = "verified"
    /\ <<v, "otp.failed">> \in emitted => otps[v].status = "failed"

(***************************************************************************)
(* Statements of the comments and the documentation.                       *)
(***************************************************************************)

\* "once max_attempts is reached the verification is marked 'failed' and can
\* never succeed, even with the correct code" (otp-verify/index.ts:6-7).
FailedNeverSucceeds == [][\A v \in Verifications :
    otps[v].status = "failed" => otps'[v].status # "verified"]_vars

=============================================================================
