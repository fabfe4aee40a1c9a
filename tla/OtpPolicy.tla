----------------------------- MODULE OtpPolicy -----------------------------
(***************************************************************************)
(* What the one-time-code service promises about one verification, with    *)
(* every guess answered in a single step: at most MaxAttempts wrong codes  *)
(* are answered, the last of them fails the verification for good, and a   *)
(* verification that was verified, failed or expired stays so.             *)
(*                                                                         *)
(* The promise is that of the comment at the head of otp-verify ("checked  *)
(* and incremented atomically"); its steps are the outcomes of the handler *)
(* taken one request at a time. OtpVerification is the detailed            *)
(* specification that is checked against it.                               *)
(***************************************************************************)
EXTENDS Naturals

CONSTANTS Verifications,  \* ids of otp_verifications rows
          MaxAttempts     \* MAX_ATTEMPTS of otp-send

VARIABLES status,  \* status of each row, "absent" before otp-send
          wrongs   \* wrong codes answered so far for each row

vars == <<status, wrongs>>

Final == {"verified", "failed", "expired"}

PolicyTypeOK ==
    /\ status \in [Verifications -> {"absent", "pending"} \cup Final]
    /\ wrongs \in [Verifications -> Nat]

Init ==
    /\ status = [v \in Verifications |-> "absent"]
    /\ wrongs = [v \in Verifications |-> 0]

\* otp-send created the verification.
Issue(v) ==
    /\ status[v] = "absent"
    /\ status' = [status EXCEPT ![v] = "pending"]
    /\ UNCHANGED wrongs

\* A wrong code is counted; the one that reaches the limit fails the row.
WrongCode(v) ==
    /\ status[v] = "pending"
    /\ wrongs' = [wrongs EXCEPT ![v] = @ + 1]
    /\ status' = IF wrongs[v] + 1 >= MaxAttempts
                 THEN [status EXCEPT ![v] = "failed"] ELSE status

RightCode(v) ==
    /\ status[v] = "pending"
    /\ status' = [status EXCEPT ![v] = "verified"]
    /\ UNCHANGED wrongs

\* A request found the verification past its deadline.
Lapse(v) ==
    /\ status[v] = "pending"
    /\ status' = [status EXCEPT ![v] = "expired"]
    /\ UNCHANGED wrongs

Next == \E v \in Verifications :
            Issue(v) \/ WrongCode(v) \/ RightCode(v) \/ Lapse(v)

Spec == Init /\ [][Next]_vars

-----------------------------------------------------------------------------

\* The limit is exact: never more than MaxAttempts wrong answers, the row is
\* failed exactly when they were all used (otp-verify/index.ts:88-92).
LimitIsExact == \A v \in Verifications :
    /\ wrongs[v] <= MaxAttempts
    /\ status[v] = "failed" <=> wrongs[v] = MaxAttempts

=============================================================================
