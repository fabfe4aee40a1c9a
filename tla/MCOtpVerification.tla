------------------------- MODULE MCOtpVerification -------------------------
(* Small instances of OtpVerification for TLC. *)
EXTENDS OtpVerification, TLC

RequestSymmetry == Permutations(Requests)
=============================================================================
