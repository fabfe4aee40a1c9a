------------------------- MODULE MCOrgProvisioning -------------------------
(* Small instances of OrgProvisioning for TLC. *)
EXTENDS OrgProvisioning, TLC

Symmetry == Permutations(Calls) \cup Permutations(Users)
=============================================================================
