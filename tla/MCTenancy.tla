----------------------------- MODULE MCTenancy -----------------------------
(* The developers, the organizations and the projects are treated alike.   *)
EXTENDS Tenancy, TLC

Interchangeable ==
    Permutations(Users \ FirstAdmins) \cup Permutations(Orgs)
        \cup Permutations(Projects)
=============================================================================
