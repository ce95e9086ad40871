--------------------------- MODULE MCRegistration ---------------------------
(* An instance of Registration for TLC: ids, requests and identities are   *)
(* interchangeable.                                                        *)
EXTENDS Registration, TLC

RegistrationSymmetry ==
    Permutations(Ids) \cup Permutations(Requests) \cup Permutations(Identities)
=============================================================================
