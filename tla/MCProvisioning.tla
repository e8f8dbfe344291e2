--------------------------- MODULE MCProvisioning ---------------------------
(* Provisioning for TLC: requests, sessions, codes and identities are       *)
(* interchangeable.                                                         *)
EXTENDS Provisioning, TLC

Symmetric ==
  Permutations(Handlers) \cup Permutations(Wizards) \cup Permutations(Codes)
  \cup Permutations(Ids)
=============================================================================
