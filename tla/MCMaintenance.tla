--------------------------- MODULE MCMaintenance ---------------------------
(* Maintenance for TLC: two files that a reset removes, and a value that is *)
(* longer than the other.                                                   *)
EXTENDS Maintenance, TLC

MCValues == {"short", "long"}
MCSize == [v \in MCValues |-> IF v = "short" THEN 1 ELSE 2]
Symmetry == Permutations(Commands) \cup Permutations(Files)
=============================================================================
