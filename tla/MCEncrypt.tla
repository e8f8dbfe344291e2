----------------------------- MODULE MCEncrypt -----------------------------
(* Encrypt for TLC: two enables, each with a passphrase of its own.         *)
EXTENDS Encrypt, TLC

Symmetry == Permutations(Commands) \cup Permutations(Files) \cup Permutations(Keys)
=============================================================================
