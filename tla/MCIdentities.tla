----------------------------- MODULE MCIdentities -----------------------------
(* Identities over two interchangeable login threads.                      *)
EXTENDS Identities, TLC

Symmetry == Permutations(Threads)
==============================================================================
