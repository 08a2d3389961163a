------------------------------ MODULE MCOutbound ------------------------------
(* Outbound with interchangeable request threads. *)
EXTENDS Outbound, TLC
Symmetry == Permutations(Requests) \cup Permutations(Workers) \cup Permutations(Persons)
==============================================================================
