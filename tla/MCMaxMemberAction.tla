-------------------------- MODULE MCMaxMemberAction --------------------------
(* MaxMemberAction for TLC: interchangeable workers, bots and keys. *)
EXTENDS MaxMemberAction, TLC

Symmetry == Permutations(Workers) \cup Permutations(Bots)
==============================================================================
