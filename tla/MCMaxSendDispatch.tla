-------------------------- MODULE MCMaxSendDispatch --------------------------
(* MaxSendDispatch for TLC: interchangeable workers and bots. *)
EXTENDS MaxSendDispatch, TLC

Symmetry == Permutations(Workers) \cup Permutations(Bots)
==============================================================================
