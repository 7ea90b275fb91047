------------------------- MODULE MCSanctionStateLock -------------------------
(* SanctionStateLock for TLC: interchangeable callers. *)
EXTENDS SanctionStateLock, TLC

Symmetry == Permutations(Callers)
==============================================================================
