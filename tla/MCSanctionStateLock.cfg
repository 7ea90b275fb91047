\* Two calls for one member, over a lease time and a half.
SPECIFICATION Spec
CONSTANTS
  NoCaller = NoCaller
  c1 = c1
  c2 = c2
  Callers = {c1, c2}
  TTL = 2
  Wait = 1
  MaxTime = 3
  MaxStrays = 1
SYMMETRY Symmetry
CHECK_DEADLOCK FALSE
INVARIANTS BeliefIsOwnership SuccessWasExclusive AbandonedLockEnds
