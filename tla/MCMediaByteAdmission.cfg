\* Four callers compete for two units; two of them may wait.
SPECIFICATION FairSpec
CONSTANTS
  c1 = c1
  c2 = c2
  c3 = c3
  c4 = c4
  Callers = {c1, c2, c3, c4}
  Budget = 2
  MaxWaiters = 2
  Sizes = {1, 2}
INVARIANTS ReservationExact NoStrandedHead
PROPERTIES GrantsInOrder WaitersSettle
