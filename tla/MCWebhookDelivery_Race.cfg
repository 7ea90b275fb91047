\* Two pollers and two executions of one update, with two crashes.
SPECIFICATION Spec
CONSTANTS
  p1 = p1
  p2 = p2
  w1 = w1
  w2 = w2
  q1 = q1
  Pollers = {p1, p2}
  Executions = {w1, w2}
  Queues = {q1}
  Critical = q1
  MaxEnqueueAttempts = 2
  MaxStalls = 1
  MaxCrashes = 2
  MaxOutages = 0
  MaxDefers = 0
  MaxTroubles = 2
CHECK_DEADLOCK FALSE
SYMMETRY Symmetry
INVARIANTS HandlerStartsOnce SettledTogether ProcessedIsProven DetachedIsFenced
PROPERTIES AttemptsAreKept SettledStays FirstErrorStays
