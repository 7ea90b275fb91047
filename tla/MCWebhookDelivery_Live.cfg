\* Every update ends: two queues, a crash, an outage and a deferral.
SPECIFICATION FairSpec
CONSTANTS
  p1 = p1
  w1 = w1
  w2 = w2
  q1 = q1
  q2 = q2
  Pollers = {p1}
  Executions = {w1, w2}
  Queues = {q1, q2}
  Critical = q1
  MaxEnqueueAttempts = 2
  MaxStalls = 0
  MaxCrashes = 1
  MaxOutages = 1
  MaxDefers = 1
  MaxTroubles = 2
CHECK_DEADLOCK FALSE
INVARIANTS TypeOK
PROPERTIES EventSettles JournalSettles
