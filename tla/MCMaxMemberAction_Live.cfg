\* Every row of a queued ban settles: two bots, one worker.
SPECIFICATION FairSpec
CONSTANTS
  NoBot = NoBot
  b1 = b1
  b2 = b2
  w1 = w1
  ban = ban
  Bots = {b1, b2}
  Workers = {w1}
  Bans = {ban}
  Kicks = {}
  Unbans = {}
  MaxAttempts = 2
  MaxStalls = 1
  MaxEnqueues = 1
  MaxImmediates = 0
  MaxOutages = 1
  MaxCrashes = 1
  MaxClears = 0
CHECK_DEADLOCK FALSE
INVARIANTS AppliedOnce OutcomeTruthful
PROPERTIES MemberRowsSettle
