\* The watchdog settles an orphan that a producer clears beside live workers.
SPECIFICATION Spec
CONSTANTS
  NoBot = NoBot
  b1 = b1
  w1 = w1
  w2 = w2
  Workers = {w1, w2}
  Bots = {b1}
  MaxTokens = 2
  MaxAttempts = 1
  MaxStalls = 0
  MaxEnqueues = 2
  MaxImmediates = 0
  MaxRepairs = 0
  Family = "broadcast"
  WatchdogOn = TRUE
SYMMETRY Symmetry
CHECK_DEADLOCK FALSE
INVARIANTS OwnerKeepsFence
PROPERTIES SettledKeyIsSilent
