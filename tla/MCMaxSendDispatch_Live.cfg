\* Every row settles, the one that the night-mode repair reopens too.
SPECIFICATION FairSpec
CONSTANTS
  NoBot = NoBot
  b1 = b1
  w1 = w1
  Workers = {w1}
  Bots = {b1}
  MaxTokens = 2
  MaxAttempts = 2
  MaxStalls = 1
  MaxEnqueues = 1
  MaxImmediates = 0
  MaxRepairs = 1
  Family = "night"
  WatchdogOn = TRUE
CHECK_DEADLOCK FALSE
PROPERTIES RowsSettle ReceiptIsForever QuarantineIsSticky ImplementsOutcome
