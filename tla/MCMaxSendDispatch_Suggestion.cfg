\* The row of a suggestion is deleted beneath live workers; two candidate bots.
SPECIFICATION Spec
CONSTANTS
  NoBot = NoBot
  b1 = b1
  b2 = b2
  w1 = w1
  w2 = w2
  Workers = {w1, w2}
  Bots = {b1, b2}
  MaxTokens = 3
  MaxAttempts = 1
  MaxStalls = 0
  MaxEnqueues = 0
  MaxImmediates = 2
  MaxRepairs = 1
  Family = "suggestion"
  WatchdogOn = TRUE
SYMMETRY Symmetry
CHECK_DEADLOCK FALSE
INVARIANTS TypeOK AtMostOneMessage FenceCoversDispatch SuccessIsDelivered
