\* Two groups, one move and one fault of any kind.
SPECIFICATION Spec
CONSTANTS
  NoGroup = NoGroup
  a = a
  b = b
  Groups = {a, b}
  Home = a
  Slots = {1, 2}
  FaultKinds = {"crash", "stop", "error", "timeout", "expiry"}
  MaxMoves = 1
  MaxFaults = 1
INVARIANTS OneConsumer NoForgottenWorker StoppedStaysStopped
