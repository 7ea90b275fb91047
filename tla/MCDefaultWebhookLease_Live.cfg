\* One move and one crash or hung close: the shard is always served again.
SPECIFICATION FairSpec
CONSTANTS
  NoGroup = NoGroup
  a = a
  b = b
  Groups = {a, b}
  Home = a
  Slots = {1}
  FaultKinds = {"crash", "timeout"}
  MaxMoves = 1
  MaxFaults = 1
PROPERTIES ShardIsServed
