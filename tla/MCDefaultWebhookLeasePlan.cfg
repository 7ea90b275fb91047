\* Three dynamic shards and a static one over three groups.
SPECIFICATION Spec
CONSTANTS
  Queues = {1, 2, 3, 4}
  Groups = {1, 2, 3}
  HomeOf <- MCHomeOf
  DynamicQueues = {1, 2, 3}
  Backlogs = {0, 5, 7}
  Actives = {0, 1}
  MaxHeld = 1
CHECK_DEADLOCK FALSE
INVARIANTS PlanIsLeasable
PROPERTIES MaxLoadNeverGrows PlanSettles
