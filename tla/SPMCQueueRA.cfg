CONSTANTS
  Capacity = 2
  Consumers = {c1}
  MaxPush = 5
  MaxMany = 2
SPECIFICATION Spec
INVARIANTS
  PoppedInPushOrder
