CONSTANTS
  Capacity = 2
  Consumers = {c1, c2}
  MaxPush = 2
  MaxMany = 2
SPECIFICATION Spec
INVARIANT PoppedInPushOrder
