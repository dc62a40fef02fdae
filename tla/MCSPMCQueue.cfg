CONSTANTS
  Capacity = 2
  Consumers = {c1, c2}
  Value = {1, 2, 3}
  NoValue = NoValue
  MaxPush = 3
  MaxMany = 2
SPECIFICATION MCSpec
INVARIANTS
  PoppedIsPushedPrefix
  UnreadIntact
  PopAssertHolds
PROPERTIES ImplementsFIFO PopProgress
