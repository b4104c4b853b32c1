CONSTANTS
  N = 4
  NoEvent = 0
  MaxPush = 9
SPECIFICATION Spec
INVARIANTS
  RingInOrder
  NeverSeenBefore
  TornOnlyWhenOverrun
PROPERTIES
  AdvanceConsumesOne
  QueueSpec
  Drains
