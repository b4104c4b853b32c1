CONSTANTS
  MaxLaunch = 3
  MaxQueue = 2
SPECIFICATION Spec
CHECK_DEADLOCK FALSE
INVARIANTS
  OneEmulator
  CloseLeavesNothing
  LiveIsControllable
