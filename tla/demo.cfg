CONSTANTS
  MaxLaunch = 2
  MaxQueue = 1
  Commands = 1
SPECIFICATION Spec
CHECK_DEADLOCK FALSE
INVARIANTS
  StoppedIsStopped
  DemoCleansUp
PROPERTIES
  LaunchReturns
