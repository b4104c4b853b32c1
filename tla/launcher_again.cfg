CONSTANTS
  MaxLaunch = 2
  MaxQueue = 2
SPECIFICATION Spec
CHECK_DEADLOCK FALSE
PROPERTY LaunchReturns
