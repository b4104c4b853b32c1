CONSTANTS
  N = 4
  NoEvent = 0
  MaxPush = 7
SPECIFICATION Spec
PROPERTY BurstPreserved
