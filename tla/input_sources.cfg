CONSTANTS
  Capacity = 2
  Keys = {"SHIFT", "SHIFT_R", "Y", "SPC", "PAUSE"}
  Buttons = {"left", "right", "wheel"}
  MaxPos <- MCMaxPos
  Steps <- MCSteps
  MaxInput = 4
SPECIFICATION Spec
CHECK_DEADLOCK FALSE
INVARIANTS
  TypeOK
  PointerConverges
  ButtonsConverge
  KeysConverge
  FlagsConverge
  NoStuckModifier
