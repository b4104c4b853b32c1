CONSTANTS
  Pll = {"plla", "plld"}
  Chan = {"plla_dsi0", "plld_dsi0"}
  MuxSeq <- MCMuxSeq
  ParentOf <- MCParentOf
  DsiInput <- MCDsiInput
  SourcesOf <- MCSourcesOf
  Undivided = {"tsens"}
  CtlWord <- MCCtlWord
  Order <- MCOrder
  ResetRegs <- MCResetRegs
  Xosc = 6
  MaxDiv = 3
  Mults = {0, 2}
  Divs = {0, 1}
  MaxWrite = 4
SPECIFICATION Spec
CHECK_DEADLOCK FALSE
INVARIANTS
  TypeOK
  ClocksFollow
  OrderDoesNotMatter
