CONSTANTS
  SdBusAlias = FALSE
  Vcram <- MCVcram
  Entries <- MCEntries
SPECIFICATION Spec
INVARIANTS
  SdBusFound
