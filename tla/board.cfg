CONSTANTS
  SdBusAlias = TRUE
  Vcram <- MCVcram
  Entries <- MCEntries
SPECIFICATION Spec
INVARIANTS
  TypeOK
  ReadyIsComplete
  NoDeviceHidden
  RamToldIsRam
  VideoMemoryIsApart
  OneSourcePerInput
  InterruptsHeard
  EntryReachesProgram
