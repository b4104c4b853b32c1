CONSTANTS
  UrlMax = 3
  TokenMax = 1
  RespMax = 9
  CodeRoom = 4
  Data <- MCData
  Bodies <- MCBodies
  Codes <- MCCodes
  Programs <- MCPrograms
  Messages <- MCMessages
SPECIFICATION Spec
INVARIANTS
  TypeOK
  NeverSeenBusy
  ReplyIsTheCommands
  CodeIsTheCommands
  TokenOncePerArming
  RequestSplitsBuffer
  LeftBehind
