CONSTANTS
  XMax = 2
  YMax = 2
  XSmall = 1
  YSmall = 2
  Wrap = 64
  Initial <- MCInitial
  Requests <- MCRequests
SPECIFICATION Spec
INVARIANTS
  SectionFollowsConfig
  ReplyDescribesConfig
  ConfigIsValid
  PixelsInFrame
