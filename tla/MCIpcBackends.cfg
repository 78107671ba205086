SPECIFICATION FairSpec
CONSTANTS
  Frames = 3
  Versions = {"v1", "v2"}
  None = None
INVARIANT
  TypeOK
PROPERTIES
  ReplyIsWhole
  ImplementsServiceCall
  CallReturns
