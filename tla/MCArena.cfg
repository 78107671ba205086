SPECIFICATION Spec
CONSTANTS
  REGIONS = 4
  Granted = {0, 1, 2}
  Stuck = {1}
  Sizes = {0, 2097152, 2097153, 4194304, 6291457}
  Null = Null
INVARIANTS
  TypeOK
  MappedIsHeld
  BlocksDisjoint
PROPERTIES
  FailureChangesNothing
  FreshBlocksAreBlank
  ImplementsPool
