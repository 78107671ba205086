SPECIFICATION FairSpec
CONSTANTS
  arena = arena  roundtrip = roundtrip  pulley = pulley
  PAGES = 7
  Threads = {arena, roundtrip, pulley}
  Program <- MCContended
  Null = Null
INVARIANTS
  TypeOK
  PagesAccountedFor
PROPERTIES
  FailsOnlyWhenFull
  AllReturn
  ImplementsPool
