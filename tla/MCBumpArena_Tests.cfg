SPECIFICATION Spec
CONSTANTS
  arena = arena  roundtrip = roundtrip  pulley = pulley
  PAGES = 7
  Threads = {arena, roundtrip, pulley}
  Program <- MCProgram
  Null = Null
INVARIANT
  TestBlocksAdjacent
