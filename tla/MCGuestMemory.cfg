SPECIFICATION Spec
CONSTANTS
  Programs <- MCPrograms
  Guests <- MCGuests
  MaxLen = 10
  Null = Null
INVARIANTS
  TypeOK
  SizedGuestsRun
  NothingLeaked
PROPERTIES
  ImplementsLinearMemory
