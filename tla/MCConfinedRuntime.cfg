SPECIFICATION FairSpec
CONSTANTS
  Worlds <- MCWorlds
  Fuels = {0, 4, 6, 20}
INVARIANTS
  TypeOK
  SuccessIsEarned
  VerifiedFirst
  OneOutcome
  DeclinedIsSilent
PROPERTIES
  Signalled
  HonestLaunchSucceeds
  ImplementsGrantLife
