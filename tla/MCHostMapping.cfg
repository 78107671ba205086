SPECIFICATION FairSpec
CONSTANTS
  k1 = k1  k2 = k2  f1 = f1
  b1 = b1  b2 = b2  br = br  bw = bw
  d1 = d1
  Keys = {k1, k2}
  Files = {f1}
  Badges = {b1, b2, br, bw}
  Minted <- MCMinted
  Data = {d1}
  Empty = Empty
  Reps = {1, 2}
  Slots = {0, 1, 2, 3}
  None = None
  Channel <- MCChannel
  Configurations <- MCConfigurations
  Withdrawable = {b2, bw, f1}
  HostKeepsStale = FALSE
INVARIANTS
  TypeOK
  HandleNamesItsGrant
  EntriesAreOwned
  NoHostTrap
PROPERTIES
  RevocationIsFinal
  OpenFailsOnlyWhenFull
  CallAnswered
  ImplementsAccess
