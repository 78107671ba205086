SPECIFICATION Spec
CONSTANTS
  signer = signer  ticker = ticker  spinner = spinner  answer = answer
  Components = {signer, ticker, spinner, answer}
  Imports <- MCImports
  Runaways = {spinner}
  Manifests <- MCManifests
  DEFAULT_FUEL = 2
  MaxSigned = 2
  None = None
INVARIANT
  SameTargetLoads
