\* Two scans of an untouched root with a primary and its sidecar.
SPECIFICATION RestSpec
CONSTANTS
  N1 = N1
  A = A
  I1 = I1
  R1 = R1
  P1 = P1
  X1 = X1
  None = None
  NoDevice = NoDevice
  Op = Op
  Devices = {}
  KnownKinds = {Op}
  CustomKinds = {}
  TranscodeVideo = Op
  CapabilityRows = {}
  GrantRows = {}
  Workers = {}
  WorkerKind <- MCNone
  DeclaredRows <- MCNone
  DeclaredGrant <- MCNone
  MaxRows = 0
  Manifest <- MCManifest
  Nodes = {N1}
  Incarnations = {I1, I2}
  Roots = {R1}
  Identities = {A}
  Sessions = {1, 2}
  NodeTTL = 1
  ActivationWindow = 0
  MaxFreshActivations = 2
  Horizon = 0
  Lag = 0
  MaxClock = 1
  Locators = {P1, X1}
  PrimaryOf <- MCSidecar
  Unreadable = {}
  Bytes = {b}
  IdleTimeout = 1
  MaxObservations = 2
  MaxLocations = 2
CHECK_DEADLOCK FALSE
INVARIANT
  SidecarsKeepTheirRow
