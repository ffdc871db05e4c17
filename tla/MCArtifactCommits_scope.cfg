\* Leases on the scope of an authorized commit.
SPECIFICATION AloneSpec
CONSTANTS
  N1 = N1
  I1 = I1
  A = A
  B = B
  R1 = R1
  H1 = H1
  H2 = H2
  V1 = V1
  V2 = V2
  Op = Op
  None = None
  NoDevice = NoDevice
  Devices = {}
  KnownKinds = {Op}
  CustomKinds = {}
  TranscodeVideo = Op
  CapabilityRows = {}
  GrantRows = {}
  DeclaredRows <- MCNone
  DeclaredGrant <- MCNone
  WorkerKind <- MCNone
  MaxRows = 1
  Workers = {}
  Sessions = {}
  Nodes = {N1}
  NodeTTL = 2
  Incarnations = {I1}
  Manifest <- MCManifest
  Roots = {R1}
  Identities = {A, B}
  ActivationWindow = 1
  MaxFreshActivations = 2
  Handles = {H1, H2}
  SourceOf <- MCSourceOf
  StagingRoot <- MCStagingRoot
  Targets = {T1}
  TargetRoot <- MCTargetRoot
  MaxCommits = 2
  Recoveries = {O1}
  UseLeases = {U1}
  UseTTL = 1
  Lag = 1
  MaxClock = 2
CHECK_DEADLOCK FALSE
INVARIANT NoLeaseEntersScope
