\* A deactivated process and the operator's unfenced heartbeat.
SPECIFICATION AloneSpec
CONSTANTS
  I1 = I1
  I2 = I2
  I3 = I3
  W0 = W0
  W1 = W1
  W2 = W2
  W3 = W3
  Op = Op
  None = None
  NoDevice = NoDevice
  Devices = {}
  KnownKinds = {Op}
  CustomKinds = {}
  TranscodeVideo = Op
  CapabilityRows <- MCCapabilityRows
  GrantRows <- MCGrantRows
  DeclaredRows <- MCDeclaredRows
  DeclaredGrant <- MCDeclaredGrant
  WorkerKind <- MCWorkerKind
  MaxRows = 1
  Sessions = {}
  Nodes = {N1}
  NodeTTL = 1
  Incarnations = {I1}
  Workers = {}
  Manifest <- MCNoManifest
  Roots = {R1}
  Identities = {A}
  ActivationWindow = 0
  MaxFreshActivations = 1
  Lag = 1
  MaxClock = 1
CHECK_DEADLOCK FALSE
INVARIANT
  RootsNeedLiveOwner
