\* The three scenes of nodes and their processes.
SPECIFICATION ScenesSpec
CONSTANTS
  I1 = I1
  I2 = I2
  I3 = I3
  W0 = W0
  W1 = W1
  W2 = W2
  W3 = W3
  Op = Op
  None = None
  NoDevice = NoDevice
  Devices = {}
  KnownKinds = {Op}
  CustomKinds = {}
  TranscodeVideo = Op
  CapabilityRows <- MCCapabilityRows
  GrantRows <- MCGrantRows
  DeclaredRows <- MCDeclaredRows
  DeclaredGrant <- MCDeclaredGrant
  WorkerKind <- MCWorkerKind
  MaxRows = 1
  Sessions = {}
  Nodes = {N1, N2}
  NodeTTL = 2
  Incarnations = {I1, I2, I3}
  Workers = {W0, W1, W2, W3}
  Manifest <- MCManifest
  Roots = {R1}
  Identities = {A, B}
  ActivationWindow = 1
  MaxFreshActivations = 2
  Lag = 1
  MaxClock = 3
SYMMETRY Symmetry
CHECK_DEADLOCK FALSE
INVARIANTS
  NodeTypeOK
  PointerAgrees
  NothingOutlivesItsIncarnation
  ActivationQuota
PROPERTIES
  NotDeclaredDeadEarly
  EndsAreFinal
