\* The three scenes of tickets and leases.
SPECIFICATION ScenesSpec
CONSTANTS
  W1 = W1
  W2 = W2
  Transcode = Transcode
  Probe = Probe
  D = D
  Workers = {W1, W2}
  WorkerKind <- MCWorkerKind
  KnownKinds = {Transcode, Probe}
  CustomKinds = {}
  TranscodeVideo = Transcode
  Devices = {D}
  NoDevice = NoDevice
  CapabilityRows <- MCCapabilityRows
  GrantRows <- MCGrantRows
  MaxRows = 1
  Jobs = {J}
  None = None
  Tickets = {T1, T2, T3, T4}
  TicketKinds <- MCTicketKinds
  MaxAttemptsChoices = {1, 3}
  LeaseIds = {1, 2, 3, 4}
  TTLs = {1, 2}
  BackoffBase = 1
  BackoffCap = 1
  LeaseBatchLimit = 1
  Horizon = 0
  Lag = 1
  MaxClock = 3
SYMMETRY Symmetry
CHECK_DEADLOCK FALSE
INVARIANTS
  DependenciesFirst
  NoDependencyCycle
  TypeOK
  ReadyNotStranded
  LeasesWithinBudget
  OneSuccessfulLease
  IssueIffFailed
  DeviceNotOversubscribed
PROPERTIES
  LastBlockerPromotes
  DeadlineHonoured
  TerminalIsFinal
  WorkerLimitRespected
