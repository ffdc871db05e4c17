\* Two workers contend for two tickets and crash holding leases; expiry takes
\* one lease per pass.
SPECIFICATION CrashSpec
CONSTANTS
  W1 = W1
  W2 = W2
  Transcode = Transcode
  Probe = Probe
  D = D
  Workers = {W1, W2}
  WorkerKind <- MCWorkerKind
  KnownKinds = {Transcode, Probe}
  CustomKinds = {}
  TranscodeVideo = Transcode
  Devices = {D}
  NoDevice = NoDevice
  CapabilityRows <- MCCapabilityRows
  GrantRows <- MCGrantRows
  MaxRows = 1
  Jobs = {}
  None = None
  Tickets = {T1, T2}
  TicketKinds <- MCTicketKinds
  MaxAttemptsChoices = {2}
  LeaseIds = {1, 2, 3}
  TTLs = {1}
  BackoffBase = 1
  BackoffCap = 0
  LeaseBatchLimit = 1
  Horizon = 3
  Lag = 0
  MaxClock = 4
CHECK_DEADLOCK FALSE
INVARIANT LeasedIffHeldOnce
PROPERTIES
  ImplementsQueue
  LeasesSettle
