SPECIFICATION LocksAndPortsSpec
CONSTANTS
  Bins = {"b1", "b2"}
  Boards = {"k1", "k2"}
  LockCount = 48
  LockOf <- EdgeLocks
  BoardNumber <- Numbers
  PortScans <- SmallScans
  Layouts <- SmallLayouts
  SlowBoards = {"k2"}
  MaxCalls = 2
  MaxTrouble = 1
  MaxRetries = 1
  Paths = {"p1", "p2", "ttyS0"}
  MakerOf <- Makers
  Unknown = "unknown"
  SystemPaths = {"ttyS0"}
  ExcludedPaths = {}
  IncludeSystem = FALSE
  IncludeMakers = {"m1", "m2"}
  ExcludeMakers = {"m2"}
  Changes = 3
  Troubles = 1

CHECK_DEADLOCK FALSE
INVARIANTS
  LocksAndPortsTypeOK
  OpenIsAttended
  BooksFollowLock
  OpenIsTracked
PROPERTIES
  ShutIsBooked
  PluggedIsOpened
