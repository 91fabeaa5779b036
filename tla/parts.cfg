SPECIFICATION PartsSpec
CONSTANTS
  Requests = {r1, r2}
  Listeners = {"l1"}
  MaxConns = 2
  MaxAttempts = 2
  BufferSize = 2
  MaxBuffer = 3
  Options <- SomeBuffers
  MaxFaults = 1
  End = "End"
  Ports = {"p1", "p2"}
  Cells = {1, 2}
  CellsAt <- BothOnOne
  ComIds = {0, 1}
  Clients = {w1, w2}
  Runs = {1, 2}
  MaxMishaps = 2
  Devices = {1, 2}
  Timeout = 2
  Interval = 2
  Lifetime = 7
  MaxCalls = 2
  Hardware = {1, 2}
  Items = {"i1", "i2"}
  MaxOf <- OneWithMax
  Admins = {"a1", "a2"}
  Weighers = {"w1"}
  NoItem = "none"
  MaxRequests = 3
  Jobs = {1, 2, 3}
  Places = {"p1", "p2", "p3"}
  ItemAt <- TwoOfOne
  Worklists <- SmallWorklists
  Loans <- SmallLoans
  Syncs = {1, 2}
  Rows = {"row1", "row2"}
  PageOf <- OnePerPage
  SitesOf <- SomeSites
  LastPage = 2
  MaxVersion = 2
  MaxSequence = 3
  Machines = 2
  Machine = 1
  Horizon = 3
  Setbacks = 1
  Digits = {"1", "2"}
  Enter = "enter"
  MaxTimers = 2
  MaxKeys = 4
  Hitches = 2
  MaxChildren = 4
  MaxScannerCalls = 2
  Users = {"u1"}
  NoUser = "nobody"
  Clusters = {"c1", "c2"}
  ClustersOf <- EveryCluster
  Tablets = {"t1", "t2"}
  ClusterOf <- OneToEach
  ScanSlots = {1}
  PinSlots = {1, 2}
  MaxSignatures = 2
  MaxUpsets = 2
CHECK_DEADLOCK FALSE
INVARIANTS
  PartsTypeOK
  RequestsServed
  PortsInOrder
  PollingFollowsRooms
  HealthIsTold
  RegistrySound
  
  DamageIsCounted
  SyncedIsComplete
  UsersHaveSites
  UniqueIds
  ScansHeard
  ScannerKept
  LoginsDecided
