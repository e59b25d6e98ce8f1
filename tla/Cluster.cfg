SPECIFICATION CSpec
CONSTANTS
  m1 = m1
  m2 = m2
  Nodes = {m1, m2}
  Cabled <- EveryTwo
  MaxFlight = 1
  MaxInfo = 4
  Threads = {1, 2}
  Names = {"master", "admin", "admin-2"}
  GoogleNames <- AdminOrNext
  Passwords = {1, 2}
  Overridable = {"users:update"}
  MaxFailures = 1
  MaxRequests = 3
  Instances = {1, 2}
  LinkIds = {1, 2}
  Model <- OneModel
  MaxCommands = 3
  MaxUnderway = 2
  RequestIds = {1, 2, 3, 4}
  Servers = {1, 2}
  Serves <- TwoAndOne
  MaxConcurrency <- TwoAndOneAtATime
  QueueSize = 2
  QueueTimeout = 2
  Cooldown = 1
  MaxTime = 3
  Followed = {1}
  Models = {"b", "c"}
  Builtin = {"b"}
  MaxWishes = 2
  MaxLoads = 1
  MaxFaults = 1
  Peers = {"p", "b"}
  Addrs = {1}
  Bootstrap = {"b"}
  MaxConns = 2
  MaxPending = 4
  MaxChanges = 3
  Apis = {"a1", "a2"}
  Workers = {"w1"}
  Requests = {"r1", "r2", "r3"}
  Images = {"x", "y"}
  Size <- TwoAndOneChunks
  MaxSession = 1
  Uploads <- Shared
  Sizes <- TwoSessions
  CacheSize = 2
  MaxArchives = 1
SYMMETRY Interchangeable
INVARIANTS  PlacementIsSound ImagesArrive CardsReconciled ModelsStayUsable  
CHECK_DEADLOCK FALSE
