SPECIFICATION Spec
CONSTANTS
  Keys = {"k1", "k2"}
  Workers = {w1, w2}
  Cost = 2
  Burst = 3
  SweepInterval = 2
  MaxNow = 3
  MaxRequests = 3
  NoKey = NoKey
  Starters = {a1, a2}
  Stoppers = {b1, b2}
  Checks = {c1, c2}
  MaxFlips = 2
  MaxRetries = 4
  Waits = {0, 1, 3}
  Caps = {NoCap, 2, 20}
  NoCap = NoCap
  MaxU32 = 7
  MaxDuration = 20
  Ids = {1, 2}
  Vectors <- VectorsDef
  NaN = NaN
  TopKs = {0, 1, 2}
  Tree <- TreeDef
  Dirs = {"d", "e"}
  Root = "/"
  MaxChanges = 2
  Size = 3
  MaxCalls = 3
  MaxVersions = 2
  Bodies <- BodiesDef
  Capacity = 1
  MaxBuffered = 3
  EmbedModels = {1, 2, 3}
  FallbackDepth = 1
  MaxReloads = 1
  Requests = {r1, r2}
  Stacks <- StacksDef
  failure_threshold = 2
  success_threshold = 3
  max_half_open = 2
  timeout = 2
  Callers = {d1, d2, d3, d4}
  CallersMayAbandon = TRUE
CHECK_DEADLOCK FALSE
INVARIANTS
    BreakerSound
    LimiterSound
    
    
    EmbedsHonest
    LayersUnwind
PROPERTIES
    BreakerMoves
    ImplementsTokenBucket
    ServerStops
    ProbesHonest
    StoreSound
    
    StreamWhole
