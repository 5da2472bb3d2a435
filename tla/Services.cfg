SPECIFICATION SuiteSpec
CONSTANTS
  Grace = 6
  Window = 2
  MaxDelay = 3
  Horizon = 10
  Callers = {cycle, watch}
  MaxCalls = 2
  Period = 2
  MaxRetries = 1
  RecvWindow = 1
  MaxOps = 2
  LastTick = 3
  Pairs = {btc_idr, eth_idr}
  Heartbeat = 2
  Countdown = 8
  FailThreshold = 2
  AttemptTime = 1
  BeatTime = 1
  StartTime = 1
  EntryTime = 1
  Realert = 2
  Troubled = {"stale", "skills"}
  LastRun = 4
  Threshold = 3
  MaxInbox = 2
  LastLife = 2
  Signalled = {btc}
  Writers = {first, job}
  LastPlan = 1
  LastDate = 1
  MaxDeaths = 1
  Capitals = {2, 3}
  MaxLoss = 1
  LastEntry = 1
  MayCut = TRUE
  PriceTick = 2
  LotSize = 3
  MinQuote = 1001
  MinBase = 4
  Reserve = 20
  BestBids = {40, 42, 44}
  Budget = 400
  Trails = {30, 35, 50}
  Ranges = {5, 16, 50}
  Rooms = {1500, 2500}
  ExitSlip = 1
  Fetchers = {first, job}
  Duration = 3
  Lookback = 2
  ChunkSpan = 5
  ServerSpan = 6
  Lags = {0, 1}
  LastMoment = 7
SYMMETRY Tasks
INVARIANTS Types RejectedStaysOut WindowBounded OneOrderPerCall CancelledIsGone   PassedIsClean CommandsAreFresh NoneTwiceNoneSkipped CapitalIsNoLoss FeedIsExact
PROPERTIES AlertsRepeat 
