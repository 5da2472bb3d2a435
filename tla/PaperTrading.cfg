SPECIFICATION SuiteSpec
CONSTANTS
  btc = btc
  eth = eth
  sol = sol
  Pairs = {btc, eth, sol}
  Modes = {"strategy", "manager"}
  Maker = TRUE
  Bids <- MCBids
  Sizes = {2}
  Capital = 6
  Den = 4
  Taker = 1
  Passive = 1
  MaxPosition = 4
  MaxOpen = 2
  MaxOrders = 2
  MaxDecisions = 3
  TornCrash = FALSE
  MaxCrashes = 1
  BtPairs = {b1, b2}
  Lots = 2
  MaxLots = 2
  MaxSteps = 2
  MaxRows = 3
  Idr = idr
  Coins = {xrp}
  AgentOwns <- MCAgent
  SkillsBook <- MCBook
  Spare <- MCSpare
  Buffer <- MCBuffer
  MaxTrades = 2
  Quiet = TRUE
INVARIANTS Types  CountsBounded BooksAgree 
PROPERTIES BuysWithinLimits SellsSettleFirst StopsOnlyRise
SYMMETRY PairSymmetry
