SPECIFICATION ShareSpec
CONSTANTS
  Idr = idr
  Coins = {btc}
  AgentOwns <- MCAgent
  SkillsBook <- MCBook
  Spare <- MCSpare
  Buffer <- MCBuffer
  MaxTrades = 2
  Quiet = FALSE
INVARIANT AgentCovered
