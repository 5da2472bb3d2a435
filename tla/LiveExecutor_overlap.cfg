SPECIFICATION Spec
CONSTANTS
  Buys = {b1}
  Sells = {}
  StopExits = {}
  MakerExits = {}
  Pairs = {btc}
  PairOf <- MCPairOf
  Qty <- MCQty
  Step = 1
  Overlap = TRUE
  TornCrash = FALSE
  MaxCrashes = 0
  b1 = b1
  btc = btc
INVARIANT NeverDoubleCounted
