SPECIFICATION Spec
CONSTANTS
  Buys = {b1}
  Sells = {s1}
  StopExits = {s1}
  MakerExits = {}
  Pairs = {btc}
  PairOf <- MCPairOf
  Qty <- MCQty
  Step = 1
  Overlap = TRUE
  TornCrash = TRUE
  MaxCrashes = 1
  b1 = b1
  s1 = s1
  btc = btc
INVARIANTS RejectedNeverLive ClosedRowIsClosed 
PROPERTY SellStandsAlone
