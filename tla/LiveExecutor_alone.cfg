SPECIFICATION Spec
CONSTANTS
  Buys = {b1}
  Sells = {s1,s2}
  StopExits = {s1}
  MakerExits = {s2}
  Pairs = {btc}
  PairOf <- MCPairOf
  Qty <- MCQty
  Step = 2
  Overlap = FALSE
  TornCrash = FALSE
  MaxCrashes = 1
  b1 = b1
  s1 = s1
  s2 = s2
  btc = btc
INVARIANTS SellsOnlyItsOwn ProtectionKept
PROPERTY BooksExactlyOnce
