SPECIFICATION FairSpec
CONSTANTS
  Coins = {btc_idr, eth_idr}
  Lots = 2
  Weekly = 2
  Valid = 1
  MaxLag = 1
  Failures = {"late", "restart", "torn"}
INVARIANT Affordable
PROPERTIES BuysFollowTrend   ExitsHappen
