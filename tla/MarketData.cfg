SPECIFICATION FairSpec
CONSTANTS
  Kinds = {"BINANCE", "KRAKEN", "COINBASE"}
  Price = {1, 2}
  MaxQuantity = 1
  Depth = 1
  SnapshotDepth = 1
  InitialBooks <- MCInitialBooks
  MaxUpdates = 4
  MaxFaults = 2
INVARIANTS BookIsVenueBook
PROPERTIES RefusedOnlyAfterSilent Recovers
CHECK_DEADLOCK FALSE
