SPECIFICATION Spec
CONSTANTS
  OrderId = {o1, o2, o3, o4}
  ClientId = {c1, c2}
  SymbolId = {here, elsewhere}
  Symbol = here
  NoTaker = NoTaker
  Capacity = 3
  QuantityModulus = 4
  MaxQuantity = 3
  MaxPrice = 2
  Types = {"Limit", "Market", "IOC", "FOK", "PostOnly"}
  Policies = {"None", "CancelNewest", "CancelOldest", "CancelBoth"}
  Requests <- MCRequests
  Cancels <- MCCancels
  Replaces <- MCReplaces
SYMMETRY Symmetric
VIEW BookView
INVARIANTS TypeOK IndexConsistent NotCrossed LevelTotals MirrorExact SlotForTaker
PROPERTIES PriceTimePriority PlaceKept FillOrKill SelfTradePrevented
