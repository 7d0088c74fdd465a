SPECIFICATION FairSpec
CONSTANTS
  OrderId = {o1, o2}
  ClientId = {c1, c2}
  SymbolId = {here}
  Symbol = here
  NoTaker = NoTaker
  NoBand = NoBand
  NoRequest = NoRequest
  Capacity = 2
  QuantityModulus = 4
  MaxOrderQuantity = 1
  MaxAbsPosition = 1
  MaxOpenNotional = 2
  Policies = {"None"}
  Requests <- MCRequests
  Cancels <- MCCancels
  Replaces <- MCReplaces
  Bands <- MCBands
PROPERTIES RequestsAnswered
CHECK_DEADLOCK FALSE
