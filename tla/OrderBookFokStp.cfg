SPECIFICATION Spec
CONSTANTS
  OrderId = {o1, o2, o3}
  ClientId = {c1, c2}
  SymbolId = {here, elsewhere}
  Symbol = here
  NoTaker = NoTaker
  Capacity = 3
  QuantityModulus = 4
  MaxQuantity = 2
  MaxPrice = 2
  Types = {"Limit", "FOK"}
  Policies = {"None", "CancelNewest", "CancelOldest", "CancelBoth"}
  Requests <- MCRequests
  Cancels <- MCCancels
  Replaces <- MCReplaces
SYMMETRY Symmetric
PROPERTIES FillOrKillAlways
