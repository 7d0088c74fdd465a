SPECIFICATION Spec
CONSTANTS
  OrderId = {o1, o2, o3, o4}
  LevelKey = {k1, k2}
  Capacity = 4
  Nil = Nil
  NoId = NoId
  NoLevel = NoLevel
INVARIANTS Represents PoolPartitioned
PROPERTIES ImplementsQueues
