SPECIFICATION Spec
CONSTANTS
  Conns = {c1, c2}
  ClOrdIds = {a, b}
  MaxSeq = 3
  MaxReads = 4
  MaxCrashes = 1
INVARIANTS HandledInOrder SavedCoversOutbox OneOrderPerClOrdID
SYMMETRY Symmetry
CHECK_DEADLOCK FALSE
