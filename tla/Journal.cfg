SPECIFICATION Spec
CONSTANTS
  buy = buy
  sell = sell
  other = other
  Command <- MCCommand
  SymbolOf <- MCSymbolOf
  NoCommand = NoCommand
  MaxCommands = 3
  MaxRestarts = 1
SYMMETRY MCSymmetry
INVARIANTS WriteAhead ReplaysOneProcess SnapshotWhole
CHECK_DEADLOCK FALSE
