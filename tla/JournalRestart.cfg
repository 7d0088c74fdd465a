SPECIFICATION Spec
CONSTANTS
  buy = buy
  sell = sell
  other = other
  Command <- MCCommand
  SymbolOf <- MCSymbolOf
  NoCommand = NoCommand
  MaxCommands = 2
  MaxRestarts = 1
INVARIANTS JournalContiguous
CHECK_DEADLOCK FALSE
