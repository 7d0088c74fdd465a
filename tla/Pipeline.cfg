SPECIFICATION FairSpec
CONSTANTS
  Capacity = 3
  MaxSubmits = 5
  Stop = Stop
  NoCommand = NoCommand
INVARIANTS NoSlotRace ExecutedInOrder
PROPERTIES StopDrains StopReturns AcceptedIsExecuted
