SPECIFICATION FairSpec
CONSTANTS
  Calls = {1, 2, 3}
  Ids = {1, 2, 3}
  Numberings <- MCNumberings
  DispatchCapacity = 2
  MaxEntries = 2
  HandlerCapacity = 2
  ActiveCapacity = 2
  ExecutionCapacity = 1
CHECK_DEADLOCK FALSE
INVARIANTS
  WorkBounded
  ReservedUntilAnswered
  NoLostWake
PROPERTIES
  EverythingReturns
