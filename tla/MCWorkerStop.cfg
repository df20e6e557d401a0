SPECIFICATION StopSpec
CONSTANTS
  Commands = 2
  AbsoluteLimit = 1
  IdleLimit = 1
  MaxLines = 1
  Emitters = {1}
  Handler = 1
  Capacity = 1
  MaxEvents = 2
CHECK_DEADLOCK FALSE
INVARIANTS
  PermitsAreAccounted
  CleanFlushMissesNothing
PROPERTIES
  CancelWasAsked
  CommandEnds
