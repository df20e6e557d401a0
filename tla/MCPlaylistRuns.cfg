SPECIFICATION SpecWithRestarts
CONSTANTS
    w1 = w1
    w2 = w2
    s1 = s1
    s2 = s2
    Nobody = Nobody
    Runs = {1, 2}
    Workers = {w1}
    Sources = {s1, s2}
    MaxAttempts = 2
    MaxChains = 2
    MaxTroubles = 1
CHECK_DEADLOCK FALSE
INVARIANTS
  OneOperation
  
PROPERTIES
  CancelledStays
  RunsEnd
