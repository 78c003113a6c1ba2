SPECIFICATION Spec
CONSTANTS
  Viewers = {v1, v2}
  MaxSignals = 1
  MaxStarts = 2
  MaxCount = 2
  MaxFaults = 1
INVARIANT TypeOK
PROPERTIES
  
  CastEndsUnwatched
  ClosedIsSeen
