CONSTANTS
  j1 = j1
  j2 = j2
  Slots = {j1}
  NoTarget = NoTarget
  Modes = {"MONITORING"}
  MaxTries = 1
  MaxFaults = 1
  MaxSessions = 2
  MaxRestarts = 1
  MaxPrepares = 1
SPECIFICATION MaintenanceSpec
INVARIANTS
  MaintenanceTypeOK
  
  

  
CHECK_DEADLOCK FALSE
