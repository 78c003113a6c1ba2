CONSTANTS
  j1 = j1
  j2 = j2
  Slots = {j1}
  NoTarget = NoTarget
  Modes = {"MONITORING"}
  MaxTries = 1
  MaxFaults = 1
  MaxSessions = 2
  MaxRestarts = 1
  MaxPrepares = 0
SPECIFICATION MaintenanceFairSpec
PROPERTIES
  
  StuckLoginIsFlagged
  PaymentIsHandedOver
CHECK_DEADLOCK FALSE
