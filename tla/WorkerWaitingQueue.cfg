CONSTANTS
  j1 = j1
  j2 = j2
  Slots <- TwoSlots
  NoTarget = NoTarget
  Modes = {"WAITING_QUEUE"}
  MaxTries = 1
  MaxFaults = 0
  MaxSessions = 2
SPECIFICATION Spec
INVARIANTS
  WaitingQueueAttended
CHECK_DEADLOCK FALSE
