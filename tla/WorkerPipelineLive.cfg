CONSTANTS
  j1 = j1
  j2 = j2
  Slots <- TwoSlots
  NoTarget = NoTarget
  Modes = {"MONITORING", "WAITING_QUEUE"}
  MaxTries = 2
  MaxFaults = 0
  MaxSessions = 2
SPECIFICATION FairSpec
PROPERTIES
  SlotActedUpon
  HumanCanResume
CHECK_DEADLOCK FALSE
