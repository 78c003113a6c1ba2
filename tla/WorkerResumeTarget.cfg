CONSTANTS
  j1 = j1
  j2 = j2
  Slots <- TwoSlots
  NoTarget = NoTarget
  Modes = {"MONITORING"}
  MaxTries = 1
  MaxFaults = 0
  MaxSessions = 2
SPECIFICATION Spec
PROPERTIES
  ResumesWhereRecorded
CHECK_DEADLOCK FALSE
