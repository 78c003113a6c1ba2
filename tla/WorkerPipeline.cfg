CONSTANTS
  j1 = j1
  j2 = j2
  Slots <- TwoSlots
  NoTarget = NoTarget
  Modes = {"MONITORING", "WAITING_QUEUE"}
  MaxTries = 2
  MaxFaults = 2
  MaxSessions = 2
SPECIFICATION Spec
SYMMETRY JobSymmetry
INVARIANTS
  TypeOK
  MonitoringAttended
  BookingBegunOnce
  CompletedIsConfirmed
PROPERTIES
  HandoffAwaitsPayment
CHECK_DEADLOCK FALSE
