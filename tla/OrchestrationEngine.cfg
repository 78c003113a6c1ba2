CONSTANTS
  e1 = e1
  e2 = e2
  e3 = e3
  Execs <- MCExecs
  NoCheckpoint = NoCheckpoint
  MaxCalls = 2
SPECIFICATION Spec
SYMMETRY ExecSymmetry
INVARIANTS
  TypeOK
  BookingBegunOnce
  CallsFitStatus
PROPERTIES
  ImplementsLifecycle
