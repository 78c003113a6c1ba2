CONSTANTS
  c1 = c1
  c2 = c2
  c3 = c3
  p1 = p1
  p2 = p2
  Calls <- MCCalls
  Procs <- MCProcs
  ProcOf <- MCProcOf
  NoCall = NoCall
  Ttl = 3
  HeartbeatInterval = 2
  MaxFaults = 1
SPECIFICATION FairSpec
INVARIANTS
  TypeOK
  HeldWhileRunning
  NoOrphanTimer
PROPERTIES
  KeyTouchedByOwnerOnly
  ImplementsMutex
  AbandonedKeyFreed
  LossIsHeard
CHECK_DEADLOCK FALSE
