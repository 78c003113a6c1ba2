CONSTANTS
  c1 = c1
  c2 = c2
  c3 = c3
  p1 = p1
  p2 = p2
  Calls <- MCCalls
  Procs <- MCProcs
  ProcOf <- MCProcOf
  NoCall = NoCall
  Ttl = 3
  HeartbeatInterval = 2
  MaxFaults = 1
SPECIFICATION Spec
INVARIANTS
  OwnerHeartbeats
CHECK_DEADLOCK FALSE
