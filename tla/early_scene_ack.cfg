SPECIFICATION Spec

CONSTANTS
  Kinds <- MCSeed
  MaxEvents = 3
  Capacity = 1
  CrashLimit = 2
  ContextLimit = 0
  MaxBoots = 2
  FaultKinds = {}
  MaxFaults = 0

INVARIANT ReportedIsLive
CHECK_DEADLOCK FALSE
