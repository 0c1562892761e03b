SPECIFICATION Spec

CONSTANTS
  Kinds <- MCFileKinds
  MaxEvents = 3
  Capacity = 1
  CrashLimit = 2
  ContextLimit = 0
  MaxBoots = 2
  FaultKinds = {"init"}
  MaxFaults = 1

INVARIANT FieldIsRestored
CHECK_DEADLOCK FALSE
