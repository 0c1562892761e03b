SPECIFICATION Spec

CONSTANTS
  Kinds <- MCKinds
  MaxEvents = 3
  Capacity = 2
  CrashLimit = 2
  ContextLimit = 1
  MaxBoots = 2
  FaultKinds = {"write", "init"}
  MaxFaults = 1

INVARIANT TypeOK
INVARIANT NoEventVanishes
INVARIANT CoalescingKeepsLast
INVARIANT NoLostRender
INVARIANT ShownIsCurrent
INVARIANT SavedStateSurvives
INVARIANT RememberedIsCurrent
PROPERTY SafeModeAfterThree
PROPERTY EventIsShown
CHECK_DEADLOCK FALSE
