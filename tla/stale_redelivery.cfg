SPECIFICATION Spec

CONSTANTS
  MaxSession = 1
  Waker = {w1}
  Request = {r1, r2}
  MaxCmd = 2
  Kinds = {"set_scenes"}
  Timed = {}
  Superseding = {"set_scenes"}
  Epochs <- MCEpochs
  Verdicts = {TRUE}
  MaxBuffered = 2
  MaxFaults = 1
  MaxAborts = 0
  MaxCrashes = 0
  MaxIdleWakes = 0
  MayRevoke = FALSE

PROPERTY NeverRollBack
CHECK_DEADLOCK FALSE
