SPECIFICATION Spec

CONSTANTS
  MaxSession = 2
  Waker = {w1}
  Request = {r1}
  MaxCmd = 0
  Kinds = {"set_scenes"}
  Timed = {}
  Superseding = {"set_scenes"}
  Epochs <- MCEpochs
  Verdicts = {TRUE}
  MaxBuffered = 2
  MaxFaults = 1
  MaxAborts = 0
  MaxCrashes = 0
  MaxIdleWakes = 0
  MayRevoke = FALSE

INVARIANT OnlineMatchesLive
CHECK_DEADLOCK FALSE
