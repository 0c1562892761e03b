SPECIFICATION Spec

CONSTANTS
  MaxSession = 2
  Waker = {}
  Request = {r1}
  MaxCmd = 2
  Kinds = {"asset_put"}
  Timed = {"asset_put"}
  Superseding = {}
  Epochs <- MCEpochs
  Verdicts = {TRUE}
  MaxBuffered = 2
  MaxFaults = 1
  MaxAborts = 0
  MaxCrashes = 0
  MaxIdleWakes = 0
  MayRevoke = FALSE

INVARIANT UnackedStaysQueued
CHECK_DEADLOCK FALSE
