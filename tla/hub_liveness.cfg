SPECIFICATION FairSpec

CONSTANTS
  MaxSession = 2
  Waker = {w1}
  Request = {r1}
  MaxCmd = 1
  Kinds = {"set_scenes"}
  Timed = {}
  Superseding = {"set_scenes"}
  Epochs <- MCEpochs
  Verdicts = {TRUE}
  MaxBuffered = 1
  MaxFaults = 0
  MaxAborts = 1
  MaxCrashes = 1
  MaxIdleWakes = 1
  MayRevoke = TRUE

PROPERTY EveryCommandSettles
PROPERTY RevokedGoesDark
CHECK_DEADLOCK FALSE
