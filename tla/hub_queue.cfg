SPECIFICATION Spec

CONSTANTS
  MaxSession = 2
  Waker = {}
  Request = {r1}
  MaxCmd = 2
  Kinds = {"set_scenes", "asset_put"}
  Timed = {"asset_put"}
  Superseding = {"set_scenes"}
  Epochs <- MCEpochs
  Verdicts = {TRUE, FALSE}
  MaxBuffered = 2
  MaxFaults = 1
  MaxAborts = 0
  MaxCrashes = 0
  MaxIdleWakes = 0
  MayRevoke = FALSE

INVARIANT TypeOK
INVARIANT SupersededHasSuccessor
INVARIANT OneLiveSocket
INVARIANT VerdictMeansExecuted
PROPERTY SettledIsFinal
PROPERTY NeverRollBack
PROPERTY ContractHolds
CHECK_DEADLOCK FALSE
