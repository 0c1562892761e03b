SPECIFICATION Spec

CONSTANTS
  MaxCmd = 2
  Kinds = {"set_scenes"}
  Timed = {}
  Epochs <- MCEpochs
  Scene = {a, b}
  NoScene = noScene
  Asks <- MCAsks
  MaxRequest = 2
  MaxSession = 2
  MaxBuffered = 1
  MaxFaults = 1
  MaxStates = 1

INVARIANT TypeOK
INVARIANT PageTellsTruth
INVARIANT NewestPushWins
CHECK_DEADLOCK FALSE
SYMMETRY MCSymmetry
