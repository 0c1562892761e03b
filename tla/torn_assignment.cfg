SPECIFICATION Spec

CONSTANTS
  MaxCmd = 2
  Kinds = {"set_scenes"}
  Timed = {}
  Epochs <- MCEpochs
  Scene = {a, b}
  NoScene = noScene
  Asks <- MCAsks
  MaxRequest = 2
  MaxSession = 1
  MaxBuffered = 2
  MaxFaults = 0
  MaxStates = 0

INVARIANT ListedWasPushed
CHECK_DEADLOCK FALSE
