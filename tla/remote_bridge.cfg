SPECIFICATION Spec

CONSTANTS
  Cmd <- MCCmd
  Proc = {"web", "worker"}
  By <- MCBy
  Reads = {1, 2}
  Shells = {3}
  MaxConn = 2
  MaxTimeouts = 1

INVARIANT TypeOK
INVARIANT AtMostOnce
INVARIANT OkMeansExecuted
INVARIANT BytesCrossOnlyUnlocked
INVARIANT NoJobVanishes
CHECK_DEADLOCK FALSE
