\* Two windows, one camera: frames, restarts, a lost producer, a closed window.
CONSTANTS
  Client = {c1, c2}
  Mortal = {c1}
  NULL = NULL
  MaxFrames = 3
  MaxSwitches = 2
  MaxLosses = 1
  MaxFailures = 1
  Room = 2
SPECIFICATION FairSpec
INVARIANTS NoOverwrite NoUseAfterFree
PROPERTIES CameraReturns
CHECK_DEADLOCK FALSE
