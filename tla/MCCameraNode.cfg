CONSTANTS
  NumCam = 1
  MaxSessions = 2
  MaxRestarts = 1
  MaxMapFails = 1
  Unread = 2
  NONE = NONE
SPECIFICATION NodeFairSpec
INVARIANT RecordingHeard
PROPERTIES CamerasReturn
CHECK_DEADLOCK FALSE
