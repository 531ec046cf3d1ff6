\* Two sessions, of one producer or of two, and two things that go wrong or change.
CONSTANTS
  MaxSessions = 2
  MaxEvents = 2
  Room = 1
  NULL = NULL
SPECIFICATION FairSpec
PROPERTIES FormatsAgree StreamsFollow
CHECK_DEADLOCK FALSE
