\* Two consumer processes and a producer; complete and short deposits; the
\* daemon stops, is killed and comes back.
SPECIFICATION Spec
CONSTANTS
  ConsumerConn = {c1, c2}
  ProducerConn = {p1}
  Addr = {a1, a2, a3}
  Screen = {s1}
  NULL = NULL
  FdCount = {4, 5}
  MAX_FDS = 5
  Faults = {"foreign", "stop", "kill"}
  MaxHello = 1
  StrayFds = {x1}
  MaxQueue = 1
SYMMETRY Symmetry
INVARIANTS
  TypeOK
  RolesOwnStructs
  EventsReachTheirClient
  FdsAccounted
  NoMissedHandOver
PROPERTIES
  NoStaleHandOver
  ConsumerToldOnce
  ScreenToldOnce
  ImplementsRendezvous
CHECK_DEADLOCK FALSE
