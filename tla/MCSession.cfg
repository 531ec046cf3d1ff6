\* The compositor is replaced, before or after it dies; the app may die, the
\* daemon may be killed.
SPECIFICATION FairSession
CONSTANTS
  ConsumerConn = {c1}
  ProducerConn = {p1, p2}
  Addr = {a1, a2, a3}
  Screen = {s1}
  NULL = NULL
  FdCount = {5}
  MAX_FDS = 5
  Faults = {"kill"}
  MaxHello = 5
  StrayFds = {}
  MaxQueue = 2
  Mortal = {p1, c1}
  MaxLate = 1
INVARIANTS
  ChannelsExclusive
  ProducerActiveLast
PROPERTIES
  SessionForms
CHECK_DEADLOCK FALSE
