\* Threads of one consumer: producer lost, frame late, service requested.
CONSTANTS
  Input = {i1}
  Service = {camera}
  Fd = {n1}
  NULL = NULL
  MaxFaults = 1
  MaxEvents = 1
SPECIFICATION FairSpec
INVARIANTS DepositAnswered ResourcesWhole
PROPERTIES ThreadsReturn
CHECK_DEADLOCK FALSE
