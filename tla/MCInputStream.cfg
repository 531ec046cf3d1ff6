\* One keyboard and one panel that come and go, two ids.
CONSTANTS
  KeyNode = {kbd}
  TouchNode = {panel}
  Key = {k1}
  Contact = {s0}
  Slot0 = s0
  MaxDevices = 2
  MAX_DROPS = 1
  Capacity = 2
  MaxPosted = 0
  MaxActs = 2
  MaxPlugs = 2
  NULL = NULL
SPECIFICATION FairSpec
INVARIANTS NoStuckKey DevsMatch
PROPERTIES LossReported
CHECK_DEADLOCK FALSE
