\* Two windows, the second one's process a child of the first one's.
SPECIFICATION Spec
CONSTANTS
  w1 = w1
  w2 = w2
  p1 = p1
  p2 = p2
  Win = {w1, w2}
  Proc = {p1, p2}
  Pid <- MCPid
  Tree <- MCTree
  Modes = {1}
  NULL = NULL
  MaxActs = 2
  MaxFaults = 1
  Room = 0
INVARIANTS OverridesApplied WindowsMirrored
CHECK_DEADLOCK FALSE
