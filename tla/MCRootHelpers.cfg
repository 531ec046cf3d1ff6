\* Two sessions, two nodes, one stall; two bridges in two windows.
CONSTANTS
  Node = {n1, n2}
  MaxSessions = 2
  NULL = NULL
  Window = {w1, w2}
  Boxed = {w1}
  Control = {a}
  Finger = {f1, f2}
  MaxBridges = 2
  NoOne = NoOne
  Plans <- MCPlans
  init = init
  systemd = systemd
  kwin = kwin
  konsole = konsole
  p1 = p1
  p2 = p2
  Proc = {init, systemd, kwin, konsole, p1, p2}
  Producer = kwin
  Reapers = {init, systemd}
  Family <- MCFamily
  Confs <- MCConfs
  MaxPids = 6
  Host = Host
SPECIFICATION FairSpec
INVARIANTS NobodyLeft PadObeys TreeMoved
PROPERTIES EndsForBoth
CHECK_DEADLOCK FALSE
