\* Three buffers, a compositor that is slow, killed, or idle.
CONSTANTS
  BufCount = 3
  Region = {left, right}
  NoBuffer = NoBuffer
  MaxDamage = 2
  MaxFaults = 2
SPECIFICATION LoopFairSpec
INVARIANTS Lockstep
PROPERTIES HandedFresh LoopLives
