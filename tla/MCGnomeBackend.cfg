SPECIFICATION FairSpec
CONSTANTS
  small = small
  large = large
  r60 = r60
  r120 = r120
  Sets = {s1, s2, s3}
  Sizes = {small, large}
  Rates = {r60, r120}
  Screens <- MCScreens
  MaxMishaps = 1
  NULL = NULL
INVARIANT ViewsUsable
PROPERTY FramesFlow
