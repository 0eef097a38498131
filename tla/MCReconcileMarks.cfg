SPECIFICATION FairSpec
CONSTANTS
  w1 = w1
  w2 = w2
  Runners <- OneRunner
  Expected = 2
  Held = 1
  MaxFaults = 1
  Free = Free
PROPERTIES MarkStands
