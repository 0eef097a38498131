SPECIFICATION FairSpec
CONSTANTS
  w1 = w1
  w2 = w2
  Runners <- TwoRunners
  Expected = 2
  Held = 1
  MaxFaults = 1
  Free = Free
INVARIANTS AppliedOnce LedgerAgrees NothingSkipped
PROPERTIES FillsApplied JournalRepaired
