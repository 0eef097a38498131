\* Two processes, two calls, one slot; everything may go wrong.
\* When both processes are dead nothing happens any more.
CHECK_DEADLOCK FALSE
SPECIFICATION FairSpec
CONSTANTS
  p1 = p1
  p2 = p2
  c1 = c1
  c2 = c2
  NoCall = NoCall
  NoProc = NoProc
  Procs <- TwoProcs
  Born <- MCBorn
  Calls <- TwoCalls
  ProcOf <- MCProcOf
  Limit = 1
  Retries = 1
  Faults = {"elect", "lock", "take", "drop", "renew", "pid"}
INVARIANTS
  OwnsUntilLapsed
PROPERTIES
  ElderRespected
  SurvivorServed
  SlotReclaimed
