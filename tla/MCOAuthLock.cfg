\* Three processes that may die and whose work may be slow, and the janitor.
\* All of them may be dead, so behaviours may stop.
CHECK_DEADLOCK FALSE
SPECIFICATION FairSpec
CONSTANTS
  p1 = p1
  p2 = p2
  p3 = p3
  NoProc = NoProc
  Procs <- ThreeProcs
INVARIANTS
  DirectoryIsTheLock
PROPERTIES
  AcquireEnds
