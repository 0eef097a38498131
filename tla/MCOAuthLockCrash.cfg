\* Is the work still serialized after a directory was left behind?
\* All processes may be dead, so behaviours may stop.
CHECK_DEADLOCK FALSE
SPECIFICATION Spec
CONSTANTS
  p1 = p1
  p2 = p2
  p3 = p3
  NoProc = NoProc
  Procs <- ThreeProcs
INVARIANTS
  Serialized
