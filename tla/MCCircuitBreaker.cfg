\* All states of one circuit with three concurrent callers.
SPECIFICATION CircuitFairSpec
CONSTANTS
  k1 = k1
  k2 = k2
  k3 = k3
  Callers <- MCCallers
  Threshold = 2
INVARIANTS
  CountMatchesState
PROPERTIES
  Recovers
