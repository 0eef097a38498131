\* Two calls of one team, faults anywhere.
\* Every call ends settled, so behaviours may stop.
CHECK_DEADLOCK FALSE
SPECIFICATION FairSpec
CONSTANTS
  c1 = c1
  c2 = c2
  NoCall = NoCall
  Calls <- TwoCalls
  Scopes <- MCScopes
  ScopesOf <- MCScopesOf
  Limit <- MCLimit
INVARIANTS
  OwnsUntilLapsed
  CleanSettlement
PROPERTIES
  LostLeaseNoticed
  AcquireAnswers
  ScopePools
