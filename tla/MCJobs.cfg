\* One job (jobs share nothing but the process), failing statements and a restart.
\* Every job ends finished (or forgotten), so behaviours may stop.
CHECK_DEADLOCK FALSE
SPECIFICATION FairSpec
CONSTANTS
  j1 = j1
  x1 = x1
  x2 = x2
  x3 = x3
  x4 = x4
  NoJob = NoJob
  Jobs <- OneJob
  Runs <- FourRuns
  MaxAttempts = 3
  MaxFaults = 2
  MaxCrashes = 1
INVARIANTS
  OneExecution
  AttemptsCountCalls
  NoOrphan
PROPERTIES
  JobEnds
  OutcomeStands
