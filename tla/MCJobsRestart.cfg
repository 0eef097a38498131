\* One job, no failing statement, one restart: is the requeued job retried?
\* Every job ends finished (or forgotten), so behaviours may stop.
CHECK_DEADLOCK FALSE
SPECIFICATION FairSpec
CONSTANTS
  j1 = j1
  x1 = x1
  x2 = x2
  x3 = x3
  x4 = x4
  NoJob = NoJob
  Jobs <- OneJob
  Runs <- FourRuns
  MaxAttempts = 2
  MaxFaults = 0
  MaxCrashes = 1
PROPERTIES
  RequeuedRetried
