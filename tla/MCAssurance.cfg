CONSTANTS
  w1 = w1
  w2 = w2
  Workers = {w1, w2}
  NoWorker = nobody
  LastRun = 2
  LastDetector = 1
  Targets = {1, 2}
  PageSize = 1
  MaxAttempts = 2
  Verdicts = {"RESOLVED", "FALSE_POSITIVE"}
  MaxFaults = 1
  MaxChanges = 1
  MaxVerdicts = 1
SPECIFICATION FairSpec
INVARIANTS
  CompletedKeptAll
  FindingsAgree
PROPERTIES
  RunsEnd
  LatestLeaseWrites
CHECK_DEADLOCK FALSE
