SPECIFICATION FairSpec
CONSTANTS
  j1 = j1 w1 = w1 w2 = w2
  Jobs = {j1}
  Workers = {w1, w2}
  NoWorker = NoWorker
  MaxAttempts = 1
  Decisions = {"APPROVE", "REJECT", "REQUEST_CHANGES"}
  MaxReviews = 2
  MaxReopenings = 1
  Faults = {"crash", "stall", "lost", "drop"}
  MaxFaults = 1
INVARIANTS
  JobsAgree
  OneOutcomePerClaim
  FailuresCounted
PROPERTIES
  CompletedIsFinal
  IngestSettles
CHECK_DEADLOCK FALSE
