SPECIFICATION FairSpec
CONSTANTS
  r1 = r1 r2 = r2 a1 = a1 a2 = a2 p1 = p1 p2 = p2
  Requests = {p1, p2}
  NoRequest = NoRequest
  Reviews = {r1, r2}
  Reviewers = {a1}
  MinimumApprovals <- OneApproval
  MaxDrafts = 1
  MaxRounds = 1
  Faults = {"crash", "fail"}
  MaxFaults = 1
INVARIANTS
  RowsAndGitAgree
PROPERTIES
  IntentSettles
CHECK_DEADLOCK FALSE
