SPECIFICATION Spec
CONSTANTS
  r1 = r1 r2 = r2 a1 = a1 a2 = a2 p1 = p1 p2 = p2
  Requests = {p1, p2}
  NoRequest = NoRequest
  Reviews = {r1}
  Reviewers = {a1}
  MinimumApprovals <- OneApproval
  MaxDrafts = 2
  MaxRounds = 2
  Faults = {}
  MaxFaults = 0
INVARIANTS
  MainIsReviewed
CHECK_DEADLOCK FALSE
