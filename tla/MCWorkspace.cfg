CONSTANTS
  Keys <- WorkKeys
  Principals = {p1, p2}
  Nobody = nobody
  Requests = {r1, r2}
  NoRequest = none
  Lease = 2
  MaxTime = 2
  MaxToken <- Tokens
SPECIFICATION FairSpec
INVARIANTS
  OverlapNeedsLateRenewal
  RowsAgree
PROPERTIES
  FencesAdvance
  RequestsEnd
CHECK_DEADLOCK FALSE
