CONSTANTS
  f1 = f1
  f2 = f2
  e1 = e1
  e2 = e2
  Facts = {f1, f2}
  Sources = {e1, e2}
  NoFact = nofact
  Supports <- MCSupports
  Windows <- MCWindows
  i1 = i1
  Items = {i1}
  Home = v1
  Others = {v2}
  MaxSeq = 3
  MaxTime = 1
SPECIFICATION Spec
INVARIANTS
  StrictAnswerIsOneCut
  SupportsAgree
PROPERTIES
  PastIsStable
  RemovedIsInvalid
CHECK_DEADLOCK FALSE
CONSTRAINT QueriesApart
