SPECIFICATION Spec
CONSTANTS
  u1 = u1 u2 = u2
  Units = {u1, u2}
  Edited = {u1}
  Worker = Worker
  Operator = Operator
  MaxRevisions = 2
  MaxChanges = 1
  MaxRebuilds = 1
  Faults = {"crash", "error", "abort"}
  MaxFaults = 1
INVARIANTS
  VectorsAgree PendingIsOwned
PROPERTIES
  SearchStays
CHECK_DEADLOCK FALSE
