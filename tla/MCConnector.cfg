CONSTANTS
  Events <- MCEvents
  NoEvent = noevent
  Objects = {"o", "p"}
  a1 = a1
  a2 = a2
  Senders = {a1, a2}
  w1 = w1
  w2 = w2
  Workers = {w1, w2}
  MaxSeq = 3
  MaxAttempts = 2
  MaxFaults = 2
  MaxSwitches = 2
SPECIFICATION FairSpec
INVARIANTS
  InboxAgrees
PROPERTIES
  ImplementsContract
  NextEventSettles
CHECK_DEADLOCK FALSE
