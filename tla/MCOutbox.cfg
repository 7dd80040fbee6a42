SPECIFICATION FairSpec
CONSTANTS
  e1 = e1 e2 = e2 e3 = e3 c1 = c1 w1 = w1 w2 = w2 t1 = t1 t2 = t2
  NoEvent = NoEvent
  NoWorker = NoWorker
  Events <- TreeEvents
  Cause <- TreeCause
  TxOf <- TreeTx
  Consumers = {c1}
  Workers = {w1, w2}
  Transactions = {t1, t2}
  ConsumerOf <- OneConsumer
  MaxAttempts = 2
  MaxRequeues = 1
  MaxFaults = 1
INVARIANTS
  CausalOrder
  BooksAgree
PROPERTIES
  SettlementIsFinal
  
  KeepsContract
CONSTRAINT BackfillsSomething
