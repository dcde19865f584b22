SPECIFICATION SummaryFairSpec
CONSTANTS
  w1 = w1
  w2 = w2
  alice = alice
  bob = bob
  chat = chat
  Workers <- MCWorkers
  Events <- MCEvents
  Users <- MCUsers
  Sessions <- MCSessions
  SessionOf <- MCSessionOf
  SeqOf <- MCSeqOf
  SentAtOf <- MCSentAtOf
  FromOf <- MCFromOf
  ToOf <- MCToOf
  MaxAttempts = 2
  BatchLimit = 1
  MaxDisruptions = 1
INVARIANTS
  DoneIsSummarised
PROPERTIES
  SettledForGood
CHECK_DEADLOCK FALSE
