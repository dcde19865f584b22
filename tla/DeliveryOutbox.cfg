SPECIFICATION FairSpec
CONSTANTS
  w1 = w1
  w2 = w2
  s1 = s1
  s2 = s2
  Workers <- MCWorkers
  Events <- MCEvents
  Sinks <- MCSinks
  SinksOf <- MCSinksOf
  MaxAttempts = 2
  BatchLimit = 2
  MaxDisruptions = 1
PROPERTIES
  NewestClaimSettles
  ImplementsAtLeastOnce
  EventuallySettled
CHECK_DEADLOCK FALSE
