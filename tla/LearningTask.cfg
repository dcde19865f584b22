SPECIFICATION NotifiedSpec
CONSTANTS
  olga = olga
  adam = adam
  mia = mia
  c1 = c1
  c2 = c2
  c3 = c3
  c4 = c4
  c5 = c5
  n1 = n1
  n2 = n2
  Users <- MCUsers
  FirstRole <- MCFirstRole
  Calls <- MCCalls
  Scenarios <- MCScenarios
  Notifiers <- MCNotifiers
  MaxAttempts = 2
  BatchLimit = 2
  MaxNotices = 2
INVARIANTS
  ClosedIsReviewed
  ToldOnce
PROPERTIES
  ImplementsRequestLedger
  NoLostUpdate
  EveryNoticeSettles
CHECK_DEADLOCK FALSE
