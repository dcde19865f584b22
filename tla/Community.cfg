SPECIFICATION MCSpec
CONSTANTS
  olga = olga
  mia = mia
  adam = adam
  f1 = f1
  f2 = f2
  f3 = f3
  f4 = f4
  NoOne = NoOne
  Users <- MCUsers
  Calls <- MCCalls
  Scenarios <- MCScenarios
  People <- MCPeople
  Registered <- MCRegistered
  FriendCalls <- MCFriendCalls
  FriendScenarios <- MCFriendScenarios
INVARIANTS
  RosterAgrees
PROPERTIES
  RemovedStaysOut
  EditsAreAuthorised
  ImplementsRequestLedger
  EveryCallEnds
  FriendsByConsent
  FriendCallsEnd
CHECK_DEADLOCK FALSE
