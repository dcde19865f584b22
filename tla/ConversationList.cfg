SPECIFICATION MCSpec
CONSTANTS
  alice = alice
  bob = bob
  conv = conv
  j1 = j1
  j2 = j2
  j3 = j3
  r1 = r1
  r2 = r2
  r3 = r3
  r4 = r4
  Users <- MCUsers
  Callers <- MCCallers
  Conversations <- MCConversations
  Messages <- MCMessages
  ConvOf <- MCConvOf
  SeqNo <- MCSeqNo
  FromOf <- MCFromOf
  Jobs <- MCJobs
  MessageOf <- MCMessageOf
  MaxChanges = 2
  Rows <- MCRows
  Walks <- MCWalks
  MaxKey = 5
  PageLimit = 2
  MaxMoves = 4
  SyncBatch = 2
  ReplayLimit = 2
INVARIANTS
  WalkIsExact
  ReplayIsExact
PROPERTIES
  OnlyFillsMoveBack
CHECK_DEADLOCK FALSE
