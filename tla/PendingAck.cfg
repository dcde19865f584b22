SPECIFICATION FairSpec
CONSTANTS
  d1 = d1
  m1 = m1
  Deliveries <- MCDeliveries
  Messages <- MCMessages
  MsgOf <- MCMsgOf
  SeqNo <- MCSeq
  MaxConns = 2
  MaxRetries = 1
  MaxDisruptions = 1
INVARIANTS
  StaysReplayable
  NoGap
PROPERTY
  EventuallyReceived
CHECK_DEADLOCK FALSE
