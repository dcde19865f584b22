SPECIFICATION Spec
CONSTANTS
  c1 = c1
  c2 = c2
  c3 = c3
  m1 = m1
  m2 = m2
  Calls <- MCCalls
  Messages <- MCMessages
  MsgOf <- MCMsgOf
  MaxLosses = 1
INVARIANTS
  FailClosed
PROPERTY
  ImplementsLedger
CHECK_DEADLOCK FALSE
