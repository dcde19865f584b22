SPECIFICATION FairSpec
CONSTANTS
  u1 = u1
  u2 = u2
  p1 = p1
  q1 = q1
  pay = pay
  tip = tip
  send = send
  claim2 = claim2
  twice2 = twice2
  claim1 = claim1
  refund = refund
  NoUser = NoUser
  Users = {u1, u2}
  Packets = {p1}
  Requests = {q1}
  Calls = {pay, tip, send, claim2, twice2, claim1, refund}
  Request <- MCRequest
  MaxRecharge = 4
  MaxCount = 3
  MaxMishaps = 1
INVARIANTS BooksAgree SharesAreEqual
PROPERTIES ImplementsEscrow EveryCallReturns
CHECK_DEADLOCK FALSE
