SPECIFICATION FairSpec
CONSTANTS
  c1 = c1
  c2 = c2
  c3 = c3
  m1 = m1
  u1 = u1
  u2 = u2
  Consumers <- MCConsumers
  ReaderOf <- MCReaderOf
  Messages <- MCMessages
  Recipients <- MCRecipients
  RecipientsOf <- MCRecipientsOf
  MaxAttempts = 1
  MaxDisruptions = 2
INVARIANTS
  CommittedIsSettled
PROPERTY
  EventuallyHandled
CHECK_DEADLOCK FALSE
