SPECIFICATION EventsFairSpec
CONSTANTS
  olga = olga
  mia = mia
  p1 = p1
  p2 = p2
  NoOne = NoOne
  Users <- MCUsers
  Events <- MCEvents
  TaskEvents <- MCTaskEvents
  ActorOf <- MCActorOf
  RecipientOf <- MCRecipientOf
  Publishers <- MCPublishers
  MaxAttempts = 2
  MaxMishaps = 2
  MaxChanges = 1
INVARIANTS
  CommittedIsFiled
PROPERTIES
  ImplementsAtLeastOnce
  OnlyMembersAreNotified
  EventuallyNotified
