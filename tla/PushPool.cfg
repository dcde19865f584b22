SPECIFICATION PoolFairSpec
CONSTANTS
  c1 = c1
  c2 = c2
  u1 = u1
  s1 = s1
  s2 = s2
  Sockets <- MCSockets
  Users <- MCUsers
  UserOf <- MCUserOf
  Shards <- MCShards
  ShardOf <- MCShardOf
  QueueSize = 1
  MessagesOf <- MCMessagesOf
  Cancellable <- MCCancellable
PROPERTIES
  ImplementsOrderedExecutor
  EveryTaskAnswered
CHECK_DEADLOCK FALSE
