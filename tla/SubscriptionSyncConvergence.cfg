\* One event listener process that may die, retried sends, three requests.
CONSTANTS
  c1 = c1
  c2 = c2
  r1 = r1
  r2 = r2
  r3 = r3
  s1 = s1
  u1 = u1
  u2 = u2
  n1 = n1
  n2 = n2
  Names <- TwoNames
  Users <- TwoUsers
  UserOf <- Caller
  NoOne = NoOne
  System = System
  NoName = NoName
  NoRow = NoRow
  NoRequest = NoRequest
  Consumers <- OneConsumer
  Requests <- ThreeRequests
  Subs <- OneSub
  Faults <- RedeliveryFaults
  MaxRetries = 2
  MaxLog = 3
  MaxGenerations = 1
SPECIFICATION FairSpec
INVARIANTS
  TypeOK
  StaleOnlyWhilePending
  LogOrderIsCommitOrder
PROPERTY EventuallyConsistent
CHECK_DEADLOCK FALSE
