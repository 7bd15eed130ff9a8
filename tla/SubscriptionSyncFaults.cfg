\* Two event listener processes and every fault.
CONSTANTS
  c1 = c1
  c2 = c2
  r1 = r1
  r2 = r2
  r3 = r3
  s1 = s1
  u1 = u1
  u2 = u2
  n1 = n1
  n2 = n2
  Names <- TwoNames
  Users <- TwoUsers
  UserOf <- Caller
  NoOne = NoOne
  System = System
  NoName = NoName
  NoRow = NoRow
  NoRequest = NoRequest
  Consumers <- TwoConsumers
  Requests <- TwoRequests
  Subs <- OneSub
  Faults <- AllFaults
  MaxRetries = 2
  MaxLog = 2
  MaxGenerations = 1
SPECIFICATION Spec
SYMMETRY SymConsumersNames
INVARIANTS
  EveryCommitAnnounced
  ConsumerNeverOvertakesCreate
CHECK_DEADLOCK FALSE
