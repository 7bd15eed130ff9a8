\* One topic, two processes that crash, rebalance and retry as in the code.
CONSTANTS
  c1 = c1
  c2 = c2
  updateTopic = updateTopic
  good = good
  bad = bad
  Consumers <- MCConsumers
  Partitions <- MCPartition
  Messages <- MCMessages
  Poison <- MCPoison
  MaxRetries = 3
  MaxLog = 3
  MaxGenerations = 2
SPECIFICATION FairSpec
PROPERTIES
  ImplementsAtLeastOnce
  EveryEventPassed
\* The log is bounded: when it is consumed nothing is left to do.
CHECK_DEADLOCK FALSE
