CONSTANTS
  t1 = t1
  t2 = t2
  t3 = t3
  Threads <- MCThreads
  UsedScopes <- MCNestedScopes
  MaxTicket = 3
SPECIFICATION FairSpec
INVARIANTS TypeOK LaneExclusion NoOrphanHead TicketAccounting
PROPERTIES FirstComeFirstServed QueuedIsServed
