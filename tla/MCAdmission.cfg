\* One slot and two places in the queue for four requests.
\* Every request ends answered or leaked, so behaviours may stop.
CHECK_DEADLOCK FALSE
SPECIFICATION FairSpec
CONSTANTS
  r1 = r1
  r2 = r2
  r3 = r3
  r4 = r4
  Requests <- MCRequests
  SharedRequests <- MCShared
  OverflowRequests <- MCOverflow
  MaxInFlight = 1
  MaxQueue = 2
INVARIANTS
  SlotAccounting
  NoIdleSlotWhileWaiting
  GoneOnlyUnheard
PROPERTIES
  GrantsInOrder
  WaiterLeavesQueue
  SlotReturned
