SPECIFICATION FairSpec
CONSTANTS
  a = a
  b = b
  v1 = v1
  t1 = t1
  t2 = t2
  t3 = t3
  NoClient = NoClient
  Clients = {a}
  Vlans = {v1}
  VlanOf <- MCVlanOf
  Threads = {t1, t2}
  MaxGen = 2
  MaxBoot = 1
INVARIANTS TypeOK
  WatchdogCovers
  TicketIsCurrent
  AcceptedIsLeaving
PROPERTIES EventuallyFree
CHECK_DEADLOCK FALSE
