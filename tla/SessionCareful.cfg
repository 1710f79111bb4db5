SPECIFICATION FairCarefulSpec
CONSTANTS
  x = x
  y = y
  t1 = t1
  t2 = t2
  Enforcer = Enforcer
  Devices = {x}
  Threads = {t1}
  Rates <- AllRates
  Minutes = {1, 2}
  EditStatuses = {"expired", "cancelled"}
  PauseLimit = 2
  DbZone = 0
  MaxTime = 4
  MaxRows = 2
  MaxFaults = 1
  MaxBoot = 1

INVARIANTS AccessMatchesSession TimeKept
PROPERTIES ForfeitsOnlyWhenDue 
CHECK_DEADLOCK FALSE
