SPECIFICATION Spec
CONSTANTS
  x = x
  y = y
  t1 = t1
  t2 = t2
  Enforcer = Enforcer
  Devices = {x}
  Threads = {t1, t2}
  Rates <- TimedRate
  Minutes = {1, 2}
  EditStatuses = {"active"}
  PauseLimit = 2
  DbZone = 0
  MaxTime = 2
  MaxRows = 2
  MaxFaults = 0
  MaxBoot = 1
SYMMETRY Symm
INVARIANTS TypeOK
PROPERTIES FrozenBankUntouched RunningNeverRewinds
CHECK_DEADLOCK FALSE
