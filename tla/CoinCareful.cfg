SPECIFICATION CarefulSpec
CONSTANTS
  a = a
  b = b
  v1 = v1
  NoClient = NoClient
  Clients = {a, b}
  Vlans = {v1}
  VlanOf <- OneVlan
  Durations = {2}
  ExtendSec = 1
  MaxArmDuration = 2
  LockTimeout = 2
  MaxWindowCoins = 2
  Gpiomon = TRUE
  MaxTime = 4
  MaxCoins = 2
  MaxBoot = 1
SYMMETRY Symm
PROPERTIES OwnCoinsOnly  CreditedOnce
CHECK_DEADLOCK FALSE
