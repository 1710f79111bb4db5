SPECIFICATION CalmSpec
CONSTANTS
  a = a
  b = b
  v1 = v1
  t1 = t1
  t2 = t2
  t3 = t3
  NoClient = NoClient
  Clients = {a, b}
  Vlans = {v1}
  VlanOf <- MCVlanOf
  Threads = {t1, t2, t3}
  MaxGen = 3
  MaxBoot = 0
INVARIANTS OnePayer
CHECK_DEADLOCK FALSE
