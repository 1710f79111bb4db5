SPECIFICATION Spec
CONSTANTS
  w1 = w1
  w2 = w2
  Enforcer = Enforcer
  Watcher = Watcher
  Process <- Processes
  Worker = {w1, w2}
  Mac = {m1, m2}
  NoMac = NoMac
  Phone = {p1}
  PhoneOf <- OnePhone
  Sid = {s1, s2}
  NoSid = NoSid
  Mutex = {u1, u2, u3}
  NoMutex = NoMutex
  Dns = {d1, d2}
  OldDns = d1
  NoDns = NoDns
  StableNeed = 2
  MaxIsp = 1
  Careful = TRUE
  MaxRequests = 1
  MaxRoams = 1
  MaxCrashes = 1
INVARIANTS TokenFreeAfterSession
CHECK_DEADLOCK FALSE
