SPECIFICATION CarefulSpec
CONSTANTS
  k1 = k1
  c1 = c1
  c2 = c2
  t1 = t1
  t2 = t2
  NoClient = NoClient
  Codes = {k1}
  Clients = {c1, c2}
  Threads = {t1, t2}
  FailLimit = 0
  Window = 0
  MaxTime = 1
  MaxIssues = 2
  MaxUpsets = 2

INVARIANTS NothingEaten GuessesBounded
PROPERTIES KeepsLedger
SYMMETRY Symm
CHECK_DEADLOCK FALSE
