SPECIFICATION FairSpec
CONSTANTS
  n1 = n1  n2 = n2  a1 = a1  a2 = a2  t1 = t1  t2 = t2
  NoThread = NoThread
  Threads = {t1, t2}
  Nodes = {n1, n2}
  Accounts = {a1, a2}
  Operations = {"lookup", "update", "tls"}
  AddressBooks <- Books
  MaxReadmit = 1
  MaxNodeAttempts = 0
  MaxAttempts = {1}
  MaxUses = 0
  MinNodeBackoff = 1
  MaxNodeBackoff = 1
  MaxBadStatus = 0
INVARIANTS DisabledMeansPlain
PROPERTIES LooksLikeADirectory OperationsEnd
