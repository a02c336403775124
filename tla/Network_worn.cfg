SPECIFICATION Spec
CONSTANTS
  n1 = n1  n2 = n2  a1 = a1  a2 = a2  t1 = t1  t2 = t2
  NoThread = NoThread
  Threads = {t1}
  Nodes = {n1, n2}
  Accounts = {a1}
  Operations = {"lookup", "pick"}
  AddressBooks <- NoBooks
  MaxReadmit = 1
  MaxNodeAttempts = 1
  MaxAttempts = {1, 2}
  MaxUses = 1
  MinNodeBackoff = 1
  MaxNodeBackoff = 1
  MaxBadStatus = 1
 
PROPERTIES NotReadmittedEarly
CHECK_DEADLOCK FALSE
