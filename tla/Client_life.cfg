SPECIFICATION FairSpec
CONSTANTS
  a = a
  b = b
  First = a
  Clients = {a, b}
  InitialDelay = 1
  DefaultPeriod = 2
  Periods = {3}
  Addresses = 1
  MaxAttempts = 2
  Checksums = {TRUE, FALSE}
  MaxTime = 4
  MaxCalls = 3
INVARIANTS SoundUpdates PromiseKept
PROPERTIES NoUpdateOnceCancelled CallsReturn
