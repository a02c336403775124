SPECIFICATION Spec
CONSTANTS
  c1 = c1  c2 = c2  n1 = n1  n2 = n2  n3 = n3  a1 = a1  a2 = a2  a3 = a3
  NoCall = NoCall
  Calls = {c1}
  Nodes = {n1, n2}
  Accounts = {a1, a2, a3}
  NodeAccountIds <- IdsTwo
  InitialBooks <- SharedOrOwn2
  AddressBooks <- FewBooks
  Replies <- AllReplies
  MaxAttempts = 3
  MinBackoff = 1
  MaxBackoff = 2
  MinNodeBackoff = 1
  MaxNodeBackoff = 2
  MaxBadStatus = 0
  MayClose = FALSE
INVARIANT SuccessWasSent
