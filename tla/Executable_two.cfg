SPECIFICATION FairSpec
CONSTANTS
  c1 = c1  c2 = c2  n1 = n1  n2 = n2  n3 = n3  a1 = a1  a2 = a2  a3 = a3
  NoCall = NoCall
  Calls = {c1, c2}
  Nodes = {n1, n2}
  Accounts = {a1, a2, a3}
  NodeAccountIds <- IdsShort
  InitialBooks <- OwnAccounts2
  AddressBooks <- FewBooks
  Replies = {"DEADLINE_EXCEEDED", "INVALID_NODE_ACCOUNT"}
  MaxAttempts = 2
  MinBackoff = 1
  MaxBackoff = 1
  MinNodeBackoff = 1
  MaxNodeBackoff = 1
  MaxBadStatus = 0
  MayClose = TRUE
INVARIANTS NodeSerialises ResponsesAreCurrent EarlyOnlyIfOvertaken
PROPERTY EveryCallEnds
