SPECIFICATION Spec
CONSTANTS
  c1 = c1  c2 = c2  n1 = n1  n2 = n2  n3 = n3  a1 = a1  a2 = a2  a3 = a3
  NoCall = NoCall
  Calls = {c1}
  Nodes = {n1, n2, n3}
  Accounts = {a1, a2, a3}
  NodeAccountIds <- IdsThree
  InitialBooks <- SharedOrOwn3
  AddressBooks <- Books
  Replies <- AllReplies
  MaxAttempts = 3
  MinBackoff = 1
  MaxBackoff = 1
  MinNodeBackoff = 1
  MaxNodeBackoff = 2
  MaxBadStatus = 0
  MayClose = FALSE
INVARIANTS TypeOK Budget InvalidNodeAccountEarned NoNodeOverlooked PenaltyServed
