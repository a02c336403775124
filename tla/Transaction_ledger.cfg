SPECIFICATION Spec
CONSTANTS
  n1 = n1
  n2 = n2
  op = op
  Operator = op
  k = k
  Keys = {k}
  Nodes <- TwoNodes
  Dummy = Dummy
  NoNode = NoNode
  NotBuilt = NotBuilt
  MaxId = 2
  MaxAttempts = 3
  MaxExecutions = 1
INVARIANTS SignedBySignatories SentAsShown ResponseOfRequest TwiceOnlyIfLost
