SPECIFICATION Spec
CONSTANTS
  n1 = n1
  n2 = n2
  Kinds = {"file", "topic"}
  Messages <- ShortMessages
  Nodes <- TwoNodes
  NoNode = NoNode
  DefaultSize = 1
  FileSize = 2
  Sizes = {1, 2}
  DefaultMax = 3
  Limits = {2}
  MaxAttempts = 2
  MaxCalls = 2
  MaxIds = 2
INVARIANTS ChunksInStep TopicMessageWhole TwiceOnlyIfExpired
PROPERTIES AppendsInOrder
