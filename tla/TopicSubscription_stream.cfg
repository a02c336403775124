SPECIFICATION FairSpec
CONSTANTS
  tx = tx
  Transactions = {tx}
  NoTransaction = NoTransaction
  Topic <- Mixed
  Limits = {0, 2}
  MaxAttempts = 2
  MaxBackoff = 2
INVARIANTS TypeOK NoGap InOrder
PROPERTIES OutcomeIsFinal SubscriptionEnds CancelledEnds
