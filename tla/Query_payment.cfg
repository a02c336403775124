SPECIFICATION Spec
CONSTANTS
  Nodes = {n1, n2}
  Prices = {1, 2}
  Limits = {0, 2}
  ClientLimits <- MCClientLimits
  Unset = Unset
  DefaultLimit = 1
  NoNode = NoNode
  MaxAttempts = 2
  MaxSets = 2
  MaxCalls = 2
  Known <- KnownDivergences
INVARIANTS
  PaysWhatItWasQuoted
  AnswersArePaid
  AsksWhatWasSet
SYMMETRY NodeSymmetry
