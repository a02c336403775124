SPECIFICATION Spec
CONSTANTS
  MaxFields = 3
  Known <- KnownDivergences
INVARIANTS
  KeptAsSent
