SPECIFICATION Spec
CONSTANTS
  MaxEdits = 3
  MaxRounds = 1
  Known <- KnownDivergences
INVARIANTS
  RestoredAsMade
  ScheduledAsMade
  
  NoBadIdSent
