SPECIFICATION FairSpec
CONSTANTS
  Names = 2
  MaxUID = 2
  MaxRetries = 1
  Cap = 1
INVARIANTS OnlyValidatedEvicted SummaryTruthful
PROPERTIES DrainEnds
CHECK_DEADLOCK FALSE
