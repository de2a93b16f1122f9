SPECIFICATION FairSpec
CONSTANTS
  MaxSessions = 3
  MaxFocus = 1
INVARIANTS LiveDrainOwned ShowsOwnDrain
PROPERTIES FinishedIsFinal SummaryArrives
CHECK_DEADLOCK FALSE
