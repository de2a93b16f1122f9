SPECIFICATION MCSpec
CONSTANTS
  Signals <- MCSignals
  MaxCount = 1
  HintPinned = TRUE
  NetNodes = {1, 2}
  NetPods = {1, 2}
  PodsOf <- MCPodsOf
  Workers = 1
  NetCap = 4
  MaxAge = 2
  MaxNetClock = 2
  MaxRounds = 2
  MaxTraffic = 2
  Files = {1, 2}
  Contents = {1, 2, 3, 4}
  ContextsOf <- MCContextsOf
  NameOf <- MCNameOf
  Tails <- MCTails
  Suffix <- MCSuffix
  MaxTrustEvents = 4
INVARIANTS SlotKept NetworkTruthful ListKept NamesDistinct
PROPERTIES BlipHidden HealthEarned TimeoutNoFinding
CHECK_DEADLOCK FALSE
