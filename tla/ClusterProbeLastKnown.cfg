SPECIFICATION Spec
CONSTANTS
  Signals <- MCSignals
  MaxCount = 1
  HintPinned = TRUE
PROPERTIES ShowsLastKnown
