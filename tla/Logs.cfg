\* LogStream: three lines, identical and different ones in one instant, across
\* two breaks.
SPECIFICATION MCSpec
CONSTANTS
  t1 = t1
  t2 = t2
  Texts <- MCTexts
  MaxLines = 3
  MaxTime = 2
  MaxFailures = 2
  Cap = 1
  BatchMax = 2
  TailSplitsTie = FALSE
  Pods <- MCPods
  Containers <- MCContainers
  MaxRequests = 2
  MaxLogEvents = 1
  LineCap = 3
  Body = 2
  Needles = {"", "a", "ab"}
  LineKinds <- MCLineKinds
  MaxBuffered = 7
  MaxBatch = 4
SYMMETRY Symmetry
INVARIANTS EndTruthful LogPaneTruthful
PROPERTIES FollowsLog ViewSteady
CHECK_DEADLOCK FALSE
