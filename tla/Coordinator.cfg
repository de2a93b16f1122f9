\* WatchCoordinator: two clusters and up to four focus changes (so one cluster
\* is revisited).  LogStream: the tail may begin anywhere; the rest of its safety
\* is checked on more lines by Logs.cfg.
\* Liveness, so no symmetry.
SPECIFICATION MCSpec
CONSTANTS
  c1 = c1
  c2 = c2
  Contexts <- TwoContexts
  First = c1
  NoContext = NoContext
  MaxFocus = 4
  t1 = t1
  t2 = t2
  Texts <- MCTexts
  MaxLines = 2
  MaxTime = 1
  MaxFailures = 2
  Cap = 1
  BatchMax = 2
  TailSplitsTie = TRUE
  StartContexts = {1, 2}
  MaxStarts = 2
  MaxReports = 2
  MaxSwitches = 1
INVARIANTS TakenAsWritten RowsCurrent OneLiveSet
PROPERTIES NoStaleStart CoordinatorConverges StreamEnds StartRight
CHECK_DEADLOCK FALSE
