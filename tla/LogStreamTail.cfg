SPECIFICATION StreamSpec
CONSTANTS
  t1 = t1
  t2 = t2
  Texts <- MCTexts
  MaxLines = 2
  MaxTime = 1
  MaxFailures = 1
  Cap = 1
  BatchMax = 2
  TailSplitsTie = TRUE
SYMMETRY Symmetry
INVARIANTS
  NoHistoryReplayed
CHECK_DEADLOCK FALSE
