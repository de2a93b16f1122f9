SPECIFICATION TableSpec
CONSTANTS
  Uids = {1, 2, 3}
  Place <- MCPlace
  NsOf <- MCNsOf
  Created <- MCCreated
  SortKeys = {"status", "cpu", "net"}
  Restarts = {0}
  Readings <- MCReadings
  Rates = {1}
  MetricAge = 0
  NetworkAge = 1
  MaxClock = 1
  MaxTableEvents = 4
INVARIANTS NoPreCreationSample
CHECK_DEADLOCK FALSE
