\* PodTable: three pods in two namespaces; two times, so that a rate of the first is
\* stale at the second.
SPECIFICATION MCSpec
CONSTANTS
  Uids = {1, 2, 3}
  Place <- MCPlace
  NsOf <- MCNsOf
  Created <- MCCreated
  SortKeys = {"status", "net"}
  Restarts = {0}
  Readings <- MCReadings
  Rates = {1}
  MetricAge = 0
  NetworkAge = 1
  MaxClock = 1
  MaxTableEvents = 4
  Clusters = {1, 2, 3}
  Reaches = {"degraded", "healthy", "unreachable"}
  NameMatch = {2}
  RowMatch = {2}
  MaxFetches = 3
  MaxFleetEvents = 5
  MenuKinds = {"Node"}
  Probes <- MCProbes
  MaxVisits = 1
  Names = {"a"}
  MaxIncarnation = 2
  MaxModal = 2
  IntBits = 3
  Typed = {1, 12}
INVARIANTS TableExact FleetTruthful ActionsAsConfirmed
PROPERTIES MenuHonest
CHECK_DEADLOCK FALSE
