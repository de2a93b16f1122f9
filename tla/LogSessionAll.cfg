SPECIFICATION LogSpec
CONSTANTS
  Pods <- MCPods
  Containers <- MCContainers
  MaxRequests = 3
  MaxLogEvents = 0
PROPERTIES AllOfTheSamePod
CHECK_DEADLOCK FALSE
