\* PodWatch: two pods, both markers, a one-slot channel.  ScopeResolution: three
\* callers, of which one may still wait while another asks again.  Liveness, so
\* no symmetry.
SPECIFICATION MCSpec
CONSTANTS
  p1 = p1
  p2 = p2
  Pods <- TwoPods
  EmptyUID = EmptyUID
  DelayUID = DelayUID
  UIDs <- AllUIDs
  None = None
  Cap = 1
  MaxEvents = 5
  w1 = w1
  w2 = w2
  w3 = w3
  Callers <- MCCallers
  MaxAsks = 3
INVARIANTS SyncedAfterInitial CallShared
PROPERTIES SyncReachesUI Refines Converges Sticky Returns
CHECK_DEADLOCK FALSE
