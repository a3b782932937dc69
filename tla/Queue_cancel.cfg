CONSTANTS
  t1 = t1
  t3 = t3
  h1 = h1
  Exercised <- OnlyQueue
  Caller = {c1, c2, c3}
  Capacity = 1
  Weights <- MCUnit
  Cancellable = {c1, c2}
  Producer = {p1, p2}
  Consumer = {g1, g2}
  QueueSize = 2
  Strategies = {"reject", "dropOldest", "block"}
  MaxPush = 2
  Task = {t1, t2, t3}
  Worker = {w1, w2}
  QueueCapacity = 1
  Uses <- MCUses
  Count = 3
  Nothing = Nothing
  Ended = Ended
  Hook = {h1, h2, h3, srv}
  Priority <- MCPriority
  ServerHook = srv
  Stopper = {c1, c2, c3}
  Root = c1
  MaxSignals = 3
  Loader = {c1, c2, c3}
  Leaver = {c1}
  MaxBatchSize = 2
  None = None
  Resource = {t1, t2, t3}
  IdOf <- MCShared
  Releaser = {p1, p2}
  Closer = {g1, g2}
  MaxResources = 2
  Critical = {t1}
  Parent = Ended

SPECIFICATION SuiteSpec
PROPERTIES
  CancelEndsPush
CHECK_DEADLOCK FALSE
