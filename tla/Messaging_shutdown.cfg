CONSTANTS
  Event = {e1, e3}
  Poison = {e3}
  Relay = {r1}
  Poller = {q1}
  Batch = 2
  Consumer = {c1}
  MaxRuns = 2
  MaxFaults = 2
  MaxFailures = 1
  InboxEvent = {e1, e2}
  InboxWorker = {w1, w2}
  Client = {c1, c2}
  Cancellable = {c1}
  MaxTries = 2
  Message = {e1, e2, e3}
  Healthy = {e1}
  MaxAttempts = 2
  BaseBackoff = 3
  MaxBackoff = 40
  MaxJobAttempts = 11
  Width = 8
  Task = {t1, t2, t3}
  Worker = {w1}
  Slots = 1
  Endless = {t1}
  NoTask = NoTask
  Key = {k1, k2, k3}
  Partition = {d1, d2}
  HashKey <- MCHashKey
  Buffer = 2
  MaxMessages = 2
  Exercised <- OnlyGraceful

SPECIFICATION SuiteSpec
PROPERTY ShutdownReturns
CHECK_DEADLOCK FALSE
