CONSTANTS
  t1 = t1
  t2 = t2
  t3 = t3
  k1 = k1
  k2 = k2
  e1 = e1
  e2 = e2
  e3 = e3
  g1 = g1
  g2 = g2
  g3 = g3
  r1 = r1
  r2 = r2
  w1 = w1
  w2 = w2
  NoEntry = NoEntry
  None = None
  Failed = Failed
  Thread <- MCThread
  Key <- MCKey
  Entry <- MCEntry
  Caller <- MCCaller
  Outcome <- MCOutcome
  MayPanic = TRUE
  MaxExec = 3
  MaxExpiry = 1
  Reader <- MCReader
  Writer <- MCWriter
  MaxVersion = 3
  CacheKey <- MCCacheKey
  Value = {0, 1}
  Capacity = 2
  PositiveTTL = 3
  NegativeTTL = 1
  FetchTime = 1
  MaxClock = 5
  MaxChanges = 2
  Session <- MCSession
  Window = 2
  Lag = 1
  MaxWrites = 2
  MaxTime = 3
  Row <- MCRow
  Limit = {0, 1, 2}
  Exercised <- AllParts

SPECIFICATION SuiteSpec
INVARIANTS
  SuiteTypeOK
  MutualExclusion
  RegistryExact
  AnswersSound
  CachesBounded
  ReadsConsistent
PROPERTIES
  ImplementsExclusiveLocks
  NoRedundantFetch
  StaleOnlyFromRacingGet
  WaitsEnd
CHECK_DEADLOCK FALSE
