CONSTANTS
  k1 = k1
  k2 = k2
  r1 = r1
  r2 = r2
  r3 = r3
  w1 = w1
  w2 = w2
  j1 = j1
  j2 = j2
  j3 = j3
  j4 = j4
  Capacity = 4
  One = 2
  Rate = 1
  Ratio = 1
  Waiter <- MCTwo
  MaxIdle = 5
  MaxTries = 3
  Caller <- MCThree
  FailureThreshold = 2
  SuccessThreshold = 2
  CooldownTimeout = 2
  MaxOutages = 2
  User <- MCThree
  MaxCapacity = 2
  MaxConns = 3
  MaxInFlight = 4
  MaxRequests = 6
  Request <- MCThree
  TargetSLA = 10
  MaxActive = 2
  Fast = 2
  Slow = 100
  MaxSpikes = 2
  Workload <- MCWorkload
  Worker <- MCWorker
  Job <- MCJob
  QueueSize = 2
  Hanging <- MCHanging
  Dependency <- MCDependency
  MaxConcurrency = 1
  MaxRegistrations = 2
  Visitor <- MCTwo
  MaxActiveRequests = 1
  Exercised <- AllParts
  MayCloseTwice = FALSE

SPECIFICATION SuiteSpec
INVARIANTS
  SuiteTypeOK
  LimitsHold
  OutageContained
  RequestsAccounted
PROPERTIES
  ImplementsIdealBucket
  NobodyStarves
CHECK_DEADLOCK FALSE
