CONSTANTS
  n1 = n1
  n2 = n2
  n3 = n3
  r1 = r1
  r2 = r2
  j1 = j1
  j2 = j2
  k1 = k1
  k2 = k2
  NoResponse = NoResponse
  Nobody = Nobody
  Resource <- MCResource
  Client <- MCClient
  TTL = 2
  MaxGrants = 4
  Candidate <- MCClient
  LeaseDuration = 2
  MaxCrashes = 3
  Job <- MCJob
  Worker <- MCTwo
  VisibilityTimeout = 2
  MaxFaults = 2
  Steps = 4
  Compensable <- MCCompensable
  Key <- MCKey
  MaxCharges = 2
  Updater <- MCTwo
  Wallet <- MCKey
  Initial = 2
  MaxTx = 3
  MaxSales = 3
  MaxRetries = 3
  Id <- MCOneKey
  Data <- MCResource
  Runner <- MCTwo
  MaxWrites = 1
  MaxErrors = 1
  Pod <- MCTwo
  Request <- MCOne
  DrainingDelay = 4
  ProbeTime = 1
  Propagation = 1
  Family <- MCOneFamily
  MaxTokens = 3
  Exercised <- OnlyPayments
  LosesAnswers = TRUE

SPECIFICATION SuiteOnly
INVARIANT ChargedOnce
CHECK_DEADLOCK FALSE
