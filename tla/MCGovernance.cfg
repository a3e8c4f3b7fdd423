SPECIFICATION Spec
CONSTANTS
  NumAccounts = 3
  Initial = {1, 2}
  Funds = 5
  MaxSupply = 24
  Freeze <- MCFreeze
  Elected <- MCElected
  MinWorking <- MCMin
  MaxVotes <- MCMaxVotes
  Actors = {3}
  Stakes = {1, 2}
  Amounts = {1}
  WorkerPlans <- MCWorkerPlans
  MaxWorkers = 2
  PayPerBlock = 1
  WorkerPerDay = 4
  Award = 8
  CommitteePct = 50
  LoserPct = 50
  CycleRate = 1
  CycleUnit = 4
  Interval = 2
  Day = 2
  DiffPoint = 2
  Word = 65536
  MaxGap = 2
  MaxTime = 4
  MaxRefs = 6
  MaxOps = 3
INVARIANTS SupplyConserved  
PROPERTY ElectionFair
CHECK_DEADLOCK FALSE
