SPECIFICATION MCSpec
CONSTANTS
  Props = {p1, p2}
  Crons = {c1, c2}
  Approvers = {alice, key}
  Keys = {key}
  Enough = 1
  Lifetimes = {2}
  Reviews = {0, 1}
  Starts = {1}
  Intervals = {1, 3}
  Repeats = {1, 4}
  MaxPeriod = 5
  Wrap = 8
  Threshold = 2
  SuspendedLife = 2
  LifeCycle = 1
  MaxGap = 2
  Past = 2
  Never = 9
  MaxUpdates = 2
INVARIANTS CrontabsBounded SuspendedForFailures
  
