SPECIFICATION MCSpec
CONSTANTS
  Props = {p1}
  Crons = {}
  Approvers = {alice, key}
  Keys = {key}
  Enough = 1
  Lifetimes = {2}
  Reviews = {0}
  Starts = {1}
  Intervals = {1}
  Repeats = {1}
  MaxPeriod = 4
  Wrap = 8
  Threshold = 2
  SuspendedLife = 2
  LifeCycle = 1
  MaxGap = 1
  Past = 2
  Never = 9
  MaxUpdates = 2
INVARIANT ProposalsRunOnce
