SPECIFICATION Spec
CONSTANTS
  Interval = 2
  Schedule <- MCSchedule
  Mine = {"ours", "keyless"}
  Keys = {"ours"}
  Pending <- MCPending
  Failing = {"bad"}
  Writes = 2
  MaxTxs = 2
  MaxTime = 10
INVARIANTS OneWriter  StopsAfterSlot
PROPERTIES ProductionEnds TimestampsIncrease
CHECK_DEADLOCK FALSE
