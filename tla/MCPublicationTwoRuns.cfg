SPECIFICATION Spec
CONSTANTS
  Timer = timer
  Jobs = {timer, operator}
  MaxCommit = 1
  None = None
  Fragile = {"registry"}
  Torn = Torn
  Period = 2
  Limit = 4
  RunBound = 1
  MaxFaults = 0
INVARIANT NoTornSnapshot
