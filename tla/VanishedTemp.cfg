SPECIFICATION RuntimeSpec
CONSTANTS
  Targets = {t1, t2}
  Weights = {t1}
  Wanted <- MCWanted
  Size <- MCSize
  right = right
  other = other
  Contents = {right, other}
  Missing = Missing
  Irregular = Irregular
  Temps = {x1, x2}
  Jobs = {j1}
  MaxChanges = 1
  FaultSets <- MCFaultSets
INVARIANTS RefusedForAReason
CHECK_DEADLOCK FALSE
