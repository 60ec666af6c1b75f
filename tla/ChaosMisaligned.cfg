CONSTANTS
  n0 = n0
  n1 = n1
  Containers = {n0, n1}
  SubmitNode = n0
  Schedule <- Misaligned
  Period = 3
  ExitCodes = {0, 1, 2}
  MaxStep = 13
  MaxExits = 1
SPECIFICATION Safe
CHECK_DEADLOCK FALSE
INVARIANT RecoverOnTime
