\* Five transactions fill both channels and the workers; the sixth waits.
CONSTANTS
  Workers = {w1, w2}
  Accounts = {a1}
  NoAccount = NoAccount
  NNodes = 1
  Canonical = 0
  ChanCap = 1
  MaxTx = 6
  MaxPickFails = 0
SPECIFICATION FairSpec
PROPERTY ImplementsPool
PROPERTY PickedIsSent
CHECK_DEADLOCK FALSE
