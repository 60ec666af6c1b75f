\* One account on two nodes that need not have seen the same transactions.
CONSTANTS
  Workers = {w1, w2}
  Accounts = {a1}
  NoAccount = NoAccount
  NNodes = 2
  Canonical = 0
  ChanCap = 1
  MaxTx = 4
  MaxPickFails = 0
SPECIFICATION Spec
INVARIANT NoReissue
CHECK_DEADLOCK FALSE
