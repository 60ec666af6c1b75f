\* Two workers, two accounts and three nodes, one of which answers the
\* look-ups; buffers of one make full channels frequent.
CONSTANTS
  Workers = {w1, w2}
  Accounts = {a1, a2}
  NoAccount = NoAccount
  NNodes = 3
  Canonical = 0
  ChanCap = 1
  MaxTx = 3
  MaxPickFails = 1
SPECIFICATION Spec
SYMMETRY Alike
INVARIANT NoGap
CHECK_DEADLOCK FALSE
