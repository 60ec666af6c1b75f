\* Two nodes and two turns: one of them may be ahead of the other by a ledger.
CONSTANTS
  NNodes = 2
  Submitter = 1
  Batch = 2
  MaxSeq = 3
SPECIFICATION Spec
INVARIANT TxAlarmIsReal
CHECK_DEADLOCK FALSE
