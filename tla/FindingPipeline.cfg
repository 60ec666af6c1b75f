\* Two goroutines record while the service may be restarted once; five findings
\* at most (two files of each life of the sidecar, one of an oracle) in a store
\* of three, of which a client gets two at a time.
CONSTANTS
  Recorders = {loop, monitor}
  Capacity = 3
  Limit = 2
  MaxRecords = 2
  MaxTime = 2
  MaxRaised = 1
  MaxRestarts = 1
SPECIFICATION FairSpec
INVARIANT ShownIsKept
INVARIANT NothingTwice
INVARIANT SkipsOnlyLate
 
CHECK_DEADLOCK FALSE
