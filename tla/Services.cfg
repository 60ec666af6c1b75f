\* One run with a disk watcher and an oracle side by side; the aligned schedule.
CONSTANTS
  f1 = f1
  f3 = f3
  Runs = {r1}
  Findings = {f1, f3}
  NoRun = NoRun
  NoFinding = NoFinding
  DiskWatchers = {disk}
  Oracles = {oracle}
  Readers = {c1}
  ChanCap = 1
  StoreCap = 1
  n0 = n0
  n1 = n1
  Containers = {n0, n1}
  SubmitNode = n0
  Schedule <- Aligned
  Period = 3
  ExitCodes = {0, 1, 2}
  MaxStep = 13
  MaxExits = 2
SPECIFICATION MCSpec
INVARIANT RecoverOnTime
INVARIANT DownWhilePending
INVARIANT ReportedOnce
 
PROPERTY PendingIsRecovered
PROPERTY ImplementsLifecycle
PROPERTY TaggedIsCollected
CHECK_DEADLOCK FALSE
