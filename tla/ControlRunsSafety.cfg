CONSTANTS
  r1 = r1
  r2 = r2
  f1 = f1
  f2 = f2
  f3 = f3
  Runs = {r1, r2}
  Findings = {f1, f2}
  NoRun = NoRun
  NoFinding = NoFinding
  DiskWatchers = {disk}
  Oracles = {}
  Readers = {c1}
  KindOf <- MCKindOf
  StopOn <- MCStopOn
  ChanCap = 1
  StoreCap = 1
SPECIFICATION Safe
INVARIANT ClosingJustified
INVARIANT CloseSweeps
INVARIANT ReproducerLinked
PROPERTY AnswersSwept
PROPERTY LateAttributionTagged
PROPERTY KeepsLifecycle
