\* Detectors: two nodes, ticks every interval or every other one, long enough
\* for a second episode and a second event of each kind.  Generator: the least
\* pool SignerListSet allows.
CONSTANTS
  Nodes = {n1, n2}
  GapThreshold = 1
  SustainFor = 2
  LivenessStall = 3
  LivenessMinPeers = 1
  DefaultStall = 4
  Cooldown = 2
  MaxSeq = 2
  MaxPeers = 1
  MaxLate = 2
  OracleTime = 6
  MonitorTime = 5
  SomeAccounts = {a1, a2}
  OtherAccounts = {a3, a4}
  Nobody = Nobody
  Documents = {1}
  MaxMade = 3
  Sizes = {1, 3, 5}
  FundMaxAttempts = 2
  SetupMaxRetries = 1
  Advance = 2
  MaxPolls = 4
  MaxClosed = 3
  NRunNodes = 2
  Submitter = 1
  Batch = 2
  MaxLedger = 3
  Count = 2
  MaxBalance = 2
  MaxTurns = 5
  Names = {x, y}
  Configs = {c1, c2, c3}
  Resumable = {c1, c2}
  None = None
SPECIFICATION MCSpec
SYMMETRY Alike
INVARIANT StallJustified
 
 
INVARIANT StallIsSeen
INVARIANT PeerDropIsSeen
 
INVARIANT SignersMayAct
 
INVARIANT ForkIsSeen
INVARIANT CheckIsTrue
 
 
INVARIANT ResumeMatches
INVARIANT CurrentIsLive
PROPERTY LedgersBetween
PROPERTY LedgerDataKept
CHECK_DEADLOCK FALSE
