\* Two nodes and two ledgers: requests with and without ?at= between the
\* polls, and an oracle that keeps ticking.  Failed polls are in the other run.
SPECIFICATION FairSpec
CONSTANTS
  n1 = n1
  n2 = n2
  a = a
  b = b
  Nodes = {n1, n2}
  Hashes = {a, b}
  Window = 2
  Failing = {}
  Queries = {0, 1}
  MaxSeq = 2
INVARIANTS
  AnswerSound
PROPERTIES
  ForkReported
