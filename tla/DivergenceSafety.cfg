\* Two nodes, three ledgers and a window of two: forks, rejoining, pruning,
\* failed and delayed polls around the oracle.
SPECIFICATION Spec
SYMMETRY HashSymmetry
CONSTANTS
  n1 = n1
  n2 = n2
  a = a
  b = b
  Nodes = {n1, n2}
  Hashes = {a, b}
  Window = 2
  Failing = {n1}
  Queries = {}
  MaxSeq = 3
INVARIANTS
  NoFalseDivergence
  NoDuplicateDivergence
