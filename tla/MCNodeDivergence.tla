--------------------------- MODULE MCNodeDivergence ---------------------------
(* Small instances of NodeDivergence.                                      *)
EXTENDS NodeDivergence, TLC

HashSymmetry == Permutations(Hashes)
=============================================================================
