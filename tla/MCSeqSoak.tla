----------------------------- MODULE MCSeqSoak -----------------------------
(* A soak of two workers: see the cfg files for the numbers of each run.   *)
EXTENDS SeqSoak, TLC

Alike == Permutations(Workers) \union Permutations(Accounts)
=============================================================================
