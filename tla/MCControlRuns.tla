--------------------------- MODULE MCControlRuns ----------------------------
(* A small control service: see the cfg files for the numbers of each run. *)
EXTENDS ControlRuns

CONSTANTS r1, r2, f1, f2, f3

(* f1 is a fork, f2 a crash, f3 a stall, which no stop_on value names.     *)
MCKindOf ==
  [f \in Findings |->
     CASE f = f1 -> "state_divergence" [] f = f2 -> "node_crash" [] f = f3 -> "consensus_stall"]

(* r1 stops on a fork; r2 stops on either kind.                            *)
MCStopOn ==
  [r \in Runs |->
     IF r = r1 THEN {"first_divergence", "none"} ELSE {"first_divergence", "first_crash"}]
=============================================================================
