----------------------------- MODULE MCChaosSoak -----------------------------
(* Schedules for a periodic block that runs every third submission.        *)
EXTENDS ChaosSoak

CONSTANTS n0, n1  \* n0 takes the submissions

Event(kind, target, trigger, recoverAfter) ==
  [kind |-> kind, target |-> target, trigger |-> trigger, recoverAfter |-> recoverAfter]

(* Aligned to the period, with disjoint windows for the two restarts and   *)
(* other faults, two of one kind among them, on top of each other.         *)
Aligned ==
  <<Event("restart", n1, 1, 3), Event("latency", n1, 4, 6), Event("partition", n1, 4, 3),
    Event("latency", n1, 6, 3), Event("restart", n1, 6, 3)>>

(* The example of chaos.md, to scale: recover_after is no multiple of the  *)
(* period.                                                                 *)
Misaligned == <<Event("restart", n1, 5, 4)>>
=============================================================================
