------------------------------ MODULE WorkPool ------------------------------
(***************************************************************************)
(* What the concurrent soak (runConcurrentSoak in sidecar/internal/fuzz/   *)
(* runners/seqsubmit.go) promises about a transaction, whatever its        *)
(* workers and channels do: every transaction that is taken in comes out   *)
(* again exactly once, and after a shutdown nothing is left inside.        *)
(***************************************************************************)
EXTENDS Naturals

CONSTANT Capacity  \* how many transactions can be inside

VARIABLES
  phase,    \* "running", "draining" or "done"
  inside,   \* transactions taken in and not handled yet
  handled   \* transactions whose outcome has been handled

vars == <<phase, inside, handled>>

Init == phase = "running" /\ inside = 0 /\ handled = 0

Accept ==
  /\ phase = "running"
  /\ inside < Capacity
  /\ inside' = inside + 1
  /\ UNCHANGED <<phase, handled>>

Handle ==
  /\ phase # "done"
  /\ inside > 0
  /\ inside' = inside - 1
  /\ handled' = handled + 1
  /\ UNCHANGED phase

Shutdown ==
  /\ phase = "running"
  /\ phase' = "draining"
  /\ UNCHANGED <<inside, handled>>

Finish ==
  /\ phase = "draining"
  /\ inside = 0
  /\ phase' = "done"
  /\ UNCHANGED <<inside, handled>>

Next == Accept \/ Handle \/ Shutdown \/ Finish

Safe == Init /\ [][Next]_vars

(* Once shut down, what is inside is handled and the pool finishes.        *)
Spec == Safe /\ WF_vars(phase = "draining" /\ (Handle \/ Finish))
=============================================================================
