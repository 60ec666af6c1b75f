---------------------------- MODULE RunLifecycle ----------------------------
(***************************************************************************)
(* What the control service promises about a run, with no goroutine, lock  *)
(* or channel in sight (sidecar/internal/server/runs.go).                  *)
(*                                                                         *)
(* A run is started once, collects findings for as long as it is known,    *)
(* and ends exactly once: either its wall-clock budget is used up, or a    *)
(* finding it has collected meets one of its stop_on conditions.  How it   *)
(* ended, and the finding that ended it, never change afterwards.          *)
(***************************************************************************)
EXTENDS Naturals

CONSTANTS
  Runs,       \* run ids
  Findings,   \* finding ids
  NoFinding,  \* the empty trigger_finding
  Stops       \* Stops[r]: the findings that meet a stop_on condition of r

VARIABLES
  status,     \* status[r]: Run.Status, "absent" before POST /v1/runs
  trigger,    \* trigger[r]: Run.TriggerFinding
  collected   \* collected[r]: the members of Run.FindingIDs

vars == <<status, trigger, collected>>

Closed == {"completed_budget", "completed_stop_on"}

Init ==
  /\ status = [r \in Runs |-> "absent"]
  /\ trigger = [r \in Runs |-> NoFinding]
  /\ collected = [r \in Runs |-> {}]

Start(r) ==
  /\ status[r] = "absent"
  /\ status' = [status EXCEPT ![r] = "running"]
  /\ UNCHANGED <<trigger, collected>>

(* Findings are attributed while the run is open and also after it closed: *)
(* late attribution is part of the promise.                                *)
Collect(r, F) ==
  /\ status[r] # "absent"
  /\ collected' = [collected EXCEPT ![r] = @ \union F]
  /\ UNCHANGED <<status, trigger>>

BudgetClose(r) ==
  /\ status[r] = "running"
  /\ status' = [status EXCEPT ![r] = "completed_budget"]
  /\ UNCHANGED <<trigger, collected>>

StopOnClose(r, f) ==
  /\ status[r] = "running"
  /\ f \in collected[r] \cap Stops[r]
  /\ status' = [status EXCEPT ![r] = "completed_stop_on"]
  /\ trigger' = [trigger EXCEPT ![r] = f]
  /\ UNCHANGED collected

Finish(r) == BudgetClose(r) \/ \E f \in Findings : StopOnClose(r, f)

Next ==
  \E r \in Runs :
    \/ Start(r)
    \/ \E F \in SUBSET Findings : Collect(r, F)
    \/ Finish(r)

Safe == Init /\ [][Next]_vars

Spec == Safe /\ \A r \in Runs : WF_vars(Finish(r))
=============================================================================
