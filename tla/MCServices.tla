------------------------------ MODULE MCServices ------------------------------
(* What must happen in the end, in the two long-lived processes: the run    *)
(* service and the soak loop with its chaos.  They meet only through files  *)
(* and containers, so every behaviour follows one of them while the other   *)
(* stands still.                                                            *)
EXTENDS MCChaosSoak

CONSTANTS
  f1, f3, Runs, Findings, NoRun, NoFinding, DiskWatchers, Oracles, Readers, ChanCap, StoreCap

VARIABLES
  followed,
  status, trigger, attributed, reproducers, currentRun, budgetOver,
  wpc, hit, sweep, subscribed, chan, store, tag, repro, producer, undrawn, reader, due

controlVars ==
  <<status, trigger, attributed, reproducers, currentRun, budgetOver, wpc, hit, sweep,
    subscribed, chan, store, tag, repro, producer, undrawn, reader, due>>

(* f1 is a fork, on which a run may stop, f3 a stall, on which none does.   *)
KindOf == [f \in Findings |-> IF f = f1 THEN "state_divergence" ELSE "consensus_stall"]

StopOn == [r \in Runs |-> {"first_divergence", "none"}]

Control == INSTANCE ControlRuns

MCInit == followed \in {"control", "chaos"} /\ Control!Init /\ Init

MCNext ==
  /\ \/ followed = "control" /\ Control!Next /\ UNCHANGED vars
     \/ followed = "chaos" /\ Next /\ UNCHANGED controlVars
  /\ UNCHANGED followed

(* Only the process followed owes anything.                                 *)
MCSpec ==
  /\ MCInit
  /\ [][MCNext]_<<followed, vars, controlVars>>
  /\ followed = "control" => Control!Fairness
  /\ followed = "chaos" => Fairness

(* See ControlRuns for what these state; they hold of a service nobody uses. *)
ImplementsLifecycle == Control!ImplementsLifecycle
TaggedIsCollected   == Control!TaggedIsCollected
=============================================================================
