---------------------------- MODULE ControlRuns -----------------------------
(***************************************************************************)
(* The runs of the confluence-control service: the run records, the        *)
(* goroutine that watches each run, the event bus that feeds it, the       *)
(* finding store, the goroutines that ingest findings (disk watcher and    *)
(* oracles), and the HTTP readers of GET /v1/runs/{id}.                    *)
(* Sources: sidecar/internal/server/{runs,events,reproducers,server}.go,   *)
(* sidecar/internal/finding/{store,disk_watcher}.go and the wiring in      *)
(* sidecar/cmd/confluence-control/main.go.                                 *)
(*                                                                         *)
(* One action is one critical section (or one channel operation): state    *)
(* read under a lock and used after the unlock is kept in a variable of    *)
(* its own, so everything that can happen in between does.                 *)
(***************************************************************************)
EXTENDS Naturals, Sequences, Functions

CONSTANTS
  Runs,          \* run ids POST /v1/runs may hand out
  Findings,      \* finding ids that may be drawn
  NoRun,         \* the empty run id
  NoFinding,     \* the empty trigger_finding
  DiskWatchers,  \* goroutines that tag what they ingest (DiskWatcher)
  Oracles,       \* goroutines that do not (divergence and stall oracles)
  Readers,       \* concurrent GET /v1/runs/{id} handlers
  KindOf,        \* KindOf[f]: kind of the finding with id f
  StopOn,        \* StopOn[r]: Budget.StopOn of the scenario run r executes
  ChanCap,       \* buffer of a watcher's subscription (64)
  StoreCap       \* maxCapacity of the finding store (1000)

Producers == DiskWatchers \union Oracles

StopOnValues == {"first_divergence", "first_crash", "none"}

ASSUME RunsAssumption == NoRun \notin Runs
ASSUME FindingsAssumption == NoFinding \notin Findings
ASSUME StopOnAssumption == StopOn \in [Runs -> SUBSET StopOnValues]
ASSUME CapAssumption == ChanCap \in Nat \ {0} /\ StoreCap \in Nat \ {0}

(* Every event other than a finding ("node", "run_completed"): a watcher   *)
(* reads and discards it, but it takes room in the buffers.                *)
OtherEvent == NoFinding

VARIABLES
  \* the run records, guarded by runStore.mu
  status, trigger, attributed, reproducers,
  currentRun,    \* Server.currentRun
  budgetOver,    \* budgetOver[r]: the clock has passed BudgetEndsAt
  \* the watchRun goroutine of each run
  wpc, hit, sweep,
  \* the event bus
  subscribed, chan,
  \* the finding store, and the RunID and Reproducer fields of a finding
  store, tag, repro,
  \* the ingesting goroutines and the findings nobody has drawn yet
  producer, undrawn,
  \* the HTTP readers
  reader,
  \* history: what the final sweep of a run has to pick up
  due

runVars   == <<status, trigger, attributed, reproducers, currentRun, budgetOver>>
watchVars == <<wpc, hit, sweep, due>>
busVars   == <<subscribed, chan>>
storeVars == <<store, tag, repro>>
ingestVars == <<producer, undrawn>>
vars == <<runVars, watchVars, busVars, storeVars, ingestVars, reader>>

Closed == {"completed_budget", "completed_stop_on"}

(* Where the watchRun goroutine of a run is.                               *)
WatchPc == {"none", "subscribe", "select", "sweep", "merge", "close",
            "announce", "emit", "record", "unsubscribe", "done"}

Stored == Range(store)

(* Mutant: the RunID of the listed findings is not compared.               *)
TaggedAny(r) == Stored

(* The findings in the store whose RunID is r: what List returns, cut down *)
(* to the ones syncFindingsForRun looks at.  List's limit of 1000 is the   *)
(* capacity of the store, so nothing is cut off.                           *)
Tagged(r) == {f \in Stored : tag[f] = r}

stopOnMatches(cond) ==
  CASE cond = "first_divergence" -> {"state_divergence"}
    [] cond = "first_crash"      -> {"node_crash"}
    [] cond = "none"             -> {}

matchesStopOn(r, f) == \E cond \in StopOn[r] : KindOf[f] \in stopOnMatches(cond)

Init ==
  /\ status = [r \in Runs |-> "absent"]
  /\ trigger = [r \in Runs |-> NoFinding]
  /\ attributed = [r \in Runs |-> [f \in Findings |-> 0]]
  /\ reproducers = [r \in Runs |-> 0]
  /\ currentRun = NoRun
  /\ budgetOver = [r \in Runs |-> FALSE]
  /\ wpc = [r \in Runs |-> "none"]
  /\ hit = [r \in Runs |-> NoFinding]
  /\ sweep = [r \in Runs |-> {}]
  /\ due = [r \in Runs |-> {}]
  /\ subscribed = {}
  /\ chan = [r \in Runs |-> <<>>]
  /\ store = <<>>
  /\ tag = [f \in Findings |-> NoRun]
  /\ repro = [f \in Findings |-> NoRun]
  /\ producer = [p \in Producers |-> [pc |-> "idle", f |-> NoFinding]]
  /\ undrawn = Findings
  /\ reader = [c \in Readers |-> [pc |-> "idle", run |-> NoRun, sweep |-> {}, due |-> {}]]

-----------------------------------------------------------------------------
(* The event bus.                                                          *)

(* Publish never blocks: a subscriber whose buffer is full misses the      *)
(* event.  The sends to the subscribers are one step here; they commute,   *)
(* because each subscriber has a channel of its own.                       *)
Send(c, ev) == IF Len(c) < ChanCap THEN Append(c, ev) ELSE c

Publish(ev) ==
  chan' = [r \in Runs |-> IF r \in subscribed THEN Send(chan[r], ev) ELSE chan[r]]

(* The node poller shares the bus.                                         *)
NodeEvent ==
  /\ Publish(OtherEvent)
  /\ UNCHANGED <<runVars, watchVars, subscribed, storeVars, ingestVars, reader>>

-----------------------------------------------------------------------------
(* The run records.                                                        *)

(* FindingIDs is kept as a bag: how often a finding id occurs in the list. *)
AppendFinding(ids, f) == [ids EXCEPT ![f] = @ + 1]

(* The second half of syncFindingsForRun, under runStore.mu: append what   *)
(* was listed and is not there yet.                                        *)
AppendMissing(ids, F) ==
  [f \in Findings |-> IF f \in F /\ ids[f] = 0 THEN 1 ELSE ids[f]]

(* POST /v1/runs with a valid scenario.                                    *)
startRun(r) ==
  /\ status[r] = "absent"
  /\ status' = [status EXCEPT ![r] = "running"]
  /\ currentRun' = r
  /\ wpc' = [wpc EXCEPT ![r] = "subscribe"]
  /\ UNCHANGED <<trigger, attributed, reproducers, budgetOver, hit, sweep, due,
                 busVars, storeVars, ingestVars, reader>>

BudgetElapses(r) ==
  /\ status[r] = "running"
  /\ ~budgetOver[r]
  /\ budgetOver' = [budgetOver EXCEPT ![r] = TRUE]
  /\ UNCHANGED <<status, trigger, attributed, reproducers, currentRun,
                 watchVars, busVars, storeVars, ingestVars, reader>>

-----------------------------------------------------------------------------
(* The watchRun goroutine of run r.                                        *)

Goto(r, from, to) ==
  /\ wpc[r] = from
  /\ wpc' = [wpc EXCEPT ![r] = to]

Subscribe(r) ==
  /\ Goto(r, "subscribe", "select")
  /\ subscribed' = subscribed \union {r}
  /\ chan' = [chan EXCEPT ![r] = <<>>]
  /\ UNCHANGED <<runVars, hit, sweep, due, storeVars, ingestVars, reader>>

(* Mutant: the deadline is not looked at.                                  *)
TickAnyTime(r) ==
  /\ Goto(r, "select", "sweep")
  /\ due' = [due EXCEPT ![r] = Tagged(r)]
  /\ UNCHANGED <<runVars, hit, sweep, busVars, storeVars, ingestVars, reader>>

(* Mutant: the deadline is compared the wrong way round.                   *)
TickBeforeDeadline(r) ==
  /\ Goto(r, "select", "sweep")
  /\ ~budgetOver[r]
  /\ due' = [due EXCEPT ![r] = Tagged(r)]
  /\ UNCHANGED <<runVars, hit, sweep, busVars, storeVars, ingestVars, reader>>

(* The ticker branch of the select, once the budget is used up.            *)
Tick(r) ==
  /\ Goto(r, "select", "sweep")
  /\ budgetOver[r]
  /\ due' = [due EXCEPT ![r] = Tagged(r)]
  /\ UNCHANGED <<runVars, hit, sweep, busVars, storeVars, ingestVars, reader>>

(* The channel branch, for an event that is not a finding.                 *)
DiscardEvent(r) ==
  /\ wpc[r] = "select"
  /\ chan[r] # <<>> /\ Head(chan[r]) = OtherEvent
  /\ chan' = [chan EXCEPT ![r] = Tail(@)]
  /\ UNCHANGED <<runVars, watchVars, subscribed, storeVars, ingestVars, reader>>

(* The channel branch, for a finding: it is attributed whatever its RunID, *)
(* and leaves the loop for closeRun if it meets a stop_on condition.       *)
ReceiveFinding(r) ==
  /\ wpc[r] = "select"
  /\ chan[r] # <<>> /\ Head(chan[r]) # OtherEvent
  /\ LET f == Head(chan[r]) IN
       /\ chan' = [chan EXCEPT ![r] = Tail(@)]
       /\ attributed' = [attributed EXCEPT ![r] = AppendFinding(@, f)]
       /\ IF matchesStopOn(r, f)
            THEN /\ wpc' = [wpc EXCEPT ![r] = "sweep"]
                 /\ hit' = [hit EXCEPT ![r] = f]
                 /\ due' = [due EXCEPT ![r] = Tagged(r)]
            ELSE UNCHANGED <<wpc, hit, due>>
  /\ UNCHANGED <<status, trigger, reproducers, currentRun, budgetOver, sweep,
                 subscribed, storeVars, ingestVars, reader>>

(* Mutant: closeRun without its final sweep.                               *)
SweepNothing(r) ==
  /\ Goto(r, "sweep", "merge")
  /\ UNCHANGED <<runVars, hit, sweep, due, busVars, storeVars, ingestVars, reader>>

(* closeRun: list the store ...                                            *)
SweepList(r) ==
  /\ Goto(r, "sweep", "merge")
  /\ sweep' = [sweep EXCEPT ![r] = Tagged(r)]
  /\ UNCHANGED <<runVars, hit, due, busVars, storeVars, ingestVars, reader>>

(* ... append what is missing ...                                          *)
SweepMerge(r) ==
  /\ Goto(r, "merge", "close")
  /\ attributed' = [attributed EXCEPT ![r] = AppendMissing(@, sweep[r])]
  /\ sweep' = [sweep EXCEPT ![r] = {}]
  /\ UNCHANGED <<status, trigger, reproducers, currentRun, budgetOver, hit, due,
                 busVars, storeVars, ingestVars, reader>>

(* ... set the status and the trigger in one critical section ...          *)
Close(r) ==
  /\ Goto(r, "close", "announce")
  /\ status' = [status EXCEPT ![r] =
                  IF hit[r] = NoFinding THEN "completed_budget" ELSE "completed_stop_on"]
  /\ trigger' = [trigger EXCEPT ![r] = hit[r]]
  /\ UNCHANGED <<attributed, reproducers, currentRun, budgetOver, hit, sweep, due,
                 busVars, storeVars, ingestVars, reader>>

(* Mutant: the loop does not return after closeRun.                        *)
AnnounceAndGoOn(r) ==
  /\ Goto(r, "announce", IF hit[r] = NoFinding THEN "unsubscribe" ELSE "select")
  /\ Publish(OtherEvent)
  /\ UNCHANGED <<runVars, hit, sweep, due, subscribed, storeVars, ingestVars, reader>>

(* ... and publish run_completed, which also lands in the run's own        *)
(* channel.  A run closed by its budget has nothing more to do.            *)
Announce(r) ==
  /\ Goto(r, "announce", IF hit[r] = NoFinding THEN "unsubscribe" ELSE "emit")
  /\ Publish(OtherEvent)
  /\ UNCHANGED <<runVars, hit, sweep, due, subscribed, storeVars, ingestVars, reader>>

(* Mutant: the error of Emit is ignored.                                   *)
EmitIgnoringError(r) ==
  /\ Goto(r, "emit", "record")
  /\ \/ UNCHANGED repro
     \/ repro' = IF hit[r] \in Stored THEN [repro EXCEPT ![hit[r]] = r] ELSE repro
  /\ UNCHANGED <<runVars, hit, sweep, due, busVars, store, tag, ingestVars, reader>>

(* handleStopOnTrigger: the reproducer is written to disk, which may fail, *)
(* and linked from the finding if the store still holds it.                *)
Emit(r) ==
  /\ wpc[r] = "emit"
  /\ \/ /\ wpc' = [wpc EXCEPT ![r] = "unsubscribe"]
        /\ UNCHANGED repro
     \/ /\ wpc' = [wpc EXCEPT ![r] = "record"]
        /\ repro' = IF hit[r] \in Stored THEN [repro EXCEPT ![hit[r]] = r] ELSE repro
  /\ UNCHANGED <<runVars, hit, sweep, due, busVars, store, tag, ingestVars, reader>>

RecordReproducer(r) ==
  /\ Goto(r, "record", "unsubscribe")
  /\ reproducers' = [reproducers EXCEPT ![r] = @ + 1]
  /\ UNCHANGED <<status, trigger, attributed, currentRun, budgetOver, hit, sweep,
                 due, busVars, storeVars, ingestVars, reader>>

Unsubscribe(r) ==
  /\ Goto(r, "unsubscribe", "done")
  /\ subscribed' = subscribed \ {r}
  /\ chan' = [chan EXCEPT ![r] = <<>>]
  /\ UNCHANGED <<runVars, hit, sweep, due, storeVars, ingestVars, reader>>

Watch(r) ==
  \/ Subscribe(r) \/ Tick(r) \/ DiscardEvent(r) \/ ReceiveFinding(r)
  \/ SweepList(r) \/ SweepMerge(r) \/ Close(r) \/ Announce(r)
  \/ Emit(r) \/ RecordReproducer(r) \/ Unsubscribe(r)

-----------------------------------------------------------------------------
(* Ingestion.  A producer draws a finding, adds it to the store and        *)
(* publishes it after the store's lock is released.                        *)

(* The disk watcher tags the finding with the current run; the oracles     *)
(* leave RunID empty.                                                      *)
Draw(p) ==
  /\ producer[p].pc = "idle"
  /\ \E f \in undrawn :
       /\ undrawn' = undrawn \ {f}
       /\ producer' = [producer EXCEPT ![p] = [pc |-> "add", f |-> f]]
       /\ tag' = [tag EXCEPT ![f] = IF p \in DiskWatchers THEN currentRun ELSE NoRun]
  /\ UNCHANGED <<runVars, watchVars, busVars, store, repro, reader>>

Evict(s) == IF Len(s) >= StoreCap THEN Tail(s) ELSE s

Add(p) ==
  /\ producer[p].pc = "add"
  /\ store' = Append(Evict(store), producer[p].f)
  /\ producer' = [producer EXCEPT ![p] = [pc |-> "publish", f |-> @.f]]
  /\ UNCHANGED <<runVars, watchVars, busVars, tag, repro, undrawn, reader>>

OnAdd(p) ==
  /\ producer[p].pc = "publish"
  /\ Publish(producer[p].f)
  /\ producer' = [producer EXCEPT ![p] = [pc |-> "idle", f |-> NoFinding]]
  /\ UNCHANGED <<runVars, watchVars, subscribed, storeVars, undrawn, reader>>

Ingest(p) == Draw(p) \/ Add(p) \/ OnAdd(p)

-----------------------------------------------------------------------------
(* GET /v1/runs/{id}: list the store, append what is missing, copy the     *)
(* record into the response.                                               *)

ReadWithoutSync(c) ==  \* mutant: runByID does not sync
  /\ reader[c].pc = "idle"
  /\ \E r \in Runs :
       /\ status[r] # "absent"
       /\ reader' = [reader EXCEPT ![c] = [pc |-> "merge", run |-> r,
                                           sweep |-> {}, due |-> Tagged(r)]]
  /\ UNCHANGED <<runVars, watchVars, busVars, storeVars, ingestVars>>

ReadList(c) ==
  /\ reader[c].pc = "idle"
  /\ \E r \in Runs :
       /\ status[r] # "absent"
       /\ reader' = [reader EXCEPT ![c] = [pc |-> "merge", run |-> r,
                                           sweep |-> Tagged(r), due |-> Tagged(r)]]
  /\ UNCHANGED <<runVars, watchVars, busVars, storeVars, ingestVars>>

ReadMerge(c) ==
  /\ reader[c].pc = "merge"
  /\ attributed' = [attributed EXCEPT ![reader[c].run] = AppendMissing(@, reader[c].sweep)]
  /\ reader' = [reader EXCEPT ![c] = [pc |-> "idle", run |-> NoRun, sweep |-> {}, due |-> {}]]
  /\ UNCHANGED <<status, trigger, reproducers, currentRun, budgetOver,
                 watchVars, busVars, storeVars, ingestVars>>

runByID(c) == ReadList(c) \/ ReadMerge(c)

-----------------------------------------------------------------------------
Next ==
  \/ NodeEvent
  \/ \E r \in Runs : startRun(r) \/ BudgetElapses(r) \/ Watch(r)
  \/ \E p \in Producers : Ingest(p)
  \/ \E c \in Readers : runByID(c)

Safe == Init /\ [][Next]_vars

(* Time passes, and no goroutine that can take a step is starved for good: *)
(* Go's select picks at random among the ready branches, so a ready ticker *)
(* is not passed over forever.  Nothing obliges a client to start a run or *)
(* to read one, nor a finding to be drawn.                                 *)
Fairness ==
  /\ \A r \in Runs :
       /\ WF_vars(BudgetElapses(r)) /\ WF_vars(Tick(r))
       /\ WF_vars(DiscardEvent(r) \/ ReceiveFinding(r))
       /\ WF_vars(Watch(r) /\ wpc[r] # "select")
  /\ \A p \in Producers : WF_vars(Add(p) \/ OnAdd(p))
  /\ \A c \in Readers : WF_vars(ReadMerge(c))

Spec == Safe /\ Fairness
-----------------------------------------------------------------------------
(* Properties.                                                             *)

(* Every variable has its type, and the buffers keep to their capacity.    *)
TypeOK ==
  /\ status \in [Runs -> {"absent", "running"} \union Closed]
  /\ trigger \in [Runs -> Findings \union {NoFinding}]
  /\ attributed \in [Runs -> [Findings -> Nat]]
  /\ reproducers \in [Runs -> Nat]
  /\ currentRun \in Runs \union {NoRun}
  /\ budgetOver \in [Runs -> BOOLEAN]
  /\ wpc \in [Runs -> WatchPc]
  /\ hit \in [Runs -> Findings \union {NoFinding}]
  /\ sweep \in [Runs -> SUBSET Findings]
  /\ due \in [Runs -> SUBSET Findings]
  /\ subscribed \in SUBSET Runs
  /\ chan \in [Runs -> Seq(Findings \union {OtherEvent})]
  /\ \A r \in Runs : Len(chan[r]) <= ChanCap
  /\ store \in Seq(Findings) /\ Len(store) <= StoreCap
  /\ tag \in [Findings -> Runs \union {NoRun}]
  /\ repro \in [Findings -> Runs \union {NoRun}]
  /\ producer \in [Producers -> [pc : {"idle"}, f : {NoFinding}]
                                 \union [pc : {"add", "publish"}, f : Findings]]
  /\ undrawn \in SUBSET Findings
  /\ reader \in [Readers -> [pc : {"idle", "merge"}, run : Runs \union {NoRun},
                             sweep : SUBSET Findings, due : SUBSET Findings]]

(* A run says completed_stop_on only with a trigger it has collected and   *)
(* whose kind is one its stop_on asks for, and completed_budget only after *)
(* its budget is used up; before it closes it names no trigger.            *)
ClosingJustified ==
  \A r \in Runs :
    /\ status[r] = "completed_stop_on" =>
         /\ trigger[r] \in Findings
         /\ attributed[r][trigger[r]] > 0
         /\ matchesStopOn(r, trigger[r])
    /\ status[r] = "completed_budget" => budgetOver[r] /\ trigger[r] = NoFinding
    /\ status[r] \notin Closed => trigger[r] = NoFinding

(* FindingIDs counts a finding twice at most: once for its event, once for *)
(* the sweep of a close or of a read that ran ahead of the event.          *)
AtMostTwice == \A r \in Runs, f \in Findings : attributed[r][f] <= 2

(* closeRun's final sweep: a closed run holds every finding tagged with it *)
(* that the store held when the closing began and has not evicted since.   *)
CloseSweeps ==
  \A r \in Runs : status[r] \in Closed =>
    \A f \in due[r] \cap Stored : attributed[r][f] > 0

(* runByID attributes late: when a read answers, the run holds every       *)
(* finding tagged with it that the store held when the request came in.    *)
AnswersSwept ==
  [][\A c \in Readers :
       reader[c].pc = "merge" /\ reader'[c].pc = "idle" =>
         \A f \in reader[c].due : attributed'[reader[c].run][f] > 0]_vars

(* Once a run is closed only findings tagged with it are added to it: what *)
(* happens under a later run does not leak into the report of this one.    *)
LateAttributionTagged ==
  [][\A r \in Runs : status[r] \in Closed =>
       \A f \in Findings : attributed'[r][f] > attributed[r][f] => tag[f] = r]_vars

(* A reproducer is recorded only for a run that a stop_on closed, once,    *)
(* and a finding points only to a reproducer of a run it was the trigger   *)
(* of, even when one finding closes two runs.                              *)
ReproducerLinked ==
  /\ \A r \in Runs : reproducers[r] > 0 =>
       /\ reproducers[r] = 1 /\ status[r] = "completed_stop_on"
       /\ trigger[r] \in Stored => repro[trigger[r]] # NoRun
  /\ \A f \in Findings : repro[f] # NoRun => trigger[repro[f]] = f

(* A run as RunLifecycle sees it.                                          *)
Lifecycle == INSTANCE RunLifecycle WITH
  Stops <- [r \in Runs |-> {f \in Findings : matchesStopOn(r, f)}],
  collected <- [r \in Runs |-> {f \in Findings : attributed[r][f] > 0}]

(* Every step of every goroutine is a step the promise of RunLifecycle     *)
(* allows, or one it does not see: a run closes once, and what it says     *)
(* about its end never changes (startRun, watchRun, closeRun).             *)
KeepsLifecycle == Lifecycle!Safe

(* Every run that is started is closed eventually, too.                    *)
ImplementsLifecycle == Lifecycle!Spec

(* A finding tagged with a run whose watcher has not begun the final sweep *)
(* is collected by the run, through its event or through the sweep, unless *)
(* the store evicts it first.                                              *)
TaggedIsCollected ==
  \A r \in Runs, f \in Findings :
    (wpc[r] \in {"subscribe", "select", "sweep"} /\ f \in Tagged(r))
      ~> (attributed[r][f] > 0 \/ f \notin Stored)

(* runs.go: syncFindingsForRun appends any finding that "isn't already     *)
(* attributed" and is "Safe to call any time".  The event of a finding the *)
(* sweep of a read attributed first adds it once more.                     *)
NoDuplicateFindings == \A r \in Runs, f \in Findings : attributed[r][f] <= 1
=============================================================================
