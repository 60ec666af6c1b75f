------------------------- MODULE ControlRunsProofs --------------------------
(***************************************************************************)
(* Proofs about ControlRuns, for every set of runs, findings, producers    *)
(* and readers and every buffer size.                                      *)
(***************************************************************************)
EXTENDS ControlRuns, SequenceTheorems, TLAPS

(* Publishing keeps every buffer a sequence of events within its bound.    *)
LEMMA SendType ==
  ASSUME NEW E, NEW c \in Seq(E), NEW ev \in E, Len(c) <= ChanCap
  PROVE  Send(c, ev) \in Seq(E) /\ Len(Send(c, ev)) <= ChanCap
BY CapAssumption DEF Send

LEMMA PublishType ==
  ASSUME TypeOK, NEW ev \in Findings \union {OtherEvent}, Publish(ev)
  PROVE  /\ chan' \in [Runs -> Seq(Findings \union {OtherEvent})]
         /\ \A r \in Runs : Len(chan'[r]) <= ChanCap
<1>1. \A r \in Runs : /\ Send(chan[r], ev) \in Seq(Findings \union {OtherEvent})
                      /\ Len(Send(chan[r], ev)) <= ChanCap
  BY SendType DEF TypeOK
<1>2. QED
  BY <1>1 DEF Publish, TypeOK

(* The store holds findings only, so what a sweep lists is a set of them.  *)
LEMMA StoredFindings ==
  ASSUME store \in Seq(Findings)
  PROVE  Stored \subseteq Findings /\ \A r \in Runs : Tagged(r) \subseteq Findings
BY DEF Stored, Tagged, Range

LEMMA StoreType ==
  ASSUME store \in Seq(Findings), Len(store) <= StoreCap, NEW f \in Findings
  PROVE  /\ Append(Evict(store), f) \in Seq(Findings)
         /\ Len(Append(Evict(store), f)) <= StoreCap
<1>1. CASE Len(store) >= StoreCap
  <2>1. store # <<>>
    BY <1>1, CapAssumption
  <2>2. Tail(store) \in Seq(Findings) /\ Len(Tail(store)) = Len(store) - 1
    BY <2>1
  <2>3. QED
    BY <1>1, <2>2, CapAssumption DEF Evict
<1>2. CASE ~(Len(store) >= StoreCap)
  BY <1>2, CapAssumption DEF Evict
<1>3. QED
  BY <1>1, <1>2

(* A finding counted once more, or appended where it was missing, leaves a *)
(* bag of findings.                                                        *)
LEMMA BagType ==
  ASSUME NEW ids \in [Findings -> Nat], NEW f \in Findings, NEW F
  PROVE  AppendFinding(ids, f) \in [Findings -> Nat] /\ AppendMissing(ids, F) \in [Findings -> Nat]
BY DEF AppendFinding, AppendMissing

LEMMA InitType == Init => TypeOK
<1>1. ASSUME Init PROVE TypeOK
  <2>1. chan \in [Runs -> Seq(Findings \union {OtherEvent})] /\ \A r \in Runs : Len(chan[r]) <= ChanCap
    BY <1>1, CapAssumption DEF Init
  <2>2. store \in Seq(Findings) /\ Len(store) <= StoreCap
    BY <1>1, CapAssumption DEF Init
  <2>3. QED
    BY <1>1, <2>1, <2>2 DEF Init, TypeOK, Closed, WatchPc
<1>2. QED
  BY <1>1

LEMMA WatchType ==
  ASSUME TypeOK, NEW r \in Runs, Watch(r)
  PROVE  TypeOK'
<1> USE DEF Goto, runVars, watchVars, busVars, storeVars, ingestVars, Closed, WatchPc
<1>a. OtherEvent \in Findings \union {OtherEvent}
  OBVIOUS
<1>b. \A q \in Runs : Tagged(q) \subseteq Findings
  BY StoredFindings DEF TypeOK
<1>1. CASE Subscribe(r)
  <2>1. /\ chan' \in [Runs -> Seq(Findings \union {OtherEvent})]
        /\ \A q \in Runs : Len(chan'[q]) <= ChanCap
    BY <1>1, CapAssumption DEF Subscribe, TypeOK
  <2>2. QED
    BY <1>1, <2>1 DEF Subscribe, TypeOK
<1>2. CASE Tick(r)
  BY <1>2, <1>b DEF Tick, TypeOK
<1>3. CASE DiscardEvent(r)
  <2>1. /\ Tail(chan[r]) \in Seq(Findings \union {OtherEvent})
        /\ Len(Tail(chan[r])) <= ChanCap
    BY <1>3, CapAssumption DEF DiscardEvent, TypeOK
  <2>2. /\ chan' \in [Runs -> Seq(Findings \union {OtherEvent})]
        /\ \A q \in Runs : Len(chan'[q]) <= ChanCap
    BY <1>3, <2>1 DEF DiscardEvent, TypeOK
  <2>3. QED
    BY <1>3, <2>2 DEF DiscardEvent, TypeOK
<1>4. CASE ReceiveFinding(r)
  <2>1. /\ Tail(chan[r]) \in Seq(Findings \union {OtherEvent})
        /\ Len(Tail(chan[r])) <= ChanCap
        /\ Head(chan[r]) \in Findings
    BY <1>4, CapAssumption DEF ReceiveFinding, TypeOK
  <2>2. /\ chan' \in [Runs -> Seq(Findings \union {OtherEvent})]
        /\ \A q \in Runs : Len(chan'[q]) <= ChanCap
    BY <1>4, <2>1 DEF ReceiveFinding, TypeOK
  <2>3. attributed' \in [Runs -> [Findings -> Nat]]
    BY <1>4, <2>1, BagType DEF ReceiveFinding, TypeOK
  <2>4. /\ wpc' \in [Runs -> WatchPc]
        /\ hit' \in [Runs -> Findings \union {NoFinding}]
        /\ due' \in [Runs -> SUBSET Findings]
    <3>1. CASE matchesStopOn(r, Head(chan[r]))
      <4>1. /\ wpc' = [wpc EXCEPT ![r] = "sweep"]
            /\ hit' = [hit EXCEPT ![r] = Head(chan[r])]
            /\ due' = [due EXCEPT ![r] = Tagged(r)]
        BY <1>4, <3>1 DEF ReceiveFinding
      <4>2. QED
        BY <4>1, <2>1, <1>b DEF TypeOK
    <3>2. CASE ~matchesStopOn(r, Head(chan[r]))
      BY <1>4, <3>2 DEF ReceiveFinding, TypeOK
    <3>3. QED
      BY <3>1, <3>2
  <2>5. QED
    BY <1>4, <2>2, <2>3, <2>4 DEF ReceiveFinding, TypeOK
<1>5. CASE SweepList(r)
  BY <1>5, <1>b DEF SweepList, TypeOK
<1>6. CASE SweepMerge(r)
  <2>1. AppendMissing(attributed[r], sweep[r]) \in [Findings -> Nat]
    BY DEF AppendMissing, TypeOK
  <2>2. QED
    BY <1>6, <2>1 DEF SweepMerge, TypeOK
<1>7. CASE Close(r)
  BY <1>7 DEF Close, TypeOK
<1>8. CASE Announce(r)
  <2>1. /\ chan' \in [Runs -> Seq(Findings \union {OtherEvent})]
        /\ \A q \in Runs : Len(chan'[q]) <= ChanCap
    BY <1>8, <1>a, PublishType DEF Announce
  <2>2. QED
    BY <1>8, <2>1 DEF Announce, TypeOK
<1>9. CASE Emit(r)
  <2>1. wpc' \in [Runs -> WatchPc]
    <3>1. wpc' = [wpc EXCEPT ![r] = "unsubscribe"] \/ wpc' = [wpc EXCEPT ![r] = "record"]
      BY <1>9 DEF Emit
    <3>2. QED
      BY <3>1 DEF TypeOK
  <2>2. repro' \in [Findings -> Runs \union {NoRun}]
    BY <1>9 DEF Emit, TypeOK
  <2>3. QED
    BY <1>9, <2>1, <2>2 DEF Emit, TypeOK
<1>10. CASE RecordReproducer(r)
  BY <1>10 DEF RecordReproducer, TypeOK
<1>11. CASE Unsubscribe(r)
  <2>1. /\ chan' \in [Runs -> Seq(Findings \union {OtherEvent})]
        /\ \A q \in Runs : Len(chan'[q]) <= ChanCap
    BY <1>11, CapAssumption DEF Unsubscribe, TypeOK
  <2>2. QED
    BY <1>11, <2>1 DEF Unsubscribe, TypeOK
<1>12. QED
  BY <1>1, <1>2, <1>3, <1>4, <1>5, <1>6, <1>7, <1>8, <1>9, <1>10, <1>11 DEF Watch

LEMMA NextType ==
  ASSUME TypeOK, [Next]_vars
  PROVE  TypeOK'
<1> USE DEF runVars, watchVars, busVars, storeVars, ingestVars, Closed, WatchPc
<1>1. CASE NodeEvent
  <2>1. /\ chan' \in [Runs -> Seq(Findings \union {OtherEvent})]
        /\ \A q \in Runs : Len(chan'[q]) <= ChanCap
    BY <1>1, PublishType DEF NodeEvent
  <2>2. QED
    BY <1>1, <2>1 DEF NodeEvent, TypeOK
<1>2. ASSUME NEW r \in Runs, startRun(r) PROVE TypeOK'
  BY <1>2 DEF startRun, TypeOK
<1>3. ASSUME NEW r \in Runs, BudgetElapses(r) PROVE TypeOK'
  BY <1>3 DEF BudgetElapses, TypeOK
<1>4. ASSUME NEW r \in Runs, Watch(r) PROVE TypeOK'
  BY <1>4, WatchType
<1>5. ASSUME NEW p \in Producers, Draw(p) PROVE TypeOK'
  BY <1>5 DEF Draw, TypeOK
<1>6. ASSUME NEW p \in Producers, Add(p) PROVE TypeOK'
  <2>1. producer[p].f \in Findings
    BY <1>6 DEF Add, TypeOK
  <2>2. store' \in Seq(Findings) /\ Len(store') <= StoreCap
    BY <1>6, <2>1, StoreType DEF Add, TypeOK
  <2>3. producer' \in [Producers -> [pc : {"idle"}, f : {NoFinding}]
                                     \union [pc : {"add", "publish"}, f : Findings]]
    BY <1>6, <2>1 DEF Add, TypeOK
  <2>4. QED
    BY <1>6, <2>2, <2>3 DEF Add, TypeOK
<1>7. ASSUME NEW p \in Producers, OnAdd(p) PROVE TypeOK'
  <2>1. producer[p].f \in Findings \union {OtherEvent}
    BY DEF TypeOK, OtherEvent
  <2>2. /\ chan' \in [Runs -> Seq(Findings \union {OtherEvent})]
        /\ \A q \in Runs : Len(chan'[q]) <= ChanCap
    BY <1>7, <2>1, PublishType DEF OnAdd
  <2>3. QED
    BY <1>7, <2>2 DEF OnAdd, TypeOK
<1>8. ASSUME NEW c \in Readers, ReadList(c) PROVE TypeOK'
  BY <1>8, StoredFindings DEF ReadList, TypeOK
<1>9. ASSUME NEW c \in Readers, ReadMerge(c) PROVE TypeOK'
  BY <1>9 DEF ReadMerge, TypeOK, AppendMissing
<1>10. CASE UNCHANGED vars
  BY <1>10 DEF vars, TypeOK
<1>11. QED
  BY <1>1, <1>2, <1>3, <1>4, <1>5, <1>6, <1>7, <1>8, <1>9, <1>10 DEF Next, Ingest, runByID

(* The type of every variable, and the bounds of the buffers, hold in      *)
(* every state of the control service.                                     *)
THEOREM TypeCorrect == Spec => []TypeOK
<1>1. Safe => []TypeOK
  BY InitType, NextType, PTL DEF Safe
<1>2. QED
  BY <1>1, PTL DEF Spec

-----------------------------------------------------------------------------
(* The inductive strengthening.                                            *)

Before == {"none", "subscribe", "select"}
Closing == {"sweep", "merge", "close"}

(* How a run's record follows its watcher: it is open until Close, the     *)
(* finding that tripped it is collected and of the right kind, and without *)
(* one the budget is over.                                                 *)
RunInv(r) ==
  /\ wpc[r] = "none" <=> status[r] = "absent"
  /\ wpc[r] \in {"subscribe", "select"} \union Closing <=> status[r] = "running"
  /\ wpc[r] \in Before => hit[r] = NoFinding /\ due[r] = {}
  /\ hit[r] # NoFinding => attributed[r][hit[r]] > 0 /\ matchesStopOn(r, hit[r])
  /\ wpc[r] \notin Before /\ hit[r] = NoFinding => budgetOver[r]
  /\ trigger[r] = (IF status[r] \in Closed THEN hit[r] ELSE NoFinding)
  /\ status[r] \in Closed => (status[r] = "completed_budget" <=> hit[r] = NoFinding)
  /\ wpc[r] \in {"emit", "record"} => hit[r] # NoFinding

WatchInv == \A r \in Runs : RunInv(r)

(* A finding is fresh until the store has it.                              *)
Adding(p, f) == producer[p] = [pc |-> "add", f |-> f]
Publishing(p, f) == producer[p] = [pc |-> "publish", f |-> f]
Fresh(f) == f \in undrawn \/ \E p \in Producers : Adding(p, f)

(* A fresh finding is nowhere else, and no two producers hold the same.    *)
Nowhere(f) ==
  /\ f \notin Stored
  /\ \A r \in Runs : /\ f \notin Range(chan[r])
                     /\ f # hit[r] /\ f \notin due[r] /\ f \notin sweep[r]
                     /\ attributed[r][f] = 0
  /\ \A c \in Readers : f \notin reader[c].sweep

HeldOnce(f) ==
  \A p \in Producers : Adding(p, f) \/ Publishing(p, f) =>
    /\ f \notin undrawn
    /\ \A q \in Producers \ {p} : ~Adding(q, f) /\ ~Publishing(q, f)

FreshInv == \A f \in Findings : (Fresh(f) => Nowhere(f)) /\ HeldOnce(f)

(* The final sweep: what is due is tagged with the run, is in the list     *)
(* once it is taken, and is attributed once the list is merged.            *)
SweepAt(r) ==
  /\ \A f \in due[r] : tag[f] = r
  /\ wpc[r] = "merge" => due[r] \cap Stored \subseteq sweep[r]
  /\ wpc[r] \notin Before \union {"sweep", "merge"} =>
       \A f \in due[r] \cap Stored : attributed[r][f] > 0

SweepInv == \A r \in Runs : SweepAt(r)

(* Reproducers: recorded once, after the link from the finding is made.    *)
ReproAt(r) ==
  /\ reproducers[r] \in {0, 1}
  /\ wpc[r] \notin {"unsubscribe", "done"} => reproducers[r] = 0
  /\ wpc[r] = "record" \/ reproducers[r] > 0 =>
       /\ hit[r] # NoFinding /\ status[r] \in Closed
       /\ hit[r] \in Stored => repro[hit[r]] # NoRun

LinkInv ==
  \A f \in Findings : repro[f] # NoRun => hit[repro[f]] = f /\ status[repro[f]] \in Closed

ReproInv == LinkInv /\ \A r \in Runs : ReproAt(r)

(* One event per finding and run: a finding whose event is still ahead of  *)
(* a run is counted once at most, and by a sweep.                          *)
Ahead(r, f) == f \in Range(chan[r]) \/ \E p \in Producers : Publishing(p, f)

Distinct(c) == \A i, j \in DOMAIN c : c[i] = c[j] /\ c[i] # OtherEvent => i = j

CountAt(r) ==
  /\ Distinct(chan[r])
  /\ \A p \in Producers, f \in Findings : Publishing(p, f) => f \notin Range(chan[r])
  /\ \A f \in Findings : attributed[r][f] <= (IF Ahead(r, f) THEN 1 ELSE 2)

CountInv == \A r \in Runs : CountAt(r)

(* A reader that has listed the store: it lists for a run, all the list is *)
(* tagged with that run, and nothing due is missing from it.               *)
ReaderAt(c) ==
  reader[c].pc = "merge" =>
    /\ reader[c].run \in Runs /\ status[reader[c].run] # "absent"
    /\ reader[c].due \subseteq reader[c].sweep
    /\ \A f \in reader[c].sweep : tag[f] = reader[c].run

ReaderInv == \A c \in Readers : ReaderAt(c)

IndInv ==
  TypeOK /\ WatchInv /\ FreshInv /\ SweepInv /\ ReproInv /\ CountInv /\ ReaderInv

(* FindingIDs only grows.                                                  *)
LEMMA AttributedGrows ==
  ASSUME TypeOK, [Next]_vars, NEW r \in Runs, NEW f \in Findings
  PROVE  attributed'[r][f] >= attributed[r][f]
<1> USE DEF runVars, watchVars, busVars, storeVars, ingestVars, vars, TypeOK
<1>1. attributed[r][f] \in Nat
  OBVIOUS
<1>2. CASE attributed' = attributed
  BY <1>1, <1>2
<1>3. ASSUME NEW q \in Runs, NEW g \in Findings,
             attributed' = [attributed EXCEPT ![q] = AppendFinding(@, g)]
      PROVE  attributed'[r][f] >= attributed[r][f]
  BY <1>1, <1>3 DEF AppendFinding
<1>4. ASSUME NEW q, NEW F, attributed' = [attributed EXCEPT ![q] = AppendMissing(@, F)]
      PROVE  attributed'[r][f] >= attributed[r][f]
  BY <1>1, <1>4 DEF AppendMissing
<1>5. ASSUME NEW q \in Runs, Watch(q)
      PROVE  attributed'[r][f] >= attributed[r][f]
  <2>1. CASE ReceiveFinding(q)
    <3>1. Head(chan[q]) \in Findings
      BY <2>1 DEF ReceiveFinding
    <3>2. QED
      BY <2>1, <3>1, <1>3 DEF ReceiveFinding
  <2>2. CASE SweepMerge(q)
    BY <2>2, <1>4 DEF SweepMerge
  <2>3. CASE ~ReceiveFinding(q) /\ ~SweepMerge(q)
    BY <1>5, <2>3, <1>2 DEF Watch, Subscribe, Tick, DiscardEvent, SweepList, Close, Announce,
         Emit, RecordReproducer, Unsubscribe
  <2>4. QED
    BY <2>1, <2>2, <2>3
<1>6. ASSUME NEW c \in Readers, runByID(c)
      PROVE  attributed'[r][f] >= attributed[r][f]
  BY <1>6, <1>2, <1>4 DEF runByID, ReadList, ReadMerge
<1>7. QED
  BY <1>2, <1>5, <1>6 DEF Next, NodeEvent, startRun, BudgetElapses, Ingest, Draw, Add, OnAdd

(* The watcher's state and the record of its run move together.            *)
LEMMA WatchStep ==
  ASSUME TypeOK, WatchInv, [Next]_vars
  PROVE  WatchInv'
<1> SUFFICES ASSUME NEW q \in Runs PROVE RunInv(q)'
  BY DEF WatchInv
<1> USE DEF runVars, watchVars, busVars, storeVars, ingestVars, Goto, Before, Closing, Closed, WatchPc
<1>a. RunInv(q)
  BY DEF WatchInv
<1>b. \A f \in Findings : attributed[q][f] > 0 => attributed'[q][f] > 0
  <2>1. \A f \in Findings : attributed[q][f] \in Nat /\ attributed'[q][f] \in Nat
    BY NextType DEF TypeOK
  <2>2. QED
    BY <2>1, AttributedGrows
<1>1. CASE UNCHANGED <<status, trigger, budgetOver, wpc, hit, due>>
  <2>1. hit[q] # NoFinding => attributed'[q][hit[q]] > 0 /\ matchesStopOn(q, hit[q])
    BY <1>a, <1>b DEF RunInv, TypeOK
  <2>2. QED
    BY <1>1, <2>1, <1>a DEF RunInv, matchesStopOn
<1>2. ASSUME NEW r \in Runs, startRun(r) PROVE RunInv(q)'
  BY <1>2, <1>a DEF startRun, RunInv, TypeOK, matchesStopOn
<1>3. ASSUME NEW r \in Runs, BudgetElapses(r) PROVE RunInv(q)'
  BY <1>3, <1>a DEF BudgetElapses, RunInv, TypeOK, matchesStopOn
<1>4. ASSUME NEW r \in Runs, Watch(r) PROVE RunInv(q)'
  <2>1. CASE Subscribe(r)
    BY <2>1, <1>a DEF Subscribe, RunInv, TypeOK, matchesStopOn
  <2>2. CASE Tick(r)
    BY <2>2, <1>a DEF Tick, RunInv, TypeOK, matchesStopOn
  <2>3. CASE DiscardEvent(r)
    BY <2>3, <1>1 DEF DiscardEvent
  <2>4. CASE ReceiveFinding(r)
    <3>1. CASE matchesStopOn(r, Head(chan[r])) /\ q = r
      <4> DEFINE f == Head(chan[q])
      <4>1. f \in Findings /\ f # NoFinding
        BY <2>4, <3>1, FindingsAssumption DEF ReceiveFinding, TypeOK, OtherEvent
      <4>2. hit'[q] = f /\ wpc'[q] = "sweep" /\ wpc[q] = "select"
        BY <2>4, <3>1 DEF ReceiveFinding, TypeOK
      <4>3. attributed'[q][f] > 0 /\ matchesStopOn(q, f)
        BY <2>4, <3>1, <4>1, <1>b DEF ReceiveFinding, TypeOK, AppendFinding
      <4>4. UNCHANGED <<status, trigger, budgetOver>>
        BY <2>4 DEF ReceiveFinding
      <4>5. QED
        BY <4>1, <4>2, <4>3, <4>4, <1>a DEF RunInv, TypeOK, matchesStopOn
    <3>2. CASE ~matchesStopOn(r, Head(chan[r]))
      BY <2>4, <3>2, <1>1 DEF ReceiveFinding
    <3>3. CASE q # r
      BY <2>4, <3>3, <1>a DEF ReceiveFinding, RunInv, TypeOK, matchesStopOn
    <3>4. QED
      BY <3>1, <3>2, <3>3
  <2>5. CASE SweepList(r)
    BY <2>5, <1>a DEF SweepList, RunInv, TypeOK, matchesStopOn
  <2>6. CASE SweepMerge(r)
    <3>1. hit[q] # NoFinding => attributed'[q][hit[q]] > 0 /\ matchesStopOn(q, hit[q])
      BY <1>a, <1>b DEF RunInv, TypeOK
    <3>2. QED
      BY <2>6, <3>1, <1>a DEF SweepMerge, RunInv, TypeOK, matchesStopOn
  <2>7. CASE Close(r)
    BY <2>7, <1>a DEF Close, RunInv, TypeOK, matchesStopOn
  <2>8. CASE Announce(r)
    BY <2>8, <1>a DEF Announce, RunInv, TypeOK, matchesStopOn
  <2>9. CASE Emit(r)
    <3>1. \/ wpc' = [wpc EXCEPT ![r] = "unsubscribe"]
          \/ wpc' = [wpc EXCEPT ![r] = "record"]
      BY <2>9 DEF Emit
    <3>2. wpc[r] = "emit" /\ UNCHANGED <<status, trigger, attributed, budgetOver, hit, due>>
      BY <2>9 DEF Emit
    <3>3. QED
      BY <3>1, <3>2, <1>a DEF RunInv, TypeOK, matchesStopOn
  <2>10. CASE RecordReproducer(r)
    BY <2>10, <1>a DEF RecordReproducer, RunInv, TypeOK, matchesStopOn
  <2>11. CASE Unsubscribe(r)
    BY <2>11, <1>a DEF Unsubscribe, RunInv, TypeOK, matchesStopOn
  <2>12. QED
    BY <1>4, <2>1, <2>2, <2>3, <2>4, <2>5, <2>6, <2>7, <2>8, <2>9, <2>10, <2>11 DEF Watch
<1>5. QED
  BY <1>1, <1>2, <1>3, <1>4 DEF Next, NodeEvent, Ingest, Draw, Add, OnAdd,
       runByID, ReadList, ReadMerge, vars

-----------------------------------------------------------------------------
(* What a buffer and the store can come to hold.                           *)

LEMMA RangeAppend ==
  ASSUME NEW E, NEW c \in Seq(E), NEW e \in E
  PROVE  Range(Append(c, e)) = Range(c) \union {e}
<1>1. DOMAIN Append(c, e) = DOMAIN c \union {Len(c) + 1}
  OBVIOUS
<1>2. Append(c, e)[Len(c) + 1] = e /\ \A i \in DOMAIN c : Append(c, e)[i] = c[i]
  OBVIOUS
<1>3. QED
  BY <1>1, <1>2 DEF Range

LEMMA RangeTail ==
  ASSUME NEW E, NEW c \in Seq(E), c # <<>>
  PROVE  Range(Tail(c)) \subseteq Range(c) /\ Head(c) \in Range(c)
<1>1. \A i \in DOMAIN Tail(c) : i + 1 \in DOMAIN c /\ Tail(c)[i] = c[i + 1]
  OBVIOUS
<1>2. 1 \in DOMAIN c /\ Head(c) = c[1]
  OBVIOUS
<1>3. QED
  BY <1>1, <1>2 DEF Range

LEMMA PublishRange ==
  ASSUME TypeOK, NEW ev \in Findings \union {OtherEvent}, Publish(ev), NEW r \in Runs
  PROVE  Range(chan'[r]) \subseteq Range(chan[r]) \union {ev}
<1>1. Range(Send(chan[r], ev)) \subseteq Range(chan[r]) \union {ev}
  <2>1. chan[r] \in Seq(Findings \union {OtherEvent})
    BY DEF TypeOK
  <2>2. Range(Append(chan[r], ev)) = Range(chan[r]) \union {ev}
    BY <2>1, RangeAppend
  <2>3. QED
    BY <2>2 DEF Send
<1>2. QED
  BY <1>1 DEF Publish, TypeOK

LEMMA StoreRange ==
  ASSUME store \in Seq(Findings), NEW f \in Findings
  PROVE  /\ Range(Append(Evict(store), f)) \subseteq Stored \union {f}
         /\ f \in Range(Append(Evict(store), f))
<1>1. Evict(store) \in Seq(Findings) /\ Range(Evict(store)) \subseteq Stored
  <2>1. CASE Len(store) >= StoreCap
    <3>1. store # <<>>
      BY <2>1, CapAssumption
    <3>2. QED
      BY <2>1, <3>1, RangeTail DEF Evict, Stored
  <2>2. CASE ~(Len(store) >= StoreCap)
    BY <2>2 DEF Evict, Stored
  <2>3. QED
    BY <2>1, <2>2
<1>2. QED
  BY <1>1, RangeAppend

(* The range of a run's buffer only gains what is published.               *)
LEMMA ChanRange ==
  ASSUME TypeOK, [Next]_vars, NEW r \in Runs, NEW f \in Findings,
         f \in Range(chan'[r]), f \notin Range(chan[r])
  PROVE  \E p \in Producers : Publishing(p, f) /\ OnAdd(p)
<1> USE DEF runVars, watchVars, busVars, storeVars, ingestVars, vars
<1>a. f # OtherEvent
  BY FindingsAssumption DEF OtherEvent
<1>b. ~(chan' = chan)
  OBVIOUS
<1>1. ASSUME Publish(OtherEvent) PROVE FALSE
  BY <1>1, <1>a, PublishRange
<1>2. ASSUME NEW q \in Runs, chan' = [chan EXCEPT ![q] = <<>>] PROVE FALSE
  <2>1. Range(chan'[r]) \subseteq Range(chan[r])
    BY <1>2 DEF Range, TypeOK
  <2>2. QED
    BY <2>1
<1>3. ASSUME NEW q \in Runs, chan[q] # <<>>, chan' = [chan EXCEPT ![q] = Tail(@)] PROVE FALSE
  <2>1. Range(chan'[r]) \subseteq Range(chan[r])
    BY <1>3, RangeTail DEF TypeOK
  <2>2. QED
    BY <2>1
<1>4. ASSUME NEW q \in Runs, Watch(q) PROVE FALSE
  BY <1>4, <1>b, <1>1, <1>2, <1>3 DEF Watch, Subscribe, Tick, DiscardEvent, ReceiveFinding,
     SweepList, SweepMerge, Close, Announce, Emit, RecordReproducer, Unsubscribe
<1>5. PICK p \in Producers : OnAdd(p)
  BY <1>b, <1>1, <1>4 DEF Next, NodeEvent, startRun, BudgetElapses, Ingest, Draw, Add,
     runByID, ReadList, ReadMerge
<1>6. producer[p] = [pc |-> "publish", f |-> producer[p].f] /\ producer[p].f \in Findings
  BY <1>5 DEF OnAdd, TypeOK
<1>7. producer[p].f = f
  BY <1>5, <1>6, PublishRange DEF OnAdd
<1>8. QED
  BY <1>5, <1>6, <1>7 DEF Publishing

(* The store only gains the finding a producer is adding.                  *)
LEMMA StoredGains ==
  ASSUME TypeOK, [Next]_vars, NEW f \in Findings, f \in Stored', f \notin Stored
  PROVE  \E p \in Producers : Adding(p, f) /\ Add(p)
<1> USE DEF runVars, watchVars, busVars, storeVars, ingestVars, vars
<1>1. ~(store' = store)
  BY DEF Stored
<1>2. PICK p \in Producers : Add(p)
  BY <1>1 DEF Next, NodeEvent, startRun, BudgetElapses, Ingest, Draw, OnAdd,
     runByID, ReadList, ReadMerge, Watch, Subscribe, Tick, DiscardEvent, ReceiveFinding,
     SweepList, SweepMerge, Close, Announce, Emit, RecordReproducer, Unsubscribe
<1>3. producer[p] = [pc |-> "add", f |-> producer[p].f] /\ producer[p].f \in Findings
  BY <1>2 DEF Add, TypeOK
<1>4. f = producer[p].f
  <2>1. Stored' \subseteq Stored \union {producer[p].f}
    BY <1>2, <1>3, StoreRange DEF Add, TypeOK, Stored
  <2>2. QED
    BY <2>1
<1>5. QED
  BY <1>2, <1>3, <1>4 DEF Adding

-----------------------------------------------------------------------------
(* A finding is drawn once, stored once and published once.                *)

(* Nobody makes a finding fresh again.                                     *)
LEMMA FreshShrinks ==
  ASSUME TypeOK, [Next]_vars, NEW f \in Findings, Fresh(f)'
  PROVE  Fresh(f)
<1> USE DEF runVars, watchVars, busVars, storeVars, ingestVars, vars
<1>1. CASE UNCHANGED <<producer, undrawn>>
  BY <1>1 DEF Fresh, Adding
<1>2. ASSUME NEW p \in Producers, Draw(p) PROVE Fresh(f)
  BY <1>2 DEF Draw, Fresh, Adding, TypeOK
<1>3. ASSUME NEW p \in Producers, Add(p) PROVE Fresh(f)
  BY <1>3 DEF Add, Fresh, Adding, TypeOK
<1>4. ASSUME NEW p \in Producers, OnAdd(p) PROVE Fresh(f)
  BY <1>4 DEF OnAdd, Fresh, Adding, TypeOK
<1>5. QED
  BY <1>1, <1>2, <1>3, <1>4 DEF Next, NodeEvent, startRun, BudgetElapses, Ingest,
     runByID, ReadList, ReadMerge, Watch, Subscribe, Tick, DiscardEvent, ReceiveFinding,
     SweepList, SweepMerge, Close, Announce, Emit, RecordReproducer, Unsubscribe

(* A producer holds its finding alone.                                     *)
LEMMA HeldOnceStep ==
  ASSUME TypeOK, FreshInv, [Next]_vars, NEW f \in Findings
  PROVE  HeldOnce(f)'
<1> USE DEF runVars, watchVars, busVars, storeVars, ingestVars, vars, Adding, Publishing
<1>a. HeldOnce(f)
  BY DEF FreshInv
<1>1. CASE UNCHANGED <<producer, undrawn>>
  BY <1>1, <1>a DEF HeldOnce
<1>2. ASSUME NEW p \in Producers, Draw(p) PROVE HeldOnce(f)'
  BY <1>2, <1>a DEF Draw, HeldOnce, TypeOK
<1>3. ASSUME NEW p \in Producers, Add(p) PROVE HeldOnce(f)'
  BY <1>3, <1>a DEF Add, HeldOnce, TypeOK
<1>4. ASSUME NEW p \in Producers, OnAdd(p) PROVE HeldOnce(f)'
  BY <1>4, <1>a DEF OnAdd, HeldOnce, TypeOK
<1>5. QED
  BY <1>1, <1>2, <1>3, <1>4 DEF Next, NodeEvent, startRun, BudgetElapses, Ingest,
     runByID, ReadList, ReadMerge, Watch, Subscribe, Tick, DiscardEvent, ReceiveFinding,
     SweepList, SweepMerge, Close, Announce, Emit, RecordReproducer, Unsubscribe

(* A finding that stays fresh stays nowhere.                               *)
LEMMA NowhereStep ==
  ASSUME TypeOK, FreshInv, [Next]_vars, NEW f \in Findings, Fresh(f)'
  PROVE  Nowhere(f)'
<1> USE DEF runVars, watchVars, busVars, storeVars, ingestVars, vars
<1>a. Fresh(f) /\ Nowhere(f) /\ HeldOnce(f) /\ HeldOnce(f)'
  BY FreshShrinks, HeldOnceStep DEF FreshInv
<1>b. \A q \in Runs : f \notin Tagged(q)
  BY <1>a DEF Nowhere, Tagged
<1>c. f # NoFinding
  BY FindingsAssumption
<1>1. f \notin Stored'
  <2>1. ASSUME f \in Stored' PROVE FALSE
    <3>1. PICK p \in Producers : Adding(p, f) /\ Add(p)
      BY <2>1, <1>a, StoredGains DEF Nowhere
    <3>2. Publishing(p, f)'
      BY <3>1 DEF Adding, Publishing, Add, TypeOK
    <3>3. QED
      BY <3>2, <1>a DEF HeldOnce, Fresh, Adding, Publishing
  <2>2. QED
    BY <2>1
<1>2. ASSUME NEW r \in Runs PROVE f \notin Range(chan'[r])
  <2>1. ASSUME f \in Range(chan'[r]) PROVE FALSE
    <3>1. PICK p \in Producers : Publishing(p, f)
      BY <2>1, <1>a, ChanRange DEF Nowhere
    <3>2. QED
      BY <3>1, <1>a DEF HeldOnce, Fresh, Adding, Publishing
  <2>2. QED
    BY <2>1
<1>3. ASSUME NEW q \in Runs, ReceiveFinding(q) PROVE Head(chan[q]) \in Findings \ {f}
  <2>1. Head(chan[q]) \in Range(chan[q])
    BY <1>3, RangeTail DEF ReceiveFinding, TypeOK
  <2>2. QED
    BY <1>3, <2>1, <1>a DEF ReceiveFinding, Nowhere, TypeOK
<1>4. ASSUME NEW r \in Runs PROVE f # hit'[r]
  <2>1. hit' = hit \/ \E q \in Runs : ReceiveFinding(q) /\ hit' = [hit EXCEPT ![q] = Head(chan[q])]
    BY DEF Next, NodeEvent, startRun, BudgetElapses, Ingest, Draw, Add, OnAdd, runByID,
         ReadList, ReadMerge, Watch, Subscribe, Tick, DiscardEvent, ReceiveFinding, SweepList,
         SweepMerge, Close, Announce, Emit, RecordReproducer, Unsubscribe
  <2>2. QED
    BY <2>1, <1>a, <1>3 DEF Nowhere, TypeOK
<1>5. ASSUME NEW r \in Runs PROVE f \notin due'[r]
  <2>1. due' = due \/ \E q \in Runs : due' = [due EXCEPT ![q] = Tagged(q)]
    BY DEF Next, NodeEvent, startRun, BudgetElapses, Ingest, Draw, Add, OnAdd, runByID,
         ReadList, ReadMerge, Watch, Subscribe, Tick, DiscardEvent, ReceiveFinding, SweepList,
         SweepMerge, Close, Announce, Emit, RecordReproducer, Unsubscribe
  <2>2. ASSUME NEW q \in Runs, due' = [due EXCEPT ![q] = Tagged(q)] PROVE f \notin due'[r]
    <3>1. due'[r] = Tagged(q) \/ due'[r] = due[r]
      BY <2>2 DEF TypeOK
    <3>2. QED
      BY <3>1, <1>a, <1>b DEF Nowhere
  <2>3. QED
    BY <2>1, <2>2, <1>a DEF Nowhere
<1>6. ASSUME NEW r \in Runs PROVE f \notin sweep'[r]
  <2>1. \/ sweep' = sweep
        \/ \E q \in Runs : sweep' = [sweep EXCEPT ![q] = Tagged(q)]
        \/ \E q \in Runs : sweep' = [sweep EXCEPT ![q] = {}]
    BY DEF Next, NodeEvent, startRun, BudgetElapses, Ingest, Draw, Add, OnAdd, runByID,
         ReadList, ReadMerge, Watch, Subscribe, Tick, DiscardEvent, ReceiveFinding, SweepList,
         SweepMerge, Close, Announce, Emit, RecordReproducer, Unsubscribe
  <2>2. ASSUME NEW q \in Runs, NEW F, f \notin F, sweep' = [sweep EXCEPT ![q] = F]
        PROVE  f \notin sweep'[r]
    <3>1. sweep'[r] = F \/ sweep'[r] = sweep[r]
      BY <2>2 DEF TypeOK
    <3>2. QED
      BY <2>2, <3>1, <1>a DEF Nowhere
  <2>3. QED
    BY <2>1, <2>2, <1>a, <1>b DEF Nowhere
<1>7. ASSUME NEW r \in Runs PROVE attributed'[r][f] = 0
  <2>1. \/ attributed' = attributed
        \/ \E q \in Runs : /\ ReceiveFinding(q)
                           /\ attributed' = [attributed EXCEPT ![q] = AppendFinding(@, Head(chan[q]))]
        \/ \E q \in Runs : attributed' = [attributed EXCEPT ![q] = AppendMissing(@, sweep[q])]
        \/ \E c \in Readers :
             attributed' = [attributed EXCEPT ![reader[c].run] = AppendMissing(@, reader[c].sweep)]
    BY DEF Next, NodeEvent, startRun, BudgetElapses, Ingest, Draw, Add, OnAdd, runByID,
         ReadList, ReadMerge, Watch, Subscribe, Tick, DiscardEvent, ReceiveFinding, SweepList,
         SweepMerge, Close, Announce, Emit, RecordReproducer, Unsubscribe
  <2>2. ASSUME NEW q \in Runs, ReceiveFinding(q),
               attributed' = [attributed EXCEPT ![q] = AppendFinding(@, Head(chan[q]))]
        PROVE  attributed'[r][f] = 0
    BY <2>2, <1>a, <1>3 DEF Nowhere, TypeOK, AppendFinding
  <2>3. ASSUME NEW q, NEW F, f \notin F,
               attributed' = [attributed EXCEPT ![q] = AppendMissing(@, F)]
        PROVE  attributed'[r][f] = 0
    BY <2>3, <1>a DEF Nowhere, TypeOK, AppendMissing
  <2>4. QED
    BY <2>1, <2>2, <2>3, <1>a DEF Nowhere
<1>8. ASSUME NEW c \in Readers PROVE f \notin reader'[c].sweep
  <2>1. \/ reader' = reader
        \/ \E b \in Readers, r \in Runs :
             reader' = [reader EXCEPT ![b] = [pc |-> "merge", run |-> r, sweep |-> Tagged(r), due |-> Tagged(r)]]
        \/ \E b \in Readers :
             reader' = [reader EXCEPT ![b] = [pc |-> "idle", run |-> NoRun, sweep |-> {}, due |-> {}]]
    BY DEF Next, NodeEvent, startRun, BudgetElapses, Ingest, Draw, Add, OnAdd, runByID,
         ReadList, ReadMerge, Watch, Subscribe, Tick, DiscardEvent, ReceiveFinding, SweepList,
         SweepMerge, Close, Announce, Emit, RecordReproducer, Unsubscribe
  <2>2. ASSUME NEW b \in Readers, NEW r,
               reader' = [reader EXCEPT ![b] = [pc |-> "merge", run |-> r, sweep |-> Tagged(r), due |-> Tagged(r)]],
               f \notin Tagged(r)
        PROVE  f \notin reader'[c].sweep
    <3>1. reader'[c].sweep = Tagged(r) \/ reader'[c] = reader[c]
      BY <2>2 DEF TypeOK
    <3>2. QED
      BY <2>2, <3>1, <1>a DEF Nowhere
  <2>3. ASSUME NEW b \in Readers,
               reader' = [reader EXCEPT ![b] = [pc |-> "idle", run |-> NoRun, sweep |-> {}, due |-> {}]]
        PROVE  f \notin reader'[c].sweep
    <3>1. reader'[c].sweep = {} \/ reader'[c] = reader[c]
      BY <2>3 DEF TypeOK
    <3>2. QED
      BY <3>1, <1>a DEF Nowhere
  <2>4. QED
    BY <2>1, <2>2, <2>3, <1>a, <1>b DEF Nowhere
<1>9. QED
  BY <1>1, <1>2, <1>4, <1>5, <1>6, <1>7, <1>8 DEF Nowhere

LEMMA FreshStep ==
  ASSUME TypeOK, FreshInv, [Next]_vars
  PROVE  FreshInv'
BY HeldOnceStep, NowhereStep DEF FreshInv

-----------------------------------------------------------------------------
(* The final sweep.                                                        *)

(* A finding keeps its RunID, and does not come back to the store.         *)
LEMMA OldFindings ==
  ASSUME TypeOK, [Next]_vars, NEW f \in Findings, ~Fresh(f)
  PROVE  tag'[f] = tag[f] /\ (f \in Stored' => f \in Stored)
<1> USE DEF runVars, watchVars, busVars, storeVars, ingestVars, vars
<1>1. tag'[f] = tag[f]
  <2>1. tag' = tag \/ \E g \in undrawn : \E t : tag' = [tag EXCEPT ![g] = t]
    BY DEF Next, NodeEvent, startRun, BudgetElapses, Ingest, Draw, Add, OnAdd, runByID,
         ReadList, ReadMerge, Watch, Subscribe, Tick, DiscardEvent, ReceiveFinding, SweepList,
         SweepMerge, Close, Announce, Emit, RecordReproducer, Unsubscribe
  <2>2. QED
    BY <2>1 DEF TypeOK, Fresh
<1>2. f \in Stored' => f \in Stored
  BY StoredGains DEF Fresh
<1>3. QED
  BY <1>1, <1>2

(* Only its own goroutine, and the request that starts it, move a watcher. *)
LEMMA WatcherLocal ==
  ASSUME TypeOK, [Next]_vars, NEW q \in Runs, ~Watch(q), ~startRun(q)
  PROVE  /\ wpc'[q] = wpc[q] /\ hit'[q] = hit[q] /\ due'[q] = due[q] /\ sweep'[q] = sweep[q]
         /\ status'[q] = status[q] /\ trigger'[q] = trigger[q] /\ reproducers'[q] = reproducers[q]
<1> USE DEF runVars, watchVars, busVars, storeVars, ingestVars, vars, Goto
<1>1. CASE UNCHANGED <<wpc, hit, due, sweep, status, trigger, reproducers>>
  BY <1>1
<1>2. ASSUME NEW r \in Runs \ {q}, startRun(r)
      PROVE  /\ wpc'[q] = wpc[q] /\ hit'[q] = hit[q] /\ due'[q] = due[q] /\ sweep'[q] = sweep[q]
             /\ status'[q] = status[q] /\ trigger'[q] = trigger[q] /\ reproducers'[q] = reproducers[q]
  BY <1>2 DEF startRun, TypeOK
<1>3. ASSUME NEW r \in Runs \ {q}, Watch(r)
      PROVE  /\ wpc'[q] = wpc[q] /\ hit'[q] = hit[q] /\ due'[q] = due[q] /\ sweep'[q] = sweep[q]
             /\ status'[q] = status[q] /\ trigger'[q] = trigger[q] /\ reproducers'[q] = reproducers[q]
  <2>1. CASE Subscribe(r)
    BY <2>1 DEF Subscribe, TypeOK
  <2>2. CASE Tick(r)
    BY <2>2 DEF Tick, TypeOK
  <2>3. CASE DiscardEvent(r)
    BY <2>3 DEF DiscardEvent
  <2>4. CASE ReceiveFinding(r)
    BY <2>4 DEF ReceiveFinding, TypeOK
  <2>5. CASE SweepList(r) \/ SweepMerge(r)
    BY <2>5 DEF SweepList, SweepMerge, TypeOK
  <2>6. CASE Close(r) \/ Announce(r)
    BY <2>6 DEF Close, Announce, TypeOK
  <2>7. CASE Emit(r)
    BY <2>7 DEF Emit, TypeOK
  <2>8. CASE RecordReproducer(r) \/ Unsubscribe(r)
    BY <2>8 DEF RecordReproducer, Unsubscribe, TypeOK
  <2>9. QED
    BY <1>3, <2>1, <2>2, <2>3, <2>4, <2>5, <2>6, <2>7, <2>8 DEF Watch
<1>4. QED
  BY <1>1, <1>2, <1>3 DEF Next, NodeEvent, startRun, BudgetElapses, Ingest, Draw, Add, OnAdd, runByID,
         ReadList, ReadMerge

LEMMA SweepStep ==
  ASSUME TypeOK, WatchInv, FreshInv, SweepInv, [Next]_vars
  PROVE  SweepInv'
<1> SUFFICES ASSUME NEW q \in Runs PROVE SweepAt(q)'
  BY DEF SweepInv
<1> USE DEF runVars, watchVars, busVars, storeVars, ingestVars, vars, Goto, Before
<1>a. SweepAt(q) /\ RunInv(q)
  BY DEF SweepInv, WatchInv
<1>b. \A f \in due[q] : f \in Findings /\ tag'[f] = tag[f] /\ (f \in Stored' => f \in Stored)
  BY OldFindings DEF FreshInv, Nowhere, TypeOK
<1>c. \A f \in Findings : attributed[q][f] > 0 => attributed'[q][f] > 0
  <2>1. \A f \in Findings : attributed[q][f] \in Nat /\ attributed'[q][f] \in Nat
    BY NextType DEF TypeOK
  <2>2. QED
    BY <2>1, AttributedGrows
<1>1. CASE due'[q] = due[q] /\ wpc'[q] = wpc[q] /\ sweep'[q] = sweep[q]
  BY <1>1, <1>a, <1>b, <1>c DEF SweepAt
<1>2. ASSUME Watch(q) PROVE SweepAt(q)'
  <2>a. Tagged(q) \subseteq Findings /\ \A f \in Tagged(q) : tag[f] = q
    BY StoredFindings DEF Tagged, TypeOK
  <2>1. CASE Subscribe(q)
    BY <2>1, <1>a DEF Subscribe, SweepAt, RunInv, TypeOK
  <2>2. CASE Tick(q)
    BY <2>2, <2>a DEF Tick, SweepAt, TypeOK
  <2>3. CASE DiscardEvent(q)
    BY <2>3, <1>1 DEF DiscardEvent
  <2>4. CASE ReceiveFinding(q)
    <3>1. CASE matchesStopOn(q, Head(chan[q]))
      <4>1. due'[q] = Tagged(q) /\ wpc'[q] = "sweep" /\ tag' = tag
        BY <2>4, <3>1 DEF ReceiveFinding, TypeOK
      <4>2. QED
        BY <4>1, <2>a DEF SweepAt
    <3>2. CASE ~matchesStopOn(q, Head(chan[q]))
      BY <2>4, <3>2, <1>1 DEF ReceiveFinding
    <3>3. QED
      BY <3>1, <3>2
  <2>5. CASE SweepList(q)
    <3>1. due[q] \cap Stored \subseteq Tagged(q)
      BY <1>a DEF SweepAt, Tagged
    <3>2. QED
      BY <2>5, <3>1, <1>a DEF SweepList, SweepAt, TypeOK, Stored
  <2>6. CASE SweepMerge(q)
    <3>1. \A f \in sweep[q] : f \in Findings => attributed'[q][f] > 0
      BY <2>6 DEF SweepMerge, AppendMissing, TypeOK
    <3>2. wpc[q] = "merge" /\ wpc'[q] = "close" /\ due' = due /\ tag' = tag /\ Stored' = Stored
      BY <2>6 DEF SweepMerge, TypeOK, Stored
    <3>3. QED
      BY <3>1, <3>2, <1>a, <1>b DEF SweepAt
  <2>7. CASE Close(q) \/ Announce(q) \/ Emit(q) \/ RecordReproducer(q) \/ Unsubscribe(q)
    <3>1. /\ wpc[q] \in {"close", "announce", "emit", "record", "unsubscribe"}
          /\ wpc'[q] \in {"announce", "emit", "record", "unsubscribe", "done"}
          /\ UNCHANGED <<due, tag, attributed, store>>
      BY <2>7 DEF Close, Announce, Emit, RecordReproducer, Unsubscribe, TypeOK
    <3>2. QED
      BY <3>1, <1>a DEF SweepAt, Stored
  <2>8. QED
    BY <1>2, <2>1, <2>2, <2>3, <2>4, <2>5, <2>6, <2>7 DEF Watch
<1>3. CASE ~Watch(q)
  <2>1. CASE startRun(q)
    BY <2>1, <1>a DEF startRun, SweepAt, RunInv, TypeOK
  <2>2. CASE ~startRun(q)
    BY <1>3, <2>2, WatcherLocal, <1>1
  <2>3. QED
    BY <2>1, <2>2
<1>4. QED
  BY <1>2, <1>3

-----------------------------------------------------------------------------
(* The status of a run.                                                    *)

(* A closed run stays as it closed.                                        *)
LEMMA ClosedStep ==
  ASSUME TypeOK, WatchInv, [Next]_vars, NEW r \in Runs, status[r] \in Closed
  PROVE  status'[r] = status[r] /\ trigger'[r] = trigger[r] /\ hit'[r] = hit[r]
<1> USE DEF runVars, watchVars, busVars, storeVars, ingestVars, vars, Goto, Closed, Closing
<1>1. wpc[r] \notin Before \union Closing /\ status[r] # "absent"
  BY DEF WatchInv, RunInv, Before
<1>2. \/ UNCHANGED <<status, trigger>>
      \/ \E q \in Runs : Close(q)
      \/ \E q \in Runs : startRun(q)
  BY DEF Next, NodeEvent, startRun, BudgetElapses, Ingest, Draw, Add, OnAdd, runByID,
         ReadList, ReadMerge, Watch, Subscribe, Tick, DiscardEvent, ReceiveFinding, SweepList,
         SweepMerge, Close, Announce, Emit, RecordReproducer, Unsubscribe
<1>3. hit' = hit \/ \E q \in Runs : wpc[q] = "select" /\ hit' = [hit EXCEPT ![q] = Head(chan[q])]
  BY DEF Next, NodeEvent, startRun, BudgetElapses, Ingest, Draw, Add, OnAdd, runByID,
         ReadList, ReadMerge, Watch, Subscribe, Tick, DiscardEvent, ReceiveFinding, SweepList,
         SweepMerge, Close, Announce, Emit, RecordReproducer, Unsubscribe
<1>4. hit'[r] = hit[r]
  BY <1>1, <1>3 DEF Before, TypeOK
<1>5. QED
  BY <1>1, <1>2, <1>4 DEF Close, startRun, Before, TypeOK

-----------------------------------------------------------------------------
(* Reproducers.                                                            *)

(* The only step that links a finding is the Emit of a run it tripped.     *)
LEMMA LinkChanges ==
  ASSUME TypeOK, WatchInv, [Next]_vars, NEW f \in Findings, repro'[f] # repro[f]
  PROVE  \E r \in Runs : Emit(r) /\ hit[r] = f /\ repro'[f] = r /\ status[r] \in Closed
<1> USE DEF runVars, watchVars, busVars, storeVars, ingestVars, vars
<1>1. repro' # repro
  OBVIOUS
<1>2. PICK r \in Runs : Emit(r)
  BY <1>1 DEF Next, NodeEvent, startRun, BudgetElapses, Ingest, Draw, Add, OnAdd, runByID,
         ReadList, ReadMerge, Watch, Subscribe, Tick, DiscardEvent, ReceiveFinding, SweepList,
         SweepMerge, Close, Announce, Emit, RecordReproducer, Unsubscribe
<1>3. repro' = [repro EXCEPT ![hit[r]] = r]
  BY <1>1, <1>2 DEF Emit
<1>4. hit[r] = f /\ repro'[f] = r
  BY <1>3 DEF TypeOK
<1>5. status[r] \in Closed
  BY <1>2 DEF Emit, WatchInv, RunInv, Before, Closing, TypeOK, Closed
<1>6. QED
  BY <1>2, <1>4, <1>5

LEMMA LinkStep ==
  ASSUME TypeOK, WatchInv, ReproInv, [Next]_vars
  PROVE  LinkInv'
<1> SUFFICES ASSUME NEW f \in Findings, repro'[f] # NoRun
             PROVE  hit'[repro'[f]] = f /\ status'[repro'[f]] \in Closed
  BY DEF LinkInv
<1>1. repro'[f] \in Runs
  BY NextType DEF TypeOK
<1>2. hit[repro'[f]] = f /\ status[repro'[f]] \in Closed
  BY LinkChanges DEF ReproInv, LinkInv
<1>3. QED
  BY <1>1, <1>2, ClosedStep

LEMMA ReproStep ==
  ASSUME TypeOK, WatchInv, FreshInv, ReproInv, [Next]_vars
  PROVE  ReproInv'
<1> SUFFICES ASSUME NEW q \in Runs PROVE ReproAt(q)'
  BY LinkStep DEF ReproInv
<1> USE DEF Goto
<1>a. ReproAt(q) /\ RunInv(q)
  BY DEF ReproInv, WatchInv
<1>b. hit[q] # NoFinding => hit[q] \in Findings /\ (hit[q] \in Stored' => hit[q] \in Stored)
  BY OldFindings DEF FreshInv, Nowhere, TypeOK
<1>c. \A f \in Findings : repro[f] # NoRun => repro'[f] # NoRun
  BY LinkChanges, RunsAssumption
<1>1. CASE ~Watch(q) /\ ~startRun(q)
  <2>1. /\ wpc'[q] = wpc[q] /\ hit'[q] = hit[q] /\ status'[q] = status[q]
        /\ reproducers'[q] = reproducers[q]
    BY <1>1, WatcherLocal
  <2>2. QED
    BY <2>1, <1>a, <1>b, <1>c DEF ReproAt
<1>2. CASE startRun(q)
  BY <1>2, <1>a DEF startRun, ReproAt, RunInv, TypeOK, runVars, watchVars, storeVars
<1>3. CASE Watch(q)
  <2> USE DEF runVars, watchVars, busVars, storeVars, ingestVars
  <2>1. CASE \/ Subscribe(q) \/ Tick(q) \/ DiscardEvent(q) \/ SweepList(q) \/ SweepMerge(q)
             \/ Close(q) \/ Announce(q)
    <3>1. /\ reproducers'[q] = reproducers[q] /\ wpc[q] \notin {"unsubscribe", "done"}
          /\ wpc'[q] # "record"
      BY <2>1 DEF Subscribe, Tick, DiscardEvent, SweepList, SweepMerge, Close, Announce, TypeOK
    <3>2. QED
      BY <3>1, <1>a DEF ReproAt
  <2>2. CASE ReceiveFinding(q)
    <3>1. reproducers' = reproducers /\ wpc[q] = "select" /\ wpc'[q] # "record"
      BY <2>2 DEF ReceiveFinding, TypeOK
    <3>2. QED
      BY <3>1, <1>a DEF ReproAt
  <2>3. CASE Emit(q)
    <3>1. /\ reproducers' = reproducers /\ wpc[q] = "emit" /\ hit' = hit /\ status' = status
          /\ store' = store
      BY <2>3 DEF Emit
    <3>2. hit[q] # NoFinding /\ status[q] \in Closed
      BY <3>1, <1>a DEF RunInv, Closing, TypeOK, Closed
    <3>3. wpc'[q] = "record" /\ hit[q] \in Stored => repro'[hit[q]] # NoRun
      BY <2>3, <3>1, <3>2, RunsAssumption DEF Emit, TypeOK
    <3>4. QED
      BY <3>1, <3>2, <3>3, <1>a DEF ReproAt, Stored
  <2>4. CASE RecordReproducer(q)
    <3>1. /\ reproducers'[q] = reproducers[q] + 1 /\ wpc[q] = "record" /\ wpc'[q] = "unsubscribe"
          /\ UNCHANGED <<hit, status, store, repro>>
      BY <2>4 DEF RecordReproducer, TypeOK
    <3>2. QED
      BY <3>1, <1>a DEF ReproAt, Stored
  <2>5. CASE Unsubscribe(q)
    <3>1. /\ wpc[q] = "unsubscribe" /\ wpc'[q] = "done"
          /\ UNCHANGED <<reproducers, hit, status, store, repro>>
      BY <2>5 DEF Unsubscribe, TypeOK
    <3>2. QED
      BY <3>1, <1>a DEF ReproAt, Stored
  <2>6. QED
    BY <1>3, <2>1, <2>2, <2>3, <2>4, <2>5 DEF Watch
<1>4. QED
  BY <1>1, <1>2, <1>3

-----------------------------------------------------------------------------
(* How often a finding is counted.                                         *)

LEMMA DistinctTail ==
  ASSUME NEW E, NEW c \in Seq(E), c # <<>>, Distinct(c)
  PROVE  Distinct(Tail(c)) /\ (Head(c) # OtherEvent => Head(c) \notin Range(Tail(c)))
<1>1. \A i \in DOMAIN Tail(c) : i \in Nat \ {0} /\ i + 1 \in DOMAIN c /\ Tail(c)[i] = c[i + 1]
  OBVIOUS
<1>2. 1 \in DOMAIN c /\ Head(c) = c[1]
  OBVIOUS
<1>3. Distinct(Tail(c))
  BY <1>1 DEF Distinct
<1>4. ASSUME Head(c) # OtherEvent, Head(c) \in Range(Tail(c)) PROVE FALSE
  <2>1. PICK i \in DOMAIN Tail(c) : Tail(c)[i] = Head(c)
    BY <1>4 DEF Range
  <2>2. c[i + 1] = c[1] /\ c[1] # OtherEvent /\ i + 1 # 1
    BY <2>1, <1>1, <1>2, <1>4
  <2>3. QED
    BY <2>1, <2>2, <1>1, <1>2 DEF Distinct
<1>5. QED
  BY <1>3, <1>4

LEMMA DistinctSend ==
  ASSUME NEW E, NEW c \in Seq(E), NEW ev \in E, Distinct(c), ev = OtherEvent \/ ev \notin Range(c)
  PROVE  Distinct(Send(c, ev))
<1>1. DOMAIN Append(c, ev) = DOMAIN c \union {Len(c) + 1} /\ Len(c) + 1 \notin DOMAIN c
  OBVIOUS
<1>2. Append(c, ev)[Len(c) + 1] = ev /\ \A i \in DOMAIN c : Append(c, ev)[i] = c[i]
  OBVIOUS
<1>3. \A i \in DOMAIN c : c[i] \in Range(c)
  BY DEF Range
<1>4. Distinct(Append(c, ev))
  BY <1>1, <1>2, <1>3 DEF Distinct
<1>5. QED
  BY <1>4 DEF Send

(* An event is ahead of a run until it is received, once it was published. *)
LEMMA PublishingStep ==
  ASSUME TypeOK, FreshInv, [Next]_vars, NEW p \in Producers, NEW f \in Findings, Publishing(p, f)'
  PROVE  Fresh(f) \/ (Publishing(p, f) /\ ~OnAdd(p))
<1> USE DEF runVars, watchVars, busVars, storeVars, ingestVars, vars, Publishing
<1>1. CASE UNCHANGED producer /\ ~OnAdd(p)
  BY <1>1
<1>2. ASSUME NEW q \in Producers, Draw(q) PROVE Publishing(p, f) /\ ~OnAdd(p)
  BY <1>2 DEF Draw, OnAdd, TypeOK
<1>3. ASSUME NEW q \in Producers, Add(q) PROVE Fresh(f) \/ (Publishing(p, f) /\ ~OnAdd(p))
  <2>1. CASE q = p
    BY <1>3, <2>1 DEF Add, Fresh, Adding, TypeOK
  <2>2. CASE q # p
    BY <1>3, <2>2 DEF Add, OnAdd, TypeOK
  <2>3. QED
    BY <2>1, <2>2
<1>4. ASSUME NEW q \in Producers, OnAdd(q) PROVE Publishing(p, f) /\ ~OnAdd(p)
  BY <1>4 DEF OnAdd, TypeOK
<1>5. OnAdd(p) => producer' # producer
  BY DEF OnAdd, TypeOK
<1>6. QED
  BY <1>1, <1>2, <1>3, <1>4, <1>5 DEF Next, NodeEvent, startRun, BudgetElapses, Ingest, Draw, Add, OnAdd, runByID,
         ReadList, ReadMerge, Watch, Subscribe, Tick, DiscardEvent, ReceiveFinding, SweepList,
         SweepMerge, Close, Announce, Emit, RecordReproducer, Unsubscribe

LEMMA AheadStep ==
  ASSUME TypeOK, FreshInv, [Next]_vars, NEW r \in Runs, NEW f \in Findings, Ahead(r, f)'
  PROVE  Ahead(r, f) \/ Fresh(f)
<1>1. CASE f \in Range(chan'[r])
  BY <1>1, ChanRange DEF Ahead
<1>2. ASSUME NEW p \in Producers, Publishing(p, f)' PROVE Ahead(r, f) \/ Fresh(f)
  BY <1>2, PublishingStep DEF Ahead
<1>3. QED
  BY <1>1, <1>2 DEF Ahead

(* How the bag of a run changes.                                           *)
LEMMA BagStep ==
  ASSUME TypeOK, [Next]_vars, NEW r \in Runs, NEW f \in Findings
  PROVE  \/ attributed'[r][f] = attributed[r][f]
         \/ attributed'[r][f] = 1
         \/ /\ ReceiveFinding(r) /\ Head(chan[r]) = f
            /\ attributed'[r][f] = attributed[r][f] + 1
<1> USE DEF runVars, watchVars, busVars, storeVars, ingestVars, vars
<1>1. \/ attributed' = attributed
      \/ \E q \in Runs : /\ ReceiveFinding(q)
                         /\ attributed' = [attributed EXCEPT ![q] = AppendFinding(@, Head(chan[q]))]
      \/ \E q \in Runs : attributed' = [attributed EXCEPT ![q] = AppendMissing(@, sweep[q])]
      \/ \E c \in Readers :
           attributed' = [attributed EXCEPT ![reader[c].run] = AppendMissing(@, reader[c].sweep)]
  BY DEF Next, NodeEvent, startRun, BudgetElapses, Ingest, Draw, Add, OnAdd, runByID,
         ReadList, ReadMerge, Watch, Subscribe, Tick, DiscardEvent, ReceiveFinding, SweepList,
         SweepMerge, Close, Announce, Emit, RecordReproducer, Unsubscribe
<1>2. ASSUME NEW q \in Runs, ReceiveFinding(q),
             attributed' = [attributed EXCEPT ![q] = AppendFinding(@, Head(chan[q]))]
      PROVE  \/ attributed'[r][f] = attributed[r][f]
             \/ q = r /\ Head(chan[q]) = f /\ attributed'[r][f] = attributed[r][f] + 1
  BY <1>2 DEF TypeOK, AppendFinding
<1>3. ASSUME NEW q, NEW F, attributed' = [attributed EXCEPT ![q] = AppendMissing(@, F)]
      PROVE  attributed'[r][f] = attributed[r][f] \/ attributed'[r][f] = 1
  BY <1>3 DEF TypeOK, AppendMissing
<1>4. QED
  BY <1>1, <1>2, <1>3

LEMMA DistinctStep ==
  ASSUME TypeOK, FreshInv, CountInv, [Next]_vars, NEW r \in Runs
  PROVE  Distinct(chan'[r])
<1> USE DEF runVars, watchVars, busVars, storeVars, ingestVars, vars
<1>a. Distinct(chan[r]) /\ chan[r] \in Seq(Findings \union {OtherEvent})
  BY DEF CountInv, CountAt, TypeOK
<1>1. CASE chan' = chan
  BY <1>1, <1>a
<1>2. ASSUME NEW ev \in Findings \union {OtherEvent}, Publish(ev), ev = OtherEvent \/ ev \notin Range(chan[r])
      PROVE  Distinct(chan'[r])
  <2>1. Distinct(Send(chan[r], ev))
    BY <1>a, <1>2, DistinctSend
  <2>2. QED
    BY <1>2, <2>1, <1>a DEF Publish
<1>3. ASSUME NEW q \in Runs, chan' = [chan EXCEPT ![q] = <<>>] PROVE Distinct(chan'[r])
  BY <1>3, <1>a DEF TypeOK, Distinct
<1>4. ASSUME NEW q \in Runs, chan[q] # <<>>, chan' = [chan EXCEPT ![q] = Tail(@)]
      PROVE  Distinct(chan'[r])
  <2>1. CASE q = r
    BY <2>1, <1>4, <1>a, DistinctTail DEF TypeOK
  <2>2. CASE q # r
    BY <2>2, <1>4, <1>a DEF TypeOK
  <2>3. QED
    BY <2>1, <2>2
<1>5. ASSUME NEW p \in Producers, OnAdd(p) PROVE Distinct(chan'[r])
  <2>1. producer[p].f \in Findings /\ Publishing(p, producer[p].f)
    BY <1>5 DEF OnAdd, Publishing, TypeOK
  <2>2. producer[p].f \notin Range(chan[r])
    BY <2>1 DEF CountInv, CountAt
  <2>3. QED
    BY <1>5, <2>1, <2>2, <1>2 DEF OnAdd
<1>6. QED
  BY <1>1, <1>2, <1>3, <1>4, <1>5 DEF Next, NodeEvent, startRun, BudgetElapses, Ingest, Draw, Add, OnAdd, runByID,
         ReadList, ReadMerge, Watch, Subscribe, Tick, DiscardEvent, ReceiveFinding, SweepList,
         SweepMerge, Close, Announce, Emit, RecordReproducer, Unsubscribe

LEMMA CountStep ==
  ASSUME TypeOK, FreshInv, CountInv, [Next]_vars
  PROVE  CountInv'
<1> SUFFICES ASSUME NEW r \in Runs PROVE CountAt(r)'
  BY DEF CountInv
<1>a. CountAt(r)
  BY DEF CountInv
<1>1. Distinct(chan'[r])
  BY DistinctStep
<1>2. ASSUME NEW p \in Producers, NEW f \in Findings, Publishing(p, f)', f \in Range(chan'[r])
      PROVE  FALSE
  <2>1. CASE Fresh(f)
    <3>1. f \notin Range(chan[r]) /\ HeldOnce(f)
      BY <2>1 DEF FreshInv, Nowhere
    <3>2. PICK q \in Producers : Publishing(q, f)
      BY <3>1, <1>2, ChanRange
    <3>3. QED
      BY <2>1, <3>1, <3>2 DEF HeldOnce, Fresh, Adding, Publishing
  <2>2. CASE Publishing(p, f) /\ ~OnAdd(p)
    <3>1. f \notin Range(chan[r])
      BY <2>2, <1>a DEF CountAt
    <3>2. PICK q \in Producers : Publishing(q, f) /\ OnAdd(q)
      BY <3>1, <1>2, ChanRange
    <3>3. QED
      BY <2>2, <3>2 DEF FreshInv, HeldOnce
  <2>3. QED
    BY <1>2, <2>1, <2>2, PublishingStep
<1>3. ASSUME NEW f \in Findings
      PROVE  attributed'[r][f] <= (IF Ahead(r, f)' THEN 1 ELSE 2)
  <2>0. attributed[r][f] \in Nat
    BY DEF TypeOK
  <2>1. attributed[r][f] \in Nat /\ attributed[r][f] <= 2
    BY <2>0, <1>a DEF CountAt
  <2>2. CASE attributed'[r][f] = attributed[r][f]
    <3>1. Ahead(r, f)' => attributed[r][f] <= 1
      BY <1>a, AheadStep, <2>1 DEF CountAt, FreshInv, Nowhere
    <3>2. QED
      BY <2>1, <2>2, <3>1
  <2>3. CASE attributed'[r][f] = 1
    BY <2>3
  <2>4. CASE ReceiveFinding(r) /\ Head(chan[r]) = f /\ attributed'[r][f] = attributed[r][f] + 1
    <3>1. f \in Range(chan[r]) /\ f \notin Range(Tail(chan[r]))
      BY <2>4, <1>a, RangeTail, DistinctTail DEF ReceiveFinding, CountAt, TypeOK
    <3>2. chan'[r] = Tail(chan[r]) /\ producer' = producer
      BY <2>4 DEF ReceiveFinding, TypeOK, ingestVars
    <3>3. \A p \in Producers : ~Publishing(p, f)
      BY <3>1, <1>a DEF CountAt
    <3>4. ~Ahead(r, f)' /\ Ahead(r, f)
      BY <3>1, <3>2, <3>3 DEF Ahead, Publishing
    <3>5. attributed[r][f] <= 1
      BY <3>4, <1>a DEF CountAt
    <3>6. QED
      BY <2>1, <2>4, <3>4, <3>5
  <2>5. QED
    BY <2>2, <2>3, <2>4, BagStep
<1>4. QED
  BY <1>1, <1>2, <1>3 DEF CountAt

-----------------------------------------------------------------------------
(* The readers.                                                            *)

(* What a step does to a reader.                                           *)
LEMMA ReaderChanges ==
  ASSUME TypeOK, [Next]_vars, NEW c \in Readers
  PROVE  \/ reader'[c] = reader[c]
         \/ \E r \in Runs : reader'[c] = [pc |-> "merge", run |-> r, sweep |-> Tagged(r), due |-> Tagged(r)]
                          /\ status[r] # "absent" /\ tag' = tag
         \/ /\ reader[c].pc = "merge" /\ reader'[c].pc = "idle"
            /\ attributed' = [attributed EXCEPT ![reader[c].run] = AppendMissing(@, reader[c].sweep)]
<1> USE DEF runVars, watchVars, busVars, storeVars, ingestVars, vars
<1>1. CASE reader' = reader
  BY <1>1
<1>2. ASSUME NEW b \in Readers, ReadList(b)
      PROVE  \/ reader'[c] = reader[c]
             \/ \E r \in Runs : reader'[c] = [pc |-> "merge", run |-> r, sweep |-> Tagged(r), due |-> Tagged(r)]
                              /\ status[r] # "absent" /\ tag' = tag
  BY <1>2 DEF ReadList, TypeOK
<1>3. ASSUME NEW b \in Readers, ReadMerge(b)
      PROVE  \/ reader'[c] = reader[c]
             \/ /\ reader[c].pc = "merge" /\ reader'[c].pc = "idle"
                /\ attributed' = [attributed EXCEPT ![reader[c].run] = AppendMissing(@, reader[c].sweep)]
  <2>1. CASE b = c
    BY <1>3, <2>1 DEF ReadMerge, TypeOK
  <2>2. CASE b # c
    BY <1>3, <2>2 DEF ReadMerge, TypeOK
  <2>3. QED
    BY <2>1, <2>2
<1>4. QED
  BY <1>1, <1>2, <1>3 DEF Next, NodeEvent, startRun, BudgetElapses, Ingest, Draw, Add, OnAdd, runByID,
         ReadList, ReadMerge, Watch, Subscribe, Tick, DiscardEvent, ReceiveFinding, SweepList,
         SweepMerge, Close, Announce, Emit, RecordReproducer, Unsubscribe

(* A run that was started stays known.                                     *)
LEMMA StaysKnown ==
  ASSUME TypeOK, [Next]_vars, NEW r \in Runs, status[r] # "absent"
  PROVE  status'[r] # "absent"
<1> USE DEF runVars, watchVars, busVars, storeVars, ingestVars, vars
<1>1. \/ status' = status
      \/ \E q \in Runs, s \in {"running"} \union Closed : status' = [status EXCEPT ![q] = s]
  BY DEF Closed, Next, NodeEvent, startRun, BudgetElapses, Ingest, Draw, Add, OnAdd, runByID,
         ReadList, ReadMerge, Watch, Subscribe, Tick, DiscardEvent, ReceiveFinding, SweepList,
         SweepMerge, Close, Announce, Emit, RecordReproducer, Unsubscribe
<1>2. QED
  BY <1>1 DEF TypeOK, Closed

LEMMA ReaderStep ==
  ASSUME TypeOK, FreshInv, ReaderInv, [Next]_vars
  PROVE  ReaderInv'
<1> SUFFICES ASSUME NEW c \in Readers PROVE ReaderAt(c)'
  BY DEF ReaderInv
<1>1. CASE reader'[c] = reader[c]
  <2>1. reader[c].sweep \subseteq Findings
    BY DEF TypeOK
  <2>2. ASSUME reader[c].pc = "merge", NEW f \in reader[c].sweep PROVE tag'[f] = reader[c].run
    <3>1. tag[f] = reader[c].run /\ reader[c].run \in Runs
      BY <2>2 DEF ReaderInv, ReaderAt
    <3>2. ~Fresh(f)
      BY <3>1, <2>1, <2>2, RunsAssumption DEF FreshInv, Nowhere
    <3>3. QED
      BY <3>1, <3>2, <2>1, <2>2, OldFindings
  <2>3. reader[c].pc = "merge" => status'[reader[c].run] # "absent"
    BY StaysKnown DEF ReaderInv, ReaderAt
  <2>4. QED
    BY <1>1, <2>2, <2>3 DEF ReaderInv, ReaderAt
<1>2. ASSUME NEW r \in Runs, tag' = tag, status[r] # "absent",
             reader'[c] = [pc |-> "merge", run |-> r, sweep |-> Tagged(r), due |-> Tagged(r)]
      PROVE  ReaderAt(c)'
  BY <1>2, StaysKnown DEF ReaderAt, Tagged
<1>3. CASE reader'[c].pc = "idle"
  BY <1>3 DEF ReaderAt
<1>4. QED
  BY <1>1, <1>2, <1>3, ReaderChanges

(* Who changes a run's FindingIDs: its own watcher, or a reader that       *)
(* merges.                                                                 *)
LEMMA AttributedChanges ==
  ASSUME [Next]_vars, attributed' # attributed
  PROVE  /\ UNCHANGED <<status, trigger>>
         /\ \/ \E q \in Runs : /\ wpc[q] \in {"select", "merge"}
                              /\ \E bag : attributed' = [attributed EXCEPT ![q] = bag]
            \/ \E c \in Readers :
                 /\ reader[c].pc = "merge"
                 /\ attributed' = [attributed EXCEPT ![reader[c].run] = AppendMissing(@, reader[c].sweep)]
<1> USE DEF runVars, watchVars, busVars, storeVars, ingestVars, vars, Goto
<1>1. ASSUME NEW q \in Runs, ReceiveFinding(q) \/ SweepMerge(q)
      PROVE  /\ UNCHANGED <<status, trigger>>
             /\ wpc[q] \in {"select", "merge"}
             /\ \E bag : attributed' = [attributed EXCEPT ![q] = bag]
  BY <1>1 DEF ReceiveFinding, SweepMerge
<1>2. ASSUME NEW c \in Readers, ReadMerge(c)
      PROVE  /\ UNCHANGED <<status, trigger>>
             /\ reader[c].pc = "merge"
             /\ attributed' = [attributed EXCEPT ![reader[c].run] = AppendMissing(@, reader[c].sweep)]
  BY <1>2 DEF ReadMerge
<1>3. \/ \E q \in Runs : ReceiveFinding(q) \/ SweepMerge(q)
      \/ \E c \in Readers : ReadMerge(c)
  BY DEF Next, NodeEvent, startRun, BudgetElapses, Ingest, Draw, Add, OnAdd, runByID, ReadList,
         Watch, Subscribe, Tick, DiscardEvent, SweepList, Close, Announce, Emit,
         RecordReproducer, Unsubscribe
<1>4. QED
  BY <1>1, <1>2, <1>3

-----------------------------------------------------------------------------
(* The theorems.                                                           *)

LEMMA InitInv == Init => IndInv
<1> SUFFICES ASSUME Init PROVE IndInv
  OBVIOUS
<1>1. TypeOK
  BY InitType
<1>2. Stored = {} /\ \A r \in Runs : Range(chan[r]) = {}
  BY DEF Init, Stored, Range
<1>3. WatchInv
  BY DEF Init, WatchInv, RunInv, Before, Closing, Closed
<1>4. FreshInv
  BY <1>2, FindingsAssumption DEF Init, FreshInv, Nowhere, HeldOnce, Fresh, Adding, Publishing
<1>5. SweepInv
  BY <1>2 DEF Init, SweepInv, SweepAt, Before
<1>6. ReproInv
  BY <1>2 DEF Init, ReproInv, ReproAt, LinkInv
<1>7. CountInv
  BY <1>2 DEF Init, CountInv, CountAt, Distinct, Publishing
<1>8. ReaderInv
  BY DEF Init, ReaderInv, ReaderAt
<1>9. QED
  BY <1>1, <1>3, <1>4, <1>5, <1>6, <1>7, <1>8 DEF IndInv

(* The strengthening is an invariant: it holds at the start and every step *)
(* keeps it.                                                               *)
THEOREM Inductive == Spec => []IndInv
<1>1. IndInv /\ [Next]_vars => IndInv'
  BY NextType, WatchStep, FreshStep, SweepStep, ReproStep, CountStep, ReaderStep DEF IndInv
<1>2. Safe => []IndInv
  BY <1>1, InitInv, PTL DEF Safe
<1>3. QED
  BY <1>2, PTL DEF Spec

(* However events, ticks, sweeps and reads interleave, a run that says it  *)
(* was stopped names a collected finding of a kind it stops on, and one    *)
(* that says its budget ended is past its budget (handleStopOnTrigger,     *)
(* closeRun).                                                              *)
THEOREM ClosingIsJustified == Spec => []ClosingJustified
<1>1. IndInv => ClosingJustified
  <2> SUFFICES ASSUME IndInv, NEW r \in Runs
               PROVE  /\ status[r] = "completed_stop_on" =>
                           /\ trigger[r] \in Findings
                           /\ attributed[r][trigger[r]] > 0
                           /\ matchesStopOn(r, trigger[r])
                      /\ status[r] = "completed_budget" => budgetOver[r] /\ trigger[r] = NoFinding
                      /\ status[r] \notin Closed => trigger[r] = NoFinding
    BY DEF ClosingJustified
  <2>1. RunInv(r) /\ status[r] \in {"absent", "running"} \union Closed
        /\ hit[r] \in Findings \union {NoFinding}
    BY DEF IndInv, WatchInv, TypeOK
  <2>2. status[r] \in Closed => wpc[r] \notin Before
    BY <2>1 DEF RunInv, Before, Closed
  <2>3. QED
    BY <2>1, <2>2 DEF RunInv, Closed
<1>2. QED
  BY <1>1, Inductive, PTL

(* FindingIDs never counts a finding more than twice, whatever the number  *)
(* of readers that sweep while its event is under way (watchRun and        *)
(* syncFindingsForRun).                                                    *)
THEOREM CountedAtMostTwice == Spec => []AtMostTwice
<1>1. IndInv => AtMostTwice
  <2> SUFFICES ASSUME IndInv, NEW r \in Runs, NEW f \in Findings PROVE attributed[r][f] <= 2
    BY DEF AtMostTwice
  <2>1. attributed[r][f] \in Nat
    BY DEF IndInv, TypeOK
  <2>2. attributed[r][f] <= (IF Ahead(r, f) THEN 1 ELSE 2)
    BY DEF IndInv, CountInv, CountAt
  <2>3. QED
    BY <2>1, <2>2
<1>2. QED
  BY <1>1, Inductive, PTL

(* A closed run holds every finding tagged with it that was in the store   *)
(* when the closing began and still is (closeRun's final sweep).           *)
THEOREM CloseIsComplete == Spec => []CloseSweeps
<1>1. IndInv => CloseSweeps
  <2> SUFFICES ASSUME IndInv, NEW r \in Runs, status[r] \in Closed
               PROVE  \A f \in due[r] \cap Stored : attributed[r][f] > 0
    BY DEF CloseSweeps
  <2>1. wpc[r] \notin Before \union {"sweep", "merge"}
    BY DEF IndInv, WatchInv, RunInv, Before, Closing, Closed
  <2>2. QED
    BY <2>1 DEF IndInv, SweepInv, SweepAt
<1>2. QED
  BY <1>1, Inductive, PTL

(* A run's reproducer exists once, after a stop_on, and a finding points   *)
(* to a reproducer of a run it tripped (Emit, handleStopOnTrigger).        *)
THEOREM ReproducersAreLinked == Spec => []ReproducerLinked
<1>1. IndInv => ReproducerLinked
  <2> SUFFICES ASSUME IndInv PROVE ReproducerLinked
    OBVIOUS
  <2>1. ASSUME NEW r \in Runs, reproducers[r] > 0
        PROVE  /\ reproducers[r] = 1 /\ status[r] = "completed_stop_on"
               /\ trigger[r] \in Stored => repro[trigger[r]] # NoRun
    BY <2>1 DEF IndInv, WatchInv, RunInv, ReproInv, ReproAt, Closed
  <2>2. ASSUME NEW f \in Findings, repro[f] # NoRun PROVE trigger[repro[f]] = f
    BY <2>2 DEF IndInv, WatchInv, RunInv, ReproInv, LinkInv, TypeOK
  <2>3. QED
    BY <2>1, <2>2 DEF ReproducerLinked
<1>2. QED
  BY <1>1, Inductive, PTL

LEMMA AnswerStep ==
  ASSUME IndInv, [Next]_vars, NEW c \in Readers,
         reader[c].pc = "merge", reader'[c].pc = "idle", NEW f \in reader[c].due
  PROVE  attributed'[reader[c].run][f] > 0
<1>1. TypeOK /\ ReaderAt(c)
  BY DEF IndInv, ReaderInv
<1>2. attributed' = [attributed EXCEPT ![reader[c].run] = AppendMissing(@, reader[c].sweep)]
  <2>1. reader'[c] # reader[c]
    OBVIOUS
  <2>2. ASSUME NEW r, reader'[c] = [pc |-> "merge", run |-> r, sweep |-> Tagged(r), due |-> Tagged(r)]
        PROVE  FALSE
    <3>1. reader'[c].pc = "merge"
      BY <2>2
    <3>2. QED
      BY <3>1
  <2>3. QED
    BY <1>1, <2>1, <2>2, ReaderChanges
<1>3. f \in reader[c].sweep /\ f \in Findings /\ reader[c].run \in Runs
  BY <1>1 DEF ReaderAt, TypeOK
<1>4. attributed'[reader[c].run][f] = IF attributed[reader[c].run][f] = 0
                                         THEN 1 ELSE attributed[reader[c].run][f]
  BY <1>1, <1>2, <1>3 DEF AppendMissing, TypeOK
<1>5. attributed[reader[c].run][f] \in Nat
  BY <1>1, <1>3 DEF TypeOK
<1>6. QED
  BY <1>4, <1>5

(* Every answer to GET /v1/runs/{id} holds the findings tagged with the    *)
(* run that were in the store when the request came in (runByID).          *)
THEOREM AnswersAreComplete == Spec => AnswersSwept
<1>1. IndInv /\ [Next]_vars =>
        [\A c \in Readers :
           reader[c].pc = "merge" /\ reader'[c].pc = "idle" =>
             \A f \in reader[c].due : attributed'[reader[c].run][f] > 0]_vars
  BY AnswerStep
<1>2. QED
  BY <1>1, Inductive, PTL DEF Spec, Safe, AnswersSwept

LEMMA LateStep ==
  ASSUME IndInv, [Next]_vars, NEW r \in Runs, status[r] \in Closed,
         NEW f \in Findings, attributed'[r][f] > attributed[r][f]
  PROVE  tag[f] = r
<1>1. TypeOK /\ RunInv(r) /\ ReaderInv
  BY DEF IndInv, WatchInv
<1>2. attributed[r][f] \in Nat
  BY <1>1 DEF TypeOK
<1>3. attributed'[r][f] # attributed[r][f]
  BY <1>2
<1>4. wpc[r] \notin {"select", "merge"}
  BY <1>1 DEF RunInv, Closing, Before, Closed
<1>5. ASSUME NEW q \in Runs, wpc[q] \in {"select", "merge"},
             NEW bag, attributed' = [attributed EXCEPT ![q] = bag]
      PROVE  FALSE
  BY <1>1, <1>3, <1>4, <1>5 DEF TypeOK
<1>6. PICK c \in Readers :
        /\ reader[c].pc = "merge"
        /\ attributed' = [attributed EXCEPT ![reader[c].run] = AppendMissing(@, reader[c].sweep)]
  BY <1>3, <1>5, AttributedChanges
<1>7. reader[c].run = r
  BY <1>1, <1>3, <1>6 DEF TypeOK
<1>8. f \in reader[c].sweep
  BY <1>1, <1>3, <1>6, <1>7 DEF AppendMissing, TypeOK
<1>9. QED
  BY <1>1, <1>6, <1>7, <1>8 DEF ReaderInv, ReaderAt

(* After a run is closed nothing is added to it but findings tagged with   *)
(* it, whatever runs beside or after it (syncFindingsForRun).              *)
THEOREM LateAttributionIsTagged == Spec => LateAttributionTagged
<1>1. IndInv /\ [Next]_vars =>
        [\A r \in Runs : status[r] \in Closed =>
           \A f \in Findings : attributed'[r][f] > attributed[r][f] => tag[f] = r]_vars
  BY LateStep
<1>2. QED
  BY <1>1, Inductive, PTL DEF Spec, Safe, LateAttributionTagged

-----------------------------------------------------------------------------
(* The refinement of RunLifecycle.                                         *)

Collected == [r \in Runs |-> {f \in Findings : attributed[r][f] > 0}]

(* More in a run's FindingIDs, and nothing else new: a Collect.            *)
LEMMA CollectStep ==
  ASSUME TypeOK, TypeOK', [Next]_vars, NEW r \in Runs, status[r] # "absent",
         UNCHANGED <<status, trigger>>,
         NEW bag, attributed' = [attributed EXCEPT ![r] = bag]
  PROVE  Lifecycle!Next
<1> DEFINE F == {f \in Findings : attributed'[r][f] > 0}
<1>1. \A f \in Findings : attributed[r][f] > 0 => attributed'[r][f] > 0
  <2>1. \A f \in Findings : attributed[r][f] \in Nat /\ attributed'[r][f] \in Nat
    BY DEF TypeOK
  <2>2. QED
    BY <2>1, AttributedGrows
<1>2. Collected' = [Collected EXCEPT ![r] = @ \union F]
  <2>1. \A q \in Runs : q # r => attributed'[q] = attributed[q]
    BY DEF TypeOK
  <2>2. Collected'[r] = Collected[r] \union F
    BY <1>1 DEF Collected
  <2>3. \A q \in Runs : q # r => Collected'[q] = Collected[q]
    BY <2>1 DEF Collected
  <2>4. QED
    BY <2>2, <2>3 DEF Collected
<1>3. Lifecycle!Collect(r, F)
  BY <1>2 DEF Lifecycle!Collect, Collected
<1>4. F \in SUBSET Findings
  OBVIOUS
<1> HIDE DEF F
<1>5. QED
  BY <1>3, <1>4 DEF Lifecycle!Next, Lifecycle!Collect

LEMMA CloseStep ==
  ASSUME IndInv, NEW r \in Runs, Close(r)
  PROVE  Lifecycle!Next
<1>1. RunInv(r) /\ hit[r] \in Findings \union {NoFinding}
      /\ trigger \in [Runs -> Findings \union {NoFinding}] /\ wpc[r] = "close"
  BY DEF IndInv, WatchInv, Close, Goto, TypeOK
<1>2. status[r] = "running" /\ trigger[r] = NoFinding
  BY <1>1 DEF RunInv, Closing, Before, Closed
<1>3. Collected' = Collected
  BY DEF Close, Collected
<1>4. CASE hit[r] = NoFinding
  <2>1. trigger' = trigger
    BY <1>1, <1>2, <1>4 DEF Close
  <2>2. Lifecycle!BudgetClose(r)
    BY <1>2, <1>3, <1>4, <2>1 DEF Close, Lifecycle!BudgetClose, Collected
  <2>3. QED
    BY <2>2 DEF Lifecycle!Next, Lifecycle!Finish
<1>5. CASE hit[r] # NoFinding
  <2>1. attributed[r][hit[r]] > 0 /\ matchesStopOn(r, hit[r]) /\ hit[r] \in Findings
    BY <1>1, <1>5 DEF RunInv
  <2>2. Lifecycle!StopOnClose(r, hit[r])
    BY <1>2, <1>3, <1>5, <2>1 DEF Close, Lifecycle!StopOnClose, Collected
  <2>3. QED
    BY <2>1, <2>2 DEF Lifecycle!Next, Lifecycle!Finish
<1>6. QED
  BY <1>4, <1>5

LEMMA LifecycleStep ==
  ASSUME IndInv, [Next]_vars
  PROVE  [Lifecycle!Next]_(Lifecycle!vars)
<1> USE DEF runVars, watchVars, busVars, storeVars, ingestVars, vars, Goto
<1>1. TypeOK /\ TypeOK'
  BY NextType DEF IndInv
<1>2. CASE UNCHANGED <<status, trigger, attributed>>
  BY <1>2 DEF Lifecycle!vars
<1>3. CASE attributed' # attributed
  <2>1. UNCHANGED <<status, trigger>>
    BY <1>3, AttributedChanges
  <2>2. ASSUME NEW q \in Runs, wpc[q] \in {"select", "merge"},
               NEW bag, attributed' = [attributed EXCEPT ![q] = bag]
        PROVE  Lifecycle!Next
    <3>1. status[q] # "absent"
      BY <2>2 DEF IndInv, WatchInv, RunInv, Closing, Before
    <3>2. QED
      BY <1>1, <2>1, <2>2, <3>1, CollectStep
  <2>3. ASSUME NEW c \in Readers, reader[c].pc = "merge",
               attributed' = [attributed EXCEPT ![reader[c].run] = AppendMissing(@, reader[c].sweep)]
        PROVE  Lifecycle!Next
    <3>1. reader[c].run \in Runs /\ status[reader[c].run] # "absent"
      BY <2>3 DEF IndInv, ReaderInv, ReaderAt
    <3>2. attributed' = [attributed EXCEPT ![reader[c].run] =
                           AppendMissing(attributed[reader[c].run], reader[c].sweep)]
      BY <2>3
    <3>3. QED
      BY <1>1, <2>1, <3>1, <3>2, CollectStep
  <2>4. QED
    BY <1>3, <2>2, <2>3, AttributedChanges
<1>4. ASSUME NEW r \in Runs, startRun(r) PROVE Lifecycle!Next
  BY <1>4 DEF startRun, Lifecycle!Next, Lifecycle!Start
<1>5. CASE attributed' = attributed /\ ~UNCHANGED <<status, trigger>>
  <2>1. \E r \in Runs : startRun(r) \/ Close(r)
    BY <1>5 DEF Next, NodeEvent, BudgetElapses, Ingest, Draw, Add, OnAdd, runByID,
         ReadList, ReadMerge, Watch, Subscribe, Tick, DiscardEvent, ReceiveFinding, SweepList,
         SweepMerge, Announce, Emit, RecordReproducer, Unsubscribe
  <2>2. QED
    BY <2>1, <1>4, CloseStep
<1>6. QED
  BY <1>2, <1>3, <1>5

(* The run records implement RunLifecycle: every step of a goroutine is a  *)
(* step of the promise or leaves it alone.                                 *)
THEOREM RunsKeepLifecycle == Spec => KeepsLifecycle
<1>1. Init => Lifecycle!Init
  BY DEF Init, Lifecycle!Init
<1>2. IndInv /\ [Next]_vars => [Lifecycle!Next]_(Lifecycle!vars)
  BY LifecycleStep
<1>3. QED
  BY <1>1, <1>2, Inductive, PTL DEF Spec, Safe, Lifecycle!Safe, KeepsLifecycle
=============================================================================
