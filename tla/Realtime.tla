------------------------------- MODULE Realtime -------------------------------
(* The runs that compare while they submit: realtime, replay of a mainnet   *)
(* range, and reproduce from a run log.  After each accepted transaction    *)
(* its result (layer 2) and its metadata (layer 3) are read from every      *)
(* node; after every Batch-th turn the ledgers that the submit node has     *)
(* validated since are compared (layer 1).                                  *)
EXTENDS Naturals, FiniteSets

CONSTANTS
  NNodes, Submitter,    \* nodes, in the order they are asked, and the one submitted to
  Batch,       \* turns between two comparisons of ledgers (10 in the code)
  MaxSeq       \* bound on the ledgers

NodeIds == 1..NNodes

VARIABLES
  mode,          \* which of the three runs
  pc, i,         \* where the loop is, and its turn within a batch
  validated,     \* per node: the validated sequence it reports (external)
  fork,          \* the first ledger on which the nodes disagree (external)
  lands,         \* the ledger the current transaction is applied in (external)
  asked, seen, broken,          \* a layer 2 or 3 comparison under way
  lastCompared, cursor, until,
  alarms                        \* history: the ledgers reported

network == <<validated, fork>>
reading == <<asked, seen, broken>>
window  == <<lastCompared, cursor, until>>
vars == <<mode, pc, i, network, reading, lands, window, alarms>>

Max(S) == CHOOSE x \in S : \A y \in S : y <= x

First == 1     \* the validated sequence when the loop starts

Init ==
  /\ mode \in {"realtime", "replay", "reproduce"}
  /\ pc = "submit" /\ i = 0
  /\ validated = [n \in NodeIds |-> First]
  /\ fork \in (First + 1)..(MaxSeq + 1)
  /\ lands = 0
  /\ asked = 0 /\ seen = {} /\ broken = FALSE
  /\ lastCompared = First /\ cursor = 0 /\ until = 0
  /\ alarms = {}

(* The run may end at any turn (TxCount, the range, the log, a signal).     *)
NextTurn ==
  /\ pc' = "submit" /\ i' = (i + 1) % Batch
  /\ lands' = 0

(* A turn whose transaction is not picked, not rewritten, or refused.       *)
(* Replay counts accepted transactions only.                                *)
SubmitFails ==
  /\ pc = "submit" /\ mode # "replay"
  /\ NextTurn
  /\ UNCHANGED <<mode, network, reading, window, alarms>>

(* An accepted transaction is applied in the next ledger, in a later one,   *)
(* or never; its hash may be missing from the answer.                       *)
SubmitSucceeds ==
  /\ pc = "submit"
  /\ \/ pc' = "layer2" /\ lands' \in (Max({validated[n] : n \in NodeIds}) + 1)..(MaxSeq + 1)
     \/ pc' = "layer1?" /\ lands' = lands
  /\ UNCHANGED <<mode, i, network, reading, window, alarms>>

(* What a node answers to tx: nothing yet, or the outcome its own ledger    *)
(* has.  An unknown transaction is not an error.                            *)
NoAnswer == 0

Same == NNodes + 1

TxAnswer(n) ==
  IF validated[n] < lands THEN NoAnswer ELSE IF lands >= fork THEN n ELSE Same

AskTx(n) ==
  /\ pc \in {"layer2", "layer3"} /\ n = asked + 1
  /\ asked' = n
  /\ \/ seen' = seen \cup {TxAnswer(n)} /\ broken' = broken
     \/ seen' = seen /\ broken' = TRUE
  /\ UNCHANGED <<mode, pc, i, network, lands, window, alarms>>

(* Agreed: every node answered, and all the same.  Anything else is         *)
(* reported.                                                                *)
Reports == asked = NNodes /\ (broken \/ Cardinality(seen) # 1)

CompareTxResult ==
  /\ pc \in {"layer2", "layer3"} /\ asked = NNodes
  /\ pc' = IF pc = "layer2" THEN "layer3" ELSE "layer1?"
  /\ asked' = 0 /\ seen' = {} /\ broken' = FALSE
  /\ UNCHANGED <<mode, i, network, lands, window, alarms>>

(* The ledgers are compared on the last turn of a batch, if that turn got   *)
(* this far.  server_info of the submit node may fail.                      *)
DueForLedgers == mode # "reproduce" /\ i = Batch - 1

StartLedgers ==
  /\ pc = "layer1?" /\ DueForLedgers
  /\ pc' = "layer1" /\ until' = validated[Submitter] /\ cursor' = lastCompared + 1
  /\ lands' = 0
  /\ UNCHANGED <<mode, i, network, reading, lastCompared, alarms>>

SkipLedgers ==
  /\ pc = "layer1?"
  /\ NextTurn
  /\ UNCHANGED <<mode, network, reading, window, alarms>>

(* One ledger: wait until every node has validated it, read every hash.  A  *)
(* node that does not get there in time and a read that fails both count as *)
(* a disagreement.                                                          *)
EveryNodeHas(seq) == \A n \in NodeIds : validated[n] >= seq

CompareAtSequence ==
  /\ pc = "layer1" /\ cursor <= until
  /\ \/ EveryNodeHas(cursor) /\ cursor < fork /\ alarms' = alarms
     \/ alarms' = alarms \cup {cursor}
  /\ cursor' = cursor + 1
  /\ UNCHANGED <<mode, pc, i, network, lands, reading, lastCompared, until>>

\* mutant: the validated sequence is asked for again after the loop
EndLedgersReread ==
  /\ pc = "layer1" /\ cursor > until
  /\ lastCompared' = validated[Submitter] /\ cursor' = 0 /\ until' = 0
  /\ NextTurn
  /\ UNCHANGED <<mode, network, reading, alarms>>

EndLedgers ==
  /\ pc = "layer1" /\ cursor > until
  /\ lastCompared' = until /\ cursor' = 0 /\ until' = 0
  /\ NextTurn
  /\ UNCHANGED <<mode, network, reading, alarms>>

(* The nodes' ledgers go on by themselves; a node that restarts reports no  *)
(* validated ledger until it has caught up.                                 *)
Validate(n) ==
  /\ validated[n] < MaxSeq
  /\ \E s \in (validated[n] + 1)..MaxSeq :
       /\ s = validated[n] + 1 \/ validated[n] = 0
       /\ validated' = [validated EXCEPT ![n] = s]
  /\ UNCHANGED <<mode, pc, i, fork, lands, reading, window, alarms>>

Restart(n) ==
  /\ validated' = [validated EXCEPT ![n] = 0]
  /\ UNCHANGED <<mode, pc, i, fork, lands, reading, window, alarms>>

Next ==
  \/ SubmitFails \/ SubmitSucceeds
  \/ CompareTxResult
  \/ StartLedgers \/ SkipLedgers \/ CompareAtSequence \/ EndLedgers
  \/ \E n \in NodeIds : AskTx(n) \/ Validate(n) \/ Restart(n)

Spec == Init /\ [][Next]_vars

------------------------------------------------------------------------------
(* Whatever turns failed, whatever server_info calls were missed and        *)
(* however far a node fell back: every ledger between the first one and the *)
(* last one compared on which the nodes differ was reported.                *)
ForkIsSeen == \A s \in (First + 1)..lastCompared : s >= fork => s \in alarms

(* "Layer 2: compare result on all nodes once the tx is validated": so a    *)
(* report about a transaction is of a difference in the ledger that has it, *)
(* or of a node that did not answer.                                        *)
TxAlarmIsReal == Reports => lands >= fork \/ broken
=============================================================================
