------------------------------ MODULE SeqSoak -------------------------------
(***************************************************************************)
(* The concurrent soak: one coordinator that picks transactions and        *)
(* handles their outcomes, a pool of workers that number, sign and submit  *)
(* them, the sequence manager the workers share, and the nodes they submit *)
(* to round robin while every sequence is looked up on one of them.        *)
(* Source: sidecar/internal/fuzz/runners/seqsubmit.go.                     *)
(*                                                                         *)
(* A transaction is the account that signs it.  The lock of an account is  *)
(* held from the look-up of the sequence to the result of the submission,  *)
(* but not until the outcome is delivered.                                 *)
(***************************************************************************)
EXTENDS Naturals, Sequences, FiniteSets

CONSTANTS
  Workers,      \* SubmitWorkers goroutines
  Accounts,     \* the accounts of the pool
  NoAccount,    \* "no transaction in hand"
  NNodes,       \* number of submitters, addressed round robin
  Canonical,    \* the submitter that is also the node sequences are read from
  ChanCap,      \* buffer of either channel (2 * SubmitWorkers)
  MaxTx,        \* bound: transactions sent to the workers
  MaxPickFails  \* bound: transactions the generator fails to build

Nodes == 0 .. NNodes - 1

ASSUME WorkersAssumption == IsFiniteSet(Workers) /\ Workers # {}
ASSUME AccountsAssumption == NoAccount \notin Accounts
ASSUME NodesAssumption == NNodes \in Nat \ {0} /\ Canonical \in Nodes
ASSUME BoundsAssumption == ChanCap \in Nat \ {0} /\ MaxTx \in Nat /\ MaxPickFails \in Nat

VARIABLES
  \* the coordinator
  coord,      \* "loop" (top of the loop), "send", "drain" or "done"
  rated,      \* TxRate > 0: the loop waits for a ticker
  cancelled,  \* ctx is done
  picked,     \* the transaction it is trying to send
  submitCh, outcomeCh,
  stats,
  lines,      \* entries of the run log
  \* the workers
  pc, tx, seq, result,
  \* the sequence manager
  next, known, rr,
  \* the nodes: the sequences of each account a node has applied or queued
  taken

coordVars == <<coord, rated, cancelled, picked, stats, lines>>
workVars  == <<pc, tx, seq, result>>
seqVars   == <<next, known, rr>>
vars == <<coordVars, submitCh, outcomeCh, workVars, seqVars, taken>>

(* What a submission comes back with: an engine result or an error.        *)
Successes == {"tesSUCCESS", "terQUEUED"}
Drifts    == {"tefPAST_SEQ", "terPRE_SEQ"}
Results   == Successes \union Drifts \union {"tec", "other", "error"}

consumesWhatever(r) == r # "error" /\ r \notin Drifts  \* mutant: any answer of a node consumes

consumesSequence(r) == r \in {"tesSUCCESS", "terQUEUED", "tec"}

Init ==
  /\ coord = "loop"
  /\ rated \in BOOLEAN
  /\ cancelled = FALSE
  /\ picked = NoAccount
  /\ submitCh = <<>> /\ outcomeCh = <<>>
  /\ stats = [submitted |-> 0, succeeded |-> 0, failed |-> 0]
  /\ lines = 0
  /\ pc = [w \in Workers |-> "idle"]
  /\ tx = [w \in Workers |-> NoAccount]
  /\ seq = [w \in Workers |-> 0]
  /\ result = [w \in Workers |-> "error"]
  /\ next = [a \in Accounts |-> 1]
  /\ known = [a \in Accounts |-> FALSE]
  /\ rr = 0
  /\ taken = [n \in Nodes |-> [a \in Accounts |-> {}]]

Closed == coord \in {"drain", "done"}  \* submitCh is closed

-----------------------------------------------------------------------------
(* The nodes.                                                              *)

(* s is the sequence of a's account root in the open ledger of n.          *)
Open(n, a, s) == s \notin taken[n][a] /\ 1 .. s - 1 \subseteq taken[n][a]

(* What node n may answer a transaction of a with sequence s: one that     *)
(* leaves a gap may be queued, one that is malformed or finds its place in *)
(* the queue taken is refused.                                             *)
Answers(n, a, s) ==
  {"other"} \union
  (IF s \in taken[n][a]
     THEN {r \in {"tefPAST_SEQ"} : 1 .. s - 1 \subseteq taken[n][a]}
     ELSE IF Open(n, a, s) THEN {"tesSUCCESS", "tec"} ELSE {"terQUEUED", "terPRE_SEQ"})

(* The answers with which a node keeps the transaction.                    *)
Keeps(answer) == answer \in {"tesSUCCESS", "tec", "terQUEUED"}

(* Transactions spread from node to node, in any order.                    *)
Relay(n, m, a, s) ==
  /\ s \in taken[n][a] \ taken[m][a]
  /\ taken' = [taken EXCEPT ![m][a] = @ \union {s}]
  /\ UNCHANGED <<coordVars, submitCh, outcomeCh, workVars, seqVars>>

-----------------------------------------------------------------------------
(* The workers and the sequence manager.                                   *)

Receive(w) ==
  /\ pc[w] = "idle"
  /\ submitCh # <<>>
  /\ submitCh' = Tail(submitCh)
  /\ tx' = [tx EXCEPT ![w] = Head(submitCh)]
  /\ stats' = [stats EXCEPT !.submitted = @ + 1]
  /\ pc' = [pc EXCEPT ![w] = "lock"]
  /\ UNCHANGED <<coord, rated, cancelled, picked, lines, outcomeCh, seq, result, seqVars, taken>>

Free(a) == \A w \in Workers : ~(pc[w] = "signed" /\ tx[w] = a)

(* peek, with the account's lock in hand: the number of the cache, or of   *)
(* the canonical node's open ledger.                                       *)
peek(w) ==
  LET a == tx[w] IN
  /\ pc[w] = "lock" /\ Free(a)
  /\ \/ known[a] /\ seq' = [seq EXCEPT ![w] = next[a]] /\ UNCHANGED <<next, known>>
     \/ /\ ~known[a]
        /\ \E s \in 1 .. MaxTx + 1 :
             Open(Canonical, a, s) /\ seq' = [seq EXCEPT ![w] = s] /\ next' = [next EXCEPT ![a] = s]
        /\ known' = [known EXCEPT ![a] = TRUE]
  /\ pc' = [pc EXCEPT ![w] = "signed"]
  /\ UNCHANGED <<coordVars, submitCh, outcomeCh, tx, result, rr, taken>>

(* account_info fails: the transaction is given up before it has a number. *)
PeekFails(w) ==
  /\ pc[w] = "lock" /\ Free(tx[w]) /\ ~known[tx[w]]
  /\ seq' = [seq EXCEPT ![w] = 0]
  /\ result' = [result EXCEPT ![w] = "error"]
  /\ pc' = [pc EXCEPT ![w] = "deliver"]
  /\ UNCHANGED <<coordVars, submitCh, outcomeCh, tx, seqVars, taken>>

(* The end of submitTx: what result r of sequence s does to the cache, and *)
(* the lock is released.                                                   *)
Return(w, r) ==
  LET a == tx[w] IN
  /\ next' = IF consumesSequence(r) THEN [next EXCEPT ![a] = seq[w] + 1] ELSE next
  /\ known' = CASE consumesSequence(r)            -> [known EXCEPT ![a] = TRUE]
               [] r \in Drifts \union {"error"} -> [known EXCEPT ![a] = FALSE]
               [] OTHER                         -> known
  /\ result' = [result EXCEPT ![w] = r]
  /\ pc' = [pc EXCEPT ![w] = "deliver"]

(* A mutated transaction may not be signable.                              *)
SignFails(w) ==
  /\ pc[w] = "signed"
  /\ Return(w, "error")
  /\ UNCHANGED <<coordVars, submitCh, outcomeCh, tx, seq, rr, taken>>

(* The blob goes to the next submitter; the call fails if the request or   *)
(* its answer is lost.                                                     *)
Submit(w) ==
  LET a == tx[w]
      n == (rr + 1) % NNodes IN
  /\ pc[w] = "signed"
  /\ rr' = n
  /\ \E answer \in Answers(n, a, seq[w]) :
       /\ taken' = IF Keeps(answer)
                     THEN [taken EXCEPT ![n][a] = @ \union {seq[w]}] ELSE taken
       /\ \E r \in {answer, "error"} : Return(w, r)
  /\ UNCHANGED <<coordVars, submitCh, outcomeCh, tx, seq>>

Deliver(w) ==
  /\ pc[w] = "deliver"
  /\ Len(outcomeCh) < ChanCap
  /\ outcomeCh' = Append(outcomeCh, [acct |-> tx[w], seq |-> seq[w], result |-> result[w]])
  /\ pc' = [pc EXCEPT ![w] = "idle"]
  /\ tx' = [tx EXCEPT ![w] = NoAccount]
  /\ seq' = [seq EXCEPT ![w] = 0]
  /\ result' = [result EXCEPT ![w] = "error"]
  /\ UNCHANGED <<coordVars, submitCh, seqVars, taken>>

ExitAtOnce(w) ==  \* mutant: a closed channel is taken for an empty one
  /\ pc[w] = "idle" /\ Closed
  /\ pc' = [pc EXCEPT ![w] = "exited"]
  /\ UNCHANGED <<coordVars, submitCh, outcomeCh, tx, seq, result, seqVars, taken>>

Exit(w) ==
  /\ pc[w] = "idle" /\ Closed /\ submitCh = <<>>
  /\ pc' = [pc EXCEPT ![w] = "exited"]
  /\ UNCHANGED <<coordVars, submitCh, outcomeCh, tx, seq, result, seqVars, taken>>

Work(w) ==
  \/ Receive(w) \/ peek(w) \/ PeekFails(w) \/ SignFails(w) \/ Submit(w)
  \/ Deliver(w) \/ Exit(w)

-----------------------------------------------------------------------------
(* The coordinator.                                                        *)

Cancel ==
  /\ ~cancelled
  /\ cancelled' = TRUE
  /\ UNCHANGED <<coord, rated, picked, stats, lines, submitCh, outcomeCh, workVars, seqVars, taken>>

(* handle: count the outcome and append it to the run log.                 *)
handle ==
  LET ok == Head(outcomeCh).result \in Successes IN
  /\ outcomeCh # <<>>
  /\ outcomeCh' = Tail(outcomeCh)
  /\ stats' = IF ok THEN [stats EXCEPT !.succeeded = @ + 1] ELSE [stats EXCEPT !.failed = @ + 1]
  /\ lines' = lines + 1
  /\ UNCHANGED <<coord, rated, cancelled, picked, submitCh, workVars, seqVars, taken>>

PickTx(a) ==
  /\ coord = "loop" /\ ~cancelled
  /\ stats.submitted + Len(submitCh) < MaxTx
  /\ picked' = a
  /\ coord' = "send"
  /\ UNCHANGED <<rated, cancelled, stats, lines, submitCh, outcomeCh, workVars, seqVars, taken>>

PickFails ==
  /\ coord = "loop" /\ ~cancelled
  /\ stats.succeeded + stats.failed < lines + MaxPickFails
  /\ stats' = [stats EXCEPT !.failed = @ + 1]
  /\ UNCHANGED <<coord, rated, cancelled, picked, lines, submitCh, outcomeCh, workVars, seqVars, taken>>

HandleAtTick == coord = "loop" /\ rated /\ ~cancelled /\ handle

Send ==
  /\ coord = "send"
  /\ Len(submitCh) < ChanCap
  /\ submitCh' = Append(submitCh, picked)
  /\ picked' = NoAccount
  /\ coord' = "loop"
  /\ UNCHANGED <<rated, cancelled, stats, lines, outcomeCh, workVars, seqVars, taken>>

HandleNever == FALSE  \* mutant: the coordinator waits for room only

HandleAtSend == coord = "send" /\ handle

(* goto drain: a transaction not sent yet is dropped, uncounted.           *)
Stop ==
  /\ coord \in {"loop", "send"} /\ cancelled
  /\ picked' = NoAccount
  /\ coord' = "drain"
  /\ UNCHANGED <<rated, cancelled, stats, lines, submitCh, outcomeCh, workVars, seqVars, taken>>

HandleAtDrain == coord = "drain" /\ handle

Finish ==
  /\ coord = "drain" /\ outcomeCh = <<>>
  /\ \A w \in Workers : pc[w] = "exited"
  /\ coord' = "done"
  /\ UNCHANGED <<rated, cancelled, picked, stats, lines, submitCh, outcomeCh, workVars, seqVars, taken>>

Coordinate ==
  \/ \E a \in Accounts : PickTx(a)
  \/ PickFails \/ HandleAtTick \/ Send \/ HandleAtSend \/ Stop \/ HandleAtDrain \/ Finish

Next ==
  \/ Cancel
  \/ Coordinate
  \/ \E w \in Workers : Work(w)
  \/ \E n, m \in Nodes, a \in Accounts, s \in 1 .. MaxTx : Relay(n, m, a, s)

Spec == Init /\ [][Next]_vars

(* Goroutines run, and every RPC returns: the client gives up after 10s.   *)
FairSpec ==
  /\ Spec
  /\ WF_vars(Coordinate)
  /\ \A w \in Workers : WF_vars(Work(w))

-----------------------------------------------------------------------------
TypeOK ==
  /\ coord \in {"loop", "send", "drain", "done"}
  /\ rated \in BOOLEAN /\ cancelled \in BOOLEAN
  /\ picked \in Accounts \union {NoAccount}
  /\ picked \in Accounts <=> coord = "send"
  /\ submitCh \in Seq(Accounts) /\ Len(submitCh) <= ChanCap
  /\ outcomeCh \in Seq([acct : Accounts, seq : Nat, result : Results]) /\ Len(outcomeCh) <= ChanCap
  /\ stats \in [submitted : Nat, succeeded : Nat, failed : Nat]
  /\ lines \in Nat
  /\ pc \in [Workers -> {"idle", "lock", "signed", "deliver", "exited"}]
  /\ tx \in [Workers -> Accounts \union {NoAccount}]
  /\ \A w \in Workers : tx[w] \in Accounts <=> pc[w] \in {"lock", "signed", "deliver"}
  /\ seq \in [Workers -> Nat] /\ \A w \in Workers : pc[w] = "signed" => seq[w] # 0
  /\ result \in [Workers -> Results]
  /\ next \in [Accounts -> Nat \ {0}]
  /\ known \in [Accounts -> BOOLEAN]
  /\ rr \in Nodes
  /\ taken \in [Nodes -> [Accounts -> SUBSET (Nat \ {0})]]

-----------------------------------------------------------------------------
(* Where the transactions are that were sent and are not handled yet.      *)
Busy == {w \in Workers : pc[w] \in {"lock", "signed", "deliver"}}

Inside == Len(submitCh) + Cardinality(Busy) + Len(outcomeCh)

(* No gap: every sequence below the one the manager hands out next was     *)
(* taken by some node.  A gap would leave the account's later transactions *)
(* waiting for good.  It takes the lock, the look-up on one node and the   *)
(* treatment of every answer to keep it.                                   *)
TakenBySome(a, s) == \E n \in Nodes : s \in taken[n][a]

NoGap ==
  \A a \in Accounts : known[a] => \A s \in 1 .. next[a] - 1 : TakenBySome(a, s)

(* What a worker and the coordinator wait for: the account's lock, or the   *)
(* channel of their pc.  At the top of its loop the coordinator waits for  *)
(* the ticker at most.                                                     *)
CanWork(w) ==
  \/ pc[w] = "idle" /\ (submitCh # <<>> \/ Closed)
  \/ pc[w] = "lock" /\ Free(tx[w])
  \/ pc[w] = "signed"
  \/ pc[w] = "deliver" /\ Len(outcomeCh) < ChanCap

CanCoordinate ==
  \/ coord = "loop"
  \/ coord = "send" /\ (Len(submitCh) < ChanCap \/ outcomeCh # <<>> \/ cancelled)
  \/ coord = "drain" /\ (outcomeCh # <<>> \/ \A w \in Workers : pc[w] = "exited")

(* Coordinator and workers never all wait, for one of the two full         *)
(* channels, for an account's lock or for a worker that has left, until    *)
(* the soak has ended.                                                     *)
NoStandstill == coord = "done" \/ CanCoordinate \/ \E w \in Workers : CanWork(w)

(* Sequences are issued in order: while the cached number of an account is *)
(* valid it moves up by one or stays, so no worker holds a number older    *)
(* than one already used.                                                  *)
NeverRewinds ==
  [][\A a \in Accounts : known[a] /\ known'[a] => next'[a] \in {next[a], next[a] + 1}]_vars

(* The counters agree with what the workers and channels hold: a submitted *)
(* transaction is in a worker's hands, waits as an outcome or is logged,   *)
(* and what is logged was counted as a success or a failure.               *)
Accounted ==
  /\ stats.submitted = lines + Cardinality(Busy) + Len(outcomeCh)
  /\ stats.succeeded + stats.failed \in lines .. lines + MaxPickFails

(* Every transaction sent is handled exactly once, and after a shutdown    *)
(* the pool empties and ends: runConcurrentSoak implements WorkPool.       *)
Pool ==
  INSTANCE WorkPool WITH
    Capacity <- 2 * ChanCap + Cardinality(Workers),
    phase <- CASE coord \in {"loop", "send"} -> "running"
               [] coord = "drain" -> "draining"
               [] coord = "done" -> "done",
    inside <- Inside,
    handled <- lines

ImplementsPool == Pool!Spec

(* The coordinator never waits for workers that wait for it: a transaction *)
(* it has picked is sent even if nobody ever cancels the run.              *)
PickedIsSent == (coord = "send") ~> (coord # "send")

(* peek resyncs "against the open ledger so just-applied (unvalidated) txs *)
(* are reflected and we don't reissue a sequence already in flight"        *)
(* (seqsubmit.go:152): no worker signs a sequence that a node has taken.   *)
NoReissue ==
  \A w \in Workers : pc[w] = "signed" => ~TakenBySome(tx[w], seq[w])
=============================================================================
