--------------------------- MODULE SeqSoakProofs ---------------------------
(***************************************************************************)
(* The concurrent soak, for every number of workers, accounts, nodes and   *)
(* transactions and every size of the channels.                            *)
(*                                                                         *)
(* The sequence properties rest on one invariant about the account locks:  *)
(* a worker that holds a lock holds it alone, and the number it signed is  *)
(* the one in the cache (Locked).  The counting ones on one about what the *)
(* workers hold: the workers with a transaction are finitely many.         *)
(***************************************************************************)
EXTENDS SeqSoak, FiniteSetTheorems, TLAPS

(* A worker between look-up and result is the only one for its account,    *)
(* and nothing moves the cached number of the account meanwhile.           *)
Locked ==
  \A w \in Workers : pc[w] = "signed" =>
    /\ known[tx[w]] /\ next[tx[w]] = seq[w]
    /\ \A v \in Workers : pc[v] = "signed" /\ tx[v] = tx[w] => v = w

SeqInv == TypeOK /\ Locked /\ NoGap

-----------------------------------------------------------------------------
(* Type correctness.                                                       *)

Outcome == [acct : Accounts, seq : Nat, result : Results]

Counters == [submitted : Nat, succeeded : Nat, failed : Nat]

LEMMA Counting ==
  ASSUME NEW c \in Counters
  PROVE  /\ [c EXCEPT !.submitted = @ + 1] \in Counters
         /\ [c EXCEPT !.succeeded = @ + 1] \in Counters
         /\ [c EXCEPT !.failed = @ + 1] \in Counters
  BY DEF Counters

LEMMA TypeInit == Init => TypeOK
<1>1. SUFFICES ASSUME Init PROVE TypeOK
  OBVIOUS
<1>2. rr \in Nodes /\ "error" \in Results
  BY <1>1, NodesAssumption DEF Init, Nodes, Results
<1>3. submitCh \in Seq(Accounts) /\ outcomeCh \in Seq(Outcome) /\ Len(submitCh) = 0 /\ Len(outcomeCh) = 0
  BY <1>1 DEF Init
<1>4. stats \in Counters
  BY <1>1 DEF Init, Counters
<1>5. /\ next \in [Accounts -> Nat \ {0}]
      /\ known \in [Accounts -> BOOLEAN]
      /\ taken \in [Nodes -> [Accounts -> SUBSET (Nat \ {0})]]
      /\ lines \in Nat
  BY <1>1 DEF Init
<1>6. /\ pc \in [Workers -> {"idle", "lock", "signed", "deliver", "exited"}]
      /\ tx \in [Workers -> Accounts \union {NoAccount}]
      /\ \A w \in Workers : tx[w] \in Accounts <=> pc[w] \in {"lock", "signed", "deliver"}
      /\ seq \in [Workers -> Nat] /\ \A w \in Workers : pc[w] = "signed" => seq[w] # 0
      /\ result \in [Workers -> Results]
  BY <1>1, <1>2, AccountsAssumption DEF Init
<1>7. /\ coord \in {"loop", "send", "drain", "done"}
      /\ rated \in BOOLEAN /\ cancelled \in BOOLEAN
      /\ picked \in Accounts \union {NoAccount}
      /\ picked \in Accounts <=> coord = "send"
  BY <1>1, AccountsAssumption DEF Init
<1>8. QED
  BY <1>2, <1>3, <1>4, <1>5, <1>6, <1>7, BoundsAssumption DEF TypeOK, Outcome, Counters

LEMMA HandleType ==
  ASSUME TypeOK, handle
  PROVE  TypeOK'
<1>1. outcomeCh' \in Seq(Outcome) /\ Len(outcomeCh') <= ChanCap
  <2>1. outcomeCh \in Seq(Outcome) /\ outcomeCh # <<>> /\ Len(outcomeCh) <= ChanCap
    BY DEF TypeOK, handle, Outcome
  <2>2. Tail(outcomeCh) \in Seq(Outcome) /\ Len(Tail(outcomeCh)) = Len(outcomeCh) - 1
    BY <2>1
  <2>3. QED
    BY <2>1, <2>2, BoundsAssumption DEF handle
<1>2. stats' \in Counters /\ lines' \in Nat
  <2>1. stats \in Counters /\ lines \in Nat
    BY DEF TypeOK, Counters
  <2>2. /\ \/ stats' = [stats EXCEPT !.succeeded = @ + 1]
           \/ stats' = [stats EXCEPT !.failed = @ + 1]
        /\ lines' = lines + 1
    BY DEF handle
  <2>3. lines' \in Nat
    BY <2>1, <2>2
  <2>4. /\ [stats EXCEPT !.succeeded = @ + 1] \in Counters
        /\ [stats EXCEPT !.failed = @ + 1] \in Counters
    BY <2>1, Counting
  <2>5. QED
    BY <2>2, <2>3, <2>4
<1>3. QED
  BY <1>1, <1>2 DEF TypeOK, handle, Outcome, Counters, workVars, seqVars

LEMMA ReturnType ==
  ASSUME TypeOK, NEW w \in Workers, NEW r \in Results, Return(w, r), pc[w] = "signed"
  PROVE  /\ next' \in [Accounts -> Nat \ {0}]
         /\ known' \in [Accounts -> BOOLEAN]
         /\ result' \in [Workers -> Results]
         /\ pc' = [pc EXCEPT ![w] = "deliver"]
  BY DEF TypeOK, Return

LEMMA ReturnKeepsType ==
  ASSUME TypeOK, NEW w \in Workers, NEW r \in Results, Return(w, r), pc[w] = "signed",
         UNCHANGED <<coordVars, submitCh, outcomeCh, tx, seq>>, rr' \in Nodes,
         taken' \in [Nodes -> [Accounts -> SUBSET (Nat \ {0})]]
  PROVE  TypeOK'
<1>1. /\ next' \in [Accounts -> Nat \ {0}]
      /\ known' \in [Accounts -> BOOLEAN]
      /\ result' \in [Workers -> Results]
      /\ pc' = [pc EXCEPT ![w] = "deliver"]
  BY ReturnType
<1>2. /\ pc' \in [Workers -> {"idle", "lock", "signed", "deliver", "exited"}]
      /\ \A v \in Workers : tx'[v] \in Accounts <=> pc'[v] \in {"lock", "signed", "deliver"}
      /\ \A v \in Workers : pc'[v] = "signed" => seq'[v] # 0
  BY <1>1 DEF TypeOK
<1>3. QED
  BY <1>1, <1>2 DEF TypeOK, coordVars

LEMMA TypeWork ==
  ASSUME TypeOK, NEW w \in Workers, Work(w)
  PROVE  TypeOK'
<1> USE AccountsAssumption, BoundsAssumption, NodesAssumption DEF TypeOK, coordVars, workVars, seqVars
<1>1. CASE Receive(w)
  <2>1. Tail(submitCh) \in Seq(Accounts) /\ Len(Tail(submitCh)) = Len(submitCh) - 1 /\ Head(submitCh) \in Accounts
    BY <1>1 DEF Receive
  <2>2. submitCh' \in Seq(Accounts) /\ Len(submitCh') <= ChanCap
    BY <1>1, <2>1 DEF Receive
  <2>3. stats' \in Counters
    <3>1. stats \in Counters
      BY DEF Counters
    <3>2. QED
      BY <1>1, <3>1, Counting DEF Receive
  <2>4. tx' \in [Workers -> Accounts \union {NoAccount}]
    BY <1>1, <2>1 DEF Receive
  <2>5. pc' \in [Workers -> {"idle", "lock", "signed", "deliver", "exited"}]
    BY <1>1 DEF Receive
  <2>6. \A v \in Workers : tx'[v] \in Accounts <=> pc'[v] \in {"lock", "signed", "deliver"}
    BY <1>1, <2>1 DEF Receive
  <2>7. QED
    BY <1>1, <2>2, <2>3, <2>4, <2>5, <2>6 DEF Receive, Counters
<1>2. CASE peek(w)
  <2>1. tx[w] \in Accounts
    BY <1>2 DEF peek
  <2>2. /\ seq' \in [Workers -> Nat]
        /\ next' \in [Accounts -> Nat \ {0}]
        /\ known' \in [Accounts -> BOOLEAN]
    <3>1. CASE known[tx[w]]
      BY <1>2, <2>1, <3>1 DEF peek
    <3>2. CASE ~known[tx[w]]
      <4>1. PICK s \in 1 .. MaxTx + 1 : seq' = [seq EXCEPT ![w] = s] /\ next' = [next EXCEPT ![tx[w]] = s]
        BY <1>2, <3>2 DEF peek
      <4>2. s \in Nat \ {0}
        BY <4>1
      <4>3. QED
        BY <1>2, <2>1, <4>1, <4>2 DEF peek
    <3>3. QED
      BY <3>1, <3>2
  <2>3. pc' \in [Workers -> {"idle", "lock", "signed", "deliver", "exited"}]
    BY <1>2 DEF peek
  <2>4. \A v \in Workers : tx'[v] \in Accounts <=> pc'[v] \in {"lock", "signed", "deliver"}
    BY <1>2 DEF peek
  <2>5. \A v \in Workers : pc'[v] = "signed" => seq'[v] # 0
    BY <1>2, <2>1 DEF peek
  <2>6. QED
    BY <1>2, <2>2, <2>3, <2>4, <2>5 DEF peek
<1>3. CASE PeekFails(w)
  BY <1>3 DEF PeekFails, Results
<1>4. CASE SignFails(w)
  BY <1>4, ReturnKeepsType DEF SignFails, Results
<1>5. CASE Submit(w)
  <2>1. tx[w] \in Accounts
    BY <1>5 DEF Submit
  <2>2. rr' \in Nodes
    BY <1>5 DEF Submit, Nodes
  <2>3. Answers(rr', tx[w], seq[w]) \subseteq Results /\ "error" \in Results
    BY DEF Answers, Results, Successes, Drifts
  <2>4. PICK r \in Results : Return(w, r)
    BY <1>5, <2>3 DEF Submit
  <2>5. taken' \in [Nodes -> [Accounts -> SUBSET (Nat \ {0})]]
    BY <1>5, <2>1, <2>2 DEF Submit
  <2>6. QED
    BY <1>5, <2>2, <2>4, <2>5, ReturnKeepsType DEF Submit
<1>6. CASE Deliver(w)
  <2>1. [acct |-> tx[w], seq |-> seq[w], result |-> result[w]] \in Outcome
    BY <1>6 DEF Deliver, Outcome
  <2>2. outcomeCh' \in Seq(Outcome) /\ Len(outcomeCh') <= ChanCap
    BY <1>6, <2>1 DEF Deliver, Outcome
  <2>3. QED
    BY <1>6, <2>2 DEF Deliver, Results, Outcome
<1>7. CASE Exit(w)
  BY <1>7 DEF Exit
<1>8. QED
  BY <1>1, <1>2, <1>3, <1>4, <1>5, <1>6, <1>7 DEF Work

LEMMA TypeNext ==
  ASSUME TypeOK, [Next]_vars
  PROVE  TypeOK'
<1> USE AccountsAssumption, BoundsAssumption DEF workVars, seqVars
<1>1. CASE Cancel
  BY <1>1 DEF Cancel, TypeOK
<1>2. ASSUME NEW a \in Accounts, PickTx(a)
      PROVE  TypeOK'
  BY <1>2 DEF PickTx, TypeOK
<1>3. CASE PickFails
  <2>1. stats \in Counters /\ stats' \in Counters
    BY <1>3, Counting DEF PickFails, TypeOK, Counters
  <2>2. QED
    BY <1>3, <2>1 DEF PickFails, TypeOK, Counters
<1>4. CASE HandleAtTick \/ HandleAtSend \/ HandleAtDrain
  BY <1>4, HandleType DEF HandleAtTick, HandleAtSend, HandleAtDrain
<1>5. CASE Send
  BY <1>5 DEF Send, TypeOK
<1>6. CASE Stop
  BY <1>6 DEF Stop, TypeOK
<1>7. CASE Finish
  BY <1>7 DEF Finish, TypeOK
<1>8. ASSUME NEW w \in Workers, Work(w)
      PROVE  TypeOK'
  BY <1>8, TypeWork
<1>9. ASSUME NEW n \in Nodes, NEW m \in Nodes, NEW a \in Accounts, NEW s \in 1 .. MaxTx,
             Relay(n, m, a, s)
      PROVE  TypeOK'
  BY <1>9 DEF Relay, TypeOK, coordVars
<1>10. CASE UNCHANGED vars
  BY <1>10 DEF vars, coordVars, TypeOK
<1>11. QED
  BY <1>1, <1>2, <1>3, <1>4, <1>5, <1>6, <1>7, <1>8, <1>9, <1>10 DEF Next, Coordinate

(* Coordinator, workers, cache and nodes keep their types, and the         *)
(* channels their capacity.                                                *)
THEOREM TypeCorrect == Spec => []TypeOK
<1>1. TypeOK /\ [Next]_vars => TypeOK'
  BY TypeNext
<1>2. QED
  BY <1>1, TypeInit, PTL DEF Spec
-----------------------------------------------------------------------------
(* The sequences.                                                          *)

(* What an action that is not a step of a worker leaves alone.             *)
LEMMA CoordinatorKeeps ==
  ASSUME Cancel \/ Coordinate
  PROVE  UNCHANGED <<workVars, seqVars, taken>>
  BY DEF Cancel, Coordinate, PickTx, PickFails, HandleAtTick, HandleAtSend, HandleAtDrain, handle,
         Send, Stop, Finish

(* A worker whose step does not end a submission or a look-up.             *)
LEMMA QuietKeeps ==
  ASSUME TypeOK, NEW w \in Workers, Receive(w) \/ PeekFails(w) \/ Deliver(w) \/ Exit(w)
  PROVE  /\ UNCHANGED <<next, known, taken>>
         /\ \A v \in Workers : pc'[v] = "signed" =>
              pc[v] = "signed" /\ tx'[v] = tx[v] /\ seq'[v] = seq[v]
<1>1. UNCHANGED <<next, known, taken>>
  BY DEF Receive, PeekFails, Deliver, Exit, seqVars
<1>2. \A v \in Workers : v # w => pc'[v] = pc[v] /\ tx'[v] = tx[v] /\ seq'[v] = seq[v]
  BY DEF TypeOK, Receive, PeekFails, Deliver, Exit
<1>3. pc'[w] # "signed"
  BY DEF TypeOK, Receive, PeekFails, Deliver, Exit
<1>4. QED
  BY <1>1, <1>2, <1>3

LEMMA LockedNext ==
  ASSUME TypeOK, Locked, [Next]_vars
  PROVE  Locked'
<1>1. CASE Cancel \/ Coordinate
  BY <1>1, CoordinatorKeeps DEF Locked, workVars, seqVars
<1>2. ASSUME NEW w \in Workers, Receive(w) \/ PeekFails(w) \/ Deliver(w) \/ Exit(w)
      PROVE  Locked'
  BY <1>2, QuietKeeps DEF Locked
<1>3. ASSUME NEW w \in Workers, peek(w)
      PROVE  Locked'
  <2>1. /\ tx[w] \in Accounts /\ Free(tx[w])
        /\ tx' = tx /\ pc' = [pc EXCEPT ![w] = "signed"]
        /\ \A v \in Workers : v # w => seq'[v] = seq[v]
        /\ \A a \in Accounts : a # tx[w] => next'[a] = next[a] /\ known'[a] = known[a]
    BY <1>3 DEF peek, TypeOK
  <2>2. known'[tx[w]] /\ next'[tx[w]] = seq'[w]
    BY <1>3, <2>1 DEF peek, TypeOK
  <2>3. \A v \in Workers : pc'[v] = "signed" /\ v # w => pc[v] = "signed" /\ tx[v] # tx[w] /\ tx[v] \in Accounts
    BY <2>1 DEF TypeOK, Free
  <2>4. QED
    BY <2>1, <2>2, <2>3 DEF Locked
<1>4. ASSUME NEW w \in Workers, SignFails(w) \/ Submit(w)
      PROVE  Locked'
  <2>1. PICK r : Return(w, r)
    BY <1>4 DEF SignFails, Submit
  <2>2. /\ pc[w] = "signed" /\ tx[w] \in Accounts
        /\ tx' = tx /\ seq' = seq /\ pc' = [pc EXCEPT ![w] = "deliver"]
        /\ \A a \in Accounts : a # tx[w] => next'[a] = next[a] /\ known'[a] = known[a]
    BY <1>4, <2>1 DEF SignFails, Submit, Return, TypeOK
  <2>3. \A v \in Workers : pc'[v] = "signed" => pc[v] = "signed" /\ tx[v] # tx[w] /\ tx[v] \in Accounts
    BY <2>2 DEF TypeOK, Locked
  <2>4. QED
    BY <2>2, <2>3 DEF Locked
<1>5. ASSUME NEW n \in Nodes, NEW m \in Nodes, NEW a \in Accounts, NEW s \in 1 .. MaxTx,
             Relay(n, m, a, s)
      PROVE  Locked'
  BY <1>5 DEF Relay, Locked, workVars, seqVars
<1>6. CASE UNCHANGED vars
  BY <1>6 DEF vars, Locked, workVars, seqVars
<1>7. QED
  BY <1>1, <1>2, <1>3, <1>4, <1>5, <1>6 DEF Next, Work

(* The nodes forget nothing.                                               *)
LEMMA TakenGrows ==
  ASSUME TypeOK, [Next]_vars, NEW n \in Nodes, NEW a \in Accounts
  PROVE  taken[n][a] \subseteq taken'[n][a]
<1>1. CASE Cancel \/ Coordinate
  BY <1>1, CoordinatorKeeps
<1>2. ASSUME NEW w \in Workers, Work(w)
      PROVE  taken[n][a] \subseteq taken'[n][a]
  <2>1. CASE Submit(w)
    <3>1. PICK answer \in Answers(rr', tx[w], seq[w]) :
            taken' = IF Keeps(answer)
                       THEN [taken EXCEPT ![rr'][tx[w]] = @ \union {seq[w]}] ELSE taken
      BY <2>1 DEF Submit
    <3>2. QED
      BY <3>1 DEF TypeOK
  <2>2. CASE ~Submit(w)
    BY <1>2, <2>2 DEF Work, Receive, peek, PeekFails, SignFails, Deliver, Exit
  <2>3. QED
    BY <2>1, <2>2
<1>3. ASSUME NEW i \in Nodes, NEW m \in Nodes, NEW b \in Accounts, NEW s \in 1 .. MaxTx,
             Relay(i, m, b, s)
      PROVE  taken[n][a] \subseteq taken'[n][a]
  BY <1>3 DEF Relay, TypeOK
<1>4. CASE UNCHANGED vars
  BY <1>4 DEF vars, seqVars, coordVars, workVars
<1>5. QED
  BY <1>1, <1>2, <1>3, <1>4 DEF Next

LEMMA NoGapNext ==
  ASSUME TypeOK, TypeOK', Locked, NoGap, [Next]_vars
  PROVE  NoGap'
<1>1. SUFFICES ASSUME NEW a \in Accounts, known'[a], NEW s \in 1 .. next'[a] - 1
               PROVE  \E n \in Nodes : s \in taken'[n][a]
  BY DEF NoGap, TakenBySome
<1>2. ASSUME known[a], next'[a] = next[a]
      PROVE  \E n \in Nodes : s \in taken'[n][a]
  BY <1>1, <1>2, TakenGrows DEF NoGap, TakenBySome
<1>3. CASE UNCHANGED <<next, known>>
  BY <1>1, <1>2, <1>3
<1>4. ASSUME NEW w \in Workers, peek(w)
      PROVE  \E n \in Nodes : s \in taken'[n][a]
  <2>1. CASE known[a]
    <3>1. next'[a] = next[a]
      BY <1>4, <2>1 DEF peek, TypeOK
    <3>2. QED
      BY <1>2, <2>1, <3>1
  <2>2. CASE ~known[a]
    <3>1. a = tx[w]
      <4>1. known' = known \/ known' = [known EXCEPT ![tx[w]] = TRUE]
        BY <1>4 DEF peek
      <4>2. known'[a] # known[a]
        BY <1>1, <2>2
      <4>3. known \in [Accounts -> BOOLEAN]
        BY DEF TypeOK
      <4>4. QED
        BY <4>1, <4>2, <4>3
    <3>2. PICK u \in 1 .. MaxTx + 1 : Open(Canonical, a, u) /\ next' = [next EXCEPT ![a] = u]
      BY <1>4, <2>2, <3>1 DEF peek
    <3>3. s \in taken[Canonical][a]
      BY <1>1, <3>2 DEF Open, TypeOK
    <3>4. QED
      BY <3>3, NodesAssumption, TakenGrows
  <2>3. QED
    BY <2>1, <2>2
<1>5. ASSUME NEW w \in Workers, SignFails(w)
      PROVE  \E n \in Nodes : s \in taken'[n][a]
  <2>1. next' = next /\ (known'[a] => known[a])
    BY <1>5 DEF SignFails, Return, consumesSequence, Drifts, TypeOK
  <2>2. QED
    BY <1>1, <1>2, <2>1
<1>6. ASSUME NEW w \in Workers, Submit(w)
      PROVE  \E n \in Nodes : s \in taken'[n][a]
  <2>1. PICK answer \in Answers(rr', tx[w], seq[w]) :
          /\ taken' = IF Keeps(answer)
                       THEN [taken EXCEPT ![rr'][tx[w]] = @ \union {seq[w]}] ELSE taken
          /\ \E r \in {answer, "error"} : Return(w, r)
    BY <1>6 DEF Submit
  <2>2. PICK r \in {answer, "error"} : Return(w, r)
    BY <2>1
  <2>3. /\ pc[w] = "signed" /\ tx[w] \in Accounts /\ known[tx[w]] /\ next[tx[w]] = seq[w]
        /\ rr' \in Nodes
    BY <1>6 DEF Submit, TypeOK, Locked
  <2>4. CASE a = tx[w] /\ consumesSequence(r)
    <3>1. Keeps(answer) /\ next'[a] = next[a] + 1
      BY <2>2, <2>3, <2>4 DEF Return, consumesSequence, Keeps, TypeOK
    <3>2. next[a] \in taken'[rr'][a]
      BY <2>1, <2>3, <2>4, <3>1 DEF TypeOK
    <3>3. CASE s = next[a]
      BY <2>3, <3>2, <3>3
    <3>4. CASE s # next[a]
      <4>1. s \in 1 .. next[a] - 1
        <5>1. next[a] \in Nat
          BY DEF TypeOK
        <5>2. QED
          BY <1>1, <3>1, <3>4, <5>1
      <4>2. QED
        BY <2>3, <2>4, <4>1, TakenGrows DEF NoGap, TakenBySome
    <3>5. QED
      BY <3>3, <3>4
  <2>5. CASE ~(a = tx[w] /\ consumesSequence(r))
    <3>1. next'[a] = next[a] /\ (known'[a] => known[a])
      BY <2>2, <2>3, <2>5 DEF Return, TypeOK
    <3>2. QED
      BY <1>1, <1>2, <3>1
  <2>6. QED
    BY <2>4, <2>5
<1>7. CASE Cancel \/ Coordinate
  BY <1>3, <1>7, CoordinatorKeeps DEF seqVars
<1>8. ASSUME NEW w \in Workers, Receive(w) \/ PeekFails(w) \/ Deliver(w) \/ Exit(w)
      PROVE  \E n \in Nodes : s \in taken'[n][a]
  BY <1>3, <1>8, QuietKeeps
<1>9. ASSUME NEW i \in Nodes, NEW m \in Nodes, NEW b \in Accounts, NEW u \in 1 .. MaxTx,
             Relay(i, m, b, u)
      PROVE  \E n \in Nodes : s \in taken'[n][a]
  BY <1>3, <1>9 DEF Relay, seqVars
<1>10. CASE UNCHANGED vars
  BY <1>3, <1>10 DEF vars, seqVars
<1>11. QED
  BY <1>4, <1>5, <1>6, <1>7, <1>8, <1>9, <1>10 DEF Next, Work

LEMMA SeqInvariant == Spec => []SeqInv
<1>1. Init => SeqInv
  BY TypeInit DEF Init, SeqInv, Locked, NoGap
<1>2. SeqInv /\ [Next]_vars => SeqInv'
  BY TypeNext, LockedNext, NoGapNext DEF SeqInv
<1>3. QED
  BY <1>1, <1>2, PTL DEF Spec

(* The sequences of an account have no gap: whatever is refused, lost or   *)
(* read from a lagging node, every number below the next one has gone to   *)
(* some node.                                                              *)
THEOREM SequencesAreDense == Spec => []NoGap
<1>1. SeqInv => NoGap
  BY DEF SeqInv
<1>2. QED
  BY <1>1, SeqInvariant, PTL

(* While the cached number of an account is valid it never goes back.      *)
THEOREM SequencesGoUp == Spec => NeverRewinds
<1>1. ASSUME SeqInv, [Next]_vars, NEW a \in Accounts, known[a], known'[a]
      PROVE  next'[a] \in {next[a], next[a] + 1}
  <2>1. CASE Cancel \/ Coordinate
    BY <2>1, CoordinatorKeeps DEF seqVars
  <2>2. ASSUME NEW w \in Workers, Receive(w) \/ PeekFails(w) \/ Deliver(w) \/ Exit(w)
        PROVE  next'[a] = next[a]
    BY <1>1, <2>2, QuietKeeps DEF SeqInv
  <2>3. ASSUME NEW w \in Workers, peek(w)
        PROVE  next'[a] = next[a]
    BY <1>1, <2>3 DEF peek, SeqInv, TypeOK
  <2>4. ASSUME NEW w \in Workers, SignFails(w) \/ Submit(w)
        PROVE  next'[a] \in {next[a], next[a] + 1}
    <3>1. PICK r : Return(w, r)
      BY <2>4 DEF SignFails, Submit
    <3>2. pc[w] = "signed" /\ tx[w] \in Accounts /\ next[tx[w]] = seq[w]
      BY <1>1, <2>4 DEF SignFails, Submit, SeqInv, TypeOK, Locked
    <3>3. next' = IF consumesSequence(r) THEN [next EXCEPT ![tx[w]] = next[tx[w]] + 1] ELSE next
      BY <3>1, <3>2 DEF Return
    <3>4. QED
      BY <1>1, <3>2, <3>3 DEF SeqInv, TypeOK
  <2>5. ASSUME NEW i \in Nodes, NEW m \in Nodes, NEW b \in Accounts, NEW u \in 1 .. MaxTx,
               Relay(i, m, b, u)
        PROVE  next'[a] = next[a]
    BY <2>5 DEF Relay, seqVars
  <2>6. CASE UNCHANGED vars
    BY <2>6 DEF vars, seqVars
  <2>7. QED
    BY <1>1, <2>1, <2>2, <2>3, <2>4, <2>5, <2>6 DEF Next, Work
<1>2. SeqInv /\ [Next]_vars =>
        [\A a \in Accounts : known[a] /\ known'[a] => next'[a] \in {next[a], next[a] + 1}]_vars
  BY <1>1
<1>3. QED
  BY <1>2, SeqInvariant, PTL DEF Spec, NeverRewinds
-----------------------------------------------------------------------------
(* What is inside.                                                         *)

LEMMA BusyFinite ==
  ASSUME TypeOK
  PROVE  IsFiniteSet(Busy) /\ Cardinality(Busy) \in Nat /\ Cardinality(Busy) <= Cardinality(Workers)
         /\ Cardinality(Workers) \in Nat
<1>1. Busy \in SUBSET Workers /\ IsFiniteSet(Workers)
  BY WorkersAssumption DEF Busy
<1>2. QED
  BY <1>1, FS_Subset, FS_CardinalityType

(* A worker becomes busy by receiving and idle by delivering.              *)
LEMMA BusyReceive ==
  ASSUME TypeOK, NEW w \in Workers, Receive(w)
  PROVE  Cardinality(Busy') = Cardinality(Busy) + 1
<1>1. Busy' = Busy \cup {w} /\ w \notin Busy
  BY DEF Busy, Receive, TypeOK
<1>2. QED
  BY <1>1, BusyFinite, FS_AddElement

LEMMA BusyDeliver ==
  ASSUME TypeOK, NEW w \in Workers, Deliver(w)
  PROVE  Cardinality(Busy') = Cardinality(Busy) - 1
<1>1. Busy' = Busy \ {w} /\ w \in Busy
  BY DEF Busy, Deliver, TypeOK
<1>2. QED
  BY <1>1, BusyFinite, FS_RemoveElement

(* The other steps of a worker touch neither the channels nor the counts.  *)
LEMMA BusyOtherwise ==
  ASSUME TypeOK, NEW w \in Workers, Work(w), ~Receive(w), ~Deliver(w)
  PROVE  Busy' = Busy /\ UNCHANGED <<coordVars, submitCh, outcomeCh>>
<1>1. UNCHANGED <<coordVars, submitCh, outcomeCh>>
  BY DEF Work, peek, PeekFails, SignFails, Submit, Exit
<1>2. \A v \in Workers : v # w => pc'[v] = pc[v]
  BY DEF Work, peek, PeekFails, SignFails, Submit, Return, Exit, TypeOK
<1>3. pc'[w] \in {"lock", "signed", "deliver"} <=> pc[w] \in {"lock", "signed", "deliver"}
  BY DEF Work, peek, PeekFails, SignFails, Submit, Return, Exit, TypeOK
<1>4. QED
  BY <1>1, <1>2, <1>3 DEF Busy

(* What is neither a worker's step nor one of the three that follow it.    *)
LEMMA QuietCoordinator ==
  ASSUME Cancel \/ (\E a \in Accounts : PickTx(a)) \/ PickFails \/ Stop \/ Finish
         \/ (\E n, m \in Nodes, a \in Accounts, s \in 1 .. MaxTx : Relay(n, m, a, s))
         \/ UNCHANGED vars
  PROVE  Busy' = Busy /\ UNCHANGED <<submitCh, outcomeCh, lines, pc>>
  BY DEF Cancel, PickTx, PickFails, Stop, Finish, Relay, vars, coordVars, workVars, Busy

(* A worker that has exited saw the channel closed and empty.              *)
ExitedInv == \A w \in Workers : pc[w] = "exited" => Closed /\ submitCh = <<>>

PoolInv == TypeOK /\ Accounted /\ ExitedInv

LEMMA HandleCounts ==
  ASSUME TypeOK, handle
  PROVE  /\ Busy' = Busy /\ submitCh' = submitCh /\ pc' = pc /\ coord' = coord
         /\ Len(outcomeCh) > 0 /\ Len(outcomeCh') = Len(outcomeCh) - 1
         /\ lines' = lines + 1
         /\ stats'.submitted = stats.submitted
         /\ stats'.succeeded + stats'.failed = stats.succeeded + stats.failed + 1
<1>1. outcomeCh \in Seq(Outcome) /\ outcomeCh # <<>> /\ outcomeCh' = Tail(outcomeCh)
  BY DEF TypeOK, handle, Outcome
<1>2. Len(outcomeCh) > 0 /\ Len(outcomeCh') = Len(outcomeCh) - 1
  BY <1>1
<1>3. pc' = pc /\ Busy' = Busy
  BY DEF handle, workVars, Busy
<1>4. /\ stats'.submitted = stats.submitted
      /\ stats'.succeeded + stats'.failed = stats.succeeded + stats.failed + 1
  BY DEF handle, TypeOK
<1>5. QED
  BY <1>2, <1>3, <1>4 DEF handle

LEMMA ReceiveCounts ==
  ASSUME TypeOK, NEW w \in Workers, Receive(w)
  PROVE  /\ Len(submitCh) > 0 /\ Len(submitCh') = Len(submitCh) - 1
         /\ UNCHANGED <<outcomeCh, lines, coord>>
         /\ stats'.submitted = stats.submitted + 1
         /\ stats'.succeeded = stats.succeeded /\ stats'.failed = stats.failed
<1>1. submitCh \in Seq(Accounts) /\ submitCh # <<>> /\ submitCh' = Tail(submitCh)
  BY DEF TypeOK, Receive
<1>2. Len(submitCh) > 0 /\ Len(submitCh') = Len(submitCh) - 1
  BY <1>1
<1>3. QED
  BY <1>2 DEF Receive, TypeOK

LEMMA DeliverCounts ==
  ASSUME TypeOK, NEW w \in Workers, Deliver(w)
  PROVE  Len(outcomeCh') = Len(outcomeCh) + 1 /\ UNCHANGED <<coordVars, submitCh>>
<1>1. outcomeCh \in Seq(Outcome)
  BY DEF TypeOK, Outcome
<1>2. [acct |-> tx[w], seq |-> seq[w], result |-> result[w]] \in Outcome
  BY DEF Deliver, TypeOK, Outcome
<1>3. QED
  BY <1>1, <1>2 DEF Deliver

LEMMA SendCounts ==
  ASSUME TypeOK, Send
  PROVE  /\ Len(submitCh) < ChanCap /\ Len(submitCh') = Len(submitCh) + 1
         /\ Busy' = Busy /\ UNCHANGED <<outcomeCh, lines, stats, pc>>
         /\ coord = "send" /\ coord' = "loop"
<1>1. submitCh \in Seq(Accounts) /\ picked \in Accounts
  BY DEF TypeOK, Send
<1>2. Len(submitCh') = Len(submitCh) + 1
  BY <1>1 DEF Send
<1>3. QED
  BY <1>2 DEF Send, Busy, workVars

LEMMA AccountedNext ==
  ASSUME TypeOK, Accounted, [Next]_vars
  PROVE  Accounted'
<1>1. /\ lines \in Nat /\ Len(outcomeCh) \in Nat /\ Cardinality(Busy) \in Nat /\ MaxPickFails \in Nat
      /\ stats.submitted \in Nat /\ stats.succeeded \in Nat /\ stats.failed \in Nat
  BY BusyFinite, BoundsAssumption DEF TypeOK
<1>2. ASSUME NEW w \in Workers, Receive(w)
      PROVE  Accounted'
  BY <1>1, <1>2, BusyReceive, ReceiveCounts DEF Accounted
<1>3. ASSUME NEW w \in Workers, Deliver(w)
      PROVE  Accounted'
  BY <1>1, <1>3, BusyDeliver, DeliverCounts DEF Accounted, coordVars
<1>4. ASSUME NEW w \in Workers, Work(w), ~Receive(w), ~Deliver(w)
      PROVE  Accounted'
  BY <1>4, BusyOtherwise DEF Accounted, coordVars
<1>5. CASE handle
  BY <1>1, <1>5, HandleCounts DEF Accounted
<1>6. CASE Send
  BY <1>6, SendCounts DEF Accounted
<1>7. CASE PickFails
  <2>1. /\ stats'.submitted = stats.submitted /\ stats'.succeeded = stats.succeeded
        /\ stats'.failed = stats.failed + 1
    BY <1>7 DEF PickFails, TypeOK
  <2>2. Busy' = Busy /\ lines' = lines /\ outcomeCh' = outcomeCh
    BY <1>7, QuietCoordinator
  <2>3. stats.succeeded + stats.failed < lines + MaxPickFails
    BY <1>7 DEF PickFails
  <2>4. QED
    BY <1>1, <2>1, <2>2, <2>3 DEF Accounted
<1>8. CASE \/ Cancel \/ (\E a \in Accounts : PickTx(a)) \/ Stop \/ Finish
           \/ (\E n, m \in Nodes, a \in Accounts, s \in 1 .. MaxTx : Relay(n, m, a, s))
           \/ UNCHANGED vars
  <2>1. stats' = stats
    BY <1>8 DEF Cancel, PickTx, Stop, Finish, Relay, vars, coordVars
  <2>2. QED
    BY <1>8, <2>1, QuietCoordinator DEF Accounted
<1>9. QED
  BY <1>2, <1>3, <1>4, <1>5, <1>6, <1>7, <1>8
  DEF Next, Coordinate, HandleAtTick, HandleAtSend, HandleAtDrain

LEMMA ExitedNext ==
  ASSUME TypeOK, ExitedInv, [Next]_vars
  PROVE  ExitedInv'
<1>1. ASSUME NEW w \in Workers, Receive(w)
      PROVE  ExitedInv'
  <2>1. submitCh # <<>>
    BY <1>1 DEF Receive
  <2>2. \A v \in Workers : pc'[v] # "exited"
    BY <1>1, <2>1 DEF Receive, ExitedInv, TypeOK
  <2>3. QED
    BY <2>2 DEF ExitedInv
<1>2. ASSUME NEW w \in Workers, Work(w), ~Receive(w)
      PROVE  ExitedInv'
  <2>1. UNCHANGED <<coord, submitCh>>
    BY <1>2 DEF Work, peek, PeekFails, SignFails, Submit, Deliver, Exit, coordVars
  <2>2. \A v \in Workers : pc'[v] = "exited" => pc[v] = "exited" \/ (Closed /\ submitCh = <<>>)
    BY <1>2 DEF Work, peek, PeekFails, SignFails, Submit, Return, Deliver, Exit, TypeOK
  <2>3. QED
    BY <2>1, <2>2 DEF ExitedInv, Closed
<1>3. CASE handle
  BY <1>3, HandleCounts DEF ExitedInv, Closed
<1>4. CASE Send
  BY <1>4, SendCounts DEF ExitedInv, Closed
<1>5. CASE \/ Cancel \/ (\E a \in Accounts : PickTx(a)) \/ PickFails \/ Stop \/ Finish
           \/ (\E n, m \in Nodes, a \in Accounts, s \in 1 .. MaxTx : Relay(n, m, a, s))
           \/ UNCHANGED vars
  <2>1. Closed => Closed'
    BY <1>5 DEF Closed, Cancel, PickTx, PickFails, Stop, Finish, Relay, vars, coordVars
  <2>2. QED
    BY <1>5, <2>1, QuietCoordinator DEF ExitedInv
<1>6. QED
  BY <1>1, <1>2, <1>3, <1>4, <1>5
  DEF Next, Coordinate, HandleAtTick, HandleAtSend, HandleAtDrain

LEMMA PoolInit == Init => PoolInv /\ Inside = 0
<1>1. SUFFICES ASSUME Init PROVE PoolInv /\ Inside = 0
  OBVIOUS
<1>2. TypeOK /\ Busy = {}
  BY <1>1, TypeInit DEF Init, Busy
<1>3. Cardinality(Busy) = 0
  BY <1>2, FS_EmptySet
<1>4. QED
  BY <1>1, <1>2, <1>3, BoundsAssumption DEF Init, PoolInv, Accounted, ExitedInv, Inside

LEMMA PoolInvariant == Spec => []PoolInv
<1>1. PoolInv /\ [Next]_vars => PoolInv'
  BY TypeNext, AccountedNext, ExitedNext DEF PoolInv
<1>2. QED
  BY <1>1, PoolInit, PTL DEF Spec

(* The counters of the soak agree with what its workers and channels hold. *)
THEOREM SoakAccounts == Spec => []Accounted
<1>1. PoolInv => Accounted
  BY DEF PoolInv
<1>2. QED
  BY <1>1, PoolInvariant, PTL

(* However many workers and accounts, and whatever the capacity of the      *)
(* channels: a full submitCh holds something for an idle worker, an empty  *)
(* outcomeCh has room for a result, and workers that all want a lock find  *)
(* it free.                                                                *)
THEOREM SomebodyGoesOn == Spec => []NoStandstill
<1>1. PoolInv => NoStandstill
  <2> SUFFICES ASSUME PoolInv, coord # "done", ~CanCoordinate,
                      \A w \in Workers : ~CanWork(w)
               PROVE  FALSE
    BY DEF NoStandstill
  <2>1. /\ coord \in {"send", "drain"} /\ outcomeCh = <<>>
        /\ coord = "send" => ~(Len(submitCh) < ChanCap)
        /\ coord = "drain" => \E w \in Workers : pc[w] # "exited"
    BY DEF CanCoordinate, PoolInv, TypeOK
  <2>2. Len(outcomeCh) < ChanCap
    BY <2>1, BoundsAssumption
  <2>3. coord = "send" => submitCh # <<>>
    BY <2>1, BoundsAssumption DEF PoolInv, TypeOK
  <2>4. PICK w \in Workers : pc[w] # "exited"
    <3>1. CASE coord = "send"
      BY <3>1, WorkersAssumption DEF PoolInv, ExitedInv, Closed
    <3>2. CASE coord = "drain"
      BY <3>2, <2>1
    <3> QED BY <2>1, <3>1, <3>2
  <2>5. \A v \in Workers : pc[v] # "signed"
    BY DEF CanWork
  <2>6. pc[w] \in {"idle", "lock", "deliver"}
    BY <2>4, <2>5 DEF PoolInv, TypeOK
  <2>7. CASE pc[w] = "idle"
    BY <2>1, <2>3, <2>7 DEF CanWork, Closed
  <2>8. CASE pc[w] = "lock"
    BY <2>5, <2>8 DEF CanWork, Free
  <2>9. CASE pc[w] = "deliver"
    BY <2>2, <2>9 DEF CanWork
  <2> QED BY <2>6, <2>7, <2>8, <2>9
<1> QED BY <1>1, PoolInvariant, PTL

LEMMA InsideType ==
  ASSUME TypeOK
  PROVE  /\ Len(submitCh) \in Nat /\ Len(outcomeCh) \in Nat /\ Inside \in Nat
         /\ Inside = Len(submitCh) + Cardinality(Busy) + Len(outcomeCh)
         /\ Cardinality(Busy) \in Nat
<1>1. Len(submitCh) \in Nat /\ Len(outcomeCh) \in Nat
  BY DEF TypeOK
<1>2. QED
  BY <1>1, BusyFinite DEF Inside

(* Every step of the soak is a step of the abstract pool, or changes       *)
(* nothing of it: sending takes a transaction in, handling takes one out,  *)
(* the rest moves it on.                                                   *)
THEOREM SoakIsAPool == Spec => Pool!Safe
<1> DEFINE Phase == CASE coord \in {"loop", "send"} -> "running"
                      [] coord = "drain" -> "draining"
                      [] coord = "done" -> "done"
<1>1. Init => Pool!Init
  BY PoolInit DEF Init, Pool!Init
<1>2. PoolInv /\ [Next]_vars => [Pool!Next]_(Pool!vars)
  <2> SUFFICES ASSUME PoolInv, [Next]_vars PROVE Pool!Next \/ UNCHANGED Pool!vars
    OBVIOUS
  <2>0. /\ TypeOK /\ TypeOK'
        /\ Cardinality(Busy) <= Cardinality(Workers) /\ Cardinality(Workers) \in Nat
        /\ Len(outcomeCh) <= ChanCap /\ ChanCap \in Nat /\ lines \in Nat
        /\ coord \in {"loop", "send", "drain", "done"}
    BY TypeNext, BusyFinite, BoundsAssumption DEF PoolInv, TypeOK
  <2>1. /\ Len(submitCh) \in Nat /\ Len(outcomeCh) \in Nat /\ Inside \in Nat
        /\ Inside = Len(submitCh) + Cardinality(Busy) + Len(outcomeCh)
        /\ Cardinality(Busy) \in Nat
    BY <2>0, InsideType
  <2>2. Inside' = Len(submitCh') + Cardinality(Busy') + Len(outcomeCh')
    BY DEF Inside
  <2>3. CASE Send
    <3>1. Inside' = Inside + 1 /\ Inside < 2 * ChanCap + Cardinality(Workers)
      BY <2>0, <2>1, <2>2, <2>3, SendCounts
    <3>2. QED
      BY <2>0, <2>3, <3>1, SendCounts DEF Pool!Next, Pool!Accept
  <2>4. CASE HandleAtTick \/ HandleAtSend \/ HandleAtDrain
    <3>1. Inside' = Inside - 1 /\ Inside > 0
      BY <2>0, <2>1, <2>2, <2>4, HandleCounts DEF HandleAtTick, HandleAtSend, HandleAtDrain
    <3>2. coord \in {"loop", "send", "drain"} /\ coord' = coord /\ lines' = lines + 1
      BY <2>0, <2>4, HandleCounts DEF HandleAtTick, HandleAtSend, HandleAtDrain
    <3>3. QED
      BY <3>1, <3>2 DEF Pool!Next, Pool!Handle
  <2>5. ASSUME NEW w \in Workers, Work(w)
        PROVE  UNCHANGED Pool!vars
    <3>1. Inside' = Inside
      <4>1. CASE Receive(w)
        BY <2>0, <2>1, <2>2, <4>1, ReceiveCounts, BusyReceive
      <4>2. CASE Deliver(w)
        BY <2>0, <2>1, <2>2, <4>2, DeliverCounts, BusyDeliver
      <4>3. CASE ~Receive(w) /\ ~Deliver(w)
        BY <2>0, <2>1, <2>2, <2>5, <4>3, BusyOtherwise
      <4>4. QED
        BY <4>1, <4>2, <4>3
    <3>2. coord' = coord /\ lines' = lines
      BY <2>0, <2>5, ReceiveCounts, DeliverCounts, BusyOtherwise DEF coordVars
    <3>3. QED
      BY <3>1, <3>2 DEF Pool!vars
  <2>6. CASE Stop
    <3>1. Inside' = Inside /\ lines' = lines
      BY <2>1, <2>2, <2>6, QuietCoordinator
    <3>2. coord \in {"loop", "send"} /\ coord' = "drain"
      BY <2>6 DEF Stop
    <3>3. QED
      BY <3>1, <3>2 DEF Pool!Next, Pool!Shutdown
  <2>7. CASE Finish
    <3>1. Inside' = Inside /\ lines' = lines
      BY <2>1, <2>2, <2>7, QuietCoordinator
    <3>2. Inside = 0
      <4>1. Busy = {} /\ outcomeCh = <<>> /\ submitCh = <<>>
        BY <2>7, WorkersAssumption DEF Finish, Busy, PoolInv, ExitedInv
      <4>2. Cardinality(Busy) = 0
        BY <4>1, FS_EmptySet
      <4>3. QED
        BY <2>1, <4>1, <4>2
    <3>3. coord = "drain" /\ coord' = "done"
      BY <2>7 DEF Finish
    <3>4. QED
      BY <3>1, <3>2, <3>3 DEF Pool!Next, Pool!Finish
  <2>8. CASE \/ Cancel \/ (\E a \in Accounts : PickTx(a)) \/ PickFails
             \/ (\E n, m \in Nodes, a \in Accounts, s \in 1 .. MaxTx : Relay(n, m, a, s))
             \/ UNCHANGED vars
    <3>1. Inside' = Inside /\ lines' = lines
      BY <2>1, <2>2, <2>8, QuietCoordinator
    <3>2. Phase' = Phase
      <4>1. coord' = coord \/ (coord = "loop" /\ coord' = "send")
        BY <2>8 DEF Cancel, PickTx, PickFails, Relay, vars, coordVars
      <4>2. QED
        BY <2>0, <4>1
    <3>3. QED
      BY <3>1, <3>2 DEF Pool!vars
  <2>9. QED
    BY <2>3, <2>4, <2>5, <2>6, <2>7, <2>8 DEF Next, Coordinate
<1>3. QED
  BY <1>1, <1>2, PoolInvariant, PTL DEF Spec, Pool!Safe
=============================================================================
