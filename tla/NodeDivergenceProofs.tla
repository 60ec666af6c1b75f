------------------------- MODULE NodeDivergenceProofs -------------------------
(***************************************************************************)
(* Proofs about NodeDivergence for every fleet, window and set of requests.*)
(***************************************************************************)
EXTENDS NodeDivergence, TLAPS

USE NodeAssumption, BoundAssumption, WindowAssumption, QueryAssumption

-----------------------------------------------------------------------------
(* Type correctness.                                                       *)

LEMMA TipType ==
  ASSUME TypeOK, NEW n \in Nodes
  PROVE  /\ Tip(n) \in SUBSET Ledger
         /\ \A l \in Tip(n) : /\ l = <<Len(chain[n]), chain[n][Len(chain[n])]>>
                              /\ Len(chain[n]) \in Seqs /\ chain[n][Len(chain[n])] \in Hashes
<1>1. chain[n] \in Seq(Hashes) /\ Len(chain[n]) <= MaxSeq /\ Len(chain[n]) \in Nat
  BY DEF TypeOK
<1>2. CASE chain[n] = <<>>
  BY <1>2 DEF Tip
<1>3. CASE chain[n] # <<>>
  <2>1. Len(chain[n]) \in Seqs /\ chain[n][Len(chain[n])] \in Hashes
    BY <1>1, <1>3 DEF Seqs
  <2> QED BY <1>3, <2>1 DEF Tip, Ledger
<1> QED BY <1>2, <1>3

LEMMA RecordedType ==
  ASSUME NEW h \in SUBSET Ledger, NEW l \in Ledger
  PROVE  Recorded(h, l) \in SUBSET Ledger
BY DEF Recorded, Unpruned

LEMMA EnvType ==
  ASSUME TypeOK, Env
  PROVE  TypeOK'
<1>1. ASSUME NEW n \in Nodes, NEW h \in Hashes, Validate(n, h)
      PROVE  TypeOK'
  <2>1. chain[n] \in Seq(Hashes) /\ Len(chain[n]) \in Nat /\ Len(chain[n]) < MaxSeq
    BY <1>1 DEF TypeOK, Validate
  <2>2. Append(chain[n], h) \in Seq(Hashes) /\ Len(Append(chain[n], h)) = Len(chain[n]) + 1
    BY <2>1
  <2>3. chain' \in [Nodes -> Seq(Hashes)] /\ \A k \in Nodes : Len(chain'[k]) <= MaxSeq
    BY <1>1, <2>1, <2>2 DEF TypeOK, Validate
  <2>4. <<n, Len(chain[n]) + 1, h>> \in Nodes \X Seqs \X Hashes
    BY <2>1 DEF Seqs
  <2>5. validated' \subseteq Nodes \X Seqs \X Hashes
    BY <1>1, <2>4 DEF TypeOK, Validate
  <2> QED BY <1>1, <2>3, <2>5 DEF TypeOK, Validate, pollVars, oracleVars, diffVars
<1>2. ASSUME NEW n \in Nodes, NEW m \in Nodes, CatchUp(n, m)
      PROVE  TypeOK'
  <2>1. chain[m] \in Seq(Hashes) /\ Len(chain[m]) <= MaxSeq /\ chain[m] # <<>>
    BY <1>2 DEF TypeOK, CatchUp
  <2>2. Len(chain[m]) \in Seqs /\ chain[m][Len(chain[m])] \in Hashes
    BY <2>1 DEF Seqs
  <2>3. chain' \in [Nodes -> Seq(Hashes)] /\ \A k \in Nodes : Len(chain'[k]) <= MaxSeq
    BY <1>2, <2>1 DEF TypeOK, CatchUp
  <2>4. validated' \subseteq Nodes \X Seqs \X Hashes
    BY <1>2, <2>2 DEF TypeOK, CatchUp
  <2> QED BY <1>2, <2>3, <2>4 DEF TypeOK, CatchUp, pollVars, oracleVars, diffVars
<1> QED BY <1>1, <1>2 DEF Env

LEMMA PollType ==
  ASSUME TypeOK, NEW n \in Nodes, Poll(n)
  PROVE  TypeOK'
<1>1. CASE Ask(n)
  <2>1. PICK r \in Replies(n) : reply' = [reply EXCEPT ![n] = r]
    BY <1>1 DEF Ask
  <2>2. r \in SUBSET Ledger
    BY <2>1, TipType DEF Replies
  <2> QED BY <1>1, <2>1, <2>2 DEF TypeOK, Ask, envVars, oracleVars, diffVars
<1>2. CASE Record(n)
  <2>1. reply[n] \in SUBSET Ledger /\ history[n] \in SUBSET Ledger
    BY DEF TypeOK
  <2>2. UNION {Recorded(history[n], l) : l \in reply[n]} \in SUBSET Ledger
    BY <2>1, RecordedType
  <2>3. history' \in [Nodes -> SUBSET Ledger]
    BY <1>2, <2>2 DEF TypeOK, Record
  <2>4. tip' \in [Nodes -> SUBSET Ledger]
    BY <1>2, <2>1 DEF TypeOK, Record
  <2>5. sampled' \subseteq Nodes \X Seqs
    BY <1>2, <2>1 DEF TypeOK, Record, Ledger
  <2>6. polling' \subseteq Nodes
    BY <1>2 DEF TypeOK, Record
  <2> QED BY <1>2, <2>3, <2>4, <2>5, <2>6 DEF TypeOK, Record, envVars, oracleVars, diffVars
<1> QED BY <1>1, <1>2 DEF Poll

LEMMA OracleType ==
  ASSUME TypeOK, Oracle
  PROVE  TypeOK'
<1>1. CASE Tick
  <2>1. \A s \in Seqs : [seq |-> s, hashes |-> HashesAt(s)] \in Group
    BY DEF Group, HashesAt
  <2>2. todo' \subseteq Group
    BY <1>1, <2>1 DEF Tick, Forked
  <2> QED BY <1>1, <2>2 DEF TypeOK, Tick, envVars, pollVars, diffVars
<1>2. ASSUME NEW g \in todo, Drop(g)
      PROVE  TypeOK'
  BY <1>2 DEF TypeOK, Drop, envVars, pollVars, diffVars
<1>3. ASSUME NEW g \in todo, Mark(g)
      PROVE  TypeOK'
  BY <1>3 DEF TypeOK, Mark, envVars, pollVars, diffVars
<1>4. ASSUME NEW g \in current, Raise(g)
      PROVE  TypeOK'
  <2>1. g \in Group
    BY <1>4 DEF TypeOK
  <2>2. findings' \in Seq(Group)
    BY <1>4, <2>1 DEF TypeOK, Raise
  <2> QED BY <1>4, <2>2 DEF TypeOK, Raise, envVars, pollVars, diffVars
<1> QED BY <1>1, <1>2, <1>3, <1>4 DEF Oracle

LEMMA ResponseType ==
  ASSUME TypeOK, NEW q \in asked, NEW target \in Targets(q), NEW d \in Responses(q, target)
  PROVE  d \in Answer
<1>1. target \in 0 .. MaxSeq
  BY DEF Targets, PickSeq, TypeOK, Seqs
<1>2. \A s : HashByNode(q.tips, s) \subseteq Nodes \X Hashes
  BY DEF HashByNode
<1>3. Diverged(HashByNode(q.tips, target)) \in BOOLEAN
  BY DEF Diverged
<1>4. \A s \in Seqs : [seq |-> s, byNode |-> {p \in Nodes \X Hashes : <<s, p[2]>> \in history[p[1]]},
                       diverged |-> TRUE] \in Answer
  BY DEF Answer, Seqs
<1>5. EarliestFork \subseteq Answer
  BY <1>4 DEF EarliestFork, Forked
<1> QED BY <1>1, <1>2, <1>3, <1>5 DEF Responses, Answer

LEMMA StateDiffType ==
  ASSUME TypeOK, StateDiff
  PROVE  TypeOK'
<1>1. ASSUME NEW at \in Queries, DiffRead(at)
      PROVE  TypeOK'
  <2>1. asked' \subseteq [at : 0 .. MaxSeq, tips : [Nodes -> SUBSET Ledger]]
    BY <1>1 DEF TypeOK, DiffRead
  <2>2. answer' \subseteq Answer
    BY <1>1 DEF DiffRead
  <2> QED BY <1>1, <2>1, <2>2 DEF TypeOK, DiffRead, envVars, pollVars, oracleVars
<1>2. CASE DiffAnswer
  <2>1. asked' = {} /\ answer' \subseteq Answer /\ UNCHANGED <<envVars, pollVars, oracleVars>>
    BY <1>2, ResponseType DEF DiffAnswer
  <2> QED BY <2>1 DEF TypeOK, envVars, pollVars, oracleVars
<1> QED BY <1>1, <1>2 DEF StateDiff

LEMMA InitType == Init => TypeOK
<1> SUFFICES ASSUME Init PROVE TypeOK
  OBVIOUS
<1>1. chain \in [Nodes -> Seq(Hashes)] /\ \A n \in Nodes : Len(chain[n]) <= MaxSeq
  BY DEF Init
<1> QED BY <1>1 DEF Init, TypeOK

LEMMA NextType ==
  ASSUME TypeOK, [Next]_vars
  PROVE  TypeOK'
<1>1. CASE Next
  BY <1>1, EnvType, PollType, OracleType, StateDiffType DEF Next
<1>2. CASE UNCHANGED vars
  BY <1>2 DEF vars, envVars, pollVars, oracleVars, diffVars, TypeOK
<1> QED BY <1>1, <1>2

(* Type correctness of the pollers, the oracle and the request for every   *)
(* fleet, window and set of failing nodes.                                 *)
THEOREM TypeCorrect == Spec => []TypeOK
<1>1. TypeOK /\ [Next]_vars => TypeOK'
  BY NextType
<1> QED BY InitType, <1>1, PTL DEF Spec

-----------------------------------------------------------------------------
(* Whatever the pollers, the oracle and a request hold was validated by the *)
(* node it is held for.                                                     *)

Held(n, r) == \A l \in r : <<n, l[1], l[2]>> \in validated

ObservedInv ==
  \A n \in Nodes :
    /\ Held(n, Tip(n))
    /\ Held(n, reply[n])
    /\ Held(n, tip[n])
    /\ Held(n, history[n])
    /\ \A q \in asked : Held(n, q.tips[n])

LEMMA HeldStays ==
  ASSUME NEW n, NEW r, validated \subseteq validated', Held(n, r)
  PROVE  Held(n, r)'
BY DEF Held

LEMMA ValidatedGrows ==
  ASSUME [Next]_vars
  PROVE  validated \subseteq validated'
BY DEF Next, vars, envVars, pollVars, oracleVars, diffVars, Env, Validate, CatchUp, Poll, Ask,
       Record, Oracle, Tick, Drop, Mark, Raise, StateDiff, DiffRead, DiffAnswer

LEMMA TipObserved ==
  ASSUME TypeOK, ObservedInv, Env, NEW n \in Nodes
  PROVE  \A l \in Tip(n)' : <<n, l[1], l[2]>> \in validated'
<1>1. \A l \in Tip(n) : <<n, l[1], l[2]>> \in validated
  BY DEF ObservedInv, Held
<1>2. ASSUME NEW k \in Nodes, NEW h \in Hashes, Validate(k, h)
      PROVE  \A l \in Tip(n)' : <<n, l[1], l[2]>> \in validated'
  <2>1. chain[k] \in Seq(Hashes)
    BY DEF TypeOK
  <2>2. CASE n = k
    <3>1. chain'[n] = Append(chain[n], h)
      BY <1>2, <2>2 DEF Validate, TypeOK
    <3>2. Len(Append(chain[n], h)) = Len(chain[n]) + 1 /\ Append(chain[n], h)[Len(chain[n]) + 1] = h
      BY <2>1, <2>2
    <3>3. Tip(n)' \subseteq {<<Len(chain[n]) + 1, h>>}
      BY <3>1, <3>2 DEF Tip
    <3>4. <<n, Len(chain[n]) + 1, h>> \in validated'
      BY <1>2, <2>2 DEF Validate
    <3> QED BY <3>3, <3>4
  <2>3. CASE n # k
    <3>1. chain'[n] = chain[n]
      BY <1>2, <2>3 DEF Validate, TypeOK
    <3> QED BY <1>1, <1>2, <3>1 DEF Tip, Validate
  <2> QED BY <2>2, <2>3
<1>3. ASSUME NEW k \in Nodes, NEW m \in Nodes, CatchUp(k, m)
      PROVE  \A l \in Tip(n)' : <<n, l[1], l[2]>> \in validated'
  <2>1. CASE n = k
    <3>1. chain'[n] = chain[m]
      BY <1>3, <2>1 DEF CatchUp, TypeOK
    <3> QED BY <1>3, <2>1, <3>1 DEF Tip, CatchUp
  <2>2. CASE n # k
    <3>1. chain'[n] = chain[n]
      BY <1>3, <2>2 DEF CatchUp, TypeOK
    <3> QED BY <1>1, <1>3, <3>1 DEF Tip, CatchUp
  <2> QED BY <2>1, <2>2
<1> QED BY <1>2, <1>3 DEF Env

LEMMA RecordedHeld ==
  ASSUME NEW n, NEW h, NEW r, Held(n, h), Held(n, r)
  PROVE  Held(n, UNION {Recorded(h, l) : l \in r})
BY DEF Held, Recorded, Unpruned

LEMMA ObservedStep ==
  ASSUME TypeOK, ObservedInv, [Next]_vars
  PROVE  ObservedInv'
<1>1. validated \subseteq validated'
  BY ValidatedGrows
<1>2. CASE Env
  <2>1. UNCHANGED <<reply, tip, history, asked>>
    BY <1>2 DEF Env, Validate, CatchUp, pollVars, diffVars
  <2>2. ASSUME NEW n \in Nodes PROVE Held(n, Tip(n))'
    BY <1>2, TipObserved DEF Held
  <2> QED BY <1>1, <2>1, <2>2 DEF ObservedInv, Held
<1>3. ASSUME NEW n \in Nodes, Ask(n)
      PROVE  ObservedInv'
  <2>1. PICK r \in Replies(n) : reply' = [reply EXCEPT ![n] = r]
    BY <1>3 DEF Ask
  <2>2. Held(n, r)
    BY <2>1 DEF Replies, ObservedInv, Held
  <2>3. UNCHANGED <<chain, validated, tip, history, asked>>
    BY <1>3 DEF Ask, envVars, diffVars
  <2> QED BY <2>1, <2>2, <2>3 DEF ObservedInv, Held, Tip, TypeOK
<1>4. ASSUME NEW n \in Nodes, Record(n)
      PROVE  ObservedInv'
  <2>1. UNCHANGED <<chain, validated, reply, asked>>
    BY <1>4 DEF Record, envVars, diffVars
  <2>2. \A k \in Nodes : tip'[k] = IF k = n THEN reply[n] ELSE tip[k]
    BY <1>4 DEF Record, TypeOK
  <2>3. \A k \in Nodes : \/ history'[k] = history[k]
                         \/ k = n /\ history'[k] = UNION {Recorded(history[n], l) : l \in reply[n]}
    BY <1>4 DEF Record, TypeOK
  <2>4. Held(n, UNION {Recorded(history[n], l) : l \in reply[n]})
    BY RecordedHeld DEF ObservedInv
  <2>5. ASSUME NEW k \in Nodes PROVE Held(k, history'[k])
    BY <2>3, <2>4 DEF ObservedInv
  <2> QED BY <2>1, <2>2, <2>5 DEF ObservedInv, Held, Tip
<1>5. CASE Oracle
  <2>1. UNCHANGED <<chain, validated, reply, tip, history, asked>>
    BY <1>5 DEF Oracle, Tick, Drop, Mark, Raise, envVars, pollVars, diffVars
  <2> QED BY <2>1 DEF ObservedInv, Held, Tip
<1>6. CASE StateDiff
  <2>1. UNCHANGED <<chain, validated, reply, tip, history>>
    BY <1>6 DEF StateDiff, DiffRead, DiffAnswer, envVars, pollVars
  <2>2. \A q \in asked' : q \in asked \/ q.tips = tip
    BY <1>6 DEF StateDiff, DiffRead, DiffAnswer
  <2> QED BY <2>1, <2>2 DEF ObservedInv, Held, Tip
<1>7. CASE UNCHANGED vars
  BY <1>7 DEF ObservedInv, Held, Tip, vars, envVars, pollVars, diffVars
<1> QED BY <1>2, <1>3, <1>4, <1>5, <1>6, <1>7 DEF Next, Poll

-----------------------------------------------------------------------------
(* A history has one hash per sequence, and is the window of what was      *)
(* sampled: a reply is never older than what was sampled before it.        *)

SampledInv ==
  \A n \in Nodes :
    /\ \A s \in Seqs : <<n, s>> \in sampled => s <= Len(chain[n])
    /\ \A l, k \in reply[n] : l = k
    /\ \A l \in reply[n] : l[1] <= Len(chain[n])
    /\ n \in polling => \A l \in reply[n] : \A s \in Seqs : <<n, s>> \in sampled => s <= l[1]

WindowInv == SampledInv /\ HistoryIsWindow

LEMMA ChainGrows ==
  ASSUME TypeOK, Env, NEW n \in Nodes
  PROVE  Len(chain[n]) <= Len(chain'[n])
<1>0. \A k \in Nodes : chain[k] \in Seq(Hashes) /\ Len(chain[k]) \in Nat
  BY DEF TypeOK
<1>1. ASSUME NEW k \in Nodes, NEW h \in Hashes, Validate(k, h)
      PROVE  Len(chain[n]) <= Len(chain'[n])
  <2>1. chain'[n] = IF n = k THEN Append(chain[n], h) ELSE chain[n]
    BY <1>1 DEF Validate, TypeOK
  <2>2. Len(Append(chain[n], h)) = Len(chain[n]) + 1
    BY <1>0
  <2> QED BY <1>0, <2>1, <2>2
<1>2. ASSUME NEW k \in Nodes, NEW m \in Nodes, CatchUp(k, m)
      PROVE  Len(chain[n]) <= Len(chain'[n])
  <2>1. chain'[n] = IF n = k THEN chain[m] ELSE chain[n]
    BY <1>2 DEF CatchUp, TypeOK
  <2> QED BY <1>0, <1>2, <2>1 DEF CatchUp
<1> QED BY <1>1, <1>2 DEF Env

(* One observation: the window moves on, the rest of it stays.             *)
LEMMA RecordedWindow ==
  ASSUME NEW h \in SUBSET Ledger, NEW l \in Ledger, NEW S \in SUBSET Seqs,
         {e[1] : e \in h} = {s \in Seqs : s \in S /\ \A t \in S : t < s + Window},
         \A e, f \in h : e[1] = f[1] => e = f,
         \A s \in S : s <= l[1]
  PROVE  /\ {e[1] : e \in Recorded(h, l)} =
              {s \in Seqs : s \in S \cup {l[1]} /\ \A t \in S \cup {l[1]} : t < s + Window}
         /\ \A e, f \in Recorded(h, l) : e[1] = f[1] => e = f
<1>0. l[1] \in Nat /\ Window \in Nat \ {0} /\ l[1] \in Seqs /\ \A s \in Seqs : s \in Nat
  BY DEF Ledger, Seqs
<1>1. \A e \in h : e[1] \in Seqs
  BY DEF Ledger
<1>2. ASSUME NEW e \in Recorded(h, l)
      PROVE  e[1] \in Seqs /\ e[1] \in S \cup {l[1]} /\ \A t \in S \cup {l[1]} : t < e[1] + Window
  <2>1. e[1] + Window > l[1] /\ (e = l \/ e \in h)
    BY DEF Recorded, Unpruned
  <2>2. e[1] \in Seqs /\ e[1] \in S \cup {l[1]}
    BY <1>0, <1>1, <2>1
  <2>3. ASSUME NEW t \in S \cup {l[1]} PROVE t < e[1] + Window
    <3>1. t \in Nat /\ t <= l[1]
      BY <1>0
    <3> QED BY <1>0, <2>1, <2>2, <3>1
  <2> QED BY <2>2, <2>3
<1>3. ASSUME NEW s \in Seqs, s \in S \cup {l[1]}, \A t \in S \cup {l[1]} : t < s + Window
      PROVE  \E e \in Recorded(h, l) : e[1] = s
  <2>1. s + Window > l[1]
    BY <1>0, <1>3
  <2>2. CASE s = l[1]
    BY <2>1, <2>2 DEF Recorded, Unpruned
  <2>3. CASE s # l[1]
    <3>1. s \in {e[1] : e \in h}
      BY <1>3, <2>3
    <3>2. PICK e \in h : e[1] = s
      BY <3>1
    <3> QED BY <2>1, <2>3, <3>2 DEF Recorded, Unpruned
  <2> QED BY <2>2, <2>3
<1>4. \A e, f \in Recorded(h, l) : e[1] = f[1] => e = f
  BY DEF Recorded, Unpruned
<1>5. {e[1] : e \in Recorded(h, l)} \subseteq
        {s \in Seqs : s \in S \cup {l[1]} /\ \A t \in S \cup {l[1]} : t < s + Window}
  BY <1>2
<1>6. {s \in Seqs : s \in S \cup {l[1]} /\ \A t \in S \cup {l[1]} : t < s + Window}
        \subseteq {e[1] : e \in Recorded(h, l)}
  BY <1>3
<1> QED BY <1>4, <1>5, <1>6

SampledOf(n) == {s \in Seqs : <<n, s>> \in sampled}

LEMMA WindowRecord ==
  ASSUME TypeOK, WindowInv, NEW n \in Nodes, Record(n)
  PROVE  HistoryIsWindow'
<1>1. /\ reply[n] \in SUBSET Ledger /\ history[n] \in SUBSET Ledger
      /\ SampledOf(n) \in SUBSET Seqs
  BY DEF TypeOK, SampledOf
<1>2. \A k \in Nodes : k # n => history'[k] = history[k] /\ \A s : <<k, s>> \in sampled' <=> <<k, s>> \in sampled
  BY DEF Record, TypeOK
<1>3. CASE reply[n] = {}
  <2>1. history' = history /\ sampled' = sampled
    BY <1>3 DEF Record
  <2> QED BY <2>1 DEF WindowInv, HistoryIsWindow, SeqsOf
<1>4. CASE reply[n] # {}
  <2>1. PICK l \in reply[n] : reply[n] = {l}
    BY <1>4 DEF WindowInv, SampledInv
  <2>2. l \in Ledger /\ l[1] \in Seqs
    BY <1>1, <2>1 DEF Ledger
  <2>3. history'[n] = Recorded(history[n], l)
    BY <1>4, <2>1 DEF Record, TypeOK
  <2>4. \A s \in Seqs : <<n, s>> \in sampled' <=> s \in SampledOf(n) \cup {l[1]}
    BY <2>1, <2>2 DEF Record, SampledOf
  <2>5. \A s \in SampledOf(n) : s <= l[1]
    BY <2>1 DEF WindowInv, SampledInv, SampledOf, Record
  <2>6. {e[1] : e \in history[n]} =
          {s \in Seqs : s \in SampledOf(n) /\ \A t \in SampledOf(n) : t < s + Window}
    BY DEF WindowInv, HistoryIsWindow, SeqsOf, SampledOf
  <2>7. \A e, f \in history[n] : e[1] = f[1] => e = f
    BY DEF WindowInv, HistoryIsWindow
  <2>8. /\ {e[1] : e \in Recorded(history[n], l)} =
             {s \in Seqs : s \in SampledOf(n) \cup {l[1]}
                           /\ \A t \in SampledOf(n) \cup {l[1]} : t < s + Window}
        /\ \A e, f \in Recorded(history[n], l) : e[1] = f[1] => e = f
    BY <1>1, <2>2, <2>5, <2>6, <2>7, RecordedWindow
  <2>9. SeqsOf(n)' = {s \in Seqs : <<n, s>> \in sampled' /\ \A t \in Seqs : <<n, t>> \in sampled' => t < s + Window}
    BY <1>1, <2>2, <2>3, <2>4, <2>8 DEF SeqsOf
  <2>10. \A e, f \in history'[n] : e[1] = f[1] => e = f
    BY <2>3, <2>8
  <2> QED BY <1>2, <2>9, <2>10 DEF WindowInv, HistoryIsWindow, SeqsOf
<1> QED BY <1>3, <1>4

LEMMA WindowStep ==
  ASSUME TypeOK, WindowInv, [Next]_vars
  PROVE  WindowInv'
<1>0. \A n \in Nodes : Len(chain[n]) \in Nat
  BY DEF TypeOK
<1>1. CASE Env
  <2>1. UNCHANGED <<polling, reply, sampled, history>>
    BY <1>1 DEF Env, Validate, CatchUp, pollVars
  <2>2. \A n \in Nodes : Len(chain[n]) <= Len(chain'[n]) /\ Len(chain'[n]) \in Nat
    BY <1>1, ChainGrows, EnvType DEF TypeOK
  <2>3. ASSUME NEW n \in Nodes, NEW i \in Nat, i <= Len(chain[n]) PROVE i <= Len(chain'[n])
    BY <1>0, <2>2, <2>3
  <2>4. \A n \in Nodes : \A l \in reply[n] : l[1] \in Nat
    BY DEF TypeOK, Ledger, Seqs
  <2>5. SampledInv'
    BY <2>1, <2>3, <2>4 DEF WindowInv, SampledInv, Seqs
  <2> QED BY <2>1, <2>5 DEF WindowInv, HistoryIsWindow, SeqsOf
<1>2. ASSUME NEW n \in Nodes, Ask(n)
      PROVE  WindowInv'
  <2>1. PICK r \in Replies(n) : reply' = [reply EXCEPT ![n] = r]
    BY <1>2 DEF Ask
  <2>2. UNCHANGED <<chain, sampled, history>> /\ polling' = polling \cup {n}
    BY <1>2 DEF Ask, envVars
  <2>3. r = {} \/ r = Tip(n)
    BY <2>1 DEF Replies
  <2>4. \A l \in r : l = <<Len(chain[n]), chain[n][Len(chain[n])]>>
    BY <2>3, TipType
  <2>5. \A k \in Nodes : reply'[k] = IF k = n THEN r ELSE reply[k]
    BY <2>1 DEF TypeOK
  <2>6. SampledInv'
    BY <1>0, <2>2, <2>4, <2>5 DEF WindowInv, SampledInv
  <2> QED BY <2>2, <2>6 DEF WindowInv, HistoryIsWindow, SeqsOf
<1>3. ASSUME NEW n \in Nodes, Record(n)
      PROVE  WindowInv'
  <2>1. UNCHANGED <<chain, reply>> /\ polling' = polling \ {n}
    BY <1>3 DEF Record, envVars
  <2>2. \A k \in Nodes : k # n => \A s : <<k, s>> \in sampled' <=> <<k, s>> \in sampled
    BY <1>3 DEF Record
  <2>3. \A s \in Seqs : <<n, s>> \in sampled' => s <= Len(chain[n])
    BY <1>3 DEF Record, WindowInv, SampledInv
  <2>4. SampledInv'
    BY <2>1, <2>2, <2>3 DEF WindowInv, SampledInv
  <2> QED BY <1>3, <2>4, WindowRecord DEF WindowInv
<1>4. CASE UNCHANGED <<chain, pollVars>>
  BY <1>4 DEF pollVars, WindowInv, SampledInv, HistoryIsWindow, SeqsOf
<1>5. CASE Oracle \/ StateDiff \/ UNCHANGED vars
  <2>1. UNCHANGED <<chain, pollVars>>
    BY <1>5 DEF Oracle, Tick, Drop, Mark, Raise, StateDiff, DiffRead, DiffAnswer, vars, envVars
  <2> QED BY <1>4, <2>1
<1> QED BY <1>1, <1>2, <1>3, <1>5 DEF Next, Poll

(* The history is the window of the samples for every window and fleet.    *)
THEOREM HistoryStaysWindow == Spec => []HistoryIsWindow
<1>1. Init => WindowInv
  <2> SUFFICES ASSUME Init PROVE WindowInv
    OBVIOUS
  <2>1. SampledInv
    BY DEF Init, SampledInv
  <2> QED BY <2>1 DEF Init, WindowInv, HistoryIsWindow, SeqsOf
<1>2. TypeOK /\ WindowInv /\ [Next]_vars => WindowInv'
  BY WindowStep
<1>3. WindowInv => HistoryIsWindow
  BY DEF WindowInv
<1> QED BY TypeCorrect, <1>1, <1>2, <1>3, PTL DEF Spec

-----------------------------------------------------------------------------
(* Findings are real.                                                      *)

RealGroup(g) ==
  /\ \A a, b \in g.hashes : a # b => Disagree(g.seq, a, b)
  /\ \E a, b \in g.hashes : a # b

FindingInv ==
  /\ \A g \in todo \cup current : RealGroup(g)
  /\ NoFalseDivergence

LEMMA DisagreeStays ==
  ASSUME validated \subseteq validated', NEW s, NEW a, NEW b, Disagree(s, a, b)
  PROVE  Disagree(s, a, b)'
BY DEF Disagree

(* Two hashes of one sequence in the histories come from two nodes.        *)
LEMMA HistoryDisagrees ==
  ASSUME ObservedInv, HistoryIsWindow, NEW s, NEW n \in Nodes, NEW m \in Nodes, NEW a, NEW b,
         a # b, <<s, a>> \in history[n], <<s, b>> \in history[m]
  PROVE  Disagree(s, a, b)
<1>1. n # m
  BY DEF HistoryIsWindow
<1>2. <<n, s, a>> \in validated /\ <<m, s, b>> \in validated
  BY DEF ObservedInv, Held
<1> QED BY <1>1, <1>2 DEF Disagree

LEMMA FindingStep ==
  ASSUME TypeOK, ObservedInv, HistoryIsWindow, FindingInv, [Next]_vars
  PROVE  FindingInv'
<1>0. validated \subseteq validated'
  BY ValidatedGrows
<1>1. \A g : RealGroup(g) => RealGroup(g)'
  BY <1>0, DisagreeStays DEF RealGroup
<1>2. findings \in Seq(Group)
  BY DEF TypeOK
<1>3. \A i \in DOMAIN findings : RealGroup(findings[i])
  BY DEF FindingInv, NoFalseDivergence, RealGroup
<1>4. CASE UNCHANGED oracleVars
  <2>1. \A g \in todo' \cup current' : RealGroup(g)'
    BY <1>1, <1>4 DEF oracleVars, FindingInv
  <2>2. NoFalseDivergence'
    BY <1>1, <1>3, <1>4 DEF oracleVars, NoFalseDivergence, RealGroup
  <2> QED BY <2>1, <2>2 DEF FindingInv
<1>5. CASE Tick
  <2>1. ASSUME NEW s \in Forked PROVE RealGroup([seq |-> s, hashes |-> HashesAt(s)])
    <3>1. \E a, b \in HashesAt(s) : a # b
      BY DEF Forked
    <3>2. ASSUME NEW a \in HashesAt(s), NEW b \in HashesAt(s), a # b PROVE Disagree(s, a, b)
      BY <3>2, HistoryDisagrees DEF HashesAt
    <3> QED BY <3>1, <3>2 DEF RealGroup
  <2>2. \A g \in todo' \cup current' : RealGroup(g)'
    BY <1>1, <1>5, <2>1 DEF Tick, FindingInv
  <2>3. NoFalseDivergence'
    BY <1>1, <1>3, <1>5 DEF Tick, NoFalseDivergence, RealGroup
  <2> QED BY <2>2, <2>3 DEF FindingInv
<1>6. ASSUME NEW g \in todo, Drop(g) \/ Mark(g)
      PROVE  FindingInv'
  <2>1. \A k \in todo' \cup current' : RealGroup(k)'
    BY <1>1, <1>6 DEF Drop, Mark, FindingInv
  <2>2. NoFalseDivergence'
    BY <1>1, <1>3, <1>6 DEF Drop, Mark, NoFalseDivergence, RealGroup
  <2> QED BY <2>1, <2>2 DEF FindingInv
<1>7. ASSUME NEW g \in current, Raise(g)
      PROVE  FindingInv'
  <2>1. \A k \in todo' \cup current' : RealGroup(k)'
    BY <1>1, <1>7 DEF Raise, FindingInv
  <2>2. findings' = Append(findings, g) /\ RealGroup(g)'
    BY <1>1, <1>7 DEF Raise, FindingInv
  <2>3. \A i \in DOMAIN findings' : findings'[i] = g \/ (i \in DOMAIN findings /\ findings'[i] = findings[i])
    BY <1>2, <2>2
  <2>4. ASSUME NEW i \in DOMAIN findings' PROVE RealGroup(findings[i])'
    <3>1. PICK k : k = findings'[i] /\ (k = g \/ \E j \in DOMAIN findings : k = findings[j])
      BY <2>3
    <3>2. RealGroup(k)'
      BY <1>1, <1>3, <2>2, <3>1
    <3> QED BY <3>1, <3>2 DEF RealGroup, Disagree
  <2>5. NoFalseDivergence'
    BY <2>4 DEF NoFalseDivergence, RealGroup
  <2> QED BY <2>1, <2>5 DEF FindingInv
<1>8. CASE Env \/ (\E n \in Nodes : Poll(n)) \/ StateDiff \/ UNCHANGED vars
  <2>1. UNCHANGED oracleVars
    BY <1>8 DEF Env, Validate, CatchUp, Poll, Ask, Record, StateDiff, DiffRead, DiffAnswer, vars
  <2> QED BY <1>4, <2>1
<1> QED BY <1>5, <1>6, <1>7, <1>8 DEF Next, Oracle

LEMMA InitObserved == Init => ObservedInv
BY DEF Init, ObservedInv, Held, Tip

(* No finding invents a fork, for every fleet and window.                  *)
THEOREM FindingsAreReal == Spec => []NoFalseDivergence
<1>1. Init => FindingInv
  BY DEF Init, FindingInv, NoFalseDivergence
<1>2. TypeOK /\ ObservedInv /\ [Next]_vars => ObservedInv'
  BY ObservedStep
<1>3. TypeOK /\ ObservedInv /\ HistoryIsWindow /\ FindingInv /\ [Next]_vars => FindingInv'
  BY FindingStep
<1>4. FindingInv => NoFalseDivergence
  BY DEF FindingInv
<1> QED BY TypeCorrect, HistoryStaysWindow, InitObserved, <1>1, <1>2, <1>3, <1>4, PTL DEF Spec

-----------------------------------------------------------------------------
(* Findings are unique: the dedup key of a finding stays in seen.          *)

DedupInv ==
  /\ current \subseteq seen
  /\ \A i \in DOMAIN findings : findings[i] \in seen \ current
  /\ NoDuplicateDivergence

LEMMA DedupStep ==
  ASSUME TypeOK, DedupInv, [Next]_vars
  PROVE  DedupInv'
<1>1. findings \in Seq(Group)
  BY DEF TypeOK
<1>2. CASE UNCHANGED oracleVars \/ Tick
  BY <1>2 DEF oracleVars, Tick, DedupInv, NoDuplicateDivergence
<1>3. ASSUME NEW g \in todo, Drop(g)
      PROVE  DedupInv'
  BY <1>3 DEF Drop, DedupInv, NoDuplicateDivergence
<1>4. ASSUME NEW g \in todo, Mark(g)
      PROVE  DedupInv'
  <2>1. \A i \in DOMAIN findings : findings[i] # g
    BY <1>4 DEF Mark, AlreadySeen, DedupInv
  <2> QED BY <1>4, <2>1 DEF Mark, DedupInv, NoDuplicateDivergence
<1>5. ASSUME NEW g \in current, Raise(g)
      PROVE  DedupInv'
  <2>1. findings' = Append(findings, g) /\ current' = {} /\ seen' = seen /\ g \in seen
    BY <1>5 DEF Raise, DedupInv
  <2>2. \A i \in DOMAIN findings : findings[i] # g
    BY <1>5 DEF DedupInv
  <2>3. \A i \in DOMAIN findings' :
          \/ i = Len(findings) + 1 /\ findings'[i] = g
          \/ i \in DOMAIN findings /\ findings'[i] = findings[i]
    BY <1>1, <2>1
  <2>4. NoDuplicateDivergence'
    BY <2>2, <2>3 DEF DedupInv, NoDuplicateDivergence
  <2> QED BY <2>1, <2>3, <2>4 DEF DedupInv
<1>6. CASE Env \/ (\E n \in Nodes : Poll(n)) \/ StateDiff \/ UNCHANGED vars
  <2>1. UNCHANGED oracleVars
    BY <1>6 DEF Env, Validate, CatchUp, Poll, Ask, Record, StateDiff, DiffRead, DiffAnswer, vars
  <2> QED BY <1>2, <2>1
<1> QED BY <1>2, <1>3, <1>4, <1>5, <1>6 DEF Next, Oracle

(* One disagreement is one finding, for every fleet and window.            *)
THEOREM FindingsAreUnique == Spec => []NoDuplicateDivergence
<1>1. Init => DedupInv
  BY DEF Init, DedupInv, NoDuplicateDivergence
<1>2. TypeOK /\ DedupInv /\ [Next]_vars => DedupInv'
  BY DedupStep
<1>3. DedupInv => NoDuplicateDivergence
  BY DEF DedupInv
<1> QED BY TypeCorrect, <1>1, <1>2, <1>3, PTL DEF Spec

-----------------------------------------------------------------------------
(* No disagreement gets lost between the snapshot and the store: what has a *)
(* dedup key is being fetched or is a finding.                              *)

KeyInv == \A g \in seen : g \in current \/ \E i \in DOMAIN findings : findings[i] = g

LEMMA AppendKeeps ==
  ASSUME NEW G, NEW s \in Seq(G), NEW g \in G
  PROVE  /\ \A i \in DOMAIN s : i \in DOMAIN Append(s, g) /\ Append(s, g)[i] = s[i]
         /\ \E i \in DOMAIN Append(s, g) : Append(s, g)[i] = g
<1>1. Len(s) + 1 \in DOMAIN Append(s, g) /\ Append(s, g)[Len(s) + 1] = g
  OBVIOUS
<1>2. \A i \in DOMAIN s : i \in DOMAIN Append(s, g) /\ Append(s, g)[i] = s[i]
  OBVIOUS
<1> QED BY <1>1, <1>2

LEMMA KeyStep ==
  ASSUME TypeOK, KeyInv, [Next]_vars
  PROVE  /\ KeyInv'
         /\ \A g \in todo \cup current :
              g \in todo' \cup current' \/ \E i \in DOMAIN findings' : findings'[i] = g
<1>1. CASE UNCHANGED oracleVars \/ Tick
  BY <1>1 DEF oracleVars, Tick, Idle, KeyInv
<1>2. ASSUME NEW g \in todo, Drop(g)
      PROVE  /\ KeyInv'
             /\ \A k \in todo \cup current :
                  k \in todo' \cup current' \/ \E i \in DOMAIN findings' : findings'[i] = k
  BY <1>2 DEF Drop, AlreadySeen, Idle, KeyInv
<1>3. ASSUME NEW g \in todo, Mark(g)
      PROVE  /\ KeyInv'
             /\ \A k \in todo \cup current :
                  k \in todo' \cup current' \/ \E i \in DOMAIN findings' : findings'[i] = k
  BY <1>3 DEF Mark, Idle, KeyInv
<1>4. ASSUME NEW g \in current, Raise(g)
      PROVE  /\ KeyInv'
             /\ \A k \in todo \cup current :
                  k \in todo' \cup current' \/ \E i \in DOMAIN findings' : findings'[i] = k
  <2>1. findings \in Seq(Group) /\ g \in Group /\ \A k \in current : k = g
    BY <1>4 DEF TypeOK
  <2>2. findings' = Append(findings, g) /\ seen' = seen /\ todo' = todo
    BY <1>4 DEF Raise
  <2>3. /\ \A i \in DOMAIN findings : i \in DOMAIN findings' /\ findings'[i] = findings[i]
        /\ \E i \in DOMAIN findings' : findings'[i] = g
    BY <2>1, <2>2, AppendKeeps
  <2> QED BY <2>1, <2>2, <2>3 DEF KeyInv
<1>5. CASE Env \/ (\E n \in Nodes : Poll(n)) \/ StateDiff \/ UNCHANGED vars
  <2>1. UNCHANGED oracleVars
    BY <1>5 DEF Env, Validate, CatchUp, Poll, Ask, Record, StateDiff, DiffRead, DiffAnswer, vars
  <2> QED BY <1>1, <2>1
<1> QED BY <1>1, <1>2, <1>3, <1>4, <1>5 DEF Next, Oracle

(* A disagreement is dropped only if it is a finding, for every fleet.     *)
THEOREM NothingIsDropped == Spec => DropsOnlyReported
<1>1. Init => KeyInv
  BY DEF Init, KeyInv
<1>2. TypeOK /\ KeyInv /\ [Next]_vars => KeyInv'
  BY KeyStep
<1>3. TypeOK /\ KeyInv /\ [Next]_vars =>
        [\A g \in todo \cup current :
           g \in todo' \cup current' \/ \E i \in DOMAIN findings' : findings'[i] = g]_vars
  BY KeyStep
<1> QED BY TypeCorrect, <1>1, <1>2, <1>3, PTL DEF Spec, DropsOnlyReported

-----------------------------------------------------------------------------
(* The state diff.                                                         *)

LEMMA HashByNodeHeld ==
  ASSUME ObservedInv, NEW q \in asked, NEW s, NEW x \in HashByNode(q.tips, s)
  PROVE  x \in Nodes \X Hashes /\ <<x[1], s, x[2]>> \in validated
BY DEF HashByNode, ObservedInv, Held

(* Tips and history give one hash per node.                                *)
LEMMA HashByNodeSingle ==
  ASSUME HistoryIsWindow, NEW q \in asked, NEW s,
         \A n \in Nodes : \A l, k \in q.tips[n] : l = k,
         NEW x \in HashByNode(q.tips, s), NEW y \in HashByNode(q.tips, s), x[2] # y[2]
  PROVE  x[1] # y[1]
<1> SUFFICES ASSUME x[1] = y[1] PROVE FALSE
  OBVIOUS
<1>1. x \in Nodes \X Hashes /\ y \in Nodes \X Hashes
  BY DEF HashByNode
<1>2. PICK n \in Nodes : n = x[1] /\ n = y[1]
  BY <1>1
<1>3. \/ <<s, x[2]>> \in q.tips[n]
      \/ <<s, x[2]>> \in history[n] /\ \A l \in q.tips[n] : l[1] # s
  BY <1>2 DEF HashByNode
<1>4. \/ <<s, y[2]>> \in q.tips[n]
      \/ <<s, y[2]>> \in history[n] /\ \A l \in q.tips[n] : l[1] # s
  BY <1>2 DEF HashByNode
<1>5. CASE <<s, x[2]>> \in q.tips[n] /\ <<s, y[2]>> \in q.tips[n]
  <2>1. <<s, x[2]>> = <<s, y[2]>>
    BY <1>5
  <2> QED BY <2>1
<1>6. CASE <<s, x[2]>> \in history[n] /\ <<s, y[2]>> \in history[n]
  <2>1. <<s, x[2]>> = <<s, y[2]>>
    BY <1>6 DEF HistoryIsWindow
  <2> QED BY <2>1
<1>7. CASE (<<s, x[2]>> \in q.tips[n] /\ \A l \in q.tips[n] : l[1] # s)
  <2>1. <<s, x[2]>>[1] # s
    BY <1>7
  <2> QED BY <2>1
<1>8. CASE (<<s, y[2]>> \in q.tips[n] /\ \A l \in q.tips[n] : l[1] # s)
  <2>1. <<s, y[2]>>[1] # s
    BY <1>8
  <2> QED BY <2>1
<1> QED BY <1>3, <1>4, <1>5, <1>6, <1>7, <1>8

SingleTips ==
  \A n \in Nodes :
    /\ \A l, k \in tip[n] : l = k
    /\ \A q \in asked : \A l, k \in q.tips[n] : l = k

AnswerInv == SingleTips /\ AnswerSound

LEMMA ResponseSound ==
  ASSUME TypeOK, ObservedInv, HistoryIsWindow, SingleTips,
         NEW q \in asked, NEW target, NEW d \in Responses(q, target)
  PROVE  /\ \A x \in d.byNode : <<x[1], d.seq, x[2]>> \in validated
         /\ d.diverged => \E x, y \in d.byNode : Disagree(d.seq, x[2], y[2])
<1> DEFINE byNode == HashByNode(q.tips, target)
<1>1. CASE d = [seq |-> target, byNode |-> byNode, diverged |-> Diverged(byNode)]
  <2>1. \A x \in d.byNode : x \in Nodes \X Hashes /\ <<x[1], d.seq, x[2]>> \in validated
    BY <1>1, HashByNodeHeld
  <2>2. ASSUME d.diverged PROVE \E x, y \in d.byNode : Disagree(d.seq, x[2], y[2])
    <3>1. PICK x \in byNode, y \in byNode : x[2] # y[2]
      BY <1>1, <2>2 DEF Diverged
    <3>2. x[1] # y[1]
      BY <3>1, HashByNodeSingle DEF SingleTips
    <3>3. Disagree(d.seq, x[2], y[2])
      BY <1>1, <2>1, <3>1, <3>2 DEF Disagree
    <3> QED BY <1>1, <3>3
  <2> QED BY <2>1, <2>2
<1>2. CASE d \in EarliestFork
  <2>1. PICK s \in Forked :
          d = [seq |-> s, byNode |-> {p \in Nodes \X Hashes : <<s, p[2]>> \in history[p[1]]}, diverged |-> TRUE]
    BY <1>2 DEF EarliestFork
  <2>2. \A x \in d.byNode : <<x[1], d.seq, x[2]>> \in validated
    BY <2>1 DEF ObservedInv, Held
  <2>3. PICK a \in HashesAt(s), b \in HashesAt(s) : a # b
    BY DEF Forked
  <2>4. PICK n \in Nodes, m \in Nodes : <<s, a>> \in history[n] /\ <<s, b>> \in history[m]
    BY DEF HashesAt
  <2>5. <<n, a>> \in d.byNode /\ <<m, b>> \in d.byNode
    BY <2>1, <2>4 DEF HashesAt
  <2>6. Disagree(d.seq, a, b)
    BY <2>1, <2>3, <2>4, HistoryDisagrees
  <2>7. <<n, a>>[2] = a /\ <<m, b>>[2] = b
    OBVIOUS
  <2>8. \E x, y \in d.byNode : Disagree(d.seq, x[2], y[2])
    BY <2>5, <2>6, <2>7
  <2> QED BY <2>2, <2>8
<1> QED BY <1>1, <1>2 DEF Responses

LEMMA AnswerStep ==
  ASSUME TypeOK, ObservedInv, WindowInv, AnswerInv, [Next]_vars
  PROVE  AnswerInv'
<1>0. validated \subseteq validated'
  BY ValidatedGrows
<1>1. CASE UNCHANGED diffVars
  <2>1. AnswerSound'
    BY <1>0, <1>1 DEF AnswerInv, AnswerSound, Disagree, diffVars
  <2>2. \A n \in Nodes : tip'[n] = tip[n] \/ tip'[n] = reply[n]
    <3>1. CASE \E k \in Nodes : Record(k)
      BY <3>1 DEF Record, TypeOK
    <3>2. CASE ~ \E k \in Nodes : Record(k)
      <4>1. tip' = tip
        BY <3>2 DEF Next, Env, Validate, CatchUp, Poll, Ask, Oracle, Tick, Drop, Mark, Raise,
                    StateDiff, DiffRead, DiffAnswer, vars, pollVars
      <4> QED BY <4>1
    <3> QED BY <3>1, <3>2
  <2>3. SingleTips'
    BY <1>1, <2>2 DEF AnswerInv, SingleTips, WindowInv, SampledInv, diffVars
  <2> QED BY <2>1, <2>3 DEF AnswerInv
<1>2. ASSUME NEW at \in Queries, DiffRead(at)
      PROVE  AnswerInv'
  BY <1>2 DEF DiffRead, AnswerInv, SingleTips, AnswerSound, pollVars
<1>3. CASE DiffAnswer
  <2>0. PICK q \in asked : \E t \in Targets(q) :
          asked' = {} /\ (\E d \in Responses(q, t) : answer' = {d}) /\ UNCHANGED <<envVars, pollVars, oracleVars>>
    BY <1>3 DEF DiffAnswer
  <2>1. PICK target \in Targets(q) :
          asked' = {} /\ (\E d \in Responses(q, target) : answer' = {d}) /\ UNCHANGED <<envVars, pollVars, oracleVars>>
    BY <2>0
  <2>2. PICK d \in Responses(q, target) : answer' = {d}
    BY <2>1
  <2>3. UNCHANGED <<validated, tip>>
    BY <2>1 DEF envVars, pollVars
  <2>4. /\ \A x \in d.byNode : <<x[1], d.seq, x[2]>> \in validated
        /\ d.diverged => \E x, y \in d.byNode : Disagree(d.seq, x[2], y[2])
    BY <2>2, ResponseSound DEF AnswerInv, WindowInv
  <2>5. AnswerSound'
    BY <2>2, <2>3, <2>4 DEF AnswerSound, Disagree
  <2> QED BY <2>1, <2>3, <2>5 DEF AnswerInv, SingleTips
<1>4. CASE Env \/ (\E n \in Nodes : Poll(n)) \/ Oracle \/ UNCHANGED vars
  <2>1. UNCHANGED diffVars
    BY <1>4 DEF Env, Validate, CatchUp, Poll, Ask, Record, Oracle, Tick, Drop, Mark, Raise, vars
  <2> QED BY <1>1, <2>1
<1> QED BY <1>2, <1>3, <1>4 DEF Next, StateDiff

(* An answer of the state diff is sound although tips and history are read *)
(* under two locks, for every fleet, window and request.                   *)
THEOREM DiffIsSound == Spec => []AnswerSound
<1>1. Init => WindowInv /\ AnswerInv
  <2> SUFFICES ASSUME Init PROVE WindowInv /\ AnswerInv
    OBVIOUS
  <2>1. SampledInv
    BY DEF Init, SampledInv
  <2>2. WindowInv
    BY <2>1 DEF Init, WindowInv, HistoryIsWindow, SeqsOf
  <2>3. AnswerInv
    BY DEF Init, AnswerInv, SingleTips, AnswerSound
  <2> QED BY <2>2, <2>3
<1>2. TypeOK /\ WindowInv /\ [Next]_vars => WindowInv'
  BY WindowStep
<1>3. TypeOK /\ ObservedInv /\ [Next]_vars => ObservedInv'
  BY ObservedStep
<1>4. TypeOK /\ ObservedInv /\ WindowInv /\ AnswerInv /\ [Next]_vars => AnswerInv'
  BY AnswerStep
<1>5. AnswerInv => AnswerSound
  BY DEF AnswerInv
<1> QED BY TypeCorrect, InitObserved, <1>1, <1>2, <1>3, <1>4, <1>5, PTL DEF Spec

OneRequest == \A p, q \in asked : p = q

LEMMA CleanStep ==
  ASSUME OneRequest, [Next]_vars, NEW q \in asked, q \notin asked', q.at = 0, Forked # {}
  PROVE  \E d \in answer' : d.diverged
<1>1. DiffAnswer
  BY DEF Next, Env, Validate, CatchUp, Poll, Ask, Record, Oracle, Tick, Drop, Mark,
         Raise, StateDiff, DiffRead, vars, diffVars
<1>2. PICK p \in asked : \E t \in Targets(p) : \E d \in Responses(p, t) : answer' = {d}
  BY <1>1 DEF DiffAnswer
<1>3. p = q
  BY DEF OneRequest
<1>4. PICK t \in Targets(q) : \E d \in Responses(q, t) : answer' = {d}
  BY <1>2, <1>3
<1>5. PICK d \in Responses(q, t) : answer' = {d}
  BY <1>4
<1>6. d.diverged
  <2>1. CASE Diverged(HashByNode(q.tips, t))
    BY <2>1, <1>5 DEF Responses
  <2>2. CASE ~Diverged(HashByNode(q.tips, t))
    <3>1. d \in EarliestFork
      BY <2>2, <1>5 DEF Responses, Scans
    <3> QED BY <3>1 DEF EarliestFork
  <2> QED BY <2>1, <2>2
<1> QED BY <1>5, <1>6

(* A request without ?at= never denies a fork the history shows.           *)
THEOREM DiffNeverDenies == Spec => CleanIsClean
<1>1. Init => OneRequest
  BY DEF Init, OneRequest
<1>2. OneRequest /\ [Next]_vars => OneRequest'
  BY DEF OneRequest, Next, Env, Validate, CatchUp, Poll, Ask, Record, Oracle, Tick, Drop, Mark,
         Raise, StateDiff, DiffRead, DiffAnswer, vars, diffVars
<1>3. OneRequest /\ [Next]_vars =>
        [\A q \in asked \ asked' : q.at = 0 /\ Forked # {} => \E d \in answer' : d.diverged]_vars
  BY CleanStep
<1> QED BY <1>1, <1>2, <1>3, PTL DEF Spec, CleanIsClean
=============================================================================
