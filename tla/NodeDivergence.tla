---------------------------- MODULE NodeDivergence ----------------------------
(***************************************************************************)
(* How the control service finds a fork: one poller goroutine per node     *)
(* samples the node's validated tip into a bounded history, the divergence *)
(* oracle compares the nodes' histories sequence by sequence, and          *)
(* GET /v1/state/diff answers from the tips and the same history.          *)
(* Sources: sidecar/internal/server/{nodes,state}.go and                   *)
(* sidecar/internal/finding/divergence_oracle.go.  The nodes are external. *)
(*                                                                         *)
(* A ledger is <<seq, hash>>, a missing observation the empty set.  The    *)
(* ledger diff attached to a finding is left out: the calls that fetch it  *)
(* cannot fail the finding, and they touch no state; that they take time   *)
(* is kept, Raise being a step of its own.                                 *)
(***************************************************************************)
EXTENDS Naturals, Sequences, FiniteSets

CONSTANTS
  Nodes,     \* the configured nodes
  Hashes,    \* ledger hashes
  Window,    \* maxValidatedHistorySeqs (512)
  Failing,   \* nodes whose server_info may fail
  Queries,   \* the ?at= values asked for; 0 is a request without one
  MaxSeq     \* bound: ledgers a node validates

Seqs == 1 .. MaxSeq

Ledger == Seqs \X Hashes

ASSUME BoundAssumption == MaxSeq \in Nat
ASSUME WindowAssumption == Window \in Nat \ {0}
ASSUME NodeAssumption == Failing \subseteq Nodes
ASSUME QueryAssumption == Queries \subseteq 0 .. MaxSeq

VARIABLES
  chain,      \* the ledgers a node has validated
  validated,  \* <<node, seq, hash>> of every tip a node ever had
  polling,    \* nodes whose poll waits for p.mu
  reply,      \* what server_info returned to that poll
  sampled,    \* <<node, seq>> of every observation recorded
  \* NodePoller
  tip,        \* validated ledger in p.nodes
  history,    \* p.history
  \* DivergenceOracle
  todo,       \* forked groups of the snapshot the tick has not reached
  current,    \* the group whose ledgers are being fetched
  seen,       \* dedup keys
  findings,   \* what was added to the store
  \* one request of GET /v1/state/diff
  asked,      \* at, and the tips it has read
  answer      \* the response

envVars == <<chain, validated>>
pollVars == <<polling, reply, sampled, tip, history>>
oracleVars == <<todo, current, seen, findings>>
diffVars == <<asked, answer>>
vars == <<envVars, pollVars, oracleVars, diffVars>>

Group == [seq : Seqs, hashes : SUBSET Hashes]

Init ==
  /\ chain = [n \in Nodes |-> <<>>]
  /\ validated = {}
  /\ polling = {}
  /\ reply = [n \in Nodes |-> {}]
  /\ sampled = {}
  /\ tip = [n \in Nodes |-> {}]
  /\ history = [n \in Nodes |-> {}]
  /\ todo = {}
  /\ current = {}
  /\ seen = {}
  /\ findings = <<>>
  /\ asked = {}
  /\ answer = {}

-----------------------------------------------------------------------------
(* The nodes.  A hash commits to the ledger's whole past; a tip never moves  *)
(* back, and a node that left the network's chain may rejoin it.             *)

Tip(n) == IF chain[n] = <<>> THEN {} ELSE {<<Len(chain[n]), chain[n][Len(chain[n])]>>}

Commits(n, h) ==
  \A m \in Nodes : Len(chain[m]) > Len(chain[n]) =>
    (chain[m][Len(chain[n]) + 1] = h => SubSeq(chain[m], 1, Len(chain[n])) = chain[n])

Validate(n, h) ==
  /\ Len(chain[n]) < MaxSeq
  /\ Commits(n, h)
  /\ chain' = [chain EXCEPT ![n] = Append(@, h)]
  /\ validated' = validated \cup {<<n, Len(chain[n]) + 1, h>>}
  /\ UNCHANGED <<pollVars, oracleVars, diffVars>>

CatchUp(n, m) ==
  /\ chain[m] # <<>>
  /\ Len(chain[m]) >= Len(chain[n])
  /\ chain' = [chain EXCEPT ![n] = chain[m]]
  /\ validated' = validated \cup {<<n, Len(chain[m]), chain[m][Len(chain[m])]>>}
  /\ UNCHANGED <<pollVars, oracleVars, diffVars>>

-----------------------------------------------------------------------------
(* NodePoller.poll: server_info without a lock, the result under p.mu.     *)
Replies(n) == {Tip(n)} \cup (IF n \in Failing THEN {{}} ELSE {})

Ask(n) ==
  /\ n \notin polling
  /\ polling' = polling \cup {n}
  /\ \E r \in Replies(n) : reply' = [reply EXCEPT ![n] = r]
  /\ UNCHANGED <<envVars, sampled, tip, history, oracleVars, diffVars>>

Unpruned(h, l) == {e \in h : e[1] # l[1]} \cup {l}
Recorded(h, l) == {e \in Unpruned(h, l) : e[1] + Window > l[1]}

Record(n) ==
  /\ n \in polling
  /\ polling' = polling \ {n}
  /\ tip' = [tip EXCEPT ![n] = reply[n]]
  /\ history' = IF reply[n] = {} THEN history
                ELSE [history EXCEPT ![n] = UNION {Recorded(@, l) : l \in reply[n]}]
  /\ sampled' = sampled \cup {<<n, l[1]>> : l \in reply[n]}
  /\ UNCHANGED <<envVars, reply, oracleVars, diffVars>>

-----------------------------------------------------------------------------
(* DivergenceOracle.tick                                                   *)

ValidatedAtOrAfter(s) == {h \in Hashes : \E n \in Nodes : \E e \in history[n] : e[1] >= s /\ e[2] = h}
HashesAt(s) == {h \in Hashes : \E n \in Nodes : <<s, h>> \in history[n]}

Forked == {s \in Seqs : \E a, b \in HashesAt(s) : a # b}

Idle == current = {}

Tick ==
  /\ todo = {} /\ Idle
  /\ todo' = {[seq |-> s, hashes |-> HashesAt(s)] : s \in Forked}
  /\ UNCHANGED <<envVars, pollVars, current, seen, findings, diffVars>>

SeenHashes(g) == \E k \in seen : k.hashes = g.hashes
NeverSeen(g) == FALSE
AlreadySeen(g) == g \in seen

Drop(g) ==
  /\ g \in todo /\ Idle
  /\ AlreadySeen(g)
  /\ todo' = todo \ {g}
  /\ UNCHANGED <<envVars, pollVars, current, seen, findings, diffVars>>

Mark(g) ==
  /\ g \in todo /\ Idle
  /\ ~AlreadySeen(g)
  /\ seen' = seen \cup {g}
  /\ current' = {g}
  /\ todo' = todo \ {g}
  /\ UNCHANGED <<envVars, pollVars, findings, diffVars>>

Raise(g) ==
  /\ g \in current
  /\ findings' = Append(findings, g)
  /\ current' = {}
  /\ UNCHANGED <<envVars, pollVars, todo, seen, diffVars>>

-----------------------------------------------------------------------------
(* Server.stateDiff: the tips under one lock, the history under the next.  *)

DiffRead(at) ==
  /\ asked = {}
  /\ asked' = {[at |-> at, tips |-> tip]}
  /\ answer' = {}
  /\ UNCHANGED <<envVars, pollVars, oracleVars>>

Votes(tips, s) == Cardinality({n \in Nodes : \E l \in tips[n] : l[1] = s})

\* the sequence most tips are at, the highest of them; 0 if there is no tip
PickSeq(tips) ==
  IF \A n \in Nodes : tips[n] = {} THEN {0}
  ELSE {s \in Seqs : \A t \in Seqs \ {s} : \/ Votes(tips, t) < Votes(tips, s)
                                          \/ /\ Votes(tips, t) = Votes(tips, s)
                                             /\ t < s}

AnyTip(tips, s) ==
  {p \in Nodes \X Hashes :
     \/ \E l \in tips[p[1]] : l[2] = p[2]
     \/ <<s, p[2]>> \in history[p[1]] /\ \A l \in tips[p[1]] : l[1] # s}

HashByNode(tips, s) ==
  {p \in Nodes \X Hashes :
     \/ <<s, p[2]>> \in tips[p[1]]
     \/ <<s, p[2]>> \in history[p[1]] /\ \A l \in tips[p[1]] : l[1] # s}

Diverged(byNode) == \E x, y \in byNode : x[2] # y[2]

\* the lowest forked sequence of the history, with every node that has it
EarliestFork ==
  {[seq |-> s, byNode |-> {p \in Nodes \X Hashes : <<s, p[2]>> \in history[p[1]]}, diverged |-> TRUE] :
     s \in {f \in Forked : \A t \in Forked : f <= t}}

Targets(q) == IF q.at > 0 THEN {q.at} ELSE PickSeq(q.tips)

Scans(q) == q.at = 0 /\ Forked # {}

Responses(q, target) ==
  LET byNode == HashByNode(q.tips, target) IN
  IF ~Diverged(byNode) /\ Scans(q) THEN EarliestFork
  ELSE {[seq |-> target, byNode |-> byNode, diverged |-> Diverged(byNode)]}

DiffAnswer ==
  \E q \in asked : \E target \in Targets(q) :
    /\ asked' = {}
    /\ \E d \in Responses(q, target) : answer' = {d}
    /\ UNCHANGED <<envVars, pollVars, oracleVars>>

-----------------------------------------------------------------------------
Env == \E n \in Nodes : (\E h \in Hashes : Validate(n, h)) \/ (\E m \in Nodes : CatchUp(n, m))

Poll(n) == Ask(n) \/ Record(n)

Oracle == Tick \/ (\E g \in todo : Drop(g) \/ Mark(g)) \/ (\E g \in current : Raise(g))

StateDiff == (\E at \in Queries : DiffRead(at)) \/ DiffAnswer

Next == Env \/ (\E n \in Nodes : Poll(n)) \/ Oracle \/ StateDiff

Spec == Init /\ [][Next]_vars

\* The oracle's ticker keeps firing and its goroutine gets to run; nodes,
\* pollers and requests owe nothing.
FairSpec ==
  /\ Spec
  /\ WF_vars(Tick)
  /\ WF_vars(\E g \in todo : Drop(g) \/ Mark(g))
  /\ WF_vars(\E g \in current : Raise(g))

-----------------------------------------------------------------------------
Answer == [seq : 0 .. MaxSeq, byNode : SUBSET (Nodes \X Hashes), diverged : BOOLEAN]

\* Every variable keeps its type: no observation of a node without a validated
\* ledger gets into the tips or the history (nodes.go:276-281).
TypeOK ==
  /\ chain \in [Nodes -> Seq(Hashes)] /\ \A n \in Nodes : Len(chain[n]) <= MaxSeq
  /\ validated \subseteq Nodes \X Seqs \X Hashes
  /\ polling \subseteq Nodes
  /\ reply \in [Nodes -> SUBSET Ledger]
  /\ sampled \subseteq Nodes \X Seqs
  /\ tip \in [Nodes -> SUBSET Ledger]
  /\ history \in [Nodes -> SUBSET Ledger]
  /\ todo \subseteq Group /\ seen \subseteq Group
  /\ current \subseteq Group /\ \A a, b \in current : a = b
  /\ findings \in Seq(Group)
  /\ asked \subseteq [at : 0 .. MaxSeq, tips : [Nodes -> SUBSET Ledger]]
  /\ answer \subseteq Answer

\* Two different nodes validated a and b at s.
Disagree(s, a, b) ==
  /\ a # b
  /\ \E n, m \in Nodes : n # m /\ <<n, s, a>> \in validated /\ <<m, s, b>> \in validated

\* A finding never invents a fork: every pair of hashes it reports was
\* validated at its sequence by two different nodes, however late the polls
\* were and whatever the nodes did since (divergence_oracle.go:86-163).
NoFalseDivergence ==
  \A i \in DOMAIN findings :
    /\ \A a, b \in findings[i].hashes : a # b => Disagree(findings[i].seq, a, b)
    /\ \E a, b \in findings[i].hashes : a # b

\* The same disagreement is reported once, over all ticks and all the
\* snapshots that still show it (divergence_oracle.go:105-120).
NoDuplicateDivergence ==
  \A i, j \in DOMAIN findings : findings[i] = findings[j] => i = j

SeqsOf(n) == {e[1] : e \in history[n]}

\* The history of a node is exactly what was sampled of it in the last Window
\* ledgers up to its newest sample: nothing in the window is lost, memory
\* stays bounded, and a sequence has one hash (nodes.go:134-155).
HistoryIsWindow ==
  \A n \in Nodes :
    /\ SeqsOf(n) = {s \in Seqs : /\ <<n, s>> \in sampled
                                 /\ \A t \in Seqs : <<n, t>> \in sampled => t < s + Window}
    /\ \A e, f \in history[n] : e[1] = f[1] => e = f

\* A diff that reports a divergence shows, for its sequence, hashes the nodes
\* it names validated, although it reads the tips and the history under two
\* different locks (state.go:46-93).
AnswerSound ==
  \A d \in answer :
    /\ \A x \in d.byNode : <<x[1], d.seq, x[2]>> \in validated
    /\ d.diverged => \E x, y \in d.byNode : Disagree(d.seq, x[2], y[2])

\* A diff that does not ask about a sequence calls the fleet clean only if no
\* sequence of the history is forked at the moment it reads it, so that it
\* never denies a finding whose evidence is still there (state.go:69-81).
CleanIsClean ==
  [][\A q \in asked \ asked' : q.at = 0 /\ Forked # {} => \E d \in answer' : d.diverged]_vars

\* A disagreement of the snapshot is dropped only because it is a finding
\* already, and once fetched it becomes one (divergence_oracle.go:103-161).
DropsOnlyReported ==
  [][\A g \in todo \cup current :
       g \in todo' \cup current' \/ \E i \in DOMAIN findings' : findings'[i] = g]_vars

\* A fork that stays in the history is reported, however often the oracle's
\* snapshots find other forks first (nodes.go:57, "A fork stays detectable
\* while it is within this many ledgers of the fleet tip").
ForkReported ==
  \A s \in Seqs :
    <>[](s \in Forked) => <>(\E i \in DOMAIN findings : findings[i].seq = s)
=============================================================================
