--------------------------- MODULE LivenessMonitor ---------------------------
(***************************************************************************)
(* The liveness monitor of the fuzz sidecar, as the soak starts it: one    *)
(* goroutine that samples every node, raises a consensus_stall when no     *)
(* ledger was validated anywhere for a while and a peer_drop when a node   *)
(* lacks peers, each at most once per cooldown.                            *)
(* Sources: sidecar/internal/oracle/liveness.go and SoakRun in             *)
(* sidecar/internal/fuzz/runners/soak.go.                                  *)
(*                                                                         *)
(* Times are counted in sample intervals.  The times of the last events    *)
(* are zero in the code until there is one: long ago.                      *)
(***************************************************************************)
EXTENDS Naturals

CONSTANTS
  Nodes,              \* the nodes
  LivenessStall,      \* LIVENESS_STALL_THRESHOLD
  LivenessMinPeers,   \* LIVENESS_MIN_PEERS
  DefaultStall,       \* the threshold of a monitor that is given none (60s)
  Cooldown,           \* 30s
  MaxSeq, MaxPeers,   \* bounds: what a node may answer
  MaxLate,            \* bound: intervals from a sample to the next one
  MaxTime             \* bound: the last instant at which a sample is taken

VARIABLES
  wanted,         \* the oracles the scenario enables
  clock,
  highWaterSeq, highWaterTime,
  lastStall, lastPeer,  \* {} or the time of the last event of the kind
  events,         \* <<kind, instant>> of every event
  samples         \* what every sample found: [at, seq, few]

vars == <<wanted, clock, highWaterSeq, highWaterTime, lastStall, lastPeer, events, samples>>

Oracles == {"consensus_liveness", "peer_health"}

Kinds == {"consensus_stall", "peer_drop"}

(* What SoakRun makes of the configuration; a monitor with neither check   *)
(* is not started.                                                         *)
GivenStall == IF "consensus_liveness" \in wanted THEN LivenessStall ELSE 0

GivenPeers == IF "peer_health" \in wanted THEN LivenessMinPeers ELSE 0

Started == GivenStall > 0 \/ GivenPeers > 0

(* Monitor takes a threshold of zero for one that is not given.            *)
StallThreshold == IF GivenStall > 0 THEN GivenStall ELSE DefaultStall

Init ==
  /\ wanted \in SUBSET Oracles
  /\ clock \in 1 .. MaxLate
  /\ highWaterSeq = 0 /\ highWaterTime = 0
  /\ lastStall = {} /\ lastPeer = {}
  /\ events = {}
  /\ samples = {}

-----------------------------------------------------------------------------
(* What server_info says of a node, or that it failed.                     *)
Answer == [err : BOOLEAN, seq : 0 .. MaxSeq, peers : 0 .. MaxPeers]

Validated(a) == IF a.err THEN 0 ELSE a.seq

(* The highest validated ledger of the sample, 0 if there is none.         *)
Highest(s) ==
  {q \in 0 .. MaxSeq :
     /\ q = 0 \/ \E n \in Nodes : Validated(s[n]) = q
     /\ \A n \in Nodes : Validated(s[n]) <= q}

FewPeers(s) == {n \in Nodes : ~s[n].err /\ s[n].peers < GivenPeers}

Elapsed(last, d) == \A t \in last : clock >= t + d

HighWaterAnyChange(seq) ==  \* mutant: every change counts as an advance
  IF seq # highWaterSeq
    THEN highWaterSeq' = seq /\ highWaterTime' = clock
    ELSE UNCHANGED <<highWaterSeq, highWaterTime>>

HighWaterTimeKept(seq) ==  \* mutant: the time of the advance is not taken
  /\ highWaterSeq' = IF seq > highWaterSeq THEN seq ELSE highWaterSeq
  /\ UNCHANGED highWaterTime

HighWater(seq) ==
  IF seq > highWaterSeq
    THEN highWaterSeq' = seq /\ highWaterTime' = clock
    ELSE UNCHANGED <<highWaterSeq, highWaterTime>>

(* A sample is recorded, and the ticker fires again later.                 *)
Sampled(seq, few) ==
  /\ HighWater(seq)
  /\ samples' = samples \union {[at |-> clock, seq |-> seq, few |-> few]}
  /\ \E d \in 1 .. MaxLate : clock' = clock + d
  /\ UNCHANGED wanted

(* No advance for the threshold, and the last event is long enough ago.    *)
StallDue(seq) ==
  /\ seq <= highWaterSeq
  /\ clock >= highWaterTime + StallThreshold
  /\ Elapsed(lastStall, Cooldown)

PeersDueAfterStall(few) ==  \* mutant: one cooldown for both kinds
  GivenPeers > 0 /\ few /\ Elapsed(lastPeer \union lastStall, Cooldown)

PeersDue(few) == GivenPeers > 0 /\ few /\ Elapsed(lastPeer, Cooldown)

(* A stall is raised, and the peers are not looked at in this round.       *)
RaiseStall(seq, few) ==
  /\ StallDue(seq)
  /\ Sampled(seq, few)
  /\ lastStall' = {clock}
  /\ events' = events \union {<<"consensus_stall", clock>>}
  /\ UNCHANGED lastPeer

RaisePeerDrop(seq, few) ==
  /\ ~StallDue(seq) /\ PeersDue(few)
  /\ Sampled(seq, few)
  /\ lastPeer' = {clock}
  /\ events' = events \union {<<"peer_drop", clock>>}
  /\ UNCHANGED lastStall

Quiet(seq, few) ==
  /\ ~StallDue(seq) /\ ~PeersDue(few)
  /\ Sampled(seq, few)
  /\ UNCHANGED <<lastStall, lastPeer, events>>

Tick(s) ==
  LET few == FewPeers(s) # {} IN
  \E seq \in Highest(s) : RaiseStall(seq, few) \/ RaisePeerDrop(seq, few) \/ Quiet(seq, few)

Next ==
  /\ Started /\ clock <= MaxTime
  /\ \E s \in [Nodes -> Answer] : Tick(s)

Spec == Init /\ [][Next]_vars

-----------------------------------------------------------------------------
TypeOK ==
  /\ wanted \subseteq Oracles
  /\ clock \in Nat /\ highWaterSeq \in Nat /\ highWaterTime \in 0 .. clock
  /\ lastStall \subseteq 0 .. clock /\ \A t, u \in lastStall : t = u
  /\ lastPeer \subseteq 0 .. clock /\ \A t, u \in lastPeer : t = u
  /\ events \subseteq Kinds \X Nat /\ \A e \in events : e[2] < clock
  /\ samples \subseteq [at : Nat, seq : Nat, few : BOOLEAN] /\ \A s \in samples : s.at < clock

(* At time t no node had validated a ledger beyond all ledgers seen before *)
(* for the threshold: every sample of that time is matched by an older one. *)
StalledUntil(t) ==
  /\ t >= StallThreshold
  /\ \A s \in samples : s.at <= t /\ s.at + StallThreshold > t /\ s.seq > 0 =>
       \E o \in samples : o.at + StallThreshold <= t /\ o.seq >= s.seq

(* A stall is never raised while some node advances, however many nodes    *)
(* fail to answer, fall behind or come back with old ledgers in between.   *)
StallIsTrue == \A e \in events : e[1] = "consensus_stall" => StalledUntil(e[2])

(* A network that validates nothing for the threshold is reported, and     *)
(* goes on being reported at least once per cooldown.                      *)
StallIsSeen ==
  \A s \in samples : StalledUntil(s.at) =>
    \E e \in events : e[1] = "consensus_stall" /\ e[2] <= s.at /\ s.at < e[2] + Cooldown

(* Two events of a kind are a cooldown apart.                              *)
Debounced ==
  \A e, f \in events : e[1] = f[1] /\ e[2] < f[2] => f[2] >= e[2] + Cooldown

(* A node without peers is reported within the cooldown, unless a stall is *)
(* raised at the same moment: a stall never silences the peer check for    *)
(* longer than its own round.                                              *)
PeerDropIsSeen ==
  \A s \in samples : s.few /\ GivenPeers > 0 =>
    \/ \E e \in events : e[1] = "peer_drop" /\ e[2] <= s.at /\ s.at < e[2] + Cooldown
    \/ <<"consensus_stall", s.at>> \in events
=============================================================================
