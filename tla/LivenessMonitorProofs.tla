----------------------- MODULE LivenessMonitorProofs -----------------------
(***************************************************************************)
(* The liveness monitor, for every set of nodes, every threshold and       *)
(* cooldown, and every delay of its samples.                               *)
(*                                                                         *)
(* The monitor keeps a high-water mark and the times of its last events.   *)
(* The invariant says what they mean for all samples and events so far:    *)
(* the mark is the first of the highest samples (Mark), and the last time  *)
(* of a kind is the time of the last event of the kind (Latest).           *)
(***************************************************************************)
EXTENDS LivenessMonitor, TLAPS

(* The periods are numbers, and those in force are not zero.               *)
Periods ==
  /\ LivenessStall \in Nat /\ LivenessMinPeers \in Nat
  /\ DefaultStall \in Nat \ {0} /\ Cooldown \in Nat \ {0}
  /\ MaxLate \in Nat /\ MaxSeq \in Nat

Sample == [at : Nat, seq : Nat, few : BOOLEAN]

Mark ==
  /\ \A s \in samples : s.seq <= highWaterSeq
  /\ \A s \in samples : s.at < highWaterTime => s.seq < highWaterSeq
  /\ highWaterSeq = 0 => highWaterTime = 0
  /\ highWaterSeq > 0 => \E s \in samples : s.at = highWaterTime /\ s.seq = highWaterSeq

(* last is the latest of the events of a kind.                             *)
LatestOf(last, kind) ==
  /\ \A t \in last : <<kind, t>> \in events
  /\ \A u \in Nat : <<kind, u>> \in events => \E t \in last : u <= t

Latest == LatestOf(lastStall, "consensus_stall") /\ LatestOf(lastPeer, "peer_drop")

(* StalledUntil, of any samples.                                           *)
Until(S, d, t) ==
  /\ t >= d
  /\ \A s \in S : s.at <= t /\ s.at + d > t /\ s.seq > 0 =>
       \E o \in S : o.at + d <= t /\ o.seq >= s.seq

MonitorInv == TypeOK /\ Mark /\ Latest

-----------------------------------------------------------------------------
LEMMA ThresholdType ==
  ASSUME Periods
  PROVE  StallThreshold \in Nat /\ StallThreshold > 0 /\ GivenPeers \in Nat
  BY DEF Periods, StallThreshold, GivenStall, GivenPeers

(* What a tick does, given the highest ledger and whether peers lack.      *)
StepOf(seq, few) == RaiseStall(seq, few) \/ RaisePeerDrop(seq, few) \/ Quiet(seq, few)

LEMMA TickCases ==
  ASSUME Periods, Next
  PROVE  \E seq \in Nat, few \in BOOLEAN : StepOf(seq, few)
<1>1. PICK s \in [Nodes -> Answer] : Tick(s)
  BY DEF Next
<1>2. PICK seq \in Highest(s) : StepOf(seq, FewPeers(s) # {})
  BY <1>1 DEF Tick, StepOf
<1>3. seq \in Nat
  BY DEF Highest, Periods
<1>4. QED
  BY <1>2, <1>3

(* What every tick has in common.                                          *)
LEMMA TickGrows ==
  ASSUME Periods, TypeOK, NEW seq \in Nat, NEW few \in BOOLEAN, StepOf(seq, few)
  PROVE  /\ clock \in Nat /\ clock' \in Nat /\ clock < clock' /\ wanted' = wanted
         /\ samples' = samples \union {[at |-> clock, seq |-> seq, few |-> few]}
         /\ IF seq > highWaterSeq
              THEN highWaterSeq' = seq /\ highWaterTime' = clock
              ELSE highWaterSeq' = highWaterSeq /\ highWaterTime' = highWaterTime
         /\ events \subseteq events'
<1>1. Sampled(seq, few) /\ events \subseteq events'
  BY DEF StepOf, RaiseStall, RaisePeerDrop, Quiet
<1>2. clock \in Nat
  BY DEF TypeOK
<1>3. PICK d \in 1 .. MaxLate : clock' = clock + d
  BY <1>1 DEF Sampled
<1>4. clock' \in Nat /\ clock < clock'
  BY <1>2, <1>3 DEF Periods
<1>5. QED
  BY <1>1, <1>2, <1>4 DEF Sampled, HighWater

(* An event and the time of it go together; the other kind is left alone.  *)
LEMMA EventCases ==
  ASSUME TypeOK, NEW seq \in Nat, NEW few \in BOOLEAN, StepOf(seq, few)
  PROVE  \/ /\ StallDue(seq)
            /\ lastStall' = {clock} /\ lastPeer' = lastPeer
            /\ events' = events \union {<<"consensus_stall", clock>>}
         \/ /\ ~StallDue(seq) /\ PeersDue(few)
            /\ lastPeer' = {clock} /\ lastStall' = lastStall
            /\ events' = events \union {<<"peer_drop", clock>>}
         \/ /\ ~StallDue(seq) /\ ~PeersDue(few)
            /\ lastStall' = lastStall /\ lastPeer' = lastPeer /\ events' = events
  BY DEF StepOf, RaiseStall, RaisePeerDrop, Quiet

LEMMA InitInv == Periods /\ Init => MonitorInv
<1> SUFFICES ASSUME Periods, Init PROVE MonitorInv
  OBVIOUS
<1>1. clock \in Nat
  BY DEF Init, Periods
<1>2. TypeOK
  BY <1>1 DEF Init, TypeOK
<1>3. Mark /\ Latest
  BY DEF Init, Mark, Latest, LatestOf
<1>4. QED
  BY <1>2, <1>3 DEF MonitorInv

LEMMA TypeStep ==
  ASSUME Periods, TypeOK, NEW seq \in Nat, NEW few \in BOOLEAN, StepOf(seq, few)
  PROVE  TypeOK'
<1>1. wanted' \subseteq Oracles /\ clock' \in Nat /\ clock \in Nat /\ clock < clock'
  BY TickGrows DEF TypeOK
<1>2. highWaterSeq' \in Nat /\ highWaterTime' \in 0 .. clock'
  <2>1. highWaterSeq \in Nat /\ highWaterTime \in 0 .. clock
    BY DEF TypeOK
  <2>2. QED
    BY <1>1, <2>1, TickGrows
<1>3. /\ lastStall' \subseteq 0 .. clock' /\ \A t, u \in lastStall' : t = u
      /\ lastPeer' \subseteq 0 .. clock' /\ \A t, u \in lastPeer' : t = u
  <2>1. /\ lastStall \subseteq 0 .. clock /\ \A t, u \in lastStall : t = u
        /\ lastPeer \subseteq 0 .. clock /\ \A t, u \in lastPeer : t = u
    BY DEF TypeOK
  <2>2. 0 .. clock \subseteq 0 .. clock' /\ clock \in 0 .. clock'
    BY <1>1
  <2>3. /\ lastStall' = {clock} \/ lastStall' = lastStall
        /\ lastPeer' = {clock} \/ lastPeer' = lastPeer
    BY EventCases
  <2>4. QED
    BY <2>1, <2>2, <2>3
<1>4. events' \subseteq Kinds \X Nat /\ \A e \in events' : e[2] < clock'
  <2>1. events \subseteq Kinds \X Nat /\ \A e \in events : e[2] < clock
    BY DEF TypeOK
  <2>2. events' \subseteq events \union {<<"consensus_stall", clock>>, <<"peer_drop", clock>>}
    BY EventCases
  <2>3. {<<"consensus_stall", clock>>, <<"peer_drop", clock>>} \subseteq Kinds \X Nat
    BY <1>1 DEF Kinds
  <2>4. ASSUME NEW e \in events' PROVE e[2] < clock'
    <3>1. CASE e \in events
      <4>1. e[2] \in Nat /\ e[2] < clock
        BY <2>1, <3>1
      <4>2. QED
        BY <1>1, <4>1
    <3>2. CASE e \in {<<"consensus_stall", clock>>, <<"peer_drop", clock>>}
      BY <1>1, <3>2
    <3>3. QED
      BY <2>2, <3>1, <3>2
  <2>5. QED
    BY <2>1, <2>2, <2>3, <2>4
<1>5. samples' \subseteq Sample /\ \A s \in samples' : s.at < clock'
  <2>1. samples \subseteq Sample /\ \A s \in samples : s.at < clock
    BY DEF TypeOK, Sample
  <2>2. samples' = samples \union {[at |-> clock, seq |-> seq, few |-> few]}
    BY TickGrows
  <2>3. [at |-> clock, seq |-> seq, few |-> few] \in Sample
    BY <1>1 DEF Sample
  <2>4. ASSUME NEW s \in samples' PROVE s.at < clock'
    <3>1. CASE s \in samples
      <4>1. s.at \in Nat /\ s.at < clock
        BY <2>1, <3>1 DEF Sample
      <4>2. QED
        BY <1>1, <4>1
    <3>2. CASE s = [at |-> clock, seq |-> seq, few |-> few]
      BY <1>1, <3>2
    <3>3. QED
      BY <2>2, <3>1, <3>2
  <2>5. QED
    BY <2>1, <2>2, <2>3, <2>4
<1>6. QED
  BY <1>1, <1>2, <1>3, <1>4, <1>5 DEF TypeOK, Sample

LEMMA SampleType ==
  ASSUME TypeOK
  PROVE  /\ clock \in Nat /\ highWaterSeq \in Nat /\ highWaterTime \in Nat /\ highWaterTime <= clock
         /\ \A s \in samples : s.at \in Nat /\ s.seq \in Nat /\ s.few \in BOOLEAN /\ s.at < clock
         /\ \A e \in events : e \in Kinds \X Nat /\ e[2] \in Nat /\ e[2] < clock
<1>1. samples \subseteq Sample /\ \A s \in samples : s.at < clock
  BY DEF TypeOK, Sample
<1>2. \A s \in samples : s.at \in Nat /\ s.seq \in Nat /\ s.few \in BOOLEAN
  BY <1>1 DEF Sample
<1>3. \A e \in events : e \in Kinds \X Nat /\ e[2] \in Nat /\ e[2] < clock
  BY DEF TypeOK
<1>4. clock \in Nat /\ highWaterSeq \in Nat /\ highWaterTime \in Nat /\ highWaterTime <= clock
  BY DEF TypeOK
<1>5. QED
  BY <1>1, <1>2, <1>3, <1>4

(* A sample is an old one or the new one.                                  *)
LEMMA NewSample ==
  ASSUME Periods, TypeOK, NEW seq \in Nat, NEW few \in BOOLEAN, StepOf(seq, few)
  PROVE  /\ samples \subseteq samples'
         /\ \A s \in samples' : s \in samples \/ (s.at = clock /\ s.seq = seq /\ s.few = few)
         /\ \E s \in samples' : s.at = clock /\ s.seq = seq
<1> DEFINE new == [at |-> clock, seq |-> seq, few |-> few]
<1>1. samples' = samples \union {new}
  BY TickGrows
<1>2. new.at = clock /\ new.seq = seq /\ new.few = few
  OBVIOUS
<1>3. QED
  BY <1>1, <1>2

LEMMA MarkStep ==
  ASSUME Periods, TypeOK, Mark, NEW seq \in Nat, NEW few \in BOOLEAN, StepOf(seq, few)
  PROVE  Mark'
<1>1. /\ clock \in Nat /\ highWaterSeq \in Nat /\ highWaterTime \in Nat /\ highWaterTime <= clock
      /\ \A s \in samples : s.at \in Nat /\ s.seq \in Nat /\ s.at < clock
  BY SampleType
<1>2. /\ samples \subseteq samples'
      /\ \A s \in samples' : s \in samples \/ (s.at = clock /\ s.seq = seq)
      /\ \E s \in samples' : s.at = clock /\ s.seq = seq
  BY NewSample
<1>3. /\ \A s \in samples : s.seq <= highWaterSeq
      /\ \A s \in samples : s.at < highWaterTime => s.seq < highWaterSeq
      /\ highWaterSeq = 0 => highWaterTime = 0
      /\ highWaterSeq > 0 => \E s \in samples : s.at = highWaterTime /\ s.seq = highWaterSeq
  BY DEF Mark
<1>4. CASE seq > highWaterSeq
  <2>1. highWaterSeq' = seq /\ highWaterTime' = clock
    BY <1>4, TickGrows
  <2>2. \A s \in samples' : s.seq <= seq
    BY <1>1, <1>2, <1>3, <1>4
  <2>3. \A s \in samples' : s.at < clock => s.seq < seq
    BY <1>1, <1>2, <1>3, <1>4
  <2>4. QED
    BY <1>1, <1>2, <1>4, <2>1, <2>2, <2>3 DEF Mark
<1>5. CASE ~(seq > highWaterSeq)
  <2>1. highWaterSeq' = highWaterSeq /\ highWaterTime' = highWaterTime
    BY <1>5, TickGrows
  <2>2. \A s \in samples' : s.seq <= highWaterSeq
    BY <1>1, <1>2, <1>3, <1>5
  <2>3. \A s \in samples' : s.at < highWaterTime => s.seq < highWaterSeq
    BY <1>1, <1>2, <1>3
  <2>4. highWaterSeq > 0 => \E s \in samples' : s.at = highWaterTime /\ s.seq = highWaterSeq
    BY <1>2, <1>3
  <2>5. QED
    BY <1>3, <2>1, <2>2, <2>3, <2>4 DEF Mark
<1>6. QED
  BY <1>4, <1>5

LEMMA LatestStep ==
  ASSUME Periods, TypeOK, Latest, NEW seq \in Nat, NEW few \in BOOLEAN, StepOf(seq, few)
  PROVE  Latest'
<1>1. clock \in Nat /\ \A k : \A u \in Nat : <<k, u>> \in events => u < clock
  <2>1. ASSUME NEW k, NEW u \in Nat, <<k, u>> \in events PROVE u < clock
    <3>1. <<k, u>>[2] < clock
      BY <2>1, SampleType
    <3>2. QED
      BY <3>1
  <2>2. QED
    BY <2>1, SampleType
<1>2. /\ \A t \in lastStall : <<"consensus_stall", t>> \in events
      /\ \A u \in Nat : <<"consensus_stall", u>> \in events => \E t \in lastStall : u <= t
      /\ \A t \in lastPeer : <<"peer_drop", t>> \in events
      /\ \A u \in Nat : <<"peer_drop", u>> \in events => \E t \in lastPeer : u <= t
  BY DEF Latest, LatestOf
<1>3. CASE /\ lastStall' = {clock} /\ lastPeer' = lastPeer
           /\ events' = events \union {<<"consensus_stall", clock>>}
  <2>1. \A t \in lastStall' : <<"consensus_stall", t>> \in events'
    BY <1>3
  <2>2. \A u \in Nat : <<"consensus_stall", u>> \in events' => u <= clock
    BY <1>1, <1>3
  <2>3. \A u : <<"peer_drop", u>> \in events' <=> <<"peer_drop", u>> \in events
    BY <1>3
  <2>4. QED
    BY <1>2, <1>3, <2>1, <2>2, <2>3 DEF Latest, LatestOf
<1>4. CASE /\ lastPeer' = {clock} /\ lastStall' = lastStall
           /\ events' = events \union {<<"peer_drop", clock>>}
  <2>1. \A t \in lastPeer' : <<"peer_drop", t>> \in events'
    BY <1>4
  <2>2. \A u \in Nat : <<"peer_drop", u>> \in events' => u <= clock
    BY <1>1, <1>4
  <2>3. \A u : <<"consensus_stall", u>> \in events' <=> <<"consensus_stall", u>> \in events
    BY <1>4
  <2>4. QED
    BY <1>2, <1>4, <2>1, <2>2, <2>3 DEF Latest, LatestOf
<1>5. CASE lastStall' = lastStall /\ lastPeer' = lastPeer /\ events' = events
  BY <1>2, <1>5 DEF Latest, LatestOf
<1>6. QED
  BY <1>3, <1>4, <1>5, EventCases

-----------------------------------------------------------------------------
(* The new sample does not change what was stalled until an earlier time.  *)
LEMMA OldUntil ==
  ASSUME Periods, TypeOK, NEW seq \in Nat, NEW few \in BOOLEAN, StepOf(seq, few),
         NEW d \in Nat, NEW t \in Nat, t < clock
  PROVE  Until(samples', d, t) <=> Until(samples, d, t)
<1>1. clock \in Nat
  BY SampleType
<1>2. /\ samples \subseteq samples'
      /\ \A s \in samples' : s.at <= t => s \in samples
      /\ \A s \in samples' : s.at + d <= t => s \in samples
  BY <1>1, NewSample
<1>3. QED
  BY <1>2 DEF Until

(* Where the mark is old enough, there is a stall, and only there.         *)
LEMMA MarkTells ==
  ASSUME Periods, TypeOK, Mark, NEW seq \in Nat, NEW few \in BOOLEAN, StepOf(seq, few),
         NEW d \in Nat, d > 0
  PROVE  Until(samples', d, clock) <=> seq <= highWaterSeq /\ clock >= highWaterTime + d
<1>1. /\ clock \in Nat /\ highWaterSeq \in Nat /\ highWaterTime \in Nat
      /\ \A s \in samples : s.at \in Nat /\ s.seq \in Nat /\ s.at < clock
  BY SampleType
<1>2. /\ samples \subseteq samples'
      /\ \A s \in samples' : s \in samples \/ (s.at = clock /\ s.seq = seq)
      /\ \E s \in samples' : s.at = clock /\ s.seq = seq
  BY NewSample
<1>3. /\ \A s \in samples : s.seq <= highWaterSeq
      /\ \A s \in samples : s.at < highWaterTime => s.seq < highWaterSeq
      /\ highWaterSeq = 0 => highWaterTime = 0
      /\ highWaterSeq > 0 => \E s \in samples : s.at = highWaterTime /\ s.seq = highWaterSeq
  BY DEF Mark
<1>4. ASSUME seq <= highWaterSeq, clock >= highWaterTime + d PROVE Until(samples', d, clock)
  <2>1. clock >= d
    BY <1>1, <1>4
  <2>2. ASSUME NEW s \in samples', s.seq > 0
        PROVE  \E o \in samples' : o.at + d <= clock /\ o.seq >= s.seq
    <3>1. s.seq \in Nat /\ s.seq <= highWaterSeq
      BY <1>1, <1>2, <1>3, <1>4
    <3>2. highWaterSeq > 0
      BY <1>1, <2>2, <3>1
    <3>3. PICK o \in samples : o.at = highWaterTime /\ o.seq = highWaterSeq
      BY <1>3, <3>2
    <3>4. QED
      BY <1>2, <1>4, <3>1, <3>3
  <2>3. QED
    BY <2>1, <2>2 DEF Until
<1>5. ASSUME Until(samples', d, clock) PROVE seq <= highWaterSeq /\ clock >= highWaterTime + d
  <2>1. \A o \in samples' : o.at + d <= clock => o \in samples
    BY <1>1, <1>2
  <2>2. \A s \in samples' : s.at <= clock /\ s.at + d > clock /\ s.seq > 0 =>
          \E o \in samples : o.at + d <= clock /\ o.seq >= s.seq
    BY <1>5, <2>1 DEF Until
  <2>3. seq <= highWaterSeq
    <3>1. SUFFICES ASSUME seq > highWaterSeq PROVE FALSE
      BY <1>1
    <3>2. PICK s \in samples' : s.at = clock /\ s.seq = seq
      BY <1>2
    <3>3. PICK o \in samples : o.seq >= seq
      BY <1>1, <2>2, <3>1, <3>2
    <3>4. QED
      BY <1>1, <1>3, <3>1, <3>3
  <2>4. clock >= highWaterTime + d
    <3>1. SUFFICES ASSUME ~(clock >= highWaterTime + d) PROVE FALSE
      OBVIOUS
    <3>2. CASE highWaterSeq = 0
      BY <1>1, <1>3, <1>5, <3>1, <3>2 DEF Until
    <3>3. CASE highWaterSeq > 0
      <4>1. PICK s \in samples : s.at = highWaterTime /\ s.seq = highWaterSeq
        BY <1>3, <3>3
      <4>2. PICK o \in samples : o.at + d <= clock /\ o.seq >= highWaterSeq
        BY <1>1, <1>2, <2>2, <3>1, <3>3, <4>1
      <4>3. o.at < highWaterTime
        BY <1>1, <3>1, <4>2
      <4>4. QED
        BY <1>1, <1>3, <4>2, <4>3
    <3>4. QED
      BY <1>1, <3>2, <3>3
  <2>5. QED
    BY <2>3, <2>4
<1>6. QED
  BY <1>4, <1>5

(* The thresholds in force do not change.                                  *)
LEMMA SameThresholds ==
  ASSUME Periods, TypeOK, NEW seq \in Nat, NEW few \in BOOLEAN, StepOf(seq, few)
  PROVE  StallThreshold' = StallThreshold /\ GivenPeers' = GivenPeers
<1>1. wanted' = wanted
  BY TickGrows
<1>2. QED
  BY <1>1 DEF StallThreshold, GivenStall, GivenPeers

LEMMA TrueStep ==
  ASSUME Periods, TypeOK, Mark, StallIsTrue,
         NEW seq \in Nat, NEW few \in BOOLEAN, StepOf(seq, few)
  PROVE  StallIsTrue'
<1> DEFINE d == StallThreshold
<1>1. d \in Nat /\ d > 0 /\ d' = d
  BY ThresholdType, SameThresholds
<1> HIDE DEF d
<1>2. \A e \in events : e[1] = "consensus_stall" => Until(samples, d, e[2])
  BY DEF StallIsTrue, StalledUntil, Until, d
<1>3. ASSUME NEW e \in events', e[1] = "consensus_stall" PROVE Until(samples', d, e[2])
  <2>1. CASE e \in events
    <3>1. e[2] \in Nat /\ e[2] < clock
      BY <2>1, SampleType
    <3>2. QED
      BY <1>1, <1>2, <1>3, <2>1, <3>1, OldUntil
  <2>2. CASE e \notin events
    <3>1. StallDue(seq) /\ e = <<"consensus_stall", clock>>
      BY <1>3, <2>2, EventCases
    <3>2. seq <= highWaterSeq /\ clock >= highWaterTime + d
      BY <3>1 DEF StallDue, d
    <3>3. Until(samples', d, clock)
      BY <1>1, <3>2, MarkTells
    <3>4. e[2] = clock
      BY <3>1
    <3>5. QED
      BY <3>3, <3>4
  <2>3. QED
    BY <2>1, <2>2
<1>4. \A e \in events' : e[1] = "consensus_stall" => Until(samples', d', e[2])
  BY <1>1, <1>3
<1>5. QED
  BY <1>4 DEF StallIsTrue, StalledUntil, Until, d

LEMMA SeenStep ==
  ASSUME Periods, TypeOK, Mark, Latest, StallIsSeen,
         NEW seq \in Nat, NEW few \in BOOLEAN, StepOf(seq, few)
  PROVE  StallIsSeen'
<1> DEFINE d == StallThreshold
           Near(t) == \E e \in events' : e[1] = "consensus_stall" /\ e[2] <= t /\ t < e[2] + Cooldown
<1>1. d \in Nat /\ d > 0 /\ d' = d /\ Cooldown \in Nat /\ Cooldown > 0 /\ clock \in Nat
  BY ThresholdType, SameThresholds, SampleType DEF Periods
<1> HIDE DEF d
<1>2. \A s \in samples : Until(samples, d, s.at) => Near(s.at)
  <2>1. events \subseteq events'
    BY TickGrows
  <2>2. QED
    BY <2>1 DEF StallIsSeen, StalledUntil, Until, d
<1>3. ASSUME Until(samples', d, clock) PROVE Near(clock)
  <2>1. seq <= highWaterSeq /\ clock >= highWaterTime + d
    BY <1>1, <1>3, MarkTells
  <2>2. CASE Elapsed(lastStall, Cooldown)
    <3>1. StallDue(seq)
      BY <2>1, <2>2 DEF StallDue, d
    <3>2. <<"consensus_stall", clock>> \in events'
      BY <3>1, EventCases
    <3>3. <<"consensus_stall", clock>>[1] = "consensus_stall" /\ <<"consensus_stall", clock>>[2] = clock
      OBVIOUS
    <3>4. QED
      BY <1>1, <3>2, <3>3
  <2>3. CASE ~Elapsed(lastStall, Cooldown)
    <3>1. PICK t \in lastStall : ~(clock >= t + Cooldown)
      BY <2>3 DEF Elapsed
    <3>2. t \in Nat /\ t <= clock
      <4>1. lastStall \subseteq 0 .. clock
        BY DEF TypeOK
      <4>2. QED
        BY <1>1, <3>1, <4>1
    <3>3. <<"consensus_stall", t>> \in events'
      BY <3>1, TickGrows DEF Latest, LatestOf
    <3>4. <<"consensus_stall", t>>[1] = "consensus_stall" /\ <<"consensus_stall", t>>[2] = t
      OBVIOUS
    <3>5. clock < t + Cooldown
      BY <1>1, <3>1, <3>2
    <3>6. QED
      BY <3>2, <3>3, <3>4, <3>5
  <2>4. QED
    BY <2>2, <2>3
<1>4. ASSUME NEW s \in samples', Until(samples', d, s.at) PROVE Near(s.at)
  <2>1. CASE s \in samples
    <3>1. s.at \in Nat /\ s.at < clock
      BY <2>1, SampleType
    <3>2. Until(samples, d, s.at)
      BY <1>1, <1>4, <3>1, OldUntil
    <3>3. QED
      BY <1>2, <2>1, <3>2
  <2>2. CASE s \notin samples
    <3>1. s.at = clock
      BY <2>2, NewSample
    <3>2. QED
      BY <1>3, <1>4, <3>1
  <2>3. QED
    BY <2>1, <2>2
<1>5. \A s \in samples' : Until(samples', d', s.at) => Near(s.at)
  BY <1>1, <1>4
<1>6. QED
  BY <1>5 DEF StallIsSeen, StalledUntil, Until, d

(* No event of a kind that is due lies within the last cooldown.           *)
LEMMA DueIsApart ==
  ASSUME Periods, TypeOK, NEW last, NEW kind, last \subseteq 0 .. clock,
         LatestOf(last, kind), Elapsed(last, Cooldown), NEW u \in Nat, <<kind, u>> \in events
  PROVE  clock >= u + Cooldown
<1>1. PICK t \in last : u <= t
  BY DEF LatestOf
<1>2. clock >= t + Cooldown
  BY <1>1 DEF Elapsed
<1>3. t \in Nat /\ Cooldown \in Nat /\ clock \in Nat
  BY <1>1, SampleType DEF Periods
<1>4. QED
  BY <1>1, <1>2, <1>3

LEMMA ApartStep ==
  ASSUME Periods, TypeOK, Latest, Debounced,
         NEW seq \in Nat, NEW few \in BOOLEAN, StepOf(seq, few)
  PROVE  Debounced'
<1>1. SUFFICES ASSUME NEW e \in events', NEW f \in events', e[1] = f[1], e[2] < f[2]
               PROVE  f[2] >= e[2] + Cooldown
  BY DEF Debounced
<1>2. \A g \in events' : g \in events \/ (g[2] = clock /\
         \/ g[1] = "consensus_stall" /\ StallDue(seq)
         \/ g[1] = "peer_drop" /\ PeersDue(few))
  <2>1. \A g \in events' : g \in events \/ (g = <<"consensus_stall", clock>> /\ StallDue(seq))
                                        \/ (g = <<"peer_drop", clock>> /\ PeersDue(few))
    BY EventCases
  <2>2. QED
    BY <2>1
<1>3. clock \in Nat /\ \A g \in events : g[2] \in Nat /\ g[2] < clock /\ g = <<g[1], g[2]>>
  <2>1. \A g \in events : g \in Kinds \X Nat /\ g[2] \in Nat /\ g[2] < clock
    BY SampleType
  <2>2. \A g \in Kinds \X Nat : g = <<g[1], g[2]>>
    OBVIOUS
  <2>3. QED
    BY <2>1, <2>2, SampleType
<1>4. e \in events
  BY <1>1, <1>2, <1>3
<1>5. CASE f \in events
  BY <1>1, <1>4, <1>5 DEF Debounced
<1>6. CASE f \notin events
  <2>1. lastStall \subseteq 0 .. clock /\ lastPeer \subseteq 0 .. clock
    BY DEF TypeOK
  <2>2. CASE f[1] = "consensus_stall" /\ StallDue(seq)
    <3>1. Elapsed(lastStall, Cooldown) /\ LatestOf(lastStall, "consensus_stall")
      BY <2>2 DEF StallDue, Latest
    <3>2. <<"consensus_stall", e[2]>> \in events /\ e[2] \in Nat
      BY <1>1, <1>3, <1>4, <2>2
    <3>3. clock >= e[2] + Cooldown
      BY <2>1, <3>1, <3>2, DueIsApart
    <3>4. QED
      BY <1>2, <1>6, <3>3
  <2>3. CASE f[1] = "peer_drop" /\ PeersDue(few)
    <3>1. Elapsed(lastPeer, Cooldown) /\ LatestOf(lastPeer, "peer_drop")
      BY <2>3 DEF PeersDue, Latest
    <3>2. <<"peer_drop", e[2]>> \in events /\ e[2] \in Nat
      BY <1>1, <1>3, <1>4, <2>3
    <3>3. clock >= e[2] + Cooldown
      BY <2>1, <3>1, <3>2, DueIsApart
    <3>4. QED
      BY <1>2, <1>6, <3>3
  <2>4. QED
    BY <1>2, <1>6, <2>2, <2>3
<1>7. QED
  BY <1>5, <1>6

LEMMA PeersStep ==
  ASSUME Periods, TypeOK, Latest, PeerDropIsSeen,
         NEW seq \in Nat, NEW few \in BOOLEAN, StepOf(seq, few)
  PROVE  PeerDropIsSeen'
<1> DEFINE Near(t) ==
             \/ \E e \in events' : e[1] = "peer_drop" /\ e[2] <= t /\ t < e[2] + Cooldown
             \/ <<"consensus_stall", t>> \in events'
<1>1. /\ GivenPeers' = GivenPeers /\ events \subseteq events'
      /\ Cooldown \in Nat /\ Cooldown > 0 /\ clock \in Nat
  BY SameThresholds, TickGrows, SampleType DEF Periods
<1>2. \A s \in samples : s.few /\ GivenPeers > 0 => Near(s.at)
  BY <1>1 DEF PeerDropIsSeen
<1>3. ASSUME few, GivenPeers > 0 PROVE Near(clock)
  <2>1. CASE StallDue(seq)
    BY <2>1, EventCases
  <2>2. CASE ~StallDue(seq) /\ PeersDue(few)
    <3>1. <<"peer_drop", clock>> \in events'
      BY <2>2, EventCases
    <3>2. <<"peer_drop", clock>>[1] = "peer_drop" /\ <<"peer_drop", clock>>[2] = clock
      OBVIOUS
    <3>3. QED
      BY <1>1, <3>1, <3>2
  <2>3. CASE ~PeersDue(few)
    <3>1. PICK t \in lastPeer : ~(clock >= t + Cooldown)
      BY <1>3, <2>3 DEF PeersDue, Elapsed
    <3>2. t \in Nat /\ t <= clock
      <4>1. lastPeer \subseteq 0 .. clock
        BY DEF TypeOK
      <4>2. QED
        BY <1>1, <3>1, <4>1
    <3>3. <<"peer_drop", t>> \in events'
      BY <1>1, <3>1 DEF Latest, LatestOf
    <3>4. <<"peer_drop", t>>[1] = "peer_drop" /\ <<"peer_drop", t>>[2] = t
      OBVIOUS
    <3>5. clock < t + Cooldown
      BY <1>1, <3>1, <3>2
    <3>6. QED
      BY <3>2, <3>3, <3>4, <3>5
  <2>4. QED
    BY <2>1, <2>2, <2>3
<1>4. ASSUME NEW s \in samples', s.few, GivenPeers > 0 PROVE Near(s.at)
  <2>1. CASE s \in samples
    BY <1>2, <1>4, <2>1
  <2>2. CASE s \notin samples
    <3>1. s.at = clock /\ s.few = few
      BY <2>2, NewSample
    <3>2. QED
      BY <1>3, <1>4, <3>1
  <2>3. QED
    BY <2>1, <2>2
<1>5. QED
  BY <1>1, <1>4 DEF PeerDropIsSeen

-----------------------------------------------------------------------------
LEMMA InvStep ==
  ASSUME Periods, MonitorInv, NEW seq \in Nat, NEW few \in BOOLEAN, StepOf(seq, few)
  PROVE  MonitorInv'
<1>1. TypeOK /\ Mark /\ Latest
  BY DEF MonitorInv
<1>2. TypeOK' /\ Mark' /\ Latest'
  BY <1>1, TypeStep, MarkStep, LatestStep
<1>3. QED
  BY <1>2 DEF MonitorInv

LEMMA SameVars ==
  UNCHANGED vars =>
    /\ wanted' = wanted /\ clock' = clock /\ highWaterSeq' = highWaterSeq
    /\ highWaterTime' = highWaterTime /\ lastStall' = lastStall /\ lastPeer' = lastPeer
    /\ events' = events /\ samples' = samples
  BY DEF vars

(* The invariant is inductive, whatever the nodes answer.                  *)
THEOREM Inductive == ASSUME Periods PROVE Spec => []MonitorInv
<1>1. MonitorInv /\ Next => MonitorInv'
  BY TickCases, InvStep DEF MonitorInv
<1>2. MonitorInv /\ UNCHANGED vars => MonitorInv'
  BY SameVars DEF MonitorInv, TypeOK, Mark, Latest, LatestOf
<1>3. QED
  BY <1>1, <1>2, InitInv, PTL DEF Spec

(* Every variable of the monitor keeps its type.                           *)
THEOREM TypeCorrect == ASSUME Periods PROVE Spec => []TypeOK
<1>1. MonitorInv => TypeOK
  BY DEF MonitorInv
<1>2. QED
  BY <1>1, Inductive, PTL

(* Whatever nodes fail, fall behind or come back, a stall is raised only   *)
(* when nothing new was validated for the threshold.                       *)
THEOREM StallsAreTrue == ASSUME Periods PROVE Spec => []StallIsTrue
<1>1. Init => StallIsTrue
  BY DEF Init, StallIsTrue
<1>2. MonitorInv /\ StallIsTrue /\ Next => StallIsTrue'
  BY TickCases, TrueStep DEF MonitorInv
<1>3. StallIsTrue /\ UNCHANGED vars => StallIsTrue'
  BY SameVars DEF StallIsTrue, StalledUntil, StallThreshold, GivenStall
<1>4. QED
  BY <1>1, <1>2, <1>3, Inductive, PTL DEF Spec

(* And it is raised then, and again at least once per cooldown.            *)
THEOREM StallsAreSeen == ASSUME Periods PROVE Spec => []StallIsSeen
<1>1. Init => StallIsSeen
  BY DEF Init, StallIsSeen
<1>2. MonitorInv /\ StallIsSeen /\ Next => StallIsSeen'
  BY TickCases, SeenStep DEF MonitorInv
<1>3. StallIsSeen /\ UNCHANGED vars => StallIsSeen'
  BY SameVars DEF StallIsSeen, StalledUntil, StallThreshold, GivenStall
<1>4. QED
  BY <1>1, <1>2, <1>3, Inductive, PTL DEF Spec

(* Events of a kind never come faster than the cooldown.                   *)
THEOREM EventsAreDebounced == ASSUME Periods PROVE Spec => []Debounced
<1>1. Init => Debounced
  BY DEF Init, Debounced
<1>2. MonitorInv /\ Debounced /\ Next => Debounced'
  BY TickCases, ApartStep DEF MonitorInv
<1>3. Debounced /\ UNCHANGED vars => Debounced'
  BY SameVars DEF Debounced
<1>4. QED
  BY <1>1, <1>2, <1>3, Inductive, PTL DEF Spec

(* A lack of peers is reported within the cooldown, stalls or not.         *)
THEOREM PeerDropsAreSeen == ASSUME Periods PROVE Spec => []PeerDropIsSeen
<1>1. Init => PeerDropIsSeen
  BY DEF Init, PeerDropIsSeen
<1>2. MonitorInv /\ PeerDropIsSeen /\ Next => PeerDropIsSeen'
  BY TickCases, PeersStep DEF MonitorInv
<1>3. PeerDropIsSeen /\ UNCHANGED vars => PeerDropIsSeen'
  BY SameVars DEF PeerDropIsSeen, GivenPeers
<1>4. QED
  BY <1>1, <1>2, <1>3, Inductive, PTL DEF Spec
=============================================================================
