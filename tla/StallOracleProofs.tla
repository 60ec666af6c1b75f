------------------------- MODULE StallOracleProofs -------------------------
(***************************************************************************)
(* The consensus progress oracle, for every set of nodes, every threshold  *)
(* and period, and every delay of its ticks.                               *)
(*                                                                         *)
(* The oracle keeps no record of its ticks: it has one onset per node and  *)
(* one flag.  The invariant says what these mean for the ticks so far: an  *)
(* onset is the first tick of the lag that lasts (Onsets), and the flag    *)
(* says whether this episode has a finding (Episode).                      *)
(***************************************************************************)
EXTENDS StallOracle, TLAPS

(* The periods are numbers.                                                *)
Periods == SustainFor \in Nat /\ MaxLate \in Nat

Tick == [at : Nat, over : SUBSET Nodes]

(* LagsFrom and SameEpisode, of any history.                               *)
Lags(h, n, i, j) == \A k \in i .. j : n \in h[k].over

Same(h, i, j) == \A k \in i .. j : h[k].over # {}

(* StalledAt, of any history.                                              *)
Stalled(h, j) ==
  \E n \in Nodes, i \in 1 .. j : Lags(h, n, i, j) /\ h[j].at >= h[i].at + SustainFor

(* Findings and ticks are in the past.                                     *)
Past ==
  /\ \A t \in raised : t < now
  /\ \A j \in DOMAIN ticks : ticks[j].at < now

(* The onset of a node is a tick from which on it lagged, and no earlier   *)
(* tick is one.                                                            *)
Onsets ==
  /\ \A n \in DOMAIN stallStarts : \E i \in 1 .. Len(ticks) :
       ticks[i].at = stallStarts[n] /\ LagsFrom(n, i, Len(ticks))
  /\ \A n \in Nodes, i \in 1 .. Len(ticks) : LagsFrom(n, i, Len(ticks)) =>
       n \in DOMAIN stallStarts /\ stallStarts[n] <= ticks[i].at

(* The flag is up if and only if the episode that lasts has its finding.   *)
Episode ==
  openFinding <=>
    \E i \in 1 .. Len(ticks) : ticks[i].at \in raised /\ SameEpisode(i, Len(ticks))

OracleInv == TypeOK /\ Past /\ Onsets /\ Episode

-----------------------------------------------------------------------------
(* What a tick does, given the nodes it finds over the threshold.          *)
Ends(over) == over = {} /\ openFinding' = FALSE /\ raised' = raised

Waits(over) ==
  /\ over # {} /\ (openFinding \/ ~Sustained(Started(over)))
  /\ openFinding' = openFinding /\ raised' = raised

Raises(over) ==
  /\ over # {} /\ ~openFinding /\ Sustained(Started(over))
  /\ openFinding' = TRUE /\ raised' = raised \union {now}

LEMMA TickCases ==
  ASSUME Next
  PROVE  \E over \in SUBSET Nodes : Ticked(over) /\ (Ends(over) \/ Waits(over) \/ Raises(over))
<1>1. PICK view \in [Nodes -> View] : tick(view)
  BY DEF Next
<1>2. Over(view) \in SUBSET Nodes
  BY DEF Over, Snapshot
<1>3. CASE Gone(view) \/ Recovered(view)
  BY <1>3 DEF Gone, Recovered, Ends
<1>4. CASE Wait(view)
  BY <1>2, <1>4 DEF Wait, Waits
<1>5. CASE Raise(view)
  BY <1>2, <1>5 DEF Raise, Raises
<1>6. QED
  BY <1>1, <1>3, <1>4, <1>5 DEF tick

LEMMA TickType ==
  ASSUME TypeOK
  PROVE  /\ Len(ticks) \in Nat /\ DOMAIN ticks = 1 .. Len(ticks)
         /\ \A j \in 1 .. Len(ticks) : ticks[j].at \in Nat
<1>1. ticks \in Seq(Tick)
  BY DEF TypeOK, Tick
<1>2. \A j \in 1 .. Len(ticks) : ticks[j] \in Tick
  BY <1>1
<1>3. QED
  BY <1>1, <1>2 DEF Tick

(* How the history grows.                                                  *)
LEMMA TickGrows ==
  ASSUME Periods, TypeOK, NEW over \in SUBSET Nodes, Ticked(over)
  PROVE  /\ Len(ticks) \in Nat /\ Len(ticks') = Len(ticks) + 1
         /\ DOMAIN ticks = 1 .. Len(ticks) /\ DOMAIN ticks' = 1 .. Len(ticks) + 1
         /\ \A j \in 1 .. Len(ticks) : ticks'[j] = ticks[j]
         /\ ticks'[Len(ticks) + 1] = [at |-> now, over |-> over]
         /\ ticks' \in Seq(Tick)
         /\ now' \in Nat /\ now < now'
<1>1. ticks \in Seq(Tick) /\ now \in Nat
  BY DEF TypeOK, Tick
<1>2. [at |-> now, over |-> over] \in Tick
  BY <1>1 DEF Tick
<1>3. ticks' = Append(ticks, [at |-> now, over |-> over])
  BY DEF Ticked
<1>4. now' \in Nat /\ now < now'
  BY <1>1 DEF Ticked, Periods
<1>5. QED
  BY <1>1, <1>2, <1>3, <1>4

LEMMA OnsetsType ==
  ASSUME TypeOK, NEW over \in SUBSET Nodes, Ticked(over)
  PROVE  /\ DOMAIN stallStarts' = over
         /\ \A n \in over : stallStarts'[n] = IF n \in DOMAIN stallStarts THEN stallStarts[n] ELSE now
         /\ \A n \in over : stallStarts'[n] \in Nat /\ stallStarts'[n] <= now
<1>1. stallStarts' = Started(over)
  BY DEF Ticked
<1>2. \A n \in DOMAIN stallStarts : stallStarts[n] \in Nat /\ stallStarts[n] < now
  BY DEF TypeOK
<1>3. now \in Nat
  BY DEF TypeOK
<1>4. QED
  BY <1>1, <1>2, <1>3 DEF Started

LEMMA InitInv == Init => OracleInv
<1> SUFFICES ASSUME Init PROVE OracleInv
  OBVIOUS
<1>1. ticks = <<>> /\ Len(ticks) = 0 /\ DOMAIN ticks = {} /\ 1 .. Len(ticks) = {}
  BY DEF Init
<1>2. DOMAIN stallStarts = {} /\ raised = {} /\ openFinding = FALSE /\ now = 0
  BY DEF Init
<1>3. ticks \in Seq([at : Nat, over : SUBSET Nodes])
  BY <1>1
<1>4. TypeOK
  BY <1>2, <1>3 DEF TypeOK
<1>5. Past /\ Onsets /\ Episode
  BY <1>1, <1>2 DEF Past, Onsets, Episode
<1>6. QED
  BY <1>4, <1>5 DEF OracleInv

LEMMA TypeStep ==
  ASSUME Periods, TypeOK, Past, NEW over \in SUBSET Nodes,
         Ticked(over), Ends(over) \/ Waits(over) \/ Raises(over)
  PROVE  TypeOK' /\ Past'
<1>1. now \in Nat /\ raised \subseteq Nat /\ openFinding \in BOOLEAN
  BY DEF TypeOK
<1>2. now' \in Nat /\ now < now'
  BY TickGrows
<1>3. raised' \subseteq raised \union {now} /\ openFinding' \in BOOLEAN
  BY <1>1 DEF Ends, Waits, Raises
<1>4. DOMAIN stallStarts' \subseteq Nodes
      /\ \A n \in DOMAIN stallStarts' : stallStarts'[n] \in Nat /\ stallStarts'[n] < now'
  BY <1>1, <1>2, OnsetsType
<1>5. ticks' \in Seq([at : Nat, over : SUBSET Nodes])
  BY TickGrows DEF Tick
<1>6. TypeOK'
  BY <1>1, <1>2, <1>3, <1>4, <1>5 DEF TypeOK
<1>7. \A t \in raised' : t < now'
  BY <1>1, <1>2, <1>3 DEF Past
<1>8. \A j \in DOMAIN ticks' : ticks'[j].at < now'
  <2> SUFFICES ASSUME NEW j \in DOMAIN ticks' PROVE ticks'[j].at < now'
    OBVIOUS
  <2>1. CASE j \in 1 .. Len(ticks)
    <3>1. ticks'[j] = ticks[j] /\ ticks[j].at \in Nat /\ ticks[j].at < now
      BY <2>1, TickGrows, TickType DEF Past
    <3>2. QED
      BY <1>1, <1>2, <3>1
  <2>2. CASE j = Len(ticks) + 1
    <3>1. ticks'[Len(ticks) + 1] = [at |-> now, over |-> over]
      BY TickGrows
    <3>2. ticks'[j].at = now
      BY <2>2, <3>1
    <3>3. QED
      BY <1>2, <3>2
  <2>3. j \in 1 .. Len(ticks) + 1 /\ Len(ticks) \in Nat
    BY TickGrows
  <2>4. QED
    BY <2>1, <2>2, <2>3
<1>9. QED
  BY <1>6, <1>7, <1>8 DEF Past

(* What lasts up to the new tick lasted up to the one before, or begins    *)
(* with the new one.                                                       *)
LEMMA LagGrows ==
  ASSUME NEW h, NEW g, NEW L \in Nat, \A k \in 1 .. L : g[k] = h[k]
  PROVE  /\ \A n, i : i \in 1 .. L => (Lags(g, n, i, L + 1) <=> Lags(h, n, i, L) /\ n \in g[L + 1].over)
         /\ \A n : Lags(g, n, L + 1, L + 1) <=> n \in g[L + 1].over
         /\ \A n, i, j : i \in 1 .. L /\ j \in 1 .. L => (Lags(g, n, i, j) <=> Lags(h, n, i, j))
<1>1. \A i \in 1 .. L : \A k : k \in i .. L + 1 <=> k \in i .. L \/ k = L + 1
  OBVIOUS
<1>2. \A i, j : i \in 1 .. L /\ j \in 1 .. L => \A k \in i .. j : k \in 1 .. L
  OBVIOUS
<1>3. \A k : k \in L + 1 .. L + 1 <=> k = L + 1
  OBVIOUS
<1>4. \A i \in 1 .. L : \A k \in i .. L : g[k] = h[k]
  OBVIOUS
<1>5. \A n, i : i \in 1 .. L => (Lags(g, n, i, L + 1) <=> Lags(h, n, i, L) /\ n \in g[L + 1].over)
  BY <1>1, <1>4 DEF Lags
<1>6. \A n, i, j : i \in 1 .. L /\ j \in 1 .. L => (Lags(g, n, i, j) <=> Lags(h, n, i, j))
  BY <1>2 DEF Lags
<1>7. \A n : Lags(g, n, L + 1, L + 1) <=> n \in g[L + 1].over
  BY <1>3 DEF Lags
<1>8. QED
  BY <1>5, <1>6, <1>7

LEMMA EpisodeGrows ==
  ASSUME NEW h, NEW g, NEW L \in Nat, \A k \in 1 .. L : g[k] = h[k]
  PROVE  /\ \A i \in 1 .. L : Same(g, i, L + 1) <=> Same(h, i, L) /\ g[L + 1].over # {}
         /\ Same(g, L + 1, L + 1) <=> g[L + 1].over # {}
         /\ \A i, j : i \in 1 .. L /\ j \in 1 .. L => (Same(g, i, j) <=> Same(h, i, j))
<1>1. \A i \in 1 .. L : \A k : k \in i .. L + 1 <=> k \in i .. L \/ k = L + 1
  OBVIOUS
<1>2. \A i, j : i \in 1 .. L /\ j \in 1 .. L => \A k \in i .. j : k \in 1 .. L
  OBVIOUS
<1>3. \A k : k \in L + 1 .. L + 1 <=> k = L + 1
  OBVIOUS
<1>4. \A i \in 1 .. L : \A k \in i .. L : g[k] = h[k]
  OBVIOUS
<1>5. \A i \in 1 .. L : Same(g, i, L + 1) <=> Same(h, i, L) /\ g[L + 1].over # {}
  BY <1>1, <1>4 DEF Same
<1>6. \A i, j : i \in 1 .. L /\ j \in 1 .. L => (Same(g, i, j) <=> Same(h, i, j))
  BY <1>2 DEF Same
<1>7. Same(g, L + 1, L + 1) <=> g[L + 1].over # {}
  BY <1>3 DEF Same
<1>8. QED
  BY <1>5, <1>6, <1>7

LEMMA OnsetStep ==
  ASSUME Periods, TypeOK, Onsets, NEW over \in SUBSET Nodes, Ticked(over)
  PROVE  Onsets'
<1> DEFINE L == Len(ticks)
           g == ticks'
<1>1. /\ L \in Nat /\ Len(g) = L + 1
      /\ \A k \in 1 .. L : g[k] = ticks[k]
      /\ g[L + 1].at = now /\ g[L + 1].over = over
  <2>1. g[L + 1] = [at |-> now, over |-> over]
    BY TickGrows
  <2>2. QED
    BY <2>1, TickGrows
<1>2. /\ \A n, i : i \in 1 .. L => (Lags(g, n, i, L + 1) <=> Lags(ticks, n, i, L) /\ n \in over)
      /\ \A n : Lags(g, n, L + 1, L + 1) <=> n \in over
  BY <1>1, LagGrows
<1>3. /\ \A n \in DOMAIN stallStarts : \E i \in 1 .. L :
           ticks[i].at = stallStarts[n] /\ Lags(ticks, n, i, L)
      /\ \A n \in Nodes, i \in 1 .. L : Lags(ticks, n, i, L) =>
           n \in DOMAIN stallStarts /\ stallStarts[n] <= ticks[i].at
  BY DEF Onsets, LagsFrom, Lags
<1>4. now \in Nat /\ \A n \in DOMAIN stallStarts : stallStarts[n] \in Nat /\ stallStarts[n] < now
  BY DEF TypeOK
<1>5. ASSUME NEW n \in DOMAIN stallStarts'
      PROVE  \E i \in 1 .. L + 1 : g[i].at = stallStarts'[n] /\ Lags(g, n, i, L + 1)
  <2>1. n \in over
    BY OnsetsType
  <2>2. CASE n \in DOMAIN stallStarts
    <3>1. stallStarts'[n] = stallStarts[n]
      BY <2>1, <2>2, OnsetsType
    <3>2. PICK i \in 1 .. L : ticks[i].at = stallStarts[n] /\ Lags(ticks, n, i, L)
      BY <1>3, <2>2
    <3>3. g[i].at = stallStarts'[n] /\ Lags(g, n, i, L + 1)
      BY <1>1, <1>2, <2>1, <3>1, <3>2
    <3>4. i \in 1 .. L + 1
      BY <1>1
    <3>5. QED
      BY <3>3, <3>4
  <2>3. CASE n \notin DOMAIN stallStarts
    <3>1. stallStarts'[n] = now
      BY <2>1, <2>3, OnsetsType
    <3>2. g[L + 1].at = now /\ Lags(g, n, L + 1, L + 1)
      BY <1>1, <1>2, <2>1
    <3>3. L + 1 \in 1 .. L + 1
      BY <1>1
    <3>4. QED
      BY <3>1, <3>2, <3>3
  <2>4. QED
    BY <2>2, <2>3
<1>6. ASSUME NEW n \in Nodes, NEW i \in 1 .. L + 1, Lags(g, n, i, L + 1)
      PROVE  n \in DOMAIN stallStarts' /\ stallStarts'[n] <= g[i].at
  <2>1. CASE i \in 1 .. L
    <3>1. Lags(ticks, n, i, L) /\ n \in over
      BY <1>2, <1>6, <2>1
    <3>2. n \in DOMAIN stallStarts /\ stallStarts[n] <= ticks[i].at
      BY <1>3, <2>1, <3>1
    <3>3. n \in DOMAIN stallStarts' /\ stallStarts'[n] = stallStarts[n]
      BY <3>1, <3>2, OnsetsType
    <3>4. g[i] = ticks[i]
      BY <1>1, <2>1
    <3>5. QED
      BY <3>2, <3>3, <3>4
  <2>2. CASE i = L + 1
    <3>1. n \in over
      BY <1>2, <1>6, <2>2
    <3>2. n \in DOMAIN stallStarts' /\ stallStarts'[n] \in Nat /\ stallStarts'[n] <= now
      BY <3>1, OnsetsType
    <3>3. g[i].at = now
      BY <1>1, <2>2
    <3>4. QED
      BY <3>2, <3>3
  <2>3. QED
    BY <1>1, <2>1, <2>2
<1>7. /\ \A n \in DOMAIN stallStarts' : \E i \in 1 .. Len(g) :
           g[i].at = stallStarts'[n] /\ Lags(g, n, i, Len(g))
      /\ \A n \in Nodes, i \in 1 .. Len(g) : Lags(g, n, i, Len(g)) =>
           n \in DOMAIN stallStarts' /\ stallStarts'[n] <= g[i].at
  BY <1>1, <1>5, <1>6
<1>8. QED
  BY <1>7 DEF Onsets, LagsFrom, Lags

LEMMA EpisodeStep ==
  ASSUME Periods, TypeOK, Past, Episode, NEW over \in SUBSET Nodes,
         Ticked(over), Ends(over) \/ Waits(over) \/ Raises(over)
  PROVE  Episode'
<1> DEFINE L == Len(ticks)
           g == ticks'
<1>1. /\ L \in Nat /\ Len(g) = L + 1
      /\ \A k \in 1 .. L : g[k] = ticks[k]
      /\ g[L + 1].at = now /\ g[L + 1].over = over
  <2>1. g[L + 1] = [at |-> now, over |-> over]
    BY TickGrows
  <2>2. QED
    BY <2>1, TickGrows
<1>2. /\ \A i \in 1 .. L : Same(g, i, L + 1) <=> Same(ticks, i, L) /\ over # {}
      /\ Same(g, L + 1, L + 1) <=> over # {}
  BY <1>1, EpisodeGrows
<1>3. openFinding <=> \E i \in 1 .. L : ticks[i].at \in raised /\ Same(ticks, i, L)
  BY DEF Episode, SameEpisode, Same
<1>4. now \in Nat /\ now \notin raised /\ openFinding \in BOOLEAN
  <2>1. raised \subseteq Nat /\ now \in Nat /\ openFinding \in BOOLEAN /\ \A t \in raised : t < now
    BY DEF TypeOK, Past
  <2>2. QED
    BY <2>1
<1>5. \A i \in 1 .. L : ticks[i].at \in Nat /\ ticks[i].at # now
  <2>1. \A i \in 1 .. L : ticks[i].at \in Nat /\ ticks[i].at < now
    BY TickType DEF Past
  <2>2. QED
    BY <1>4, <2>1
<1>6. g[L + 1].at = now
  BY <1>1
<1>7. L + 1 \in 1 .. L + 1 /\ 1 .. L \subseteq 1 .. L + 1 /\ \A i \in 1 .. L + 1 : i \in 1 .. L \/ i = L + 1
  BY <1>1
<1>8. openFinding' <=> \E i \in 1 .. L + 1 : g[i].at \in raised' /\ Same(g, i, L + 1)
  <2>1. CASE Ends(over)
    BY <1>2, <1>7, <2>1 DEF Ends
  <2>2. CASE Waits(over)
    <3>1. over # {} /\ openFinding' = openFinding /\ raised' = raised
      BY <2>2 DEF Waits
    <3>2. g[L + 1].at \notin raised'
      BY <1>4, <1>6, <3>1
    <3>3. \A i \in 1 .. L : g[i].at \in raised' /\ Same(g, i, L + 1) <=> ticks[i].at \in raised /\ Same(ticks, i, L)
      BY <1>1, <1>2, <3>1
    <3>4. QED
      BY <1>3, <1>7, <3>1, <3>2, <3>3
  <2>3. CASE Raises(over)
    <3>1. openFinding' /\ now \in raised' /\ over # {}
      BY <2>3 DEF Raises
    <3>2. g[L + 1].at \in raised' /\ Same(g, L + 1, L + 1)
      BY <1>2, <1>6, <3>1
    <3>3. QED
      BY <1>7, <3>1, <3>2
  <2>4. QED
    BY <2>1, <2>2, <2>3
<1>9. openFinding' <=> \E i \in 1 .. Len(g) : g[i].at \in raised' /\ Same(g, i, Len(g))
  BY <1>1, <1>8
<1>10. QED
  BY <1>9 DEF Episode, SameEpisode, Same

(* What a step of the oracle is, for the lemmas on the three properties.   *)
StepOf(over) ==
  /\ OracleInv /\ OracleInv'
  /\ Ticked(over) /\ (Ends(over) \/ Waits(over) \/ Raises(over))

LEMMA HistoryStep ==
  ASSUME Periods, NEW over \in SUBSET Nodes, StepOf(over)
  PROVE  /\ Len(ticks) \in Nat /\ Len(ticks') = Len(ticks) + 1
         /\ DOMAIN ticks = 1 .. Len(ticks) /\ DOMAIN ticks' = 1 .. Len(ticks) + 1
         /\ \A k \in 1 .. Len(ticks) :
              ticks'[k] = ticks[k] /\ ticks[k].at \in Nat /\ ticks[k].at # now
         /\ ticks'[Len(ticks) + 1].at = now /\ ticks'[Len(ticks) + 1].over = over
         /\ now \in Nat /\ now \notin raised
<1>1. TypeOK /\ Past /\ Ticked(over)
  BY DEF StepOf, OracleInv
<1>2. ticks'[Len(ticks) + 1] = [at |-> now, over |-> over]
  BY <1>1, TickGrows
<1>3. now \in Nat /\ raised \subseteq Nat /\ \A t \in raised : t < now
  BY <1>1 DEF TypeOK, Past
<1>4. now \notin raised
  BY <1>3
<1>5. \A k \in 1 .. Len(ticks) : ticks[k].at \in Nat /\ ticks[k].at < now
  BY <1>1, TickType DEF Past
<1>6. \A k \in 1 .. Len(ticks) : ticks[k].at # now
  BY <1>3, <1>5
<1>7. QED
  BY <1>1, <1>2, <1>3, <1>4, <1>5, <1>6, TickGrows

(* The onsets tell whether a lag was sustained.                            *)
LEMMA SustainedIsStalled ==
  ASSUME Periods, NEW over \in SUBSET Nodes, StepOf(over)
  PROVE  Sustained(Started(over)) <=> Stalled(ticks', Len(ticks) + 1)
<1> DEFINE L == Len(ticks)
           g == ticks'
<1>1. L \in Nat /\ Len(g) = L + 1 /\ g[L + 1].at = now /\ now \in Nat
  BY HistoryStep
<1>2. stallStarts' = Started(over) /\ TypeOK' /\ Onsets' /\ SustainFor \in Nat
  BY DEF StepOf, OracleInv, Ticked, Periods
<1>3. /\ \A n \in DOMAIN stallStarts' : \E i \in 1 .. L + 1 :
           g[i].at = stallStarts'[n] /\ Lags(g, n, i, L + 1)
      /\ \A n \in Nodes, i \in 1 .. L + 1 : Lags(g, n, i, L + 1) =>
           n \in DOMAIN stallStarts' /\ stallStarts'[n] <= g[i].at
  BY <1>1, <1>2 DEF Onsets, LagsFrom, Lags
<1>4. DOMAIN stallStarts' \subseteq Nodes /\ \A n \in DOMAIN stallStarts' : stallStarts'[n] \in Nat
  BY <1>2 DEF TypeOK
<1>5. \A i \in 1 .. L + 1 : g[i].at \in Nat
  <2>1. \A i \in 1 .. L : g[i].at \in Nat
    BY HistoryStep
  <2>2. QED
    BY <1>1, <2>1
<1>6. ASSUME Sustained(stallStarts') PROVE Stalled(g, L + 1)
  <2>1. PICK n \in DOMAIN stallStarts' : now >= stallStarts'[n] + SustainFor
    BY <1>6 DEF Sustained
  <2>2. PICK i \in 1 .. L + 1 : g[i].at = stallStarts'[n] /\ Lags(g, n, i, L + 1)
    BY <1>3
  <2>3. g[L + 1].at >= g[i].at + SustainFor
    BY <1>1, <2>1, <2>2
  <2>4. QED
    BY <1>4, <2>2, <2>3 DEF Stalled
<1>7. ASSUME Stalled(g, L + 1) PROVE Sustained(stallStarts')
  <2>1. PICK n \in Nodes, i \in 1 .. L + 1 :
          Lags(g, n, i, L + 1) /\ g[L + 1].at >= g[i].at + SustainFor
    BY <1>7 DEF Stalled
  <2>2. n \in DOMAIN stallStarts' /\ stallStarts'[n] <= g[i].at
    BY <1>3, <2>1
  <2>3. stallStarts'[n] \in Nat /\ g[i].at \in Nat
    BY <1>4, <1>5, <2>2
  <2>4. now >= stallStarts'[n] + SustainFor
    BY <1>1, <1>2, <2>1, <2>2, <2>3
  <2>5. QED
    BY <2>2, <2>4 DEF Sustained
<1>8. QED
  BY <1>2, <1>6, <1>7

(* The past is what it was.                                                *)
LEMMA OldStalls ==
  ASSUME NEW h, NEW g, NEW L \in Nat, \A k \in 1 .. L : g[k] = h[k]
  PROVE  \A j \in 1 .. L : Stalled(g, j) <=> Stalled(h, j)
<1>1. SUFFICES ASSUME NEW j \in 1 .. L PROVE Stalled(g, j) <=> Stalled(h, j)
  OBVIOUS
<1>2. \A i \in 1 .. j : i \in 1 .. L /\ g[i] = h[i]
  OBVIOUS
<1>3. \A n : \A i \in 1 .. j : Lags(g, n, i, j) <=> Lags(h, n, i, j)
  BY <1>2, LagGrows
<1>4. g[j] = h[j]
  OBVIOUS
<1>5. QED
  BY <1>2, <1>3, <1>4 DEF Stalled

LEMMA JustifiedStep ==
  ASSUME Periods, NEW over \in SUBSET Nodes, StepOf(over), StallJustified
  PROVE  StallJustified'
<1> DEFINE L == Len(ticks)
           g == ticks'
<1>1. /\ L \in Nat /\ DOMAIN ticks = 1 .. L /\ DOMAIN g = 1 .. L + 1
      /\ \A k \in 1 .. L : g[k] = ticks[k]
      /\ g[L + 1].at = now
  BY HistoryStep
<1>2. \A j \in 1 .. L : Stalled(g, j) <=> Stalled(ticks, j)
  BY <1>1, OldStalls
<1>3. \A t \in raised : \E j \in 1 .. L : ticks[j].at = t /\ Stalled(ticks, j)
  BY <1>1 DEF StallJustified, StalledAt, Stalled, LagsFrom, Lags
<1>4. ASSUME NEW t \in raised' PROVE \E j \in 1 .. L + 1 : g[j].at = t /\ Stalled(g, j)
  <2>1. CASE t \in raised
    <3>1. PICK j \in 1 .. L : ticks[j].at = t /\ Stalled(ticks, j)
      BY <1>3, <2>1
    <3>2. j \in 1 .. L + 1 /\ g[j].at = t /\ Stalled(g, j)
      BY <1>1, <1>2, <3>1
    <3>3. QED
      BY <3>2
  <2>2. CASE t \notin raised
    <3>1. Raises(over) /\ t = now
      BY <1>4, <2>2 DEF StepOf, Ends, Waits, Raises
    <3>2. Stalled(g, L + 1)
      BY <3>1, SustainedIsStalled DEF Raises
    <3>3. L + 1 \in 1 .. L + 1
      BY <1>1
    <3>4. QED
      BY <1>1, <3>1, <3>2, <3>3
  <2>3. QED
    BY <2>1, <2>2
<1>5. \A t \in raised' : \E j \in DOMAIN g : g[j].at = t /\ Stalled(g, j)
  BY <1>1, <1>4
<1>6. QED
  BY <1>5 DEF StallJustified, StalledAt, Stalled, LagsFrom, Lags

LEMMA OnceStep ==
  ASSUME Periods, NEW over \in SUBSET Nodes, StepOf(over), OncePerEpisode
  PROVE  OncePerEpisode'
<1> DEFINE L == Len(ticks)
           g == ticks'
<1>1. /\ L \in Nat /\ DOMAIN ticks = 1 .. L /\ DOMAIN g = 1 .. L + 1
      /\ \A k \in 1 .. L : g[k] = ticks[k] /\ ticks[k].at # now
      /\ g[L + 1].at = now /\ now \notin raised
  BY HistoryStep
<1>2. raised' \subseteq raised \union {now} /\ (now \in raised' => Raises(over))
  BY <1>1 DEF StepOf, Ends, Waits, Raises
<1>3. \A i \in 1 .. L : g[i].at \in raised' => ticks[i].at \in raised
  BY <1>1, <1>2
<1>4. ASSUME NEW i \in 1 .. L + 1, NEW j \in 1 .. L + 1, i < j,
             g[i].at \in raised', g[j].at \in raised'
      PROVE  ~Same(g, i, j)
  <2>1. i \in 1 .. L /\ ticks[i].at \in raised
    BY <1>1, <1>3, <1>4
  <2>2. CASE j \in 1 .. L
    <3>1. ticks[j].at \in raised
      BY <1>3, <1>4, <2>2
    <3>2. ~Same(ticks, i, j)
      BY <1>1, <1>4, <2>1, <2>2, <3>1 DEF OncePerEpisode, SameEpisode, Same
    <3>3. Same(g, i, j) <=> Same(ticks, i, j)
      BY <1>1, <2>1, <2>2, EpisodeGrows
    <3>4. QED
      BY <3>2, <3>3
  <2>3. CASE j = L + 1
    <3>1. ~openFinding
      BY <1>1, <1>2, <1>4, <2>3 DEF Raises
    <3>2. ~Same(ticks, i, L)
      BY <2>1, <3>1 DEF StepOf, OracleInv, Episode, SameEpisode, Same
    <3>3. ~Same(g, i, L + 1)
      BY <1>1, <2>1, <3>2, EpisodeGrows
    <3>4. QED
      BY <2>3, <3>3
  <2>4. QED
    BY <1>1, <2>2, <2>3
<1>5. QED
  BY <1>1, <1>4 DEF OncePerEpisode, SameEpisode, Same

LEMMA ReportedStep ==
  ASSUME Periods, NEW over \in SUBSET Nodes, StepOf(over), StallReported
  PROVE  StallReported'
<1> DEFINE L == Len(ticks)
           g == ticks'
<1>1. /\ L \in Nat /\ DOMAIN ticks = 1 .. L /\ DOMAIN g = 1 .. L + 1 /\ Len(g) = L + 1
      /\ \A k \in 1 .. L : g[k] = ticks[k]
      /\ raised \subseteq raised'
  BY HistoryStep DEF StepOf, Ends, Waits, Raises
<1>2. ASSUME NEW j \in 1 .. L + 1, Stalled(g, j)
      PROVE  \E i \in 1 .. j : g[i].at \in raised' /\ Same(g, i, j)
  <2>1. CASE j \in 1 .. L
    <3>1. Stalled(ticks, j)
      BY <1>1, <1>2, <2>1, OldStalls
    <3>2. PICK i \in 1 .. j : ticks[i].at \in raised /\ Same(ticks, i, j)
      BY <1>1, <2>1, <3>1 DEF StallReported, StalledAt, Stalled, LagsFrom, Lags, SameEpisode, Same
    <3>3. i \in 1 .. L
      BY <2>1
    <3>4. Same(g, i, j)
      BY <1>1, <2>1, <3>2, <3>3, EpisodeGrows
    <3>5. g[i].at \in raised'
      BY <1>1, <3>2, <3>3
    <3>6. QED
      BY <3>4, <3>5
  <2>2. CASE j = L + 1
    <3>1. Sustained(Started(over))
      BY <1>2, <2>2, SustainedIsStalled
    <3>2. over # {}
      BY <3>1 DEF Sustained, Started
    <3>3. openFinding'
      BY <3>1, <3>2 DEF StepOf, Ends, Waits, Raises
    <3>4. \E i \in 1 .. L + 1 : g[i].at \in raised' /\ Same(g, i, L + 1)
      BY <1>1, <3>3 DEF StepOf, OracleInv, Episode, SameEpisode, Same
    <3>5. QED
      BY <2>2, <3>4
  <2>3. QED
    BY <1>1, <2>1, <2>2
<1>3. QED
  BY <1>1, <1>2 DEF StallReported, StalledAt, Stalled, LagsFrom, Lags, SameEpisode, Same

-----------------------------------------------------------------------------
LEMMA InvStep ==
  ASSUME Periods, OracleInv, Next
  PROVE  \E over \in SUBSET Nodes : StepOf(over)
<1>1. PICK over \in SUBSET Nodes : Ticked(over) /\ (Ends(over) \/ Waits(over) \/ Raises(over))
  BY TickCases
<1>2. TypeOK /\ Past /\ Onsets /\ Episode
  BY DEF OracleInv
<1>3. TypeOK' /\ Past'
  BY <1>1, <1>2, TypeStep
<1>4. Onsets'
  BY <1>1, <1>2, OnsetStep
<1>5. Episode'
  BY <1>1, <1>2, EpisodeStep
<1>6. QED
  BY <1>1, <1>3, <1>4, <1>5 DEF StepOf, OracleInv

LEMMA InvStays == OracleInv /\ UNCHANGED vars => OracleInv'
<1> SUFFICES ASSUME OracleInv, UNCHANGED vars PROVE OracleInv'
  OBVIOUS
<1>1. now' = now /\ stallStarts' = stallStarts /\ openFinding' = openFinding
      /\ raised' = raised /\ ticks' = ticks
  BY DEF vars
<1>2. QED
  BY <1>1 DEF OracleInv, TypeOK, Past, Onsets, Episode, LagsFrom, SameEpisode

(* The invariant is inductive, whatever the nodes report.                  *)
THEOREM Inductive == ASSUME Periods PROVE Spec => []OracleInv
<1>1. OracleInv /\ [Next]_vars => OracleInv'
  BY InvStep, InvStays DEF StepOf
<1>2. QED
  BY <1>1, InitInv, PTL DEF Spec

(* Every variable of the oracle keeps its type.                            *)
THEOREM TypeCorrect == ASSUME Periods PROVE Spec => []TypeOK
<1>1. OracleInv => TypeOK
  BY DEF OracleInv
<1>2. QED
  BY <1>1, Inductive, PTL

(* Whatever the nodes report and however late the ticks come, a finding    *)
(* has a node that lagged at every tick of a whole period.                 *)
THEOREM StallsAreJustified == ASSUME Periods PROVE Spec => []StallJustified
<1>1. Init => StallJustified
  BY DEF Init, StallJustified
<1>2. OracleInv /\ StallJustified /\ [Next]_vars => StallJustified'
  <2>1. OracleInv /\ StallJustified /\ Next => StallJustified'
    BY InvStep, JustifiedStep
  <2>2. StallJustified /\ UNCHANGED vars => StallJustified'
    BY DEF vars, StallJustified, StalledAt, LagsFrom
  <2>3. QED
    BY <2>1, <2>2
<1>3. QED
  BY <1>1, <1>2, Inductive, PTL DEF Spec

(* The flag is enough to report an episode once.                           *)
THEOREM OneFindingPerEpisode == ASSUME Periods PROVE Spec => []OncePerEpisode
<1>1. Init => OncePerEpisode
  BY DEF Init, OncePerEpisode
<1>2. OracleInv /\ OncePerEpisode /\ [Next]_vars => OncePerEpisode'
  <2>1. OracleInv /\ OncePerEpisode /\ Next => OncePerEpisode'
    BY InvStep, OnceStep
  <2>2. OncePerEpisode /\ UNCHANGED vars => OncePerEpisode'
    BY DEF vars, OncePerEpisode, SameEpisode
  <2>3. QED
    BY <2>1, <2>2
<1>3. QED
  BY <1>1, <1>2, Inductive, PTL DEF Spec

(* No sustained lag goes without a finding of its episode.                 *)
THEOREM StallsAreReported == ASSUME Periods PROVE Spec => []StallReported
<1>1. Init => StallReported
  BY DEF Init, StallReported
<1>2. OracleInv /\ StallReported /\ [Next]_vars => StallReported'
  <2>1. OracleInv /\ StallReported /\ Next => StallReported'
    BY InvStep, ReportedStep
  <2>2. StallReported /\ UNCHANGED vars => StallReported'
    BY DEF vars, StallReported, StalledAt, LagsFrom, SameEpisode
  <2>3. QED
    BY <2>1, <2>2
<1>3. QED
  BY <1>1, <1>2, Inductive, PTL DEF Spec
=============================================================================
