----------------------------- MODULE StallOracle -----------------------------
(***************************************************************************)
(* The consensus progress oracle of the control service: on every tick it  *)
(* looks at how far each node's validated ledger lags behind its closed    *)
(* one and raises one finding per episode once a lag was sustained.        *)
(* Sources: sidecar/internal/finding/consensus_progress_oracle.go and      *)
(* ConsensusProgressSnapshot of sidecar/internal/server/nodes.go.          *)
(*                                                                         *)
(* What the pollers last heard of each node may change in any way between  *)
(* two ticks.  Times are counted in intervals of the oracle's ticker.      *)
(***************************************************************************)
EXTENDS Naturals, Sequences

CONSTANTS
  Nodes,         \* the configured nodes
  GapThreshold,  \* --stall-gap
  SustainFor,    \* --stall-sustain
  MaxSeq,        \* bound: ledger sequences
  MaxLate,       \* bound: intervals from a tick to the next one
  MaxTime        \* bound: the last instant at which the oracle ticks

VARIABLES
  now,
  stallStarts,   \* when the lag of a node was first seen, for the nodes that lag
  openFinding,   \* the finding of this episode is in the store
  raised,        \* instants of the findings
  ticks          \* what every tick saw: its instant and the nodes over the threshold

vars == <<now, stallStarts, openFinding, raised, ticks>>

(* What the pollers know of a node: "ok" or not, and its two ledgers, of   *)
(* which 0 is none.                                                        *)
View == [ok : BOOLEAN, closed : 0 .. MaxSeq, validated : 0 .. MaxSeq]

Init ==
  /\ now = 0
  /\ stallStarts = <<>>
  /\ openFinding = FALSE
  /\ raised = {}
  /\ ticks = <<>>

(* The nodes that ConsensusProgressSnapshot reports.                       *)
Snapshot(view) ==
  {n \in Nodes : view[n].ok /\ (view[n].closed # 0 \/ view[n].validated # 0)}

Over(view) == {n \in Snapshot(view) : view[n].closed > view[n].validated + GapThreshold}

StartedKeeping(over) ==  \* mutant: nodes that recover or drop out are not purged
  [n \in over \union DOMAIN stallStarts |-> IF n \in DOMAIN stallStarts THEN stallStarts[n] ELSE now]

(* Onsets of the nodes that lag now; every other entry is deleted.         *)
Started(over) == [n \in over |-> IF n \in DOMAIN stallStarts THEN stallStarts[n] ELSE now]

Sustained(starts) == \E n \in DOMAIN starts : now >= starts[n] + SustainFor

(* The end of every tick: the next one comes an interval later, or more if *)
(* it is late.                                                             *)
Ticked(over) ==
  /\ stallStarts' = Started(over)
  /\ ticks' = Append(ticks, [at |-> now, over |-> over])
  /\ \E d \in 1 .. MaxLate : now' = now + d

AllGone(view) == Snapshot(view) = {}

GoneKeepsOpen(view) ==  \* mutant: an empty snapshot does not end the episode
  /\ AllGone(view)
  /\ Ticked({})
  /\ UNCHANGED <<openFinding, raised>>

(* No node is heard of: everything is forgotten.                           *)
Gone(view) ==
  /\ AllGone(view)
  /\ Ticked({})
  /\ openFinding' = FALSE
  /\ UNCHANGED raised

(* No node lags: the episode is over.                                      *)
Recovered(view) ==
  /\ ~AllGone(view) /\ Over(view) = {}
  /\ Ticked({})
  /\ openFinding' = FALSE
  /\ UNCHANGED raised

(* Some node lags, but it is reported already or not for long enough yet.  *)
Wait(view) ==
  LET over == Over(view) IN
  /\ over # {}
  /\ openFinding \/ ~Sustained(Started(over))
  /\ Ticked(over)
  /\ UNCHANGED <<openFinding, raised>>

Raise(view) ==
  LET over == Over(view) IN
  /\ over # {}
  /\ ~openFinding /\ Sustained(Started(over))
  /\ Ticked(over)
  /\ openFinding' = TRUE
  /\ raised' = raised \union {now}

tick(view) == Gone(view) \/ Recovered(view) \/ Wait(view) \/ Raise(view)

Next == now <= MaxTime /\ \E view \in [Nodes -> View] : tick(view)

Spec == Init /\ [][Next]_vars

-----------------------------------------------------------------------------
TypeOK ==
  /\ now \in Nat
  /\ DOMAIN stallStarts \subseteq Nodes
  /\ \A n \in DOMAIN stallStarts : stallStarts[n] \in Nat /\ stallStarts[n] < now
  /\ openFinding \in BOOLEAN
  /\ raised \subseteq Nat
  /\ ticks \in Seq([at : Nat, over : SUBSET Nodes])

(* Node n lagged at every tick from the i-th to the j-th.                  *)
LagsFrom(n, i, j) == \A k \in i .. j : n \in ticks[k].over

(* Some node lagged at every tick of a period of SustainFor that ends at j. *)
StalledAt(j) ==
  \E n \in Nodes, i \in 1 .. j :
    LagsFrom(n, i, j) /\ ticks[j].at >= ticks[i].at + SustainFor

(* No tick from the i-th to the j-th found all nodes well.                 *)
SameEpisode(i, j) == \A k \in i .. j : ticks[k].over # {}

(* A finding is justified by one node that lagged at every tick of a whole *)
(* period: lags of different nodes, or of one that went and came back, are *)
(* never added up.                                                         *)
StallJustified == \A t \in raised : \E j \in DOMAIN ticks : ticks[j].at = t /\ StalledAt(j)

(* One episode, one finding: between two findings there was a tick at      *)
(* which no node lagged.                                                   *)
OncePerEpisode ==
  \A i, j \in DOMAIN ticks :
    i < j /\ ticks[i].at \in raised /\ ticks[j].at \in raised => ~SameEpisode(i, j)

(* A lag that was sustained is on record, by a finding of this episode,    *)
(* whichever nodes lagged, recovered or vanished before and beside it.     *)
StallReported ==
  \A j \in DOMAIN ticks : StalledAt(j) =>
    \E i \in 1 .. j : ticks[i].at \in raised /\ SameEpisode(i, j)
=============================================================================
