------------------------------ MODULE ChaosSoak ------------------------------
(***************************************************************************)
(* The serial soak loop with its periodic block: the crash poller and the  *)
(* chaos scheduler, and the containers both work on.                       *)
(* Sources: sidecar/internal/fuzz/runners/{soak,chaos}.go,                 *)
(* sidecar/internal/fuzz/chaos/{scheduler,restart,netem,runtime}.go,       *)
(* sidecar/internal/fuzz/crash/poller.go.  Docker is external.             *)
(*                                                                         *)
(* Every call that reaches Docker is one action, so a container may crash  *)
(* between any two of them.  What SIGQUIT from the hang detector does to a *)
(* node is a crash like any other.                                         *)
(***************************************************************************)
EXTENDS Integers, Sequences, FiniteSets

CONSTANTS
  Containers,   \* containers that carry the crash label
  SubmitNode,   \* the container transactions are submitted to
  Schedule,     \* the parsed schedule: a sequence of ScheduleEntry
  Period,       \* the periodic block runs when step % Period = Period - 1 (10)
  ExitCodes,    \* exit codes a container can end with
  MaxStep,      \* bound: successful submissions
  MaxExits      \* bound: exits of one container

Kinds == {"restart", "latency", "partition"}

Entries == DOMAIN Schedule

ASSUME ScheduleAssumption ==
  Schedule \in Seq([trigger : Nat, target : Containers, kind : Kinds, recoverAfter : Nat])
ASSUME PeriodAssumption == Period \in Nat \ {0}
ASSUME BoundAssumption == MaxStep \in Nat /\ MaxExits \in Nat
ASSUME ExitAssumption == 0 \in ExitCodes /\ ExitCodes \subseteq Nat

NoCode == -1  \* the poller has reported nothing for the container

VARIABLES
  pc,         \* where the soak loop is
  step,       \* successful submissions
  toPoll,     \* containers the poller's Tick has not inspected yet
  cursor,     \* the schedule entry ChaosScheduler.Step looks at
  \* ChaosScheduler
  applied,    \* entries that fired
  pending,    \* entries that wait for their Recover
  recoverAt,  \* the key under which an entry is pending
  stats,      \* EventsApplied, EventsRecovered, EventsErrored
  audit,      \* the chaos entries in the corpus
  \* Poller
  seen,       \* exit code last reported
  reported,   \* reported[c][n]: how often OnCrash fired for exit n of c
  \* the containers
  state,      \* running, stopped by chaos, or crashed
  code,       \* last exit code
  exits,      \* how often the container has exited
  slow,       \* a netem qdisc is installed
  rules       \* DROP rules installed

loopVars == <<pc, step, toPoll, cursor>>
schedVars == <<applied, pending, recoverAt, stats, audit>>
pollVars == <<seen, reported>>
dockerVars == <<state, code, exits, slow, rules>>
vars == <<loopVars, schedVars, pollVars, dockerVars>>

TypeOK ==
  /\ pc \in {"submit", "poll", "chaos", "done"}
  /\ step \in 0..MaxStep
  /\ toPoll \subseteq Containers
  /\ cursor \in 1..(Len(Schedule) + 1)
  /\ applied \subseteq Entries
  /\ pending \subseteq Entries
  /\ recoverAt \in [Entries -> Nat]
  /\ stats \in [applied : Nat, recovered : Nat, errored : Nat]
  /\ audit \subseteq [entry : Entries, phase : {"apply", "recover"}, error : BOOLEAN]
  /\ seen \in [Containers -> ExitCodes \union {NoCode}]
  /\ reported \in [Containers -> [1..MaxExits -> Nat]]
  /\ state \in [Containers -> {"running", "stopped", "crashed"}]
  /\ code \in [Containers -> ExitCodes]
  /\ exits \in [Containers -> 0..MaxExits]
  /\ slow \in [Containers -> BOOLEAN]
  /\ rules \in [Containers -> Nat]

Init ==
  /\ pc = "submit" /\ step = 0 /\ toPoll = {} /\ cursor = 1
  /\ applied = {} /\ pending = {} /\ recoverAt = [e \in Entries |-> 0]
  /\ stats = [applied |-> 0, recovered |-> 0, errored |-> 0]
  /\ audit = {}
  /\ seen = [c \in Containers |-> NoCode]
  /\ reported = [c \in Containers |-> [n \in 1..MaxExits |-> 0]]
  /\ state = [c \in Containers |-> "running"]
  /\ code = [c \in Containers |-> 0]
  /\ exits = [c \in Containers |-> 0]
  /\ slow = [c \in Containers |-> FALSE]
  /\ rules = [c \in Containers |-> 0]

-----------------------------------------------------------------------------
(* The containers.                                                         *)

(* An exit takes the network namespace with it, and with that the qdisc    *)
(* and the rules.                                                          *)
Exit(c, how, with) ==
  /\ state' = [state EXCEPT ![c] = how]
  /\ code' = [code EXCEPT ![c] = with]
  /\ exits' = [exits EXCEPT ![c] = @ + 1]
  /\ slow' = [slow EXCEPT ![c] = FALSE]
  /\ rules' = [rules EXCEPT ![c] = 0]

Crash(c) ==
  /\ state[c] = "running" /\ exits[c] < MaxExits
  /\ \E k \in ExitCodes \ {0} : Exit(c, "crashed", k)
  /\ UNCHANGED <<loopVars, schedVars, pollVars>>

(* ContainerStop: nothing to do for a container that is down.              *)
Stop(c) ==
  IF state[c] = "running"
    THEN exits[c] < MaxExits /\ \E k \in ExitCodes : Exit(c, "stopped", k)
    ELSE UNCHANGED dockerVars

Start(c) ==
  /\ state' = [state EXCEPT ![c] = "running"]
  /\ UNCHANGED <<code, exits, slow, rules>>

(* Exec fails in a container that is down, tc add when the device has a    *)
(* root qdisc already, tc del and iptables -D when there is nothing to     *)
(* delete.                                                                 *)
CanApply(e) ==
  LET c == Schedule[e].target IN
    CASE Schedule[e].kind = "restart"   -> TRUE
      [] Schedule[e].kind = "latency"   -> state[c] = "running" /\ ~slow[c]
      [] Schedule[e].kind = "partition" -> state[c] = "running"

CanRecover(e) ==
  LET c == Schedule[e].target IN
    CASE Schedule[e].kind = "restart"   -> TRUE
      [] Schedule[e].kind = "latency"   -> state[c] = "running" /\ slow[c]
      [] Schedule[e].kind = "partition" -> state[c] = "running" /\ rules[c] > 0

Apply(e) ==
  LET c == Schedule[e].target IN
    CASE Schedule[e].kind = "restart" -> Stop(c)
      [] Schedule[e].kind = "latency" ->
           slow' = [slow EXCEPT ![c] = TRUE] /\ UNCHANGED <<state, code, exits, rules>>
      [] Schedule[e].kind = "partition" ->
           rules' = [rules EXCEPT ![c] = @ + 1] /\ UNCHANGED <<state, code, exits, slow>>

Recover(e) ==
  LET c == Schedule[e].target IN
    CASE Schedule[e].kind = "restart" -> Start(c)
      [] Schedule[e].kind = "latency" ->
           slow' = [slow EXCEPT ![c] = FALSE] /\ UNCHANGED <<state, code, exits, rules>>
      [] Schedule[e].kind = "partition" ->
           rules' = [rules EXCEPT ![c] = @ - 1] /\ UNCHANGED <<state, code, exits, slow>>

-----------------------------------------------------------------------------
(* The soak loop.  A submission that fails goes round the loop without     *)
(* touching the step, which only counts successes: it is a stutter here.   *)

IsTick(n) == n % Period = Period - 1

SubmitOk ==
  /\ pc = "submit" /\ step < MaxStep
  /\ state[SubmitNode] = "running"
  /\ step' = step + 1
  /\ IF IsTick(step + 1)
       THEN pc' = "poll" /\ toPoll' = Containers
       ELSE UNCHANGED <<pc, toPoll>>
  /\ UNCHANGED <<cursor, schedVars, pollVars, dockerVars>>

(* The context is cancelled: the loop returns, and with it ChaosRun.  A    *)
(* call that is under way fails, and the block around it runs to its end.  *)
Cancel ==
  /\ pc = "submit"
  /\ pc' = "done"
  /\ UNCHANGED <<step, toPoll, cursor, schedVars, pollVars, dockerVars>>

-----------------------------------------------------------------------------
(* Poller.Tick.                                                            *)

Crashed(c) == state[c] # "running" /\ code[c] # 0

ReportAlways(c) ==  \* mutant: the reported code is not remembered
  /\ pc = "poll" /\ c \in toPoll
  /\ toPoll' = toPoll \ {c}
  /\ IF Crashed(c) /\ seen[c] # code[c]
       THEN reported' = [reported EXCEPT ![c][exits[c]] = @ + 1]
       ELSE UNCHANGED reported
  /\ UNCHANGED <<pc, step, cursor, seen, schedVars, dockerVars>>

(* Inspect one container; a crash is reported unless the last report for   *)
(* it had the same exit code.                                              *)
Poll(c) ==
  /\ pc = "poll" /\ c \in toPoll
  /\ toPoll' = toPoll \ {c}
  /\ IF Crashed(c) /\ seen[c] # code[c]
       THEN /\ seen' = [seen EXCEPT ![c] = code[c]]
            /\ reported' = [reported EXCEPT ![c][exits[c]] = @ + 1]
       ELSE UNCHANGED pollVars
  /\ UNCHANGED <<pc, step, cursor, schedVars, dockerVars>>

(* Inspect fails for one container, or listing them fails: the error is    *)
(* dropped.                                                                *)
PollFails ==
  /\ pc = "poll"
  /\ toPoll' \in {{}} \union {toPoll \ {c} : c \in toPoll}
  /\ toPoll' # toPoll
  /\ UNCHANGED <<pc, step, cursor, schedVars, pollVars, dockerVars>>

PollDone ==
  /\ pc = "poll" /\ toPoll = {}
  /\ pc' = "chaos" /\ cursor' = 1
  /\ UNCHANGED <<step, toPoll, schedVars, pollVars, dockerVars>>

-----------------------------------------------------------------------------
(* ChaosScheduler.Step: first every entry whose step has come is applied,  *)
(* in the order of the schedule ...                                        *)

Due(e) == e \notin applied /\ step >= Schedule[e].trigger

AtEntry(e) == pc = "chaos" /\ cursor = e

Skip(e) ==
  /\ AtEntry(e) /\ ~Due(e)
  /\ cursor' = cursor + 1
  /\ UNCHANGED <<pc, step, toPoll, schedVars, pollVars, dockerVars>>

(* emit: OnAudit writes a divergence of kind chaos.                        *)
Emit(e, phase, error) == audit' = audit \union {[entry |-> e, phase |-> phase, error |-> error]}

FromTrigger(e) == Schedule[e].trigger + Schedule[e].recoverAfter  \* mutant: not from the tick

RecoverStep(e) == step + Schedule[e].recoverAfter

ApplyOk(e) ==
  /\ AtEntry(e) /\ Due(e) /\ CanApply(e)
  /\ Apply(e)
  /\ applied' = applied \union {e}
  /\ pending' = pending \union {e}
  /\ recoverAt' = [recoverAt EXCEPT ![e] = RecoverStep(e)]
  /\ stats' = [stats EXCEPT !.applied = @ + 1]
  /\ Emit(e, "apply", FALSE)
  /\ cursor' = cursor + 1
  /\ UNCHANGED <<pc, step, toPoll, pollVars>>

(* Mutant: an error of Apply leaves no trace in the corpus.                *)
ApplyFailsSilently(e) ==
  /\ AtEntry(e) /\ Due(e)
  /\ UNCHANGED dockerVars \/ (CanApply(e) /\ Apply(e))
  /\ applied' = applied \union {e}
  /\ stats' = [stats EXCEPT !.errored = @ + 1]
  /\ cursor' = cursor + 1
  /\ UNCHANGED <<pc, step, toPoll, pending, recoverAt, audit, pollVars>>

(* Apply returns an error; what it was to do may have happened all the     *)
(* same (the daemon answers too late), and no Recover will undo it.        *)
ApplyFails(e) ==
  /\ AtEntry(e) /\ Due(e)
  /\ UNCHANGED dockerVars \/ (CanApply(e) /\ Apply(e))
  /\ applied' = applied \union {e}
  /\ stats' = [stats EXCEPT !.errored = @ + 1]
  /\ Emit(e, "apply", TRUE)
  /\ cursor' = cursor + 1
  /\ UNCHANGED <<pc, step, toPoll, pending, recoverAt, pollVars>>

(* ... then every entry pending under this very step is recovered.         *)
Recovering == pc = "chaos" /\ cursor > Len(Schedule)

Now == {e \in pending : recoverAt[e] = step}

(* pending[step] lists them as they fired.  All of Now have one recoverAt, *)
(* so the one with the longer recover_after fired on an earlier step.      *)
FiredBefore(e, f) ==
  \/ Schedule[e].recoverAfter > Schedule[f].recoverAfter
  \/ Schedule[e].recoverAfter = Schedule[f].recoverAfter /\ e < f

IsNext(e) == Recovering /\ e \in Now /\ \A f \in Now \ {e} : FiredBefore(e, f)

KeepPending(e) == pending  \* mutant: the entry is not deleted

Forget(e) == pending \ {e}

RecoverOk(e) ==
  /\ IsNext(e) /\ CanRecover(e)
  /\ Recover(e)
  /\ pending' = Forget(e)
  /\ stats' = [stats EXCEPT !.recovered = @ + 1]
  /\ Emit(e, "recover", FALSE)
  /\ UNCHANGED <<loopVars, applied, recoverAt, pollVars>>

RecoverFails(e) ==
  /\ IsNext(e)
  /\ UNCHANGED dockerVars \/ (CanRecover(e) /\ Recover(e))
  /\ pending' = Forget(e)
  /\ stats' = [stats EXCEPT !.errored = @ + 1]
  /\ Emit(e, "recover", TRUE)
  /\ UNCHANGED <<loopVars, applied, recoverAt, pollVars>>

StepDone ==
  /\ Recovering /\ Now = {}
  /\ pc' = "submit"
  /\ UNCHANGED <<step, toPoll, cursor, schedVars, pollVars, dockerVars>>

-----------------------------------------------------------------------------
Tick ==
  \/ \E c \in Containers : Poll(c)
  \/ PollFails \/ PollDone
  \/ \E e \in Entries :
       Skip(e) \/ ApplyOk(e) \/ ApplyFails(e) \/ RecoverOk(e) \/ RecoverFails(e)
  \/ StepDone

Next == SubmitOk \/ Cancel \/ Tick \/ \E c \in Containers : Crash(c)

Safe == Init /\ [][Next]_vars

(* The loop goes on, and a network whose submit node is up accepts some    *)
(* transaction in the end.                                                 *)
Fairness == WF_vars(Tick) /\ WF_vars(SubmitOk)

Spec == Safe /\ Fairness

-----------------------------------------------------------------------------
(* Properties.                                                             *)

(* scheduler.go: "Recover fires RecoverAfter steps later".  The periodic   *)
(* block only ever sees every Period-th step, so this holds of schedules   *)
(* whose recover_after is a multiple of it; any other entry is passed by.  *)
RecoverOnTime ==
  \A e \in pending :
    recoverAt[e] > step \/ (recoverAt[e] = step /\ pc \in {"poll", "chaos"})

(* Chaos never leaves a container down or its network shaped behind        *)
(* anyone's back: either an entry that will undo it is pending, or the     *)
(* corpus holds the error of one that did not.                             *)
Failed == {a.entry : a \in {b \in audit : b.error}}

Accounted(c, kind) ==
  \E e \in Entries :
    /\ Schedule[e].target = c /\ Schedule[e].kind = kind
    /\ e \in pending \/ e \in Failed

StopsAccounted == \A c \in Containers : state[c] = "stopped" => Accounted(c, "restart")
LatencyAccounted == \A c \in Containers : slow[c] => Accounted(c, "latency")
RulesAccounted == \A c \in Containers : rules[c] > 0 => Accounted(c, "partition")

DisturbancesAccounted == StopsAccounted /\ LatencyAccounted /\ RulesAccounted

(* The stats balance: what was applied is recovered, pending, or failed to *)
(* recover; and they agree with the entries written to the corpus.         *)
Audited(phase, error) == {e \in Entries : [entry |-> e, phase |-> phase, error |-> error] \in audit}

StatsBalance ==
  /\ stats.applied = stats.recovered + Cardinality(pending) + Cardinality(Audited("recover", TRUE))
  /\ stats.errored = Cardinality(Audited("apply", TRUE)) + Cardinality(Audited("recover", TRUE))

(* restart.go: "stops a container at Apply and starts it at Recover": the  *)
(* container is down for as long as its entry is pending.  Two windows on  *)
(* one container that touch or overlap break this: the Recover of the      *)
(* first starts what the second needs down.                                *)
DownWhilePending ==
  \A e \in pending :
    Schedule[e].kind = "restart" => state[Schedule[e].target] # "running"

(* poller.go: OnCrash fires "once per crashed container per crash event":  *)
(* never twice for one exit.  (A second crash with the exit code of the    *)
(* first is taken for the first and not reported at all.)                  *)
ReportedOnce == \A c \in Containers, n \in 1..MaxExits : reported[c][n] <= 1

(* chaos.md: an event fires at a step, "then recover[s] after              *)
(* recover_after seconds".  The code counts successful submissions         *)
(* instead: with the submit node stopped there are none, and the Recover   *)
(* that would start it again never comes.                                  *)
PendingIsRecovered ==
  \A e \in Entries :
    e \in pending ~> e \notin pending \/ pc = "done" \/ state[SubmitNode] = "crashed"
=============================================================================
