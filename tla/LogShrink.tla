------------------------------- MODULE LogShrink -------------------------------
(* From a diverging run to a minimal prefix of its log: the runner writes   *)
(* one line per submission, scripts/shrink.sh bisects on the step of the    *)
(* lines, and each probe replays the lines up to a step on a fresh network. *)
EXTENDS Integers, Sequences

CONSTANTS MaxTurns      \* bound on the turns of the recorded run

VARIABLES
  writer,             \* the runner that wrote the log
  turn, step, log,    \* its loop index, its count of successes, its run log
  diverging,          \* lines whose transaction has the divergence looked for
  pc, lo, hi, best,   \* shrink.sh
  k, next, matched,   \* the probe under way: its bound, the next line, its verdict
  missed              \* history: a probe submitted a diverging line and saw nothing

recording == <<writer, turn, step, log>>
search    == <<lo, hi, best>>
vars == <<recording, diverging, pc, search, k, next, matched, missed>>

N == Len(log)

Init ==
  /\ writer \in {"realtime", "soak", "replay"}
  /\ turn = 0 /\ step = 0 /\ log = << >>
  /\ diverging = {} /\ pc = "record"
  /\ lo = 0 /\ hi = 0 /\ best = 0
  /\ k = 0 /\ next = 1 /\ matched = FALSE /\ missed = FALSE

(* The step of a line: realtime writes its loop index, the other runners    *)
(* the number of submissions that succeeded so far.                         *)
\* mutant: every runner counts submissions that succeeded
StepOfSuccesses == step

Step == IF writer = "realtime" THEN turn ELSE step

Append1(accepted) == log' = Append(log, [step |-> Step, accepted |-> accepted])

Recording ==
  /\ pc = "record" /\ turn < MaxTurns
  /\ turn' = turn + 1
  /\ UNCHANGED <<writer, diverging, pc, search, k, next, matched, missed>>

\* nothing to pick or to rewrite: no line
PickFails == Recording /\ UNCHANGED <<step, log>>

recordFailure == Recording /\ Append1(FALSE) /\ step' = step

RecordSuccess == Recording /\ Append1(TRUE) /\ step' = step + 1

------------------------------------------------------------------------------
Probe(bound) == k' = bound /\ next' = 1 /\ matched' = FALSE

(* The whole log must reproduce, or there is nothing to bisect.             *)
Verify ==
  /\ pc = "record" /\ N > 0
  /\ \E lines \in SUBSET {l \in 1..N : log[l].accepted} : lines # {} /\ diverging' = lines
  /\ pc' = "verify" /\ Probe(N - 1)
  /\ UNCHANGED <<recording, search, missed>>

(* Shrink: one line of the probe.  The node may refuse the transaction now, *)
(* and its validation may not be waited out: then nothing is compared.      *)
Running == pc \in {"verify", "bisect"} /\ next <= N /\ log[next].step <= k

ShrinkEntry ==
  /\ Running
  /\ next' = next + 1
  /\ \/ matched' = (matched \/ next \in diverging) /\ missed' = missed
     \/ matched' = matched /\ missed' = (missed \/ next \in diverging)
  /\ UNCHANGED <<recording, diverging, pc, search, k>>

ProbeOver == pc \in {"verify", "bisect"} /\ ~(next <= N /\ log[next].step <= k)

\* mutant: the last candidate is not probed
BisectShort(from, to) ==
  /\ lo' = from /\ hi' = to
  /\ IF from < to THEN pc' = "bisect" /\ Probe((from + to) \div 2)
                  ELSE pc' = "done" /\ UNCHANGED <<k, next, matched>>

Bisect(from, to) ==
  /\ lo' = from /\ hi' = to
  /\ IF from <= to THEN pc' = "bisect" /\ Probe((from + to) \div 2)
                   ELSE pc' = "done" /\ UNCHANGED <<k, next, matched>>

Verified ==
  /\ ProbeOver /\ pc = "verify"
  /\ IF matched THEN best' = k /\ Bisect(0, N - 2)
                ELSE pc' = "aborted" /\ UNCHANGED <<search, k, next, matched>>
  /\ UNCHANGED <<recording, diverging, missed>>

Narrow ==
  /\ ProbeOver /\ pc = "bisect"
  /\ IF matched THEN best' = k /\ Bisect(lo, k - 1) ELSE best' = best /\ Bisect(k + 1, hi)
  /\ UNCHANGED <<recording, diverging, missed>>

Next ==
  \/ PickFails \/ recordFailure \/ RecordSuccess
  \/ Verify \/ ShrinkEntry \/ Verified \/ Narrow

Spec == Init /\ [][Next]_vars

------------------------------------------------------------------------------
(* The lines that end up in the shrunk log.                                 *)
Shrunk == 1..(best + 1)

(* A shrunk realtime log holds a line that diverges, whichever turns had no *)
(* line and whichever probes missed it: the step a probe matched at bounds  *)
(* the line number that head cuts at.  (The other runners repeat a step     *)
(* after a failure, and their lines are behind their steps.)                *)
PrefixReproduces == pc = "done" /\ writer = "realtime" => Shrunk \cap diverging # {}

(* When no probe missed what it submitted, the search ends at the least     *)
(* step that reproduces, for logs with gaps and with repeated steps.        *)
BestIsLeast ==
  pc = "done" /\ ~missed =>
    /\ \E l \in diverging : log[l].step = best
    /\ \A l \in diverging : log[l].step >= best
=============================================================================
