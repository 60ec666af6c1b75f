----------------------------- MODULE AccountSetup -----------------------------
(* What a fuzz run does before its first transaction: the pool is funded    *)
(* from the genesis account, a trust-line and balance mesh is laid between  *)
(* all pairs, and each wallet is given the state of its tier.  One thread   *)
(* submits one transaction after another and judges the node's answers.     *)
EXTENDS Integers, SequencesExt

CONSTANTS
  Sizes,            \* possible sizes of the pool
  WeightChoices,    \* possible tier weights
  FundMaxAttempts, SetupMaxRetries,
  Advance,          \* ledgers a mesh phase waits for
  MaxPolls,         \* polls before a wait times out
  MaxClosed         \* bound on the ledgers that close during a wait

VARIABLES
  size, weights,           \* the run's own configuration
  phase, job, attempt,     \* where the thread is, and its tries at this job
  startSeq, polls,         \* waitForValidation's own variables
  seq,                     \* the node's validated sequence (external)
  seqAtWait,               \* history: that sequence when the wait began
  applied, lost            \* tries at this job that the ledger applied, that got no answer

walk == <<phase, job, attempt>>
wait == <<startSeq, polls, seqAtWait>>
ledger == <<applied, lost>>
config == <<size, weights>>
vars == <<config, walk, wait, seq, ledger>>

Wallets == 1..size

------------------------------------------------------------------------------
(* AssignTiers stamps the wallets in order, Rich first; integer division    *)
(* leaves the remainder to Rich.                                            *)
Total == weights.rich + weights.atReserve + weights.multisig + weights.regularKey
           + weights.blackholed

Share(weight) == (weight * size) \div Total

Stamps ==
  <<Share(weights.atReserve), Share(weights.multisig), Share(weights.regularKey),
    Share(weights.blackholed)>>

AssignTiers ==
  LET Upto(k) == FoldSeq(LAMBDA share, sum : share + sum, 0, SubSeq(Stamps, k, 4))
      \* the first wallet of the k-th tier below Rich, and of none at k = 5
      From(k) == size - Upto(k)
  IN [w \in Wallets |->
        CASE Total = 0 \/ w <= From(1) -> "Rich"
          [] w <= From(2) -> "AtReserve"
          [] w <= From(3) -> "Multisig"
          [] w <= From(4) -> "RegularKey"
          [] OTHER -> "Blackholed"]

otherWallets(w) == Wallets \ {w}

(* The transactions of a tier, in order.  The excess of an AtReserve wallet *)
(* may be nothing to send.                                                  *)
Job(type, wallet) == [type |-> type, wallet |-> wallet]

setupAtReserve(w)  == <<Job("Drain", w)>>
setupMultisig(w)   == <<Job("SignerListSet", w)>>
setupRegularKey(w) == <<Job("SetRegularKey", w), Job("DisableMaster", w)>>
setupBlackholed(w) == <<Job("DisableMaster", w)>>

TierJobs(w) ==
  CASE AssignTiers[w] = "AtReserve"  -> setupAtReserve(w)
    [] AssignTiers[w] = "Multisig"   -> setupMultisig(w)
    [] AssignTiers[w] = "RegularKey" -> setupRegularKey(w)
    [] AssignTiers[w] = "Blackholed" -> setupBlackholed(w)
    [] OTHER -> << >>

ApplyAll == FlattenSeq([w \in Wallets |-> TierJobs(w)])

(* Every ordered pair, holder by holder.                                    *)
Mesh(type) ==
  FlattenSeq([i \in Wallets |->
    [k \in 1..(size - 1) |-> [type |-> type, wallet |-> i, peer |-> IF k < i THEN k ELSE k + 1]]])

Jobs ==
  CASE phase = "fund"  -> [w \in Wallets |-> Job("Fund", w)]
    [] phase = "lines" -> IF size < 2 THEN << >> ELSE Mesh("TrustSet")
    [] phase = "ious"  -> IF size < 2 THEN << >> ELSE Mesh("PaymentIOU")
    [] phase = "tiers" -> IF size < 2 THEN << >> ELSE ApplyAll
    [] OTHER -> << >>

(* ApplyAll gives up on a Multisig wallet with fewer than three others.     *)
Impossible(j) == j.type = "SignerListSet" /\ Cardinality(otherWallets(j.wallet)) < 3

------------------------------------------------------------------------------
(* The node's answers: accepted at once or queued; a tel or ter code;       *)
(* tefPAST_SEQ; another code; an error that says the node is not ready; any *)
(* other error.                                                             *)
Answers == {"success", "queued", "tel", "past", "refused", "notReady", "broken"}

(* What the caller makes of an answer.                                      *)
FundFromGenesis(answer) ==
  CASE answer \in {"success", "queued"} -> "next"
    [] answer \in {"tel", "notReady", "broken"} -> "again"
    [] OTHER -> "fail"

\* mutant: a ter code is tried again, whatever it means
RetryAllTer(answer) ==
  CASE answer = "success" -> "next"
    [] answer \in {"queued", "tel", "past", "notReady"} -> "again"
    [] OTHER -> "fail"

retrySubmit(answer) ==
  CASE answer \in {"success", "queued"} -> "next"
    [] answer \in {"tel", "past", "notReady"} -> "again"
    [] OTHER -> "fail"

\* a tier's set-up looks at errors only, never at the engine result
SubmitTier(answer) == IF answer \in {"notReady", "broken"} THEN "fail" ELSE "next"

Verdict(answer) ==
  CASE phase = "fund" -> FundFromGenesis(answer)
    [] phase = "tiers" -> SubmitTier(answer)
    [] OTHER -> retrySubmit(answer)

Tries == IF phase = "fund" THEN FundMaxAttempts ELSE SetupMaxRetries + 1

(* Which answers leave room for the transaction to be applied (external): a *)
(* queued one may be dropped, and an answer may be lost on its way back.    *)
Fates(answer) ==
  CASE answer = "success" -> {TRUE}
    [] answer \in {"queued", "broken"} -> BOOLEAN
    [] OTHER -> {FALSE}

Tally(n, happened) == (IF attempt = 1 THEN 0 ELSE n) + (IF happened THEN 1 ELSE 0)


------------------------------------------------------------------------------
Init ==
  /\ size \in Sizes /\ weights \in WeightChoices
  /\ phase = "fund" /\ job = 1 /\ attempt = 1
  /\ startSeq = -1 /\ polls = 0
  /\ seq = 1 /\ seqAtWait = 1
  /\ applied = 0 /\ lost = 0

Submit ==
  /\ job <= Len(Jobs) /\ ~Impossible(Jobs[job])
  /\ \E answer \in Answers : \E applies \in Fates(answer) :
       /\ applied' = Tally(applied, applies)
       /\ lost' = Tally(lost, answer = "broken")
       /\ CASE Verdict(answer) = "next" -> job' = job + 1 /\ attempt' = 1 /\ phase' = phase
            [] Verdict(answer) = "again" /\ attempt < Tries ->
                 attempt' = attempt + 1 /\ UNCHANGED <<phase, job>>
            [] OTHER -> phase' = "failed" /\ UNCHANGED <<job, attempt>>
  /\ UNCHANGED <<config, wait, seq>>

(* setupAtReserve sends nothing when there is no excess; a Multisig wallet  *)
(* in a small pool ends the set-up.                                         *)
NoSubmit ==
  /\ job <= Len(Jobs)
  /\ \/ Jobs[job].type = "Drain" /\ job' = job + 1 /\ phase' = phase
     \/ Impossible(Jobs[job]) /\ phase' = "failed" /\ job' = job
  /\ attempt' = 1
  /\ UNCHANGED <<config, wait, seq, ledger>>

(* The jobs of a phase are done: after the funding the mesh starts at once, *)
(* after each later phase there is a wait.                                  *)
PhaseEnds ==
  /\ phase \in {"fund", "lines", "ious", "tiers"} /\ job > Len(Jobs)
  /\ phase' = (CASE phase = "fund"  -> IF size < 2 THEN "done" ELSE "lines"
                 [] phase = "lines" -> "waitLines"
                 [] phase = "ious"  -> "waitIous"
                 [] phase = "tiers" -> "waitTiers")
  /\ job' = 1 /\ attempt' = 1
  /\ startSeq' = -1 /\ polls' = 0 /\ seqAtWait' = seq
  /\ UNCHANGED <<config, seq, ledger>>

Waits == {"waitLines", "waitIous", "waitTiers"}

AfterWait ==
  CASE phase = "waitLines" -> "ious"
    [] phase = "waitIous"  -> "tiers"
    [] phase = "waitTiers" -> "done"

(* One poll of waitForValidation: the first answer is the starting point,   *)
(* and server_info may fail.                                                *)
\* mutant: the sentinel of "no answer yet" taken for a sequence
ReachedFromSentinel(from) == seq - from >= Advance

Reached(from) == from >= 0 /\ seq - from >= Advance

waitForValidation ==
  /\ phase \in Waits
  /\ polls' = polls + 1
  /\ IF polls = MaxPolls THEN phase' = "failed" /\ startSeq' = startSeq
     ELSE \/ UNCHANGED <<phase, startSeq>>
          \/ startSeq = -1 /\ startSeq' = seq /\ phase' = phase
          \/ Reached(startSeq) /\ phase' = AfterWait /\ startSeq' = startSeq
  /\ UNCHANGED <<config, job, attempt, seq, seqAtWait, ledger>>

\* a ledger that closes outside a wait is of no consequence here
LedgerCloses ==
  /\ phase \in Waits /\ seq < seqAtWait + MaxClosed
  /\ seq' = seq + 1
  /\ UNCHANGED <<config, walk, wait, ledger>>

Next == Submit \/ NoSubmit \/ PhaseEnds \/ waitForValidation \/ LedgerCloses

Spec == Init /\ [][Next]_vars

------------------------------------------------------------------------------
(* A funding, a trust line or a balance reaches the ledger a second time    *)
(* only for an answer that was lost: a queued transaction (terQUEUED is     *)
(* also a ter code) is never sent again.                                    *)
AppliedOnce == applied <= 1 + lost

(* The balances are sent, and the tiers set up, only after the validated    *)
(* ledger moved on by Advance since the last submission of the phase        *)
(* before: an early payment would find no trust line.                       *)
LedgersBetween ==
  [][(phase \in Waits /\ phase' \notin Waits \cup {"failed"})
       => seq - seqAtWait >= Advance]_vars
=============================================================================
