------------------------------ MODULE PoolBalance ------------------------------
(* InvariantPoolBalance (layer 4): a check asks the node for one balance    *)
(* after another while transactions go on being applied, and compares the   *)
(* sum with that of the check before.                                       *)
EXTENDS Integers

CONSTANTS
  Count,         \* addresses: the genesis account and the pool
  MaxBalance     \* bound on a balance

Addresses == 1..Count

NoSum == -1       \* no check yet

VARIABLES
  balance,          \* what the ledger holds (external)
  pos, sum,         \* the check under way: addresses asked, sum so far
  lastSum,
  alarmed,          \* whether the last check reported a rise
  exact,            \* history: this check skipped nothing and nothing moved meanwhile
  truth,            \* history: the total at the last check, NoSum if it was not exact
  due               \* history: what the last check had to report, or "unknown"

vars == <<balance, pos, sum, lastSum, alarmed, exact, truth, due>>

(* The balances of the first n addresses together.                          *)
SumOfFirst[n \in 0..Count] == IF n = 0 THEN 0 ELSE SumOfFirst[n - 1] + balance[n]

Total == SumOfFirst[Count]

Init ==
  /\ balance \in [Addresses -> 0..MaxBalance]
  /\ pos = 0 /\ sum = 0
  /\ lastSum = NoSum /\ alarmed = FALSE
  /\ exact = TRUE /\ truth = NoSum /\ due = "unknown"

(* The ledger moves, creates or burns XRP, at any time (external).          *)
Change ==
  /\ \E a, b \in Addresses : \E out \in 0..balance[a], in \in 0..MaxBalance :
       LET after == [balance EXCEPT ![a] = @ - out] IN
       /\ after[b] + in <= MaxBalance
       /\ balance' = [after EXCEPT ![b] = @ + in]
  /\ balance' # balance
  /\ exact' = (exact /\ pos = 0)
  /\ UNCHANGED <<pos, sum, lastSum, alarmed, truth, due>>

(* One account_info; one that fails is skipped.                             *)
AccountInfo ==
  /\ pos < Count
  /\ pos' = pos + 1
  /\ \/ sum' = sum + balance[pos + 1] /\ exact' = exact
     \/ sum' = sum /\ exact' = FALSE
  /\ UNCHANGED <<balance, lastSum, alarmed, truth, due>>

\* mutant: the sum of a check that alarms is not kept
KeepsLowest ==
  /\ pos = Count
  /\ alarmed' = (lastSum # NoSum /\ sum > lastSum)
  /\ lastSum' = IF alarmed' THEN lastSum ELSE sum
  /\ pos' = 0 /\ sum' = 0 /\ exact' = TRUE
  /\ truth' = IF exact THEN Total ELSE NoSum
  /\ due' = IF ~exact \/ truth = NoSum THEN "unknown"
            ELSE IF Total > truth THEN "alarm" ELSE "quiet"
  /\ UNCHANGED balance

(* The sum is kept whether or not it is reported as a rise.                 *)
CheckLedger ==
  /\ pos = Count
  /\ alarmed' = (lastSum # NoSum /\ sum > lastSum)
  /\ lastSum' = sum
  /\ pos' = 0 /\ sum' = 0 /\ exact' = TRUE
  /\ truth' = IF exact THEN Total ELSE NoSum
  /\ due' = IF ~exact \/ truth = NoSum THEN "unknown"
            ELSE IF Total > truth THEN "alarm" ELSE "quiet"
  /\ UNCHANGED balance

(* A balance that is no number ends the check with a report, and the sum of *)
(* the last one stays.                                                      *)
Unparseable ==
  /\ pos < Count
  /\ alarmed' = TRUE /\ due' = "unknown"
  /\ pos' = 0 /\ sum' = 0 /\ exact' = TRUE
  /\ UNCHANGED <<balance, lastSum, truth>>

Next == Change \/ AccountInfo \/ CheckLedger \/ Unparseable

Spec == Init /\ [][Next]_vars

------------------------------------------------------------------------------
(* Two checks in a row that skipped no address and during which nothing     *)
(* moved tell the truth: the second reports a rise exactly when there is    *)
(* more XRP than at the first, whatever the checks before them missed or    *)
(* reported.  (A check that is not exact may invent a rise or hide one.)    *)
CheckIsTrue == due # "unknown" => alarmed = (due = "alarm")
=============================================================================
