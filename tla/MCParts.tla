-------------------------------- MODULE MCParts --------------------------------
(* The parts of the tool that share nothing but the network: the two stall  *)
(* detectors, the generator, the set-up of accounts, the comparing runs,    *)
(* the balance check, the shrinker and the command line.  Every behaviour   *)
(* follows one of them while the others stand still.                        *)
EXTENDS EnclaveCLI, Sequences, TLC

CONSTANTS
  \* detectors
  Nodes, GapThreshold, SustainFor, LivenessStall, LivenessMinPeers, DefaultStall, Cooldown,
  MaxSeq, MaxPeers, MaxLate, OracleTime, MonitorTime,
  \* generator
  SomeAccounts, OtherAccounts, Nobody, Documents, MaxMade,
  \* account set-up
  Sizes, FundMaxAttempts, SetupMaxRetries, Advance, MaxPolls, MaxClosed,
  \* comparing runs, balance check, shrinker
  NRunNodes, Submitter, Batch, MaxLedger, Count, MaxBalance, MaxTurns

(* What the flags and bounds may be.  Zero stands for a threshold or a      *)
(* cooldown that is not given, and the code puts a default in its place.    *)
ASSUME DetectorAssumption ==
  /\ SustainFor \in Nat /\ MaxLate \in Nat /\ MaxSeq \in Nat
  /\ LivenessStall \in Nat /\ LivenessMinPeers \in Nat
  /\ DefaultStall \in Nat \ {0} /\ Cooldown \in Nat \ {0}

(* The callers of waitForValidation ask for two ledgers.                    *)
ASSUME SetupAssumption == Advance \in Nat

(* One of the nodes takes the transactions.                                 *)
ASSUME RealtimeAssumption ==
  /\ NRunNodes \in Nat /\ Submitter \in 1..NRunNodes
  /\ Batch \in Nat \ {0} /\ MaxLedger \in Nat

(* The genesis account and the pool.                                        *)
ASSUME BalanceAssumption == Count \in Nat

VARIABLES
  followed,
  now, stallStarts, openFinding, raised, ticks,
  wanted, clock, highWaterSeq, highWaterTime, lastStall, lastPeer, events, samples,
  enabled, tracked, made, held, pending,
  size, weights, phase, job, attempt, startSeq, polls, seq, seqAtWait, applied, lost,
  mode, pc, i, validated, fork, lands, asked, seen, broken,
  lastCompared, cursor, until, alarms,
  balance, pos, sum, lastSum, alarmed, exact, truth, due,
  writer, turn, step, log, diverging, probing, lo, hi, best, k, next, matched, missed

oracleVars == <<now, stallStarts, openFinding, raised, ticks>>

monitorVars ==
  <<wanted, clock, highWaterSeq, highWaterTime, lastStall, lastPeer, events, samples>>

generatorVars == <<enabled, tracked, made, held, pending>>

setupVars ==
  <<size, weights, phase, job, attempt, startSeq, polls, seq, seqAtWait, applied, lost>>

realtimeVars ==
  <<mode, pc, i, validated, fork, lands, asked, seen, broken,
    lastCompared, cursor, until, alarms>>

balanceVars == <<balance, pos, sum, lastSum, alarmed, exact, truth, due>>

shrinkVars ==
  <<writer, turn, step, log, diverging, probing, lo, hi, best, k, next, matched, missed>>

Accounts == SomeAccounts \cup OtherAccounts

(* All amendments that gate a candidate, a few at a time.                   *)
Amendments ==
  {{"NonFungibleTokensV1_1", "DynamicNFT"},
   {"Checks", "PermissionedDomains", "MPTokensV1", "DepositPreauth"},
   {"PriceOracle", "DID", "Credentials", "DeletableAccounts"},
   {"AMM", "AMMClawback", "Clawback", "fixNFTokenPageLinks"}}

Weights(rich, atReserve, multisig, regularKey, blackholed) ==
  [rich |-> rich, atReserve |-> atReserve, multisig |-> multisig, regularKey |-> regularKey,
   blackholed |-> blackholed]

WeightChoices == {Weights(1, 1, 1, 1, 1), Weights(0, 0, 1, 2, 0)}

Oracle    == INSTANCE StallOracle WITH MaxTime <- OracleTime
Monitor   == INSTANCE LivenessMonitor WITH MaxTime <- MonitorTime
Generator == INSTANCE Generator
Setup     == INSTANCE AccountSetup
Realtime  == INSTANCE Realtime WITH NNodes <- NRunNodes, MaxSeq <- MaxLedger
Balance   == INSTANCE PoolBalance
Shrink    == INSTANCE LogShrink WITH pc <- probing

Parts == {"oracle", "monitor", "generator", "setup", "realtime", "balance", "shrink", "cli"}

(* A part that stands still does so in one of its initial states.           *)
Resting ==
  /\ followed # "monitor" => wanted = {} /\ clock = 1
  /\ followed # "generator" => "AMM" \in enabled
  /\ followed # "setup" => size = 1 /\ weights.rich = 1
  /\ followed # "realtime" => mode = "realtime" /\ fork = MaxLedger
  /\ followed # "balance" => \A a \in DOMAIN balance : balance[a] = 0
  /\ followed # "shrink" => writer = "soak"

MCInit ==
  /\ followed \in Parts
  /\ Oracle!Init /\ Monitor!Init /\ Generator!Init /\ Setup!Init
  /\ Realtime!Init /\ Balance!Init /\ Shrink!Init /\ Init
  /\ Resting

Still(part, partVars) == followed # part => UNCHANGED partVars

MCNext ==
  /\ UNCHANGED followed
  /\ Still("oracle", oracleVars) /\ Still("monitor", monitorVars)
  /\ Still("generator", generatorVars) /\ Still("setup", setupVars)
  /\ Still("realtime", realtimeVars) /\ Still("balance", balanceVars)
  /\ Still("shrink", shrinkVars) /\ Still("cli", vars)
  /\ \/ followed = "oracle" /\ Oracle!Next
     \/ followed = "monitor" /\ Monitor!Next
     \/ followed = "generator" /\ Generator!Next
     \/ followed = "setup" /\ Setup!Next
     \/ followed = "realtime" /\ Realtime!Next
     \/ followed = "balance" /\ Balance!Next
     \/ followed = "shrink" /\ Shrink!Next
     \/ followed = "cli" /\ Next

partsVars ==
  <<followed, oracleVars, monitorVars, generatorVars, setupVars, realtimeVars, balanceVars,
    shrinkVars, vars>>

MCSpec == MCInit /\ [][MCNext]_partsVars

(* Three account symmetries of twenty-four, which is what pays off here.    *)
Alike ==
  Permutations(Nodes) \union Permutations(SomeAccounts) \union Permutations(OtherAccounts)

(* See the modules for what these state, of the part that is followed: the   *)
(* others are in initial states, from which that part is followed as well.  *)
Of(part, property) == followed = part => property

StallJustified   == Of("oracle", Oracle!StallJustified)
StallReported    == Of("oracle", Oracle!StallReported)
StallIsTrue      == Of("monitor", Monitor!StallIsTrue)
StallIsSeen      == Of("monitor", Monitor!StallIsSeen)
PeerDropIsSeen   == Of("monitor", Monitor!PeerDropIsSeen)
RefsAreReal      == Of("generator", Generator!RefsAreReal)
SignersMayAct    == Of("generator", Generator!SignersMayAct)
AppliedOnce      == Of("setup", Setup!AppliedOnce)
LedgersBetween   == Setup!LedgersBetween
ForkIsSeen       == Of("realtime", Realtime!ForkIsSeen)
CheckIsTrue      == Of("balance", Balance!CheckIsTrue)
PrefixReproduces == Of("shrink", Shrink!PrefixReproduces)
BestIsLeast      == Of("shrink", Shrink!BestIsLeast)
=============================================================================
