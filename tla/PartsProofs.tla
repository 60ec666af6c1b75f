------------------------------ MODULE PartsProofs ------------------------------
(***************************************************************************)
(* The parts that MCParts puts side by side, for every value of its        *)
(* constants: the two stall detectors, whose proofs are modules of their   *)
(* own, the generator, the set-up of accounts, the comparing runs, the     *)
(* balance check, the shrinker and the command line.                       *)
(*                                                                         *)
(* Every behaviour of MCSpec is one of each part, since a part that is not *)
(* followed stands still.  So what a part's own inductive invariant gives  *)
(* of its steps holds of MCSpec.                                           *)
(***************************************************************************)
EXTENDS MCParts, Integers, FiniteSetTheorems, WellFoundedInduction, TLAPS

-----------------------------------------------------------------------------
(* The stall detectors.                                                    *)
OracleProofs  == INSTANCE StallOracleProofs WITH MaxTime <- OracleTime
MonitorProofs == INSTANCE LivenessMonitorProofs WITH MaxTime <- MonitorTime

(* MCParts has its own instances of the detectors, defined as those here.  *)
LEMMA FollowsOracle == MCSpec => OracleProofs!Spec
<1>1. MCInit => OracleProofs!Init
  BY DEF MCInit, Oracle!Init, OracleProofs!Init
<1>2. Oracle!Next => OracleProofs!Next
  BY DEF Oracle!Next, OracleProofs!Next, Oracle!vars, OracleProofs!vars, Oracle!View,
         OracleProofs!View, Oracle!Snapshot, OracleProofs!Snapshot, Oracle!Over,
         OracleProofs!Over, Oracle!Started, OracleProofs!Started, Oracle!Sustained,
         OracleProofs!Sustained, Oracle!Ticked, OracleProofs!Ticked, Oracle!AllGone,
         OracleProofs!AllGone, Oracle!Gone, OracleProofs!Gone, Oracle!Recovered,
         OracleProofs!Recovered, Oracle!Wait, OracleProofs!Wait, Oracle!Raise,
         OracleProofs!Raise, Oracle!tick, OracleProofs!tick
<1>3. [MCNext]_partsVars => [OracleProofs!Next]_(OracleProofs!vars)
  BY <1>2 DEF MCNext, Still, partsVars, oracleVars, OracleProofs!vars
<1> QED BY <1>1, <1>3, PTL DEF MCSpec, OracleProofs!Spec

LEMMA FollowsMonitor == MCSpec => MonitorProofs!Spec
<1>1. MCInit => MonitorProofs!Init
  BY DEF MCInit, Monitor!Init, MonitorProofs!Init, Monitor!Oracles, MonitorProofs!Oracles
<1>2. Monitor!Next => MonitorProofs!Next
  BY DEF Monitor!Next, MonitorProofs!Next, Monitor!vars, MonitorProofs!vars,
         Monitor!Oracles, MonitorProofs!Oracles, Monitor!GivenStall,
         MonitorProofs!GivenStall, Monitor!GivenPeers, MonitorProofs!GivenPeers,
         Monitor!Started, MonitorProofs!Started, Monitor!StallThreshold,
         MonitorProofs!StallThreshold, Monitor!Answer, MonitorProofs!Answer,
         Monitor!Validated, MonitorProofs!Validated, Monitor!Highest,
         MonitorProofs!Highest, Monitor!FewPeers, MonitorProofs!FewPeers,
         Monitor!Elapsed, MonitorProofs!Elapsed, Monitor!HighWater,
         MonitorProofs!HighWater, Monitor!Sampled, MonitorProofs!Sampled,
         Monitor!StallDue, MonitorProofs!StallDue, Monitor!PeersDue,
         MonitorProofs!PeersDue, Monitor!RaiseStall, MonitorProofs!RaiseStall,
         Monitor!RaisePeerDrop, MonitorProofs!RaisePeerDrop, Monitor!Quiet,
         MonitorProofs!Quiet, Monitor!Tick, MonitorProofs!Tick
<1>3. [MCNext]_partsVars => [MonitorProofs!Next]_(MonitorProofs!vars)
  BY <1>2 DEF MCNext, Still, partsVars, monitorVars, MonitorProofs!vars
<1> QED BY <1>1, <1>3, PTL DEF MCSpec, MonitorProofs!Spec

(* A finding is raised on a lag that lasted for the sustain period.        *)
THEOREM StallsAreJustified == MCSpec => []StallJustified
<1>1. OracleProofs!Spec => []OracleProofs!StallJustified
  BY OracleProofs!StallsAreJustified, DetectorAssumption DEF OracleProofs!Periods
<1>2. OracleProofs!StallJustified => StallJustified
  BY DEF StallJustified, Of, Oracle!StallJustified, OracleProofs!StallJustified,
         Oracle!StalledAt, OracleProofs!StalledAt, Oracle!LagsFrom,
         OracleProofs!LagsFrom
<1> QED BY <1>1, <1>2, FollowsOracle, PTL

(* A lag that lasts is reported, unless its episode was reported before.   *)
THEOREM StallsAreReported == MCSpec => []StallReported
<1>1. OracleProofs!Spec => []OracleProofs!StallReported
  BY OracleProofs!StallsAreReported, DetectorAssumption DEF OracleProofs!Periods
<1>2. OracleProofs!StallReported => StallReported
  BY DEF StallReported, Of, Oracle!StallReported, OracleProofs!StallReported,
         Oracle!StalledAt, OracleProofs!StalledAt, Oracle!LagsFrom,
         OracleProofs!LagsFrom, Oracle!SameEpisode, OracleProofs!SameEpisode
<1> QED BY <1>1, <1>2, FollowsOracle, PTL

(* A consensus_stall is never raised while some node advances.             *)
THEOREM StallsAreTrue == MCSpec => []StallIsTrue
<1>1. MonitorProofs!Spec => []MonitorProofs!StallIsTrue
  BY MonitorProofs!StallsAreTrue, DetectorAssumption DEF MonitorProofs!Periods
<1>2. MonitorProofs!StallIsTrue => StallIsTrue
  BY DEF StallIsTrue, Of, Monitor!StallIsTrue, MonitorProofs!StallIsTrue,
         Monitor!StalledUntil, MonitorProofs!StalledUntil, Monitor!StallThreshold,
         MonitorProofs!StallThreshold, Monitor!GivenStall, MonitorProofs!GivenStall
<1> QED BY <1>1, <1>2, FollowsMonitor, PTL

(* A network that validates nothing is reported once per cooldown at least. *)
THEOREM StallsAreSeen == MCSpec => []StallIsSeen
<1>1. MonitorProofs!Spec => []MonitorProofs!StallIsSeen
  BY MonitorProofs!StallsAreSeen, DetectorAssumption DEF MonitorProofs!Periods
<1>2. MonitorProofs!StallIsSeen => StallIsSeen
  BY DEF StallIsSeen, Of, Monitor!StallIsSeen, MonitorProofs!StallIsSeen,
         Monitor!StalledUntil, MonitorProofs!StalledUntil, Monitor!StallThreshold,
         MonitorProofs!StallThreshold, Monitor!GivenStall, MonitorProofs!GivenStall
<1> QED BY <1>1, <1>2, FollowsMonitor, PTL

(* A node without peers is reported within the cooldown, whatever stalls.  *)
THEOREM PeerDropsAreSeen == MCSpec => []PeerDropIsSeen
<1>1. MonitorProofs!Spec => []MonitorProofs!PeerDropIsSeen
  BY MonitorProofs!PeerDropsAreSeen, DetectorAssumption DEF MonitorProofs!Periods
<1>2. MonitorProofs!PeerDropIsSeen => PeerDropIsSeen
  BY DEF PeerDropIsSeen, Of, Monitor!PeerDropIsSeen, MonitorProofs!PeerDropIsSeen,
         Monitor!GivenPeers, MonitorProofs!GivenPeers
<1> QED BY <1>1, <1>2, FollowsMonitor, PTL

-----------------------------------------------------------------------------
(* The generator.  A token an account holds is in the trackers, or was     *)
(* minted by it.                                                           *)
Vouched(token, account) ==
  \/ \E ref \in tracked : ref.kind = "nft" /\ ref.id = token
  \/ Generator!Ref("nft", token, account, Nobody) \in made

GeneratorInv ==
  /\ tracked \subseteq made
  /\ \A entry \in held : Vouched(entry[1], entry[2])
  /\ \A move \in pending : move.to # Nobody => Vouched(move.token, move.to)
  /\ \A ref \in tracked : ref.kind = "nftOffer" =>
       \E nft \in tracked : nft.kind = "nft" /\ nft.id = ref.other

LEMMA GeneratorBegins == Generator!Init => GeneratorInv
  BY DEF Generator!Init, Generator!NewTracker, GeneratorInv

(* A change of holder adds at most the new holder.                          *)
LEMMA MovedAdds ==
  ASSUME NEW h, NEW move, NEW entry \in Generator!Moved(h, move)
  PROVE  entry \in h \/ (move.to # Nobody /\ entry = <<move.token, move.to>>)
  BY DEF Generator!Moved

LEMMA VouchedStays ==
  ASSUME tracked \subseteq tracked', made \subseteq made', NEW token, NEW a, Vouched(token, a)
  PROVE  Vouched(token, a)'
  BY DEF Vouched

(* The same across an acceptance, before the trackers learn of it.          *)
VouchedThen(token, account) ==
  \/ \E ref \in tracked : ref.kind = "nft" /\ ref.id = token
  \/ Generator!Ref("nft", token, account, Nobody) \in made'

LEMMA SettleKeeps ==
  ASSUME GeneratorInv, NEW move \in pending, Generator!Settle(move) PROVE GeneratorInv'
<1>1. UNCHANGED <<tracked, made>> /\ pending' \subseteq pending
  BY DEF Generator!Settle
<1>2. \A token, a : Vouched(token, a) => Vouched(token, a)'
  BY <1>1, VouchedStays
<1>3. \A entry \in held' : entry \in held \/ (move.to # Nobody /\ entry = <<move.token, move.to>>)
  BY MovedAdds DEF Generator!Settle
<1>4. \A entry \in held' : Vouched(entry[1], entry[2])'
  BY <1>2, <1>3 DEF GeneratorInv
<1>5. \A m \in pending' : m.to # Nobody => Vouched(m.token, m.to)'
  BY <1>1, <1>2 DEF GeneratorInv
<1> QED BY <1>1, <1>4, <1>5 DEF GeneratorInv

(* A transaction as a builder returns it: signed by an account that may act *)
(* on the reference it names, which is a tracked one.                       *)
Built(tx) ==
  /\ tx = [type |-> tx.type, account |-> tx.account, party |-> tx.party, names |-> tx.names,
           document |-> tx.document, sell |-> tx.sell]
  /\ tx.names # Generator!Nothing =>
       tx.names \in tracked /\ Generator!MayAct(tx.type, tx.account, tx.names)
  /\ tx.type = "NFTokenCreateOffer" => tx.names.kind = "nft" /\ tx.names \in tracked
  /\ tx.type = "NFTokenAcceptOffer" => tx.names.kind = "nftOffer" /\ tx.names \in tracked

NameOffers == {"NFTokenCreateOffer", "NFTokenAcceptOffer"}

LEMMA NamelessIsBuilt ==
  ASSUME NEW type, type \notin NameOffers,
         NEW tx \in Generator!Alone(type) \cup Generator!PickTwoDistinct(type)
  PROVE  Built(tx) /\ \A d : Built([tx EXCEPT !.document = d])
<1>1. PICK a, party :
        tx = [type |-> type, account |-> a, party |-> party, names |-> Generator!Nothing,
              document |-> 0, sell |-> type = "NFTokenCreateOffer"]
  BY DEF Generator!Alone, Generator!PickTwoDistinct, Generator!Tx
<1> QED BY <1>1 DEF Built, NameOffers

LEMMA OwnersAreBuilt ==
  ASSUME NEW type, NEW kind, type # "NFTokenAcceptOffer",
         type = "NFTokenCreateOffer" => kind = "nft",
         \A object : Generator!MayAct(type, object.owner, object),
         NEW tx \in Generator!ByOwner(type, kind)
  PROVE  Built(tx)
<1>1. PICK ref \in tracked : ref.kind = kind /\ tx = Generator!Tx(type, ref.owner, Nobody, ref)
  BY DEF Generator!ByOwner, Generator!Tracked
<1> QED BY <1>1 DEF Built, Generator!Tx

LEMMA OthersAreBuilt ==
  ASSUME NEW type, NEW kind, type \notin NameOffers,
         \A object : Generator!MayAct(type, object.other, object),
         NEW tx \in Generator!ByOther(type, kind)
  PROVE  Built(tx)
<1>1. PICK ref \in tracked : ref.kind = kind /\ tx = Generator!Tx(type, ref.other, ref.owner, ref)
  BY DEF Generator!ByOther, Generator!Tracked
<1> QED BY <1>1 DEF Built, Generator!Tx, NameOffers

LEMMA AnyoneIsBuilt ==
  ASSUME NEW type, NEW kind, type \notin NameOffers,
         \A a, object : Generator!MayAct(type, a, object),
         NEW tx \in Generator!ByAnyone(type, kind)
  PROVE  Built(tx)
<1>1. PICK a \in Accounts, ref \in tracked : tx = Generator!Tx(type, a, Nobody, ref)
  BY DEF Generator!ByAnyone, Generator!Tracked
<1> QED BY <1>1 DEF Built, Generator!Tx, NameOffers

LEMMA StrangersAreBuilt ==
  ASSUME NEW type, NEW kind, type # "NFTokenCreateOffer",
         type = "NFTokenAcceptOffer" => kind = "nftOffer",
         \A a, object : a # object.owner => Generator!MayAct(type, a, object),
         NEW tx \in Generator!ByStranger(type, kind)
  PROVE  Built(tx)
<1>1. PICK ref \in tracked, a \in Accounts :
        /\ ref.kind = kind /\ a # ref.owner
        /\ tx = Generator!Tx(type, a, Nobody, ref)
  BY DEF Generator!ByStranger, Generator!Tracked, Generator!pickOtherThan
<1> QED BY <1>1 DEF Built, Generator!Tx

BuildsRight(c) == \A tx \in c.builds : Built(tx)

LEMMA CandidateBuilds ==
  /\ \A canBuild, builds, requires :
       (\A tx \in builds : Built(tx))
         => BuildsRight(Generator!Candidate(requires, canBuild, builds))
  /\ \A builds : (\A tx \in builds : Built(tx)) => BuildsRight(Generator!Always(builds))
  /\ \A builds, amendment :
       (\A tx \in builds : Built(tx)) => BuildsRight(Generator!Gated(amendment, builds))
  /\ \A builds, kind, requires :
       (\A tx \in builds : Built(tx)) => BuildsRight(Generator!Needs(kind, requires, builds))
<1>1. \A canBuild, builds, requires :
       (\A tx \in builds : Built(tx))
         => BuildsRight(Generator!Candidate(requires, canBuild, builds))
  BY DEF BuildsRight, Generator!Candidate
<1> QED BY <1>1 DEF Generator!Always, Generator!Gated, Generator!Needs

LEMMA NamelessBuildRight ==
  \A c \in {Generator!Payment, Generator!TrustSet, Generator!AccountSet,
     Generator!TicketCreate, Generator!SetRegularKey, Generator!SignerListSet,
     Generator!EscrowCreate, Generator!OfferCreate, Generator!CheckCreate,
     Generator!PaymentChannelCreate, Generator!PermissionedDomainSet,
     Generator!MPTokenIssuanceCreate, Generator!DIDSet, Generator!CredentialCreate,
     Generator!AMMCreate, Generator!NFTokenMint, Generator!Clawback, Generator!DepositPreauth,
     Generator!AccountDelete, Generator!LedgerStateFix} : BuildsRight(c)
<1>1. \A type : type \notin NameOffers =>
         /\ \A tx \in Generator!Alone(type) : Built(tx)
         /\ \A tx \in Generator!PickTwoDistinct(type) : Built(tx)
         /\ \A tx \in Generator!Alone(type) \cup Generator!PickTwoDistinct(type) : Built(tx)
  BY NamelessIsBuilt
<1>2. \A type : type \notin NameOffers =>
       /\ BuildsRight(Generator!Always(Generator!Alone(type)))
       /\ BuildsRight(Generator!Always(Generator!PickTwoDistinct(type)))
       /\ BuildsRight(Generator!Always(Generator!Alone(type) \cup Generator!PickTwoDistinct(type)))
       /\ \A amendment :
            /\ BuildsRight(Generator!Gated(amendment, Generator!Alone(type)))
            /\ BuildsRight(Generator!Gated(amendment, Generator!PickTwoDistinct(type)))
  BY <1>1, CandidateBuilds
<1> QED
  BY <1>2 DEF Generator!Payment, Generator!TrustSet, Generator!AccountSet,
     Generator!TicketCreate, Generator!SetRegularKey, Generator!SignerListSet,
     Generator!EscrowCreate, Generator!OfferCreate, Generator!CheckCreate,
     Generator!PaymentChannelCreate, Generator!PermissionedDomainSet,
     Generator!MPTokenIssuanceCreate, Generator!DIDSet, Generator!CredentialCreate,
     Generator!AMMCreate, Generator!NFTokenMint, Generator!Clawback, Generator!DepositPreauth,
     Generator!AccountDelete, Generator!LedgerStateFix, NameOffers

LEMMA OwnersBuildRight ==
  \A c \in {Generator!EscrowCancel, Generator!OfferCancel, Generator!CheckCancel,
     Generator!PaymentChannelFund, Generator!PaymentChannelClaim,
     Generator!PermissionedDomainDelete, Generator!MPTokenIssuanceSet,
     Generator!MPTokenIssuanceDestroy, Generator!OracleDelete, Generator!DIDDelete,
     Generator!CredentialDelete, Generator!AMMDeposit, Generator!AMMWithdraw,
     Generator!AMMVote, Generator!AMMBid, Generator!NFTokenBurn, Generator!NFTokenModify,
     Generator!NFTokenCreateOffer, Generator!NFTokenCancelOffer} : BuildsRight(c)
<1> DEFINE Their ==
      {"EscrowCancel", "OfferCancel", "CheckCancel", "PaymentChannelFund", "PaymentChannelClaim",
       "PermissionedDomainDelete", "MPTokenIssuanceSet", "MPTokenIssuanceDestroy",
       "OracleDelete", "DIDDelete", "CredentialDelete", "AMMDeposit", "AMMWithdraw", "AMMVote",
       "AMMBid", "NFTokenBurn", "NFTokenModify", "NFTokenCreateOffer", "NFTokenCancelOffer"}
<1>1. \A type \in Their : /\ type # "NFTokenAcceptOffer"
                         /\ \A object : Generator!MayAct(type, object.owner, object)
  BY DEF Generator!MayAct
<1>2. \A type \in Their : \A kind : (type = "NFTokenCreateOffer" => kind = "nft") =>
        \A tx \in Generator!ByOwner(type, kind) : Built(tx)
  BY <1>1, OwnersAreBuilt
<1>3. \A type \in Their : \A kind : (type = "NFTokenCreateOffer" => kind = "nft") =>
        \A requires : BuildsRight(Generator!Needs(kind, requires, Generator!ByOwner(type, kind)))
  BY <1>2, CandidateBuilds
<1> QED
  BY <1>3 DEF Generator!EscrowCancel, Generator!OfferCancel, Generator!CheckCancel,
     Generator!PaymentChannelFund, Generator!PaymentChannelClaim,
     Generator!PermissionedDomainDelete, Generator!MPTokenIssuanceSet,
     Generator!MPTokenIssuanceDestroy, Generator!OracleDelete, Generator!DIDDelete,
     Generator!CredentialDelete, Generator!AMMDeposit, Generator!AMMWithdraw,
     Generator!AMMVote, Generator!AMMBid, Generator!NFTokenBurn, Generator!NFTokenModify,
     Generator!NFTokenCreateOffer, Generator!NFTokenCancelOffer

LEMMA SecondPartiesBuildRight ==
  \A c \in {Generator!CheckCash, Generator!CredentialAccept, Generator!AMMClawback} : BuildsRight(c)
<1>1. \A type \in {"CheckCash", "CredentialAccept", "AMMClawback"} :
        type \notin NameOffers /\ \A object : Generator!MayAct(type, object.other, object)
  BY DEF Generator!MayAct, NameOffers
<1>2. \A type \in {"CheckCash", "CredentialAccept", "AMMClawback"} : \A kind :
        \A tx \in Generator!ByOther(type, kind) : Built(tx)
  BY <1>1, OthersAreBuilt
<1>3. \A type \in {"CheckCash", "CredentialAccept", "AMMClawback"} : \A kind, requires :
        BuildsRight(Generator!Needs(kind, requires, Generator!ByOther(type, kind)))
  BY <1>2, CandidateBuilds
<1> QED BY <1>3 DEF Generator!CheckCash, Generator!CredentialAccept, Generator!AMMClawback

LEMMA AnyoneBuildsRight ==
  \A c \in {Generator!EscrowFinish, Generator!AMMDelete} : BuildsRight(c)
<1>1. \A type \in {"EscrowFinish", "AMMDelete"} :
        type \notin NameOffers /\ \A a, object : Generator!MayAct(type, a, object)
  BY DEF Generator!MayAct, NameOffers
<1>2. \A type \in {"EscrowFinish", "AMMDelete"} : \A kind :
        \A tx \in Generator!ByAnyone(type, kind) : Built(tx)
  BY <1>1, AnyoneIsBuilt
<1>3. \A type \in {"EscrowFinish", "AMMDelete"} : \A kind, requires :
        BuildsRight(Generator!Needs(kind, requires, Generator!ByAnyone(type, kind)))
  BY <1>2, CandidateBuilds
<1> QED BY <1>3 DEF Generator!EscrowFinish, Generator!AMMDelete

LEMMA StrangersBuildRight ==
  \A c \in {Generator!MPTokenAuthorize, Generator!NFTokenAcceptOffer} : BuildsRight(c)
<1>1. \A type \in {"MPTokenAuthorize", "NFTokenAcceptOffer"} :
        /\ type # "NFTokenCreateOffer"
        /\ \A a, object : a # object.owner => Generator!MayAct(type, a, object)
  BY DEF Generator!MayAct
<1>2. \A type \in {"MPTokenAuthorize", "NFTokenAcceptOffer"} : \A kind :
        (type = "NFTokenAcceptOffer" => kind = "nftOffer") =>
        \A tx \in Generator!ByStranger(type, kind) : Built(tx)
  BY <1>1, StrangersAreBuilt
<1>3. \A type \in {"MPTokenAuthorize", "NFTokenAcceptOffer"} : \A kind, requires :
        (type = "NFTokenAcceptOffer" => kind = "nftOffer") =>
        BuildsRight(Generator!Needs(kind, requires, Generator!ByStranger(type, kind)))
  BY <1>2, CandidateBuilds
<1> QED BY <1>3 DEF Generator!MPTokenAuthorize, Generator!NFTokenAcceptOffer

LEMMA OracleSetBuildsRight == BuildsRight(Generator!OracleSet)
<1>1. ASSUME NEW tx \in UNION {{[t EXCEPT !.document = d] : d \in Documents} :
                              t \in Generator!Alone("OracleSet")}
      PROVE  Built(tx)
  <2>1. PICK t \in Generator!Alone("OracleSet"), d \in Documents : tx = [t EXCEPT !.document = d]
    BY <1>1
  <2> QED BY <2>1, NamelessIsBuilt DEF NameOffers
<1> QED BY <1>1, CandidateBuilds DEF Generator!OracleSet

LEMMA PickedIsBuilt == \A tx \in Generator!PickTx : Built(tx)
<1>1. \A c \in Generator!candidates : BuildsRight(c)
  BY NamelessBuildRight, OwnersBuildRight, SecondPartiesBuildRight, AnyoneBuildsRight,
     StrangersBuildRight, OracleSetBuildsRight DEF Generator!candidates
<1> QED BY <1>1 DEF Generator!PickTx, Generator!eligible, BuildsRight

LEMMA MaybeIsBuilt ==
  ASSUME NEW picked, Built(picked), NEW tx \in Generator!Maybe(picked)
  PROVE  /\ tx.type = picked.type /\ tx.names \in {picked.names, Generator!Nothing}
         /\ tx = [type |-> tx.type, account |-> tx.account, party |-> tx.party, names |-> tx.names,
                  document |-> tx.document, sell |-> tx.sell]
  BY DEF Built, Generator!Maybe, Generator!mutDeleteField, Generator!mutCorruptDrops,
         Generator!mutCorruptAddress, Generator!mutOverflowUint32, Generator!mutZeroUint32

(* An accepted transaction other than a mint is recorded as the object that *)
(* the ledger makes of it, or not at all.                                   *)
LEMMA RecordIsMade ==
  ASSUME NEW tx, tx.type # "NFTokenMint", NEW listed,
         NEW sequence \in {0, Generator!NextSequence(tx.account)}
  PROVE  Generator!RecordSuccess(tx, sequence, listed) \subseteq Generator!LedgerObject(tx)
<1> DEFINE record == Generator!RecordSuccess(tx, sequence, listed)
           n == Generator!NextSequence(tx.account)
<1>1. CASE tx.type \in {"EscrowCreate", "OfferCreate", "CheckCreate", "PaymentChannelCreate"}
  BY <1>1 DEF Generator!RecordSuccess, Generator!LedgerObject, Generator!WithSequence,
              Generator!checkID, Generator!payChannelID
<1>2. CASE tx.type \in {"PermissionedDomainSet", "MPTokenIssuanceCreate", "NFTokenCreateOffer"}
  BY <1>2 DEF Generator!RecordSuccess, Generator!LedgerObject, Generator!WithSequence,
              Generator!permissionedDomainID, Generator!mptIssuanceID, Generator!nftokenOfferID
<1>3. CASE tx.type \in {"OracleSet", "DIDSet", "CredentialCreate", "AMMCreate"}
  BY <1>3 DEF Generator!RecordSuccess, Generator!LedgerObject
<1>4. CASE tx.type \notin {"EscrowCreate", "OfferCreate", "CheckCreate", "PaymentChannelCreate",
             "PermissionedDomainSet", "MPTokenIssuanceCreate", "NFTokenCreateOffer",
             "OracleSet", "DIDSet", "CredentialCreate", "AMMCreate"}
  BY <1>4 DEF Generator!RecordSuccess
<1> QED BY <1>1, <1>2, <1>3, <1>4

(* An offer is recorded under the token it names, and only offers are       *)
(* recorded as offers.                                                      *)
LEMMA OffersNameTokens ==
  ASSUME NEW tx, NEW sequence, NEW listed,
         NEW ref \in Generator!RecordSuccess(tx, sequence, listed), ref.kind = "nftOffer"
  PROVE  tx.type = "NFTokenCreateOffer" /\ ref.other = tx.names.id
<1>1. CASE tx.type \in {"EscrowCreate", "OfferCreate", "CheckCreate", "PaymentChannelCreate"}
  BY <1>1 DEF Generator!RecordSuccess, Generator!WithSequence, Generator!Ref
<1>2. CASE tx.type \in {"PermissionedDomainSet", "MPTokenIssuanceCreate", "NFTokenCreateOffer"}
  BY <1>2 DEF Generator!RecordSuccess, Generator!WithSequence, Generator!Ref
<1>3. CASE tx.type \in {"OracleSet", "DIDSet", "CredentialCreate", "AMMCreate"}
  BY <1>3 DEF Generator!RecordSuccess, Generator!Ref
<1>4. CASE tx.type = "NFTokenMint"
  BY <1>4 DEF Generator!RecordSuccess, Generator!recordMintedNFTs, Generator!Ref
<1>5. CASE tx.type \notin {"EscrowCreate", "OfferCreate", "CheckCreate", "PaymentChannelCreate",
             "PermissionedDomainSet", "MPTokenIssuanceCreate", "NFTokenCreateOffer",
             "OracleSet", "DIDSet", "CredentialCreate", "AMMCreate", "NFTokenMint"}
  BY <1>5 DEF Generator!RecordSuccess
<1> QED BY <1>1, <1>2, <1>3, <1>4, <1>5

(* A token only goes to an account that minted it, or by an offer for a     *)
(* token the trackers have.                                                 *)
LEMMA MovesAreVouched ==
  ASSUME GeneratorInv, NEW tx, Generator!WellFormed(tx),
         tx.type = "NFTokenAcceptOffer" => tx.names.kind = "nftOffer" /\ tx.names \in tracked,
         made' = made \cup Generator!LedgerObject(tx),
         NEW move \in Generator!Moves(tx), move.to # Nobody
  PROVE  VouchedThen(move.token, move.to)
<1>1. CASE tx.type = "NFTokenMint"
  <2>1. move.to = tx.account /\ move.token = <<"t", tx.account, Generator!NextSequence(tx.account)>>
    BY <1>1 DEF Generator!Moves, Generator!LedgerObject, Generator!Ref
  <2>2. Generator!Ref("nft", move.token, move.to, Nobody) \in Generator!LedgerObject(tx)
    BY <1>1, <2>1 DEF Generator!LedgerObject
  <2> QED BY <2>2 DEF VouchedThen, Generator!Ref
<1>2. CASE tx.type = "NFTokenAcceptOffer"
  <2>1. move.token = tx.names.other
    BY <1>2 DEF Generator!Moves
  <2> QED BY <1>2, <2>1 DEF GeneratorInv, VouchedThen
<1>3. CASE tx.type \notin {"NFTokenMint", "NFTokenAcceptOffer"}
  BY <1>3 DEF Generator!Moves
<1> QED BY <1>1, <1>2, <1>3

LEMMA AllMovedAdds ==
  ASSUME NEW h, NEW moves, NEW entry \in Generator!AllMoved(h, moves)
  PROVE  entry \in h \/ \E move \in moves : move.to # Nobody /\ entry = <<move.token, move.to>>
<1>1. CASE moves = {}
  BY <1>1 DEF Generator!AllMoved
<1>2. CASE moves # {}
  <2>1. (CHOOSE m \in moves : TRUE) \in moves
    BY <1>2
  <2>2. entry \in Generator!Moved(h, CHOOSE m \in moves : TRUE)
    BY <1>2 DEF Generator!AllMoved
  <2> QED BY <2>1, <2>2, MovedAdds
<1> QED BY <1>1, <1>2

LEMMA SubmitKeeps == ASSUME GeneratorInv, Generator!Submit PROVE GeneratorInv'
<1>1. PICK picked \in Generator!PickTx : \E tx \in Generator!Maybe(picked) : Generator!Accepted(tx)
  BY DEF Generator!Submit
<1>2. PICK tx \in Generator!Maybe(picked) : Generator!Accepted(tx)
  BY <1>1
<1> Generator!WellFormed(tx) /\ made' = made \cup Generator!LedgerObject(tx)
  BY <1>2 DEF Generator!Accepted
<1>3. PICK late \in {{}, Generator!Moves(tx)} :
            /\ held' = Generator!AllMoved(held, Generator!Moves(tx) \ late)
            /\ pending' = pending \cup late
  BY <1>2 DEF Generator!Accepted
<1>4. PICK sequence \in {0, Generator!NextSequence(tx.account)},
           listed \in {{}, Generator!AccountNFTs(held', tx.account)} :
        tracked' = tracked \cup Generator!RecordSuccess(tx, sequence, listed)
  BY <1>2 DEF Generator!Accepted
<1>5. tracked \subseteq tracked' /\ made \subseteq made'
  BY <1>2, <1>4
<1>6. Built(picked)
  BY PickedIsBuilt
<1>7. /\ tx.type = picked.type /\ tx.names \in {picked.names, Generator!Nothing}
  BY <1>6, MaybeIsBuilt
<1>8. tx.type \in NameOffers => tx.names = picked.names
  BY <1>2, <1>7 DEF Generator!WellFormed, NameOffers
<1>9. \A move \in Generator!Moves(tx) : move.to # Nobody => VouchedThen(move.token, move.to)
  BY <1>2, <1>6, <1>7, <1>8, MovesAreVouched DEF Built, NameOffers
<1>10. \A entry \in held' : VouchedThen(entry[1], entry[2])
  <2> SUFFICES ASSUME NEW entry \in held' PROVE VouchedThen(entry[1], entry[2])
    OBVIOUS
  <2>1. \/ entry \in held
        \/ \E move \in Generator!Moves(tx) :
             move.to # Nobody /\ entry = <<move.token, move.to>>
    BY <1>3, AllMovedAdds
  <2>2. CASE entry \in held
    <3>1. Vouched(entry[1], entry[2])
      BY <2>2 DEF GeneratorInv
    <3> QED BY <1>5, <3>1 DEF Vouched, VouchedThen
  <2>3. ASSUME NEW move \in Generator!Moves(tx), move.to # Nobody, entry = <<move.token, move.to>>
        PROVE  VouchedThen(entry[1], entry[2])
    BY <1>9, <2>3
  <2> QED BY <2>1, <2>2, <2>3
<1>11. \A move \in pending' : move.to # Nobody => Vouched(move.token, move.to)'
  <2> SUFFICES ASSUME NEW move \in pending', move.to # Nobody
               PROVE  Vouched(move.token, move.to)'
    OBVIOUS
  <2>1. CASE move \in pending
    <3>1. Vouched(move.token, move.to)
      BY <2>1 DEF GeneratorInv
    <3> QED BY <1>5, <3>1 DEF Vouched, VouchedThen
  <2>2. CASE move \in Generator!Moves(tx)
    BY <1>5, <1>9, <2>2 DEF Vouched, VouchedThen
  <2> QED BY <1>3, <2>1, <2>2
<1>12. tracked' \subseteq made'
  <2>1. CASE tx.type # "NFTokenMint"
    BY <1>2, <1>4, <2>1, RecordIsMade DEF GeneratorInv
  <2>2. CASE tx.type = "NFTokenMint"
    <3> SUFFICES ASSUME NEW ref \in Generator!RecordSuccess(tx, sequence, listed)
                 PROVE  ref \in made'
      BY <1>4, <1>5 DEF GeneratorInv
    <3>1. PICK token \in listed \ {r.id : r \in Generator!Tracked("nft")} :
            ref = Generator!Ref("nft", token, tx.account, Nobody)
      BY <2>2 DEF Generator!RecordSuccess, Generator!recordMintedNFTs
    <3>2. PICK entry \in held' : entry[1] = token /\ entry[2] = tx.account
      BY <1>4, <3>1 DEF Generator!AccountNFTs
    <3>3. \A r \in tracked : r.kind = "nft" => r.id # token
      BY <3>1 DEF Generator!Tracked
    <3> QED BY <1>10, <3>1, <3>2, <3>3 DEF VouchedThen
  <2> QED BY <2>1, <2>2
<1>13. \A ref \in tracked' : ref.kind = "nftOffer" =>
         \E nft \in tracked' : nft.kind = "nft" /\ nft.id = ref.other
  <2> SUFFICES ASSUME NEW ref \in tracked', ref.kind = "nftOffer"
               PROVE  \E nft \in tracked : nft.kind = "nft" /\ nft.id = ref.other
    BY <1>5
  <2>1. CASE ref \in tracked
    BY <2>1 DEF GeneratorInv
  <2>2. CASE ref \in Generator!RecordSuccess(tx, sequence, listed)
    <3>1. tx.type = "NFTokenCreateOffer" /\ ref.other = tx.names.id
      BY <2>2, OffersNameTokens
    <3> QED BY <1>6, <1>7, <1>8, <3>1 DEF Built, NameOffers
  <2> QED BY <1>4, <2>1, <2>2
<1>14. \A entry \in held' : Vouched(entry[1], entry[2])'
  BY <1>5, <1>10 DEF Vouched, VouchedThen
<1> QED BY <1>11, <1>12, <1>13, <1>14 DEF GeneratorInv

LEMMA GeneratorStep ==
  ASSUME GeneratorInv, [Generator!Next]_(Generator!vars) PROVE GeneratorInv'
<1>1. CASE UNCHANGED Generator!vars
  BY <1>1 DEF Generator!vars, GeneratorInv, Vouched, Generator!Ref
<1> QED BY <1>1, SubmitKeeps, SettleKeeps DEF Generator!Next

LEMMA GeneratorHolds == GeneratorInv => Generator!RefsAreReal /\ Generator!SignersMayAct
<1> SUFFICES ASSUME GeneratorInv PROVE Generator!RefsAreReal /\ Generator!SignersMayAct
  OBVIOUS
<1>1. Generator!RefsAreReal
  BY DEF GeneratorInv, Generator!RefsAreReal
<1>2. ASSUME NEW tx \in Generator!PickTx, tx.names # Generator!Nothing
      PROVE  tx.names \in made /\ Generator!MayAct(tx.type, tx.account, tx.names)
  BY <1>2, PickedIsBuilt DEF Built, GeneratorInv
<1> QED BY <1>1, <1>2 DEF Generator!SignersMayAct

LEMMA FollowsGenerator == MCSpec => Generator!Spec
<1>1. MCInit => Generator!Init
  BY DEF MCInit
<1>2. [MCNext]_partsVars => [Generator!Next]_(Generator!vars)
  BY DEF MCNext, Still, partsVars, generatorVars, Generator!vars
<1> QED BY <1>1, <1>2, PTL DEF MCSpec, Generator!Spec

(* What the trackers hold was made, a token by the account named as owner.  *)
THEOREM AllRefsAreReal == MCSpec => []RefsAreReal
<1>1. GeneratorInv => RefsAreReal
  BY GeneratorHolds DEF RefsAreReal, Of
<1> QED BY <1>1, GeneratorBegins, GeneratorStep, FollowsGenerator, PTL DEF Generator!Spec

(* Each of the forty-seven candidates picks an account that may act.        *)
THEOREM AllSignersMayAct == MCSpec => []SignersMayAct
<1>1. GeneratorInv => SignersMayAct
  BY GeneratorHolds DEF SignersMayAct, Of
<1> QED BY <1>1, GeneratorBegins, GeneratorStep, FollowsGenerator, PTL DEF Generator!Spec

-----------------------------------------------------------------------------
(* The set-up of accounts.  A job that was tried again had lost an answer   *)
(* for each time it was applied, and a wait counts from a ledger that was   *)
(* not there before it began, or from none yet.                             *)
SetupInv ==
  /\ attempt \in Nat \ {0} /\ applied \in Nat /\ lost \in Nat
  /\ Setup!AppliedOnce
  /\ attempt > 1 => applied <= lost
  /\ seq \in Nat /\ seqAtWait \in Nat /\ seqAtWait <= seq
  /\ startSeq \in Int
  /\ phase \in Setup!Waits => startSeq = -1 \/ startSeq >= seqAtWait

LEMMA SetupBegins == Setup!Init => SetupInv
  BY DEF Setup!Init, SetupInv, Setup!AppliedOnce, Setup!Waits

LEMMA SetupStep == ASSUME SetupInv, [Setup!Next]_(Setup!vars) PROVE SetupInv'
<1> USE DEF SetupInv, Setup!AppliedOnce
<1>1. CASE Setup!Submit
  <2>1. PICK answer \in Setup!Answers : \E applies \in Setup!Fates(answer) :
          /\ applied' = Setup!Tally(applied, applies)
          /\ lost' = Setup!Tally(lost, answer = "broken")
          /\ CASE Setup!Verdict(answer) = "next" -> job' = job + 1 /\ attempt' = 1 /\ phase' = phase
               [] Setup!Verdict(answer) = "again" /\ attempt < Setup!Tries ->
                    attempt' = attempt + 1 /\ UNCHANGED <<phase, job>>
               [] OTHER -> phase' = "failed" /\ UNCHANGED <<job, attempt>>
    BY <1>1 DEF Setup!Submit
  <2>2. PICK applies \in Setup!Fates(answer) :
          /\ applied' = Setup!Tally(applied, applies)
          /\ lost' = Setup!Tally(lost, answer = "broken")
    BY <2>1
  <2>3. applies \in BOOLEAN /\ (applies => answer \in {"success", "queued", "broken"})
    BY <2>2 DEF Setup!Fates, Setup!Answers
  <2>4. \/ attempt' = 1 /\ phase' = phase
        \/ attempt' = attempt + 1 /\ phase' = phase /\ Setup!Verdict(answer) # "next"
        \/ attempt' = attempt /\ phase' = "failed" /\ Setup!Verdict(answer) # "next"
    BY <2>1
  <2>5. Setup!Verdict(answer) # "next" => answer \notin {"success", "queued"}
    BY <2>1 DEF Setup!Verdict, Setup!FundFromGenesis, Setup!retrySubmit,
           Setup!SubmitTier, Setup!Answers
  <2>6. UNCHANGED <<startSeq, seqAtWait, seq>>
    BY <1>1 DEF Setup!Submit, Setup!config, Setup!wait
  <2>7. /\ applied' = (IF attempt = 1 THEN 0 ELSE applied) + (IF applies THEN 1 ELSE 0)
        /\ lost' = (IF attempt = 1 THEN 0 ELSE lost) + (IF answer = "broken" THEN 1 ELSE 0)
    BY <2>2 DEF Setup!Tally
  <2>8. phase' \in Setup!Waits => phase \in Setup!Waits
    BY <2>4 DEF Setup!Waits
  <2> QED BY <2>3, <2>4, <2>5, <2>6, <2>7, <2>8
<1>2. CASE Setup!NoSubmit
  BY <1>2 DEF Setup!NoSubmit, Setup!config, Setup!wait, Setup!ledger, Setup!Waits
<1>3. CASE Setup!PhaseEnds
  BY <1>3 DEF Setup!PhaseEnds, Setup!config, Setup!wait, Setup!ledger
<1>4. CASE Setup!waitForValidation
  BY <1>4 DEF Setup!waitForValidation, Setup!config, Setup!ledger
<1>5. CASE Setup!LedgerCloses
  BY <1>5 DEF Setup!LedgerCloses, Setup!config, Setup!wait, Setup!walk, Setup!ledger
<1>6. CASE UNCHANGED Setup!vars
  BY <1>6 DEF Setup!vars, Setup!config, Setup!wait, Setup!walk, Setup!ledger
<1> QED BY <1>1, <1>2, <1>3, <1>4, <1>5, <1>6 DEF Setup!Next

LEMMA FollowsSetup == MCSpec => Setup!Spec
<1>1. MCInit => Setup!Init
  BY DEF MCInit
<1>2. [MCNext]_partsVars => [Setup!Next]_(Setup!vars)
  BY DEF MCNext, Still, partsVars, setupVars, Setup!vars, Setup!config, Setup!walk,
         Setup!wait, Setup!ledger
<1> QED BY <1>1, <1>2, PTL DEF MCSpec, Setup!Spec

(* A queued funding, trust line or balance is never sent again.             *)
THEOREM EachIsAppliedOnce == MCSpec => []AppliedOnce
<1>1. SetupInv => AppliedOnce
  BY DEF SetupInv, AppliedOnce, Of
<1> QED BY <1>1, SetupBegins, SetupStep, FollowsSetup, PTL DEF Setup!Spec

(* The thread leaves a wait by its end, and only waitForValidation is that. *)
THEOREM LedgersAreBetween == MCSpec => LedgersBetween
<1> DEFINE Waited == phase \in Setup!Waits /\ phase' \notin Setup!Waits \cup {"failed"}
                       => seq - seqAtWait >= Advance
<1>1. ASSUME SetupInv, [Setup!Next]_(Setup!vars) PROVE [Waited]_(Setup!vars)
  <2> SUFFICES ASSUME Setup!Next, phase \in Setup!Waits, phase' \notin Setup!Waits \cup {"failed"}
               PROVE  seq - seqAtWait >= Advance
    BY <1>1
  <2>1. CASE Setup!Submit
    BY <2>1 DEF Setup!Submit
  <2>2. CASE Setup!NoSubmit
    BY <2>2 DEF Setup!NoSubmit
  <2>3. CASE Setup!PhaseEnds
    BY <2>3 DEF Setup!PhaseEnds, Setup!Waits
  <2>4. CASE Setup!waitForValidation
    <3>1. Setup!Reached(startSeq)
      BY <2>4 DEF Setup!waitForValidation
    <3>2. startSeq >= 0 /\ seq - startSeq >= Advance
      BY <3>1 DEF Setup!Reached
    <3>3. seq \in Nat /\ seqAtWait \in Nat /\ startSeq \in Int /\ startSeq >= seqAtWait
      BY <1>1, <3>2 DEF SetupInv
    <3> QED BY <3>2, <3>3, SetupAssumption
  <2>5. CASE Setup!LedgerCloses
    BY <2>5 DEF Setup!LedgerCloses, Setup!walk
  <2> QED BY <2>1, <2>2, <2>3, <2>4, <2>5 DEF Setup!Next
<1>2. MCSpec => [][Waited]_(Setup!vars)
  BY <1>1, SetupBegins, SetupStep, FollowsSetup, PTL DEF Setup!Spec
<1> QED BY <1>2 DEF LedgersBetween, Setup!LedgersBetween

-----------------------------------------------------------------------------
(* The comparing runs.  A range under way is reported up to the cursor.    *)
RangeInv ==
  /\ pc \in {"submit", "layer2", "layer3", "layer1?", "layer1"}
  /\ validated \in [Realtime!NodeIds -> Nat]
  /\ fork \in Nat /\ lastCompared \in Nat /\ cursor \in Nat /\ until \in Nat
  /\ Realtime!ForkIsSeen
  /\ pc = "layer1" =>
       /\ cursor > lastCompared
       /\ \A s \in (lastCompared + 1)..(cursor - 1) : s >= fork => s \in alarms

LEMMA RangeBegins == Realtime!Init => RangeInv
  BY RealtimeAssumption DEF Realtime!Init, RangeInv, Realtime!ForkIsSeen,
         Realtime!First, Realtime!NodeIds

LEMMA RangeStep == ASSUME RangeInv, [Realtime!Next]_(Realtime!vars) PROVE RangeInv'
<1> USE DEF RangeInv, Realtime!ForkIsSeen, Realtime!First
<1>1. CASE \/ Realtime!SubmitFails \/ Realtime!SubmitSucceeds
           \/ Realtime!SkipLedgers \/ Realtime!CompareTxResult
  BY <1>1 DEF Realtime!SubmitFails, Realtime!SubmitSucceeds, Realtime!SkipLedgers,
              Realtime!CompareTxResult, Realtime!NextTurn, Realtime!network, Realtime!window
<1>2. CASE Realtime!StartLedgers
  <2>1. until' \in Nat /\ cursor' = lastCompared + 1
    BY <1>2, RealtimeAssumption DEF Realtime!StartLedgers, Realtime!NodeIds
  <2> QED BY <1>2, <2>1 DEF Realtime!StartLedgers, Realtime!network
<1>3. CASE Realtime!CompareAtSequence
  BY <1>3 DEF Realtime!CompareAtSequence, Realtime!network
<1>4. CASE Realtime!EndLedgers
  <2>1. \A s \in 2..until : s >= fork => s \in alarms
    BY <1>4 DEF Realtime!EndLedgers
  <2> QED
  BY <1>4, <2>1 DEF Realtime!EndLedgers, Realtime!NextTurn, Realtime!network
<1>5. ASSUME NEW n \in Realtime!NodeIds,
             Realtime!AskTx(n) \/ Realtime!Validate(n) \/ Realtime!Restart(n)
      PROVE RangeInv'
  <2>1. validated' \in [Realtime!NodeIds -> Nat]
    BY <1>5, RealtimeAssumption DEF Realtime!AskTx, Realtime!Validate, Realtime!Restart,
           Realtime!network
  <2> QED
  BY <1>5, <2>1 DEF Realtime!AskTx, Realtime!Validate, Realtime!Restart,
         Realtime!network, Realtime!window
<1>6. CASE UNCHANGED Realtime!vars
  BY <1>6 DEF Realtime!vars, Realtime!network, Realtime!window
<1> QED BY <1>1, <1>2, <1>3, <1>4, <1>5, <1>6 DEF Realtime!Next

LEMMA FollowsRealtime == MCSpec => Realtime!Spec
<1>1. MCInit => Realtime!Init
  BY DEF MCInit
<1>2. [MCNext]_partsVars => [Realtime!Next]_(Realtime!vars)
  BY DEF MCNext, Still, partsVars, realtimeVars, Realtime!vars, Realtime!network,
         Realtime!reading, Realtime!window
<1> QED BY <1>1, <1>2, PTL DEF MCSpec, Realtime!Spec

(* No ledger on which the nodes differ is passed over.                      *)
THEOREM ForksAreSeen == MCSpec => []ForkIsSeen
<1>1. RangeInv => ForkIsSeen
  BY DEF RangeInv, ForkIsSeen, Of
<1> QED BY <1>1, RangeBegins, RangeStep, FollowsRealtime, PTL DEF Realtime!Spec

(* What the nodes answered about the current transaction: nothing is asked  *)
(* between two comparisons, a node left without an answer failed, and nodes *)
(* that have the ledger agree on it before the fork.                        *)
TxInv ==
  /\ asked \in Nat /\ fork \in Nat /\ lands \in Int
  /\ pc \in {"submit", "layer2", "layer3", "layer1?", "layer1"}
  /\ pc \notin {"layer2", "layer3"} => asked = 0 /\ seen = {} /\ broken = FALSE
  /\ asked > 0 => seen # {} \/ broken
  /\ lands < fork => seen \subseteq {Realtime!NoAnswer, Realtime!Same}

LEMMA TxBegins == Realtime!Init => TxInv
  BY RealtimeAssumption DEF Realtime!Init, TxInv, Realtime!First

LEMMA TxStep == ASSUME TxInv, [Realtime!Next]_(Realtime!vars) PROVE TxInv'
<1> USE DEF TxInv
<1>1. CASE \/ Realtime!SubmitFails \/ Realtime!SubmitSucceeds
           \/ Realtime!SkipLedgers \/ Realtime!CompareTxResult
  BY <1>1 DEF Realtime!SubmitFails, Realtime!SubmitSucceeds, Realtime!SkipLedgers,
         Realtime!CompareTxResult, Realtime!NextTurn, Realtime!network, Realtime!reading
<1>2. CASE Realtime!StartLedgers \/ Realtime!CompareAtSequence \/ Realtime!EndLedgers
  BY <1>2 DEF Realtime!StartLedgers, Realtime!CompareAtSequence, Realtime!EndLedgers,
         Realtime!NextTurn, Realtime!network, Realtime!reading
<1>3. ASSUME NEW n \in Realtime!NodeIds, Realtime!AskTx(n) PROVE TxInv'
  <2>1. lands < fork => Realtime!TxAnswer(n) \in {Realtime!NoAnswer, Realtime!Same}
    BY DEF Realtime!TxAnswer
  <2>2. asked' \in Nat
    BY <1>3, RealtimeAssumption DEF Realtime!AskTx, Realtime!NodeIds
  <2> QED BY <1>3, <2>1, <2>2 DEF Realtime!AskTx, Realtime!network
<1>4. ASSUME NEW n \in Realtime!NodeIds, Realtime!Validate(n) \/ Realtime!Restart(n)
      PROVE  TxInv'
  BY <1>4 DEF Realtime!Validate, Realtime!Restart, Realtime!reading
<1>5. CASE UNCHANGED Realtime!vars
  BY <1>5 DEF Realtime!vars, Realtime!network, Realtime!reading
<1> QED BY <1>1, <1>2, <1>3, <1>4, <1>5 DEF Realtime!Next

(* What a report about a transaction tells: the nodes differ on its ledger, *)
(* a read failed, or a node was asked before it had validated the ledger.   *)
TxAlarmExplained ==
  Realtime!Reports => lands >= fork \/ broken \/ Realtime!NoAnswer \in seen

(* Asking too early is the only way to a false report, for any number of    *)
(* nodes, whoever validates or restarts between two answers.                *)
THEOREM TxAlarmsAreExplained == MCSpec => []TxAlarmExplained
<1>1. TxInv => TxAlarmExplained
  <2> SUFFICES ASSUME TxInv, Realtime!Reports, ~(lands >= fork), ~broken,
                      Realtime!NoAnswer \notin seen
               PROVE  FALSE
    BY DEF TxAlarmExplained
  <2>1. asked = NRunNodes /\ Cardinality(seen) # 1
    BY Zenon DEF Realtime!Reports, Realtime!Cardinality, Cardinality
  <2>2. seen # {}
    BY <2>1, RealtimeAssumption DEF TxInv
  <2>3. seen \subseteq {Realtime!Same}
    BY DEF TxInv
  <2>4. seen = {Realtime!Same}
    BY <2>2, <2>3
  <2> QED BY <2>1, <2>4, FS_Singleton
<1> HIDE DEF TxInv
<1> QED BY <1>1, TxBegins, TxStep, FollowsRealtime, PTL DEF Realtime!Spec

-----------------------------------------------------------------------------
(* The balance check.                                                       *)
(* What the recursion of SumOfFirst asks of a function on the first n.      *)
Sums(f, n) == f = [m \in 0..n |-> IF m = 0 THEN 0 ELSE f[m - 1] + balance[m]]

LEMMA SumsExist == \A n \in Nat : \E f : Sums(f, n)
<1> DEFINE Without == {n \in Nat : ~ \E f : Sums(f, n)}
<1> SUFFICES ASSUME Without # {} PROVE FALSE
  OBVIOUS
<1>1. PICK n \in Without : \A m \in Without : ~(<<m, n>> \in OpToRel(<, Nat))
  BY NatLessThanWellFounded, WFMin
<1>2. \A m \in Without : ~(m < n)
  BY <1>1 DEF OpToRel
<1>3. CASE n = 0
  <2>1. Sums([m \in 0..0 |-> 0], 0)
    BY DEF Sums
  <2> QED BY <1>3, <2>1
<1>4. CASE n # 0
  <2>1. PICK f : Sums(f, n - 1)
    BY <1>2, <1>4
  <2>2. Sums([m \in 0..n |-> IF m = n THEN f[n - 1] + balance[n] ELSE f[m]], n)
    BY <1>4, <2>1 DEF Sums
  <2> QED BY <2>2
<1> QED BY <1>3, <1>4

LEMMA SumOfFirstIs == Sums(Balance!SumOfFirst, Count)
<1>1. \E f : Sums(f, Count)
  BY SumsExist, BalanceAssumption
<1> QED BY <1>1 DEF Balance!SumOfFirst, Sums

LEMMA SumGrows ==
  /\ Balance!SumOfFirst[0] = 0
  /\ \A n \in 1..Count : Balance!SumOfFirst[n] = Balance!SumOfFirst[n - 1] + balance[n]
<1> DEFINE f == Balance!SumOfFirst
<1>1. f = [m \in 0..Count |-> IF m = 0 THEN 0 ELSE f[m - 1] + balance[m]]
  BY SumOfFirstIs DEF Sums
<1> HIDE DEF f
<1>2. f[0] = 0 /\ \A n \in 1..Count : f[n] = f[n - 1] + balance[n]
  BY <1>1, BalanceAssumption
<1> QED BY <1>2 DEF f

LEMMA SumsFromNothing == Balance!SumOfFirst[0] = 0
  BY SumGrows

(* An exact check has the sum of what it asked so far, and the sum kept is  *)
(* the truth whenever the truth is known.                                   *)
BalanceInv ==
  /\ pos \in 0..Count /\ exact \in BOOLEAN /\ alarmed \in BOOLEAN
  /\ pos = 0 => sum = 0
  /\ exact => sum = Balance!SumOfFirst[pos]
  /\ truth # Balance!NoSum => lastSum = truth
  /\ Balance!CheckIsTrue

LEMMA BalanceBegins == Balance!Init => BalanceInv
<1> SUFFICES ASSUME Balance!Init PROVE BalanceInv
  OBVIOUS
<1>1. /\ pos = 0 /\ sum = 0 /\ lastSum = Balance!NoSum /\ alarmed = FALSE
      /\ exact = TRUE /\ truth = Balance!NoSum /\ due = "unknown"
  BY DEF Balance!Init
<1>2. pos \in 0..Count /\ sum = Balance!SumOfFirst[pos]
  BY <1>1, SumGrows, BalanceAssumption
<1> QED BY <1>1, <1>2 DEF BalanceInv, Balance!CheckIsTrue

LEMMA BalanceStep == ASSUME BalanceInv, [Balance!Next]_(Balance!vars) PROVE BalanceInv'
<1>1. CASE Balance!Change
  <2>1. (Balance!SumOfFirst[0] = 0)'
    BY SumsFromNothing, PTL
  <2>2. UNCHANGED <<pos, sum, lastSum, alarmed, truth, due>> /\ exact' = (exact /\ pos = 0)
    BY <1>1 DEF Balance!Change
  <2>3. exact' => sum' = Balance!SumOfFirst[pos]'
    BY <2>1, <2>2 DEF BalanceInv
  <2> QED BY <2>2, <2>3 DEF BalanceInv, Balance!CheckIsTrue
<1>2. CASE Balance!AccountInfo
  <2>1. /\ pos < Count /\ pos' = pos + 1 /\ UNCHANGED <<balance, lastSum, alarmed, truth, due>>
        /\ (sum' = sum + balance[pos + 1] /\ exact' = exact) \/ (sum' = sum /\ exact' = FALSE)
    BY <1>2 DEF Balance!AccountInfo
  <2>2. Balance!SumOfFirst' = Balance!SumOfFirst
    BY <2>1 DEF Balance!SumOfFirst
  <2>3. pos' \in 1..Count /\ pos' - 1 = pos
    BY <2>1, BalanceAssumption DEF BalanceInv
  <2>4. Balance!SumOfFirst[pos'] = Balance!SumOfFirst[pos] + balance[pos + 1]
    BY <2>1, <2>3, SumGrows
  <2>5. exact' => sum' = Balance!SumOfFirst[pos]'
    BY <2>1, <2>2, <2>4 DEF BalanceInv
  <2>6. exact' \in BOOLEAN /\ alarmed' \in BOOLEAN
    BY <2>1 DEF BalanceInv
  <2>7. pos' \in 0..Count /\ pos' # 0
    BY <2>3
  <2>8. (truth' # Balance!NoSum => lastSum' = truth') /\ Balance!CheckIsTrue'
    BY <2>1 DEF BalanceInv, Balance!CheckIsTrue
  <2> QED BY <2>5, <2>6, <2>7, <2>8 DEF BalanceInv, Balance!NoSum
<1>3. CASE Balance!CheckLedger
  <2>1. Balance!SumOfFirst' = Balance!SumOfFirst
    BY <1>3 DEF Balance!CheckLedger, Balance!SumOfFirst
  <2>2. exact => sum = Balance!Total
    BY <1>3 DEF Balance!CheckLedger, Balance!Total, BalanceInv
  <2>3. /\ pos' = 0 /\ sum' = 0 /\ exact' = TRUE /\ lastSum' = sum
        /\ truth' = IF exact THEN Balance!Total ELSE Balance!NoSum
        /\ alarmed' = (lastSum # Balance!NoSum /\ sum > lastSum)
        /\ due' = IF ~exact \/ truth = Balance!NoSum THEN "unknown"
                  ELSE IF Balance!Total > truth THEN "alarm" ELSE "quiet"
    BY <1>3 DEF Balance!CheckLedger
  <2>4. sum' = Balance!SumOfFirst[pos]'
    BY <2>1, <2>3, SumGrows
  <2>5. truth' # Balance!NoSum => lastSum' = truth'
    BY <2>2, <2>3
  <2>6. due' # "unknown" => alarmed' = (due' = "alarm")
    <3> SUFFICES ASSUME exact, truth # Balance!NoSum PROVE alarmed' = (due' = "alarm")
      BY <2>3
    <3>1. alarmed' = (Balance!Total > truth)
      BY <2>2, <2>3 DEF BalanceInv
    <3>2. due' = IF Balance!Total > truth THEN "alarm" ELSE "quiet"
      BY <2>3
    <3> QED BY <3>1, <3>2
  <2> QED BY <2>3, <2>4, <2>5, <2>6, BalanceAssumption DEF BalanceInv,
                 Balance!CheckIsTrue, Balance!NoSum
<1>4. CASE Balance!Unparseable
  <2>1. Balance!SumOfFirst' = Balance!SumOfFirst
    BY <1>4 DEF Balance!Unparseable, Balance!SumOfFirst
  <2> QED BY <1>4, <2>1, SumGrows, BalanceAssumption DEF Balance!Unparseable,
                 BalanceInv, Balance!CheckIsTrue, Balance!NoSum
<1>5. CASE UNCHANGED Balance!vars
  <2>1. Balance!SumOfFirst' = Balance!SumOfFirst
    BY <1>5 DEF Balance!vars, Balance!SumOfFirst
  <2> QED BY <1>5, <2>1 DEF Balance!vars, BalanceInv, Balance!CheckIsTrue, Balance!NoSum
<1> QED BY <1>1, <1>2, <1>3, <1>4, <1>5 DEF Balance!Next

LEMMA FollowsBalance == MCSpec => Balance!Spec
<1>1. MCInit => Balance!Init
  BY DEF MCInit
<1>2. [MCNext]_partsVars => [Balance!Next]_(Balance!vars)
  BY DEF MCNext, Still, partsVars, balanceVars, Balance!vars
<1> QED BY <1>1, <1>2, PTL DEF MCSpec, Balance!Spec

(* Two exact checks in a row tell a rise from none.                         *)
THEOREM ChecksAreTrue == MCSpec => []CheckIsTrue
<1>1. BalanceInv => CheckIsTrue
  BY DEF BalanceInv, CheckIsTrue, Of
<1> QED BY <1>1, BalanceBegins, BalanceStep, FollowsBalance, PTL DEF Balance!Spec

-----------------------------------------------------------------------------
(* The shrinker.                                                            *)
Line == [step : Nat, accepted : BOOLEAN]

(* Steps go up along a log, by one or more per line for realtime.           *)
LogInv ==
  /\ turn \in Nat /\ step \in Nat /\ log \in Seq(Line)
  /\ diverging \subseteq 1..Len(log)
  /\ \A l, m \in 1..Len(log) : l <= m => log[l].step <= log[m].step
  /\ IF writer = "realtime"
     THEN Len(log) <= turn /\ \A l \in 1..Len(log) : log[l].step >= l - 1 /\ log[l].step < turn
     ELSE \A l \in 1..Len(log) : log[l].step <= step

Least(bound) == \E l \in diverging : log[l].step <= bound

(* A probe has submitted the lines before the next one, and knows of one    *)
(* that diverges, of none, or missed it.                                    *)
ProbeInv ==
  probing \in {"verify", "bisect"} =>
    /\ next \in Nat \ {0}
    /\ matched => Least(k)
    /\ ~matched /\ ~missed => \A l \in diverging : l >= next

(* Least known bound just above hi, nothing missed below lo.                *)
SearchInv ==
  /\ lo \in Nat /\ hi \in Int /\ best \in Int /\ k \in Int
  /\ probing = "verify" => k = Len(log) - 1
  /\ probing = "bisect" => lo <= k /\ k <= hi
  /\ probing = "done" => lo > hi
  /\ probing \in {"bisect", "done"} =>
       /\ Least(best) /\ best = hi + 1
       /\ ~missed => \A l \in diverging : log[l].step >= lo

ShrinkInv ==
  /\ matched \in BOOLEAN /\ missed \in BOOLEAN
  /\ LogInv /\ ProbeInv /\ SearchInv

LEMMA StepsOfLines ==
  ASSUME NEW lines \in Seq(Line), NEW l \in 1..Len(lines) PROVE lines[l].step \in Nat
<1>1. lines[l] \in Line
  OBVIOUS
<1> QED BY <1>1 DEF Line

LEMMA ShrinkBegins == Shrink!Init => ShrinkInv
<1> SUFFICES ASSUME Shrink!Init PROVE ShrinkInv
  OBVIOUS
<1>1. /\ log = << >> /\ turn = 0 /\ step = 0 /\ diverging = {} /\ probing = "record"
      /\ writer \in {"realtime", "soak", "replay"}
  BY DEF Shrink!Init
<1>2. log \in Seq(Line)
  BY <1>1
<1>3. Len(log) = 0
  BY <1>1
<1>4. matched \in BOOLEAN /\ missed \in BOOLEAN
  BY DEF Shrink!Init
<1>5. ProbeInv
  BY <1>1 DEF ProbeInv
<1>6. SearchInv
  BY <1>1 DEF SearchInv, Shrink!Init
<1>7. LogInv
  BY <1>1, <1>2, <1>3 DEF LogInv
<1> QED BY <1>4, <1>5, <1>6, <1>7 DEF ShrinkInv

LEMMA ShrinkRecords ==
  ASSUME ShrinkInv, Shrink!PickFails \/ Shrink!recordFailure \/ Shrink!RecordSuccess
  PROVE  ShrinkInv'
<1>1. /\ turn' = turn + 1 /\ probing = "record"
      /\ UNCHANGED <<writer, diverging, probing, lo, hi, best, k, next, matched, missed>>
  BY DEF Shrink!PickFails, Shrink!recordFailure, Shrink!RecordSuccess, Shrink!Recording,
         Shrink!search
<1>2. LogInv /\ matched' \in BOOLEAN /\ missed' \in BOOLEAN
  BY <1>1 DEF ShrinkInv
<1>3. ProbeInv'
  BY <1>1 DEF ProbeInv
<1>4. SearchInv'
  BY <1>1 DEF ShrinkInv, SearchInv
<1>5. CASE UNCHANGED <<step, log>>
  <2>1. LogInv'
    <3>1. turn' \in Nat /\ step' \in Nat /\ log' \in Seq(Line) /\ diverging' \subseteq 1..Len(log')
      BY <1>1, <1>2, <1>5 DEF LogInv
    <3>2. \A l, m \in 1..Len(log') : l <= m => log'[l].step <= log'[m].step
      BY <1>2, <1>5 DEF LogInv
    <3>3. \A l \in 1..Len(log) : log[l].step \in Nat
      BY <1>2, StepsOfLines DEF LogInv
    <3>4. IF writer' = "realtime"
          THEN /\ Len(log') <= turn'
               /\ \A l \in 1..Len(log') : log'[l].step >= l - 1 /\ log'[l].step < turn'
          ELSE \A l \in 1..Len(log') : log'[l].step <= step'
      BY <1>1, <1>2, <1>5, <3>3 DEF LogInv
    <3> QED BY <3>1, <3>2, <3>4 DEF LogInv
  <2> QED BY <1>2, <1>3, <1>4, <2>1 DEF ShrinkInv
<1>6. CASE \E accepted \in BOOLEAN :
            /\ log' = Append(log, [step |-> Shrink!Step, accepted |-> accepted])
            /\ step' = IF accepted THEN step + 1 ELSE step
  <2>1. PICK accepted \in BOOLEAN :
            /\ log' = Append(log, [step |-> Shrink!Step, accepted |-> accepted])
            /\ step' = IF accepted THEN step + 1 ELSE step
    BY <1>6
  <2> DEFINE s == Shrink!Step  n == Len(log)
  <2>2. s \in Nat
    BY <1>2 DEF Shrink!Step, LogInv
  <2>3. log' \in Seq(Line) /\ n \in Nat
    BY <1>2, <2>1, <2>2 DEF Line, LogInv
  <2>4. Len(log') = n + 1 /\ \A l \in 1..n : log'[l] = log[l]
    BY <1>2, <2>1, <2>2 DEF Line, LogInv
  <2>5. log'[n + 1].step = s
    BY <1>2, <2>1, <2>2 DEF Line, LogInv
  <2>6. \A l \in 1..n : log[l].step \in Nat
    BY <1>2, StepsOfLines DEF LogInv
  <2>7. \A l \in 1..n : log[l].step <= s
    BY <1>2, <2>6 DEF Shrink!Step, LogInv
  <2>8. \A l, m \in 1..n : l <= m => log[l].step <= log[m].step
    BY <1>2 DEF LogInv
  <2>9. \A l, m \in 1..(n + 1) : l <= m => log'[l].step <= log'[m].step
    <3> SUFFICES ASSUME NEW l \in 1..(n + 1), NEW m \in 1..(n + 1), l <= m
                 PROVE  log'[l].step <= log'[m].step
      OBVIOUS
    <3> HIDE DEF s, n
    <3>1. CASE m = n + 1 /\ l = n + 1
      BY <3>1, <2>5, <2>2
    <3>2. CASE m = n + 1 /\ l \in 1..n
      BY <3>2, <2>4, <2>5, <2>7
    <3>3. CASE m \in 1..n /\ l \in 1..n
      BY <3>3, <2>4, <2>8
    <3> QED BY <3>1, <3>2, <3>3, <2>3
  <2>10. CASE writer = "realtime"
    <3>1. s = turn /\ turn \in Nat
      BY <1>2, <2>10 DEF Shrink!Step, LogInv
    <3>2. n <= turn /\ \A l \in 1..n : log[l].step >= l - 1 /\ log[l].step < turn
      BY <1>2, <2>10 DEF LogInv
    <3>3. n + 1 <= turn' /\ \A l \in 1..(n + 1) : log'[l].step >= l - 1 /\ log'[l].step < turn'
      <4> HIDE DEF s, n
      <4> QED BY <1>1, <2>3, <2>4, <2>5, <2>6, <3>1, <3>2
    <3>4. LogInv'
      BY <1>1, <1>2, <2>1, <2>3, <2>4, <2>9, <2>10, <3>3 DEF LogInv
    <3> QED BY <1>2, <1>3, <1>4, <3>4 DEF ShrinkInv
  <2>11. CASE writer # "realtime"
    <3>1. step \in Nat /\ step' \in Nat /\ step <= step' /\ s = step
      BY <1>2, <2>1, <2>11 DEF Shrink!Step, LogInv
    <3>2. \A l \in 1..(n + 1) : log'[l].step <= step'
      <4> HIDE DEF s, n
      <4> QED BY <2>3, <2>4, <2>5, <2>6, <2>7, <3>1
    <3>3. LogInv'
      BY <1>1, <1>2, <2>1, <2>3, <2>4, <2>9, <2>11, <3>1, <3>2 DEF LogInv
    <3> QED BY <1>2, <1>3, <1>4, <3>3 DEF ShrinkInv
  <2> QED BY <2>10, <2>11
<1> QED
  BY <1>5, <1>6 DEF Shrink!PickFails, Shrink!recordFailure, Shrink!RecordSuccess,
         Shrink!Append1

(* Nothing of a log under search changes, but which lines diverge is chosen *)
(* when the search begins.                                                  *)
LEMMA LogStays ==
  ASSUME LogInv, UNCHANGED <<writer, turn, step, log>>, diverging' \subseteq 1..Len(log)
  PROVE  LogInv'
<1>1. turn' \in Nat /\ step' \in Nat /\ log' \in Seq(Line) /\ diverging' \subseteq 1..Len(log')
  BY DEF LogInv
<1>2. \A l, m \in 1..Len(log') : l <= m => log'[l].step <= log'[m].step
  BY DEF LogInv
<1>3. IF writer' = "realtime"
      THEN /\ Len(log') <= turn'
           /\ \A l \in 1..Len(log') : log'[l].step >= l - 1 /\ log'[l].step < turn'
      ELSE \A l \in 1..Len(log') : log'[l].step <= step'
  BY DEF LogInv
<1> QED BY <1>1, <1>2, <1>3 DEF LogInv

LEMMA ShrinkVerifies == ASSUME ShrinkInv, Shrink!Verify PROVE ShrinkInv'
<1>1. /\ UNCHANGED <<writer, turn, step, log, lo, hi, best, missed>>
      /\ diverging' \subseteq 1..Len(log)
      /\ probing' = "verify" /\ k' = Len(log) - 1 /\ next' = 1 /\ matched' = FALSE
  BY DEF Shrink!Verify, Shrink!recording, Shrink!search, Shrink!Probe, Shrink!N
<1>2. LogInv'
  BY <1>1, LogStays DEF ShrinkInv
<1>3. log \in Seq(Line) /\ lo \in Nat /\ hi \in Int /\ best \in Int
  BY DEF ShrinkInv, LogInv, SearchInv
<1>4. ProbeInv'
  <2>1. \A l \in diverging' : l >= 1
    BY <1>1, <1>3
  <2> QED BY <1>1, <2>1 DEF ProbeInv
<1>5. SearchInv'
  <2>1. Len(log) \in Nat /\ log' = log
    BY <1>1, <1>3
  <2>2. k' \in Int /\ k' = Len(log') - 1
    BY <1>1, <2>1
  <2> QED BY <1>1, <1>3, <2>2 DEF SearchInv
<1>6. matched' \in BOOLEAN /\ missed' \in BOOLEAN
  BY <1>1 DEF ShrinkInv
<1> QED BY <1>2, <1>4, <1>5, <1>6 DEF ShrinkInv

LEMMA ShrinkReplays == ASSUME ShrinkInv, Shrink!ShrinkEntry PROVE ShrinkInv'
<1>1. /\ UNCHANGED <<writer, turn, step, log, diverging, probing, lo, hi, best, k>>
      /\ next' = next + 1
      /\ probing \in {"verify", "bisect"} /\ next <= Len(log) /\ log[next].step <= k
  BY DEF Shrink!ShrinkEntry, Shrink!recording, Shrink!search, Shrink!Running, Shrink!N
<1>2. \/ matched' = (matched \/ next \in diverging) /\ missed' = missed
      \/ matched' = matched /\ missed' = (missed \/ next \in diverging)
  BY DEF Shrink!ShrinkEntry
<1>3. matched \in BOOLEAN /\ missed \in BOOLEAN /\ LogInv
  BY DEF ShrinkInv
<1>4. matched' \in BOOLEAN /\ missed' \in BOOLEAN /\ (missed => missed')
  BY <1>2, <1>3
<1>5. next \in Nat \ {0} /\ (matched => Least(k))
  BY <1>1 DEF ShrinkInv, ProbeInv
<1>6. matched' => matched \/ next \in diverging
  BY <1>2, <1>3
<1>7. Least(k)' <=> Least(k)
  BY <1>1 DEF Least
<1>8. next \in diverging => Least(k)
  BY <1>1 DEF Least
<1>9. matched' => Least(k)'
  BY <1>5, <1>6, <1>7, <1>8
<1>10. ~matched' /\ ~missed' => ~matched /\ ~missed /\ next \notin diverging
  BY <1>2, <1>3
<1>11. ~matched /\ ~missed => \A l \in diverging : l >= next
  BY <1>1 DEF ShrinkInv, ProbeInv
<1>12. ~matched' /\ ~missed' => \A l \in diverging' : l >= next'
  <2>1. \A l \in diverging : l \in Nat
    BY <1>3 DEF LogInv
  <2>2. next \notin diverging /\ (\A l \in diverging : l >= next) => \A l \in diverging : l >= next + 1
    BY <1>5, <2>1
  <2> QED BY <1>1, <1>10, <1>11, <2>2
<1>13. ProbeInv'
  BY <1>1, <1>5, <1>9, <1>12 DEF ProbeInv
<1>14. SearchInv'
  <2>1. Least(best)' <=> Least(best)
    BY <1>1 DEF Least
  <2>2. SearchInv
    BY DEF ShrinkInv
  <2> QED BY <1>1, <1>4, <2>1, <2>2 DEF SearchInv
<1>15. LogInv'
  BY <1>1, <1>3, LogStays DEF LogInv
<1> QED BY <1>4, <1>13, <1>14, <1>15 DEF ShrinkInv

(* A probe that ended unmatched and missed nothing leaves nothing to find   *)
(* up to its bound.                                                         *)
LEMMA NothingBelow ==
  ASSUME ShrinkInv, Shrink!ProbeOver, ~matched, ~missed
  PROVE  \A l \in diverging : log[l].step >= k + 1
<1> SUFFICES ASSUME NEW l \in diverging PROVE log[l].step >= k + 1
  OBVIOUS
<1>1. probing \in {"verify", "bisect"} /\ ~(next <= Len(log) /\ log[next].step <= k)
  BY DEF Shrink!ProbeOver, Shrink!N
<1>2. next \in Nat \ {0} /\ l >= next
  BY <1>1 DEF ShrinkInv, ProbeInv
<1>3. log \in Seq(Line) /\ l \in 1..Len(log) /\ k \in Int
  BY DEF ShrinkInv, LogInv, SearchInv
<1>4. next \in 1..Len(log) /\ next <= l
  BY <1>2, <1>3
<1>5. log[next].step <= log[l].step
  BY <1>3, <1>4 DEF ShrinkInv, LogInv
<1>6. log[next].step \in Nat /\ log[l].step \in Nat
  BY <1>3, <1>4, StepsOfLines
<1> QED BY <1>1, <1>3, <1>4, <1>5, <1>6

LEMMA BisectGoesOn ==
  ASSUME NEW from \in Nat, NEW to \in Int, Shrink!Bisect(from, to)
  PROVE  /\ lo' = from /\ hi' = to
         /\ \/ /\ from <= to /\ probing' = "bisect" /\ next' = 1 /\ matched' = FALSE
               /\ k' \in Int /\ from <= k' /\ k' <= to
            \/ from > to /\ probing' = "done" /\ UNCHANGED <<k, next, matched>>
  BY DEF Shrink!Bisect, Shrink!Probe

(* The search goes on between new bounds, with nothing left to find below   *)
(* the lower one and a step that reproduces just above the upper one.       *)
LEMMA BisectKeeps ==
  ASSUME ShrinkInv, NEW from \in Nat, NEW to \in Int, Shrink!Bisect(from, to),
         UNCHANGED <<writer, turn, step, log, diverging, missed>>,
         best' = to + 1, Least(to + 1),
         ~missed => \A l \in diverging : log[l].step >= from
  PROVE  ShrinkInv'
<1>1. LogInv'
  BY LogStays DEF ShrinkInv, LogInv
<1>2. matched' \in BOOLEAN /\ missed' \in BOOLEAN
  BY BisectGoesOn DEF ShrinkInv
<1>3. ProbeInv'
  <2>1. probing' \in {"verify", "bisect"} => next' = 1 /\ matched' = FALSE
    BY BisectGoesOn
  <2>2. \A l \in diverging' : l >= 1
    BY <1>1 DEF LogInv
  <2> QED BY <2>1, <2>2 DEF ProbeInv
<1>4. SearchInv'
  <2>1. k \in Int
    BY DEF ShrinkInv, SearchInv
  <2>2. /\ lo' = from /\ hi' = to /\ k' \in Int
        /\ probing' = "bisect" => from <= k' /\ k' <= to
        /\ probing' = "done" => from > to
        /\ probing' # "verify"
    BY <2>1, BisectGoesOn
  <2>3. Least(best)'
    BY DEF Least
  <2>4. ~missed' => \A l \in diverging' : log'[l].step >= lo'
    BY <2>2
  <2> QED BY <2>2, <2>3, <2>4 DEF SearchInv
<1> QED BY <1>1, <1>2, <1>3, <1>4 DEF ShrinkInv

LEMMA ShrinkNarrows == ASSUME ShrinkInv, Shrink!Verified \/ Shrink!Narrow PROVE ShrinkInv'
<1>1. UNCHANGED <<writer, turn, step, log, diverging, missed>>
  BY DEF Shrink!Verified, Shrink!Narrow, Shrink!recording
<1>2. /\ matched \in BOOLEAN /\ missed \in BOOLEAN /\ LogInv
      /\ lo \in Nat /\ hi \in Int /\ best \in Int /\ k \in Int
  BY DEF ShrinkInv, SearchInv
<1>3. CASE probing' = "aborted" /\ UNCHANGED <<lo, hi, best, k, next, matched>>
  <2>1. ProbeInv'
    BY <1>3 DEF ProbeInv
  <2>2. SearchInv'
    BY <1>2, <1>3 DEF SearchInv
  <2>3. LogInv'
    BY <1>1, <1>2, LogStays DEF LogInv
  <2> QED BY <1>1, <1>2, <1>3, <2>1, <2>2, <2>3 DEF ShrinkInv
<1>4. CASE Shrink!Verified /\ matched
  <2>1. best' = k /\ Shrink!Bisect(0, Len(log) - 2) /\ probing = "verify"
    BY <1>4 DEF Shrink!Verified, Shrink!N
  <2>2. k = Len(log) - 1 /\ Least(k) /\ Len(log) \in Nat
    BY <1>4, <2>1 DEF ShrinkInv, LogInv, SearchInv, ProbeInv
  <2>3. \A l \in diverging : log[l].step >= 0
    BY <1>2, StepsOfLines DEF LogInv
  <2>4. k = (Len(log) - 2) + 1 /\ Len(log) - 2 \in Int
    BY <2>2
  <2> QED BY <1>1, <2>1, <2>2, <2>3, <2>4, BisectKeeps
<1>5. CASE Shrink!Narrow /\ matched
  <2>1. best' = k /\ Shrink!Bisect(lo, k - 1) /\ probing = "bisect"
    BY <1>5 DEF Shrink!Narrow
  <2>2. Least(k) /\ (~missed => \A l \in diverging : log[l].step >= lo)
    BY <1>5, <2>1 DEF ShrinkInv, SearchInv, ProbeInv
  <2>3. k = (k - 1) + 1 /\ k - 1 \in Int
    BY <1>2
  <2> QED BY <1>1, <1>2, <2>1, <2>2, <2>3, BisectKeeps
<1>6. CASE Shrink!Narrow /\ ~matched
  <2>1. best' = best /\ Shrink!Bisect(k + 1, hi) /\ probing = "bisect" /\ Shrink!ProbeOver
    BY <1>6 DEF Shrink!Narrow
  <2>2. ~missed => \A l \in diverging : log[l].step >= k + 1
    BY <1>6, <2>1, NothingBelow
  <2>3. best = hi + 1 /\ Least(hi + 1) /\ lo <= k
    BY <2>1 DEF ShrinkInv, SearchInv
  <2>4. k + 1 \in Nat
    BY <1>2, <2>3
  <2> QED BY <1>1, <1>2, <2>1, <2>2, <2>3, <2>4, BisectKeeps
<1> QED
  BY <1>2, <1>3, <1>4, <1>5, <1>6 DEF Shrink!Verified, Shrink!Narrow, Shrink!search

LEMMA ShrinkStep == ASSUME ShrinkInv, [Shrink!Next]_(Shrink!vars) PROVE ShrinkInv'
<1>1. CASE Shrink!Next
  BY <1>1, ShrinkRecords, ShrinkVerifies, ShrinkReplays, ShrinkNarrows DEF Shrink!Next
<1>2. CASE UNCHANGED Shrink!vars
  <2> SUFFICES ASSUME UNCHANGED <<writer, turn, step, log, diverging, probing, lo, hi, best,
                                  k, next, matched, missed>>
               PROVE  ShrinkInv'
    BY <1>2 DEF Shrink!vars, Shrink!recording, Shrink!search
  <2>1. LogInv'
    BY LogStays DEF ShrinkInv, LogInv
  <2>2. (Least(k)' <=> Least(k)) /\ (Least(best)' <=> Least(best))
    BY DEF Least
  <2>3. ProbeInv'
    BY <2>2 DEF ShrinkInv, ProbeInv
  <2>4. SearchInv'
    BY <2>2 DEF ShrinkInv, SearchInv
  <2> QED BY <2>1, <2>3, <2>4 DEF ShrinkInv
<1> QED BY <1>1, <1>2

LEMMA ShrinkHolds == ShrinkInv => Shrink!PrefixReproduces /\ Shrink!BestIsLeast
<1> SUFFICES ASSUME ShrinkInv, probing = "done"
             PROVE /\ writer = "realtime" => Shrink!Shrunk \cap diverging # {}
                   /\ ~missed =>
                       /\ \E l \in diverging : log[l].step = best
                       /\ \A l \in diverging : log[l].step >= best
  BY DEF Shrink!PrefixReproduces, Shrink!BestIsLeast
<1>1. PICK l \in diverging : log[l].step <= best
  BY DEF ShrinkInv, SearchInv, Least
<1>2. log \in Seq(Line) /\ \A m \in diverging : m \in 1..Len(log)
  BY DEF ShrinkInv, LogInv
<1>3. \A m \in diverging : log[m].step \in Nat
  BY <1>2, StepsOfLines
<1>4. lo \in Nat /\ hi \in Int /\ best = hi + 1 /\ lo > hi
  BY DEF ShrinkInv, SearchInv
<1>5. ASSUME writer = "realtime" PROVE Shrink!Shrunk \cap diverging # {}
  <2>1. log[l].step >= l - 1
    BY <1>2, <1>5 DEF ShrinkInv, LogInv
  <2>2. l \in 1..(best + 1)
    BY <1>1, <1>2, <1>3, <1>4, <2>1
  <2> QED BY <1>1, <2>2 DEF Shrink!Shrunk
<1>6. ASSUME ~missed PROVE \A m \in diverging : log[m].step >= best
  <2>1. \A m \in diverging : log[m].step >= lo
    BY <1>6 DEF ShrinkInv, SearchInv
  <2> QED BY <1>3, <1>4, <2>1
<1>7. ASSUME ~missed PROVE log[l].step = best
  BY <1>1, <1>3, <1>4, <1>6, <1>7
<1> QED BY <1>1, <1>5, <1>6, <1>7

LEMMA FollowsShrink == MCSpec => Shrink!Spec
<1>1. MCInit => Shrink!Init
  BY DEF MCInit
<1>2. [MCNext]_partsVars => [Shrink!Next]_(Shrink!vars)
  BY DEF MCNext, Still, partsVars, shrinkVars, Shrink!vars, Shrink!recording,
         Shrink!search
<1> QED BY <1>1, <1>2, PTL DEF MCSpec, Shrink!Spec

(* A shrunk realtime log still has a line that diverges.                    *)
THEOREM PrefixesReproduce == MCSpec => []PrefixReproduces
<1>1. ShrinkInv => PrefixReproduces
  BY ShrinkHolds DEF PrefixReproduces, Of
<1> QED BY <1>1, ShrinkBegins, ShrinkStep, FollowsShrink, PTL DEF Shrink!Spec

(* Bisection ends at the least step when every probe saw what it submitted. *)
THEOREM BestAreLeast == MCSpec => []BestIsLeast
<1>1. ShrinkInv => BestIsLeast
  BY ShrinkHolds DEF BestIsLeast, Of
<1> QED BY <1>1, ShrinkBegins, ShrinkStep, FollowsShrink, PTL DEF Shrink!Spec

(* A probe under bisection stops in the middle of what is left to search.   *)
MiddleInv == probing = "bisect" => lo <= hi /\ k = (lo + hi) \div 2

LEMMA MiddleBetween ==
  ASSUME NEW from \in Nat, NEW to \in Int, Shrink!Bisect(from, to)
  PROVE  MiddleInv'
<1>1. lo' = from /\ hi' = to
  BY DEF Shrink!Bisect
<1>2. from <= to => k' = (from + to) \div 2
  BY DEF Shrink!Bisect, Shrink!Probe
<1>3. ~(from <= to) => probing' # "bisect"
  BY DEF Shrink!Bisect
<1> QED BY <1>1, <1>2, <1>3 DEF MiddleInv

LEMMA ShrinkHalves ==
  ASSUME ShrinkInv, MiddleInv, Shrink!Narrow
  PROVE  MiddleInv' /\ 2 * (hi' - lo' + 1) <= hi - lo + 1
<1>1. lo \in Nat /\ hi \in Int /\ k \in Int /\ lo <= k /\ Len(log) \in Nat
  BY DEF ShrinkInv, SearchInv, LogInv, Shrink!Narrow
<1>2. k = (lo + hi) \div 2
  BY DEF MiddleInv, Shrink!Narrow
<1>3. lo + hi \in Int /\ 2 * k <= lo + hi /\ lo + hi <= 2 * k + 1
  BY <1>1, <1>2
<1>4. CASE Shrink!Bisect(lo, k - 1)
  <2>1. lo' = lo /\ hi' = k - 1
    BY <1>4 DEF Shrink!Bisect
  <2> QED BY <1>1, <1>3, <1>4, <2>1, MiddleBetween
<1>5. CASE Shrink!Bisect(k + 1, hi)
  <2>1. lo' = k + 1 /\ hi' = hi
    BY <1>5 DEF Shrink!Bisect
  <2> QED BY <1>1, <1>3, <1>5, <2>1, MiddleBetween
<1> QED BY <1>4, <1>5 DEF Shrink!Narrow

LEMMA MiddleStep == ASSUME ShrinkInv, MiddleInv, [Shrink!Next]_(Shrink!vars) PROVE MiddleInv'
<1>1. CASE Shrink!Narrow
  BY <1>1, ShrinkHalves
<1>2. CASE Shrink!Verified
  <2>1. CASE Shrink!Bisect(0, Len(log) - 2)
    BY <2>1, MiddleBetween DEF ShrinkInv, LogInv
  <2>2. CASE probing' = "aborted"
    BY <2>2 DEF MiddleInv
  <2> QED BY <1>2, <2>1, <2>2 DEF Shrink!Verified, Shrink!N
<1>3. CASE Shrink!PickFails \/ Shrink!recordFailure \/ Shrink!RecordSuccess \/ Shrink!Verify
  BY <1>3 DEF MiddleInv, Shrink!PickFails, Shrink!recordFailure, Shrink!RecordSuccess,
         Shrink!Recording, Shrink!Verify
<1>4. CASE Shrink!ShrinkEntry \/ UNCHANGED Shrink!vars
  BY <1>4 DEF MiddleInv, Shrink!ShrinkEntry, Shrink!vars, Shrink!search
<1> QED BY <1>1, <1>2, <1>3, <1>4 DEF Shrink!Next

(* Each probe of a bisection at least halves the steps left to search, on   *)
(* logs with gaps and repeated steps, and whether or not it matched.        *)
SearchHalved == [][Shrink!Narrow => 2 * (hi' - lo' + 1) <= hi - lo + 1]_(Shrink!vars)

(* So a log of N lines takes no more than log2(N) + 1 probes after the first. *)
THEOREM SearchesHalve == MCSpec => SearchHalved
<1>1. Shrink!Init => MiddleInv
  BY DEF Shrink!Init, MiddleInv
<1>2. ShrinkInv /\ MiddleInv /\ [Shrink!Next]_(Shrink!vars)
      => [Shrink!Narrow => 2 * (hi' - lo' + 1) <= hi - lo + 1]_(Shrink!vars)
  BY ShrinkHalves
<1> HIDE DEF ShrinkInv, MiddleInv
<1> QED
  BY <1>1, <1>2, FollowsShrink, ShrinkBegins, ShrinkStep, MiddleStep, PTL
     DEF Shrink!Spec, SearchHalved

-----------------------------------------------------------------------------
(* The command line, for every set of names and of network scenarios and    *)
(* every sequence of commands, failed, killed or completed.                 *)
(* What a command asks for, by its operation.                               *)
Asked ==
  /\ cmd.pc = "idle" <=> cmd.name = None
  /\ cmd.op = "run" => cmd.scenario = Workload
  /\ cmd.op \in Ups => cmd.scenario # None
  /\ cmd.op \in {"resume", "reset"} => cmd.scenario \in Configs
  /\ cmd.scenario \in Configs => cmd.attempt = 1
  /\ cmd.op = "down" => cmd.pc \in {"start", "remove", "forget", "unlist"}
  /\ cmd.pc # "idle" => cmd.op # "none"

(* Where a command can be, and what it has done by then.                    *)
Walked ==
  /\ cmd.pc = "wipe" => cmd.op = "reset" /\ cmd.scenario \in Configs
  /\ cmd.pc = "unlist" /\ cmd.op = "reset" =>
       cmd.scenario \in Configs /\ enclave[cmd.name] = None
  /\ cmd.pc = "save" => cmd.scenario \in Configs
  /\ cmd.pc = "poll" => cmd.op = "run"
  /\ cmd.pc \in {"remove", "forget"} => cmd.op \in {"down", "run"}
  /\ cmd.pc = "forget" => enclave[cmd.name] = None
  /\ cmd.pc \in {"wait", "discover", "record", "poll"} => enclave[cmd.name] # None

(* A network is saved and booted over nothing, or over its own data.        *)
Recorded ==
  /\ \A n \in Names : enclave[n] \in Configs => saved[n] = enclave[n]
  /\ cmd.pc \in {"save", "boot", "launch"} /\ cmd.scenario \in Configs =>
       /\ cmd.op = "resume" => enclave[cmd.name] \in {Workload, cmd.scenario}
       /\ cmd.op # "resume" => enclave[cmd.name] = None
       /\ cmd.pc # "save" => saved[cmd.name] = cmd.scenario

(* The enclave current.json names is there while no command on it is past   *)
(* its start.                                                               *)
Listed ==
  current \in Names \ unfinished /\ (cmd.pc = "start" \/ current # cmd.name) =>
    enclave[current] # None

CommandInv == TypeOK /\ Asked /\ Walked /\ Recorded /\ Listed

-----------------------------------------------------------------------------
LEMMA Initially == Init => CommandInv
  BY NamesAssumption, SMTT(30)
     DEF Init, CommandInv, TypeOK, Asked, Walked, Recorded, Listed, Idle, Pcs, Ups

USE DEF CommandInv, TypeOK, Asked, Walked, Recorded, Listed, Pcs, Ups

LEMMA StepStart ==
  ASSUME CommandInv, Start \/ StartDownCurrent PROVE CommandInv'
  BY NamesAssumption, SMTT(60) DEF Start, StartDownCurrent, Command, At, Idle

LEMMA StepCheck ==
  ASSUME CommandInv, Check PROVE CommandInv'
<1>1. UNCHANGED <<enclave, saved, current>> /\ cmd.pc = "start" /\ cmd.op \in Ups
  BY DEF Check, At
<1>2. CASE Refuse
  BY <1>1, <1>2, NamesAssumption, SMTT(30) DEF Refuse, Idle
<1>3. CASE cmd.scenario = Workload /\ ~Refuse
  <2>1. cmd' = [cmd EXCEPT !.pc = "boot"] /\ unfinished' = unfinished
    BY <1>3, NamesAssumption, SMTT(30) DEF Check, NetworkOnly, Go
  <2> QED
    BY <1>1, <1>3, <2>1, NamesAssumption, SMTT(30)
<1>4. CASE cmd.op = "reset" /\ cmd.scenario \in Configs /\ ~Refuse
  <2>1. cmd' = [cmd EXCEPT !.pc = "wipe"] /\ unfinished' = unfinished
    BY <1>4, SMTT(30) DEF Check, NetworkOnly, Go
  <2> QED
    BY <1>1, <1>4, <2>1, NamesAssumption, SMTT(30)
<1>5. CASE cmd.op # "reset" /\ cmd.scenario \in Configs /\ ~Refuse
  <2>1. /\ cmd' = [cmd EXCEPT !.pc = "save"] /\ unfinished' = unfinished
        /\ checkNetworkLifecycle
    BY <1>5, SMTT(30) DEF Check, NetworkOnly, Go
  <2>2. /\ cmd.op = "resume" =>
             enclave[cmd.name] # None /\ saved[cmd.name] = cmd.scenario
        /\ cmd.op # "resume" => enclave[cmd.name] = None
    BY <1>5, <2>1 DEF checkNetworkLifecycle, compatibleNetwork
  <2>3. cmd.attempt = 1
    BY <1>5
  <2> QED
    BY <1>1, <1>5, <2>1, <2>2, <2>3, NamesAssumption, SMTT(30)
<1> QED
  BY <1>1, <1>2, <1>3, <1>4, <1>5, NamesAssumption

LEMMA StepReset ==
  ASSUME CommandInv, Wipe \/ UnlistReset \/ WriteNetwork PROVE CommandInv'
<1>1. CASE Wipe
  BY <1>1, NamesAssumption, SMTT(60) DEF Wipe, RemoveEnclave, At, Go, Fail, Idle
<1>2. CASE UnlistReset
  <2>1. CASE Fail /\ current' = current
    BY <1>2, <2>1, NamesAssumption, SMTT(30) DEF UnlistReset, At, Fail, Idle
  <2>2. CASE current' = WithoutName /\ Go("save") /\ UNCHANGED unfinished
    BY <1>2, <2>2, NamesAssumption, SMTT(30) DEF UnlistReset, WithoutName, At, Go
  <2> QED BY <1>2, <2>1, <2>2 DEF UnlistReset
<1>3. CASE WriteNetwork
  BY <1>3, NamesAssumption, SMTT(60) DEF WriteNetwork, At, Go, Fail, Idle
<1> QED BY <1>1, <1>2, <1>3

LEMMA StepBoot ==
  ASSUME CommandInv, BootWipes \/ BootKeeps PROVE CommandInv'
<1>1. CASE BootWipes
  BY <1>1, NamesAssumption, SMTT(60)
     DEF BootWipes, RemoveEnclave, TearDownFirst, NetworkOnly, At, Go, Fail, Idle
<1>2. CASE BootKeeps
  BY <1>2, NamesAssumption, SMTT(60) DEF BootKeeps, At, Go, Idle
<1> QED BY <1>1, <1>2

LEMMA StepLaunch ==
  ASSUME CommandInv, Launch \/ LaunchFails \/ LaunchHangs PROVE CommandInv'
<1>1. CASE Launch
  BY <1>1, NamesAssumption, SMTT(60) DEF Launch, Launched, At, Go, Idle
<1>2. CASE LaunchFails
  BY <1>2, NamesAssumption, SMTT(60) DEF LaunchFails, Launched, At, Fail, Idle
<1>3. CASE LaunchHangs
  <2>1. cmd.scenario = Workload /\ cmd.op # "down" /\ cmd.name \in Names
    BY <1>3, NamesAssumption, SMTT(30) DEF LaunchHangs, MaxAttempts, NetworkOnly, At
  <2>2. cmd.attempt + 1 \in 1..3
    BY <1>3, NamesAssumption, SMTT(30) DEF LaunchHangs, MaxAttempts, NetworkOnly
  <2> DEFINE Cmds == [op : Ups \cup {"down", "none"}, name : Names \cup {None},
                      scenario : Configs \cup {Workload, None}, pc : Pcs, attempt : 1..3]
  <2>3. /\ cmd'.op = cmd.op /\ cmd'.name = cmd.name /\ cmd'.scenario = cmd.scenario
        /\ cmd'.pc = "boot" /\ cmd'.attempt = cmd.attempt + 1
        /\ cmd' \in Cmds
    <3>1. cmd' = [cmd EXCEPT !.pc = "boot", !.attempt = cmd.attempt + 1]
      BY <1>3 DEF LaunchHangs
    <3>2. cmd \in Cmds /\ "boot" \in Pcs
      OBVIOUS
    <3> HIDE DEF CommandInv, Pcs, Ups
    <3> QED BY <3>1, <3>2, <2>2
  <2>4. /\ enclave' \in [Names -> Configs \cup {Workload, None}]
        /\ \A n \in Names :
             enclave'[n] # enclave[n] => n = cmd.name /\ enclave'[n] = Workload
    <3>1. enclave' = enclave \/ enclave' = [enclave EXCEPT ![cmd.name] = Workload]
      BY <1>3, <2>1 DEF LaunchHangs, Launched
    <3>2. enclave \in [Names -> Configs \cup {Workload, None}]
      OBVIOUS
    <3>3. CASE enclave' = enclave
      BY <3>2, <3>3
    <3>4. CASE enclave' = [enclave EXCEPT ![cmd.name] = Workload]
      BY <3>2, <3>4, <2>1
    <3> QED BY <3>1, <3>3, <3>4
  <2>5. UNCHANGED <<saved, current, unfinished>> /\ cmd.pc = "launch"
    BY <1>3 DEF LaunchHangs, At
  <2>6. TypeOK' /\ Asked' /\ Walked'
    BY <2>1, <2>2, <2>3, <2>4, <2>5, NamesAssumption, SMTT(30)
  <2>7. Recorded'
    BY <2>1, <2>3, <2>4, <2>5, NamesAssumption, SMTT(30)
  <2>8. Listed'
    BY <2>1, <2>3, <2>4, <2>5, NamesAssumption, SMTT(30)
  <2> QED BY <2>6, <2>7, <2>8
<1> QED BY <1>1, <1>2, <1>3

LEMMA StepReady ==
  ASSUME CommandInv, waitForControl \/ discoverNetwork \/ WriteCurrent \/ runRun PROVE CommandInv'
<1>1. CASE waitForControl
  BY <1>1, NamesAssumption, SMTT(60) DEF waitForControl, At, Go, Fail, Idle
<1>2. CASE discoverNetwork
  BY <1>2, NamesAssumption, SMTT(60) DEF discoverNetwork, At, Go, Fail, Idle
<1>3. CASE WriteCurrent
  BY <1>3, NamesAssumption, SMTT(60) DEF WriteCurrent, At, Go, Fail, Succeed, Idle
<1>4. CASE runRun
  BY <1>4, NamesAssumption, SMTT(60) DEF runRun, At, Go, Succeed, Idle
<1> QED BY <1>1, <1>2, <1>3, <1>4

LEMMA StepDown ==
  ASSUME CommandInv, StartTearDown \/ TearDown \/ RemoveNetwork \/ UnlistDown \/ Killed
  PROVE  CommandInv'
<1>1. CASE StartTearDown
  BY <1>1, NamesAssumption, SMTT(60) DEF StartTearDown, At, Go, Idle
<1>2. CASE TearDown
  BY <1>2, NamesAssumption, SMTT(60) DEF TearDown, RemoveEnclave, At, Go, Fail, Idle
<1>3. CASE RemoveNetwork
  BY <1>3, NamesAssumption, SMTT(60) DEF RemoveNetwork, At, Go, Fail, Idle
<1>4. CASE UnlistDown
  BY <1>4, NamesAssumption, SMTT(60) DEF UnlistDown, WithoutName, At, Fail, Succeed, Idle
<1>5. CASE Killed
  BY <1>5, NamesAssumption, SMTT(60) DEF Killed, At, Fail, Idle
<1> QED BY <1>1, <1>2, <1>3, <1>4, <1>5

LEMMA Step == ASSUME CommandInv, [Next]_vars PROVE CommandInv'
<1>1. CASE Next
  BY <1>1, StepStart, StepCheck, StepReset, StepBoot, StepLaunch, StepReady, StepDown
     DEF Next
<1>2. CASE UNCHANGED vars
  BY <1>2 DEF vars
<1> QED BY <1>1, <1>2

-----------------------------------------------------------------------------
LEMMA FollowsCommands == MCSpec => Spec
<1>1. MCInit => Init
  BY DEF MCInit
<1>2. [MCNext]_partsVars => [Next]_vars
  BY DEF MCNext, Still, partsVars, vars
<1> QED BY <1>1, <1>2, PTL DEF MCSpec, Spec

(* Names, files and the command keep their types, and a command its tries,  *)
(* whatever is asked and wherever it stops.                                 *)
THEOREM TypeCorrect == Spec => []TypeOK
<1>1. CommandInv => TypeOK
  OBVIOUS
<1> HIDE DEF CommandInv
<1> QED BY <1>1, Initially, Step, PTL DEF Spec

(* A network is resumed over its own data only, or over what a workload     *)
(* left under the name.                                                     *)
THEOREM ResumesMatch == Spec => []ResumeMatches
<1>1. CommandInv => ResumeMatches
  BY DEF ResumeMatches, At
<1> HIDE DEF CommandInv
<1> QED BY <1>1, Initially, Step, PTL DEF Spec

(* Between commands current.json names an enclave that is there, unless a   *)
(* command on it stopped on the way.                                        *)
THEOREM CurrentStaysLive == Spec => []CurrentIsLive
<1>1. CommandInv => CurrentIsLive
  BY NamesAssumption DEF CurrentIsLive, At
<1> HIDE DEF CommandInv
<1> QED BY <1>1, Initially, Step, PTL DEF Spec

(* Only --reset, down and a workload take the ledger data of a network.     *)
THEOREM LedgerDataIsKept == Spec => LedgerDataKept
<1> DEFINE Kept ==
      \A n \in Names :
        enclave[n] \in Configs /\ enclave'[n] # enclave[n] =>
          cmd.name = n /\ (cmd.op \in {"reset", "down"} \/ cmd.scenario = Workload)
<1>1. ASSUME CommandInv, Next PROVE Kept
  <2>1. CASE Wipe
    BY <1>1, <2>1 DEF Wipe, RemoveEnclave, At
  <2>2. CASE BootWipes
    BY <1>1, <2>2, NamesAssumption, SMTT(30)
       DEF BootWipes, RemoveEnclave, TearDownFirst, NetworkOnly, At
  <2>3. CASE Launch \/ LaunchFails \/ LaunchHangs
    BY <1>1, <2>3, NamesAssumption, SMTT(30) DEF Launch, LaunchFails, LaunchHangs,
           Launched, At
  <2>4. CASE TearDown
    BY <1>1, <2>4 DEF TearDown, RemoveEnclave, At
  <2>5. CASE UNCHANGED enclave
    BY <2>5
  <2> QED
    BY <1>1, <2>1, <2>2, <2>3, <2>4, <2>5
       DEF Next, Start, StartDownCurrent, Check, UnlistReset, WriteNetwork, BootKeeps,
           waitForControl, discoverNetwork, WriteCurrent, runRun, StartTearDown,
           RemoveNetwork, UnlistDown, Killed
<1>2. CommandInv /\ [Next]_vars => [Kept]_vars
  BY <1>1
<1> HIDE DEF CommandInv, Kept
<1>3. Spec => [][Kept]_vars
  BY <1>2, Initially, Step, PTL DEF Spec
<1> QED BY <1>3 DEF LedgerDataKept, Kept
=============================================================================
