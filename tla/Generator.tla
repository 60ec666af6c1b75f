------------------------------- MODULE Generator -------------------------------
(* The fuzzer's transaction generator: the registered candidate types, the  *)
(* selector, the mutator, and the trackers that make the types that refer   *)
(* to an object of an earlier transaction eligible once one was accepted.   *)
(* The runner's loop is one goroutine: it picks, mutates, submits and       *)
(* records one transaction before the next.                                 *)
EXTENDS Naturals, FiniteSets

CONSTANTS
  Accounts,        \* the pool
  Nobody,          \* an absent or unusable address
  Amendments,      \* the amendment sets a network may have enabled
  Documents,       \* oracle document IDs
  MaxMade          \* bound on the objects a behaviour creates

\* The pool has four accounts or more: SignerListSet draws up to three signers
\* other than the account, and loops for ever in a smaller one.

VARIABLES
  enabled,   \* amendments read once, before the loop starts
  tracked,   \* the references of all sub-trackers
  made,      \* objects that accepted transactions made or will make
  held,      \* <<token, account>>: who holds each NFToken (external)
  pending    \* accepted changes of holder the ledger has yet to apply

vars == <<enabled, tracked, made, held, pending>>

Nothing == [kind |-> "nothing", id |-> <<>>, owner |-> Nobody, other |-> Nobody]

Ref(kind, id, owner, other) ==
  [kind |-> kind, id |-> id, owner |-> owner, other |-> other]

Tracked(kind) == {ref \in tracked : ref.kind = kind}

NewTracker == {}

------------------------------------------------------------------------------
(* keylet.go: the ledger's object IDs, computed from the creating           *)
(* transaction.  A hash is the tuple it is taken of.                        *)
checkID(owner, seq) == <<"C", owner, seq>>
payChannelID(source, destination, seq) == <<"x", source, destination, seq>>
nftokenOfferID(owner, seq) == <<"q", owner, seq>>
permissionedDomainID(owner, seq) == <<"m", owner, seq>>
mptIssuanceID(issuer, seq) == <<seq, issuer>>

(* What the ledger itself makes of an accepted transaction.  Sequence       *)
(* numbers count the transactions of the account that made an object.       *)
NextSequence(a) == 1 + Cardinality({o \in made : o.owner = a})

LedgerObject(tx) ==
  LET a == tx.account  d == tx.party  n == NextSequence(a) IN
  CASE tx.type = "EscrowCreate"          -> {Ref("escrow", <<a, n>>, a, d)}
    [] tx.type = "OfferCreate"           -> {Ref("offer", <<a, n>>, a, Nobody)}
    [] tx.type = "CheckCreate"           -> {Ref("check", <<"C", a, n>>, a, d)}
    [] tx.type = "PaymentChannelCreate"  -> {Ref("channel", <<"x", a, d, n>>, a, d)}
    [] tx.type = "PermissionedDomainSet" -> {Ref("domain", <<"m", a, n>>, a, Nobody)}
    [] tx.type = "MPTokenIssuanceCreate" -> {Ref("mpt", <<n, a>>, a, Nobody)}
    [] tx.type = "OracleSet"             -> {Ref("oracle", <<a, tx.document>>, a, Nobody)}
    [] tx.type = "DIDSet"                -> {Ref("did", <<a>>, a, Nobody)}
    [] tx.type = "CredentialCreate"      -> {Ref("credential", <<a, d>>, a, d)}
    [] tx.type = "AMMCreate"             -> {Ref("amm", <<"USD", d>>, a, d)}
    [] tx.type = "NFTokenMint"           -> {Ref("nft", <<"t", a, n>>, a, Nobody)}
    [] tx.type = "NFTokenCreateOffer"    -> {Ref("nftOffer", <<"q", a, n>>, a, tx.names.id)}
    [] OTHER -> {}

------------------------------------------------------------------------------
(* A transaction: the fields the trackers and the ledger tell apart.  The   *)
(* builder signs it with the seed of its account.                           *)
Tx(type, account, party, names) ==
  [type |-> type, account |-> account, party |-> party, names |-> names,
   document |-> 0, sell |-> type = "NFTokenCreateOffer"]

Alone(type) == {Tx(type, a, Nobody, Nothing) : a \in Accounts}

PickTwoDistinct(type) ==
  {Tx(type, p[1], p[2], Nothing) : p \in {q \in Accounts \X Accounts : q[1] # q[2]}}

pickOtherThan(a) == Accounts \ {a}

ByOwner(type, kind) == {Tx(type, ref.owner, Nobody, ref) : ref \in Tracked(kind)}

ByOther(type, kind) == {Tx(type, ref.other, ref.owner, ref) : ref \in Tracked(kind)}

ByAnyone(type, kind) ==
  {Tx(type, p[1], Nobody, p[2]) : p \in Accounts \X Tracked(kind)}

ByStranger(type, kind) ==
  UNION {{Tx(type, a, Nobody, ref) : a \in pickOtherThan(ref.owner)} : ref \in Tracked(kind)}

(* A registered type: what gates it, and what its builder may return.       *)
Candidate(requires, canBuild, builds) ==
  [requires |-> requires, canBuild |-> canBuild, builds |-> builds]

Always(builds) == Candidate({}, TRUE, builds)

Gated(amendment, builds) == Candidate({amendment}, TRUE, builds)

Needs(kind, requires, builds) == Candidate(requires, Tracked(kind) # {}, builds)

NFTs == "NonFungibleTokensV1_1"

Payment       == Always(PickTwoDistinct("Payment"))
TrustSet      == Always(PickTwoDistinct("TrustSet"))
AccountSet    == Always(Alone("AccountSet"))
TicketCreate  == Always(Alone("TicketCreate"))
SetRegularKey == Always(Alone("SetRegularKey") \cup PickTwoDistinct("SetRegularKey"))
SignerListSet == Always(Alone("SignerListSet"))

EscrowCreate == Always(PickTwoDistinct("EscrowCreate"))
EscrowFinish == Needs("escrow", {}, ByAnyone("EscrowFinish", "escrow"))
EscrowCancel == Needs("escrow", {}, ByOwner("EscrowCancel", "escrow"))

OfferCreate == Always(PickTwoDistinct("OfferCreate"))
OfferCancel == Needs("offer", {}, ByOwner("OfferCancel", "offer"))

CheckCreate == Gated("Checks", PickTwoDistinct("CheckCreate"))
\* mutant: the issuer of a check cashes it
CheckCashByOwner == Needs("check", {"Checks"}, ByOwner("CheckCash", "check"))
CheckCash   == Needs("check", {"Checks"}, ByOther("CheckCash", "check"))
CheckCancel == Needs("check", {"Checks"}, ByOwner("CheckCancel", "check"))

PaymentChannelCreate == Always(PickTwoDistinct("PaymentChannelCreate"))
PaymentChannelFund   == Needs("channel", {}, ByOwner("PaymentChannelFund", "channel"))
PaymentChannelClaim  == Needs("channel", {}, ByOwner("PaymentChannelClaim", "channel"))

PermissionedDomainSet    == Gated("PermissionedDomains", PickTwoDistinct("PermissionedDomainSet"))
PermissionedDomainDelete ==
  Needs("domain", {"PermissionedDomains"}, ByOwner("PermissionedDomainDelete", "domain"))

MPTokenIssuanceCreate  == Gated("MPTokensV1", Alone("MPTokenIssuanceCreate"))
MPTokenAuthorize       == Needs("mpt", {"MPTokensV1"}, ByStranger("MPTokenAuthorize", "mpt"))
MPTokenIssuanceSet     == Needs("mpt", {"MPTokensV1"}, ByOwner("MPTokenIssuanceSet", "mpt"))
MPTokenIssuanceDestroy == Needs("mpt", {"MPTokensV1"}, ByOwner("MPTokenIssuanceDestroy", "mpt"))

OracleSet ==
  Gated("PriceOracle",
        UNION {{[tx EXCEPT !.document = d] : d \in Documents} : tx \in Alone("OracleSet")})
OracleDelete == Needs("oracle", {"PriceOracle"}, ByOwner("OracleDelete", "oracle"))

DIDSet    == Gated("DID", Alone("DIDSet"))
DIDDelete == Needs("did", {"DID"}, ByOwner("DIDDelete", "did"))

CredentialCreate == Gated("Credentials", PickTwoDistinct("CredentialCreate"))
CredentialAccept == Needs("credential", {"Credentials"}, ByOther("CredentialAccept", "credential"))
CredentialDelete == Needs("credential", {"Credentials"}, ByOwner("CredentialDelete", "credential"))

AMMCreate   == Gated("AMM", PickTwoDistinct("AMMCreate"))
AMMDeposit  == Needs("amm", {"AMM"}, ByOwner("AMMDeposit", "amm"))
AMMWithdraw == Needs("amm", {"AMM"}, ByOwner("AMMWithdraw", "amm"))
AMMVote     == Needs("amm", {"AMM"}, ByOwner("AMMVote", "amm"))
AMMBid      == Needs("amm", {"AMM"}, ByOwner("AMMBid", "amm"))
AMMDelete   == Needs("amm", {"AMM"}, ByAnyone("AMMDelete", "amm"))
AMMClawback == Needs("amm", {"AMM", "AMMClawback"}, ByOther("AMMClawback", "amm"))

NFTokenMint        == Gated(NFTs, Alone("NFTokenMint"))
NFTokenBurn        == Needs("nft", {NFTs}, ByOwner("NFTokenBurn", "nft"))
NFTokenModify      == Needs("nft", {NFTs, "DynamicNFT"}, ByOwner("NFTokenModify", "nft"))
NFTokenCreateOffer == Needs("nft", {NFTs}, ByOwner("NFTokenCreateOffer", "nft"))
NFTokenAcceptOffer == Needs("nftOffer", {NFTs}, ByStranger("NFTokenAcceptOffer", "nftOffer"))
NFTokenCancelOffer == Needs("nftOffer", {NFTs}, ByOwner("NFTokenCancelOffer", "nftOffer"))

Clawback       == Gated("Clawback", PickTwoDistinct("Clawback"))
DepositPreauth == Gated("DepositPreauth", PickTwoDistinct("DepositPreauth"))
AccountDelete  == Gated("DeletableAccounts", PickTwoDistinct("AccountDelete"))
LedgerStateFix == Gated("fixNFTokenPageLinks", PickTwoDistinct("LedgerStateFix"))

candidates ==
  {Payment, TrustSet, AccountSet, TicketCreate, SetRegularKey, SignerListSet,
   EscrowCreate, EscrowFinish, EscrowCancel, OfferCreate, OfferCancel,
   CheckCreate, CheckCash, CheckCancel,
   PaymentChannelCreate, PaymentChannelFund, PaymentChannelClaim,
   PermissionedDomainSet, PermissionedDomainDelete,
   MPTokenIssuanceCreate, MPTokenAuthorize, MPTokenIssuanceSet, MPTokenIssuanceDestroy,
   OracleSet, OracleDelete, DIDSet, DIDDelete,
   CredentialCreate, CredentialAccept, CredentialDelete,
   AMMCreate, AMMDeposit, AMMWithdraw, AMMVote, AMMBid, AMMDelete, AMMClawback,
   NFTokenMint, NFTokenBurn, NFTokenModify,
   NFTokenCreateOffer, NFTokenAcceptOffer, NFTokenCancelOffer,
   Clawback, DepositPreauth, AccountDelete, LedgerStateFix}

------------------------------------------------------------------------------
(* The selector: any transaction any eligible candidate may build.          *)
eligible == {c \in candidates : c.requires \subseteq enabled /\ c.canBuild}

PickTx == UNION {c.builds : c \in eligible}

(* The mutator changes one field.  Only what it does to the fields above is *)
(* told apart; a change elsewhere leaves the transaction as it is here, for *)
(* the node to accept or to refuse.                                         *)
mutDeleteField(tx) ==
  {[tx EXCEPT !.account = Nobody], [tx EXCEPT !.party = Nobody],
   [tx EXCEPT !.names = Nothing], [tx EXCEPT !.sell = FALSE]}

mutCorruptAddress(tx) == {[tx EXCEPT !.account = Nobody], [tx EXCEPT !.party = Nobody]}

mutZeroUint32(tx) == {[tx EXCEPT !.sell = FALSE]}

mutOverflowUint32(tx) == {tx}

mutCorruptDrops(tx) == {tx}

Maybe(tx) ==
  {tx} \cup mutDeleteField(tx) \cup mutCorruptDrops(tx) \cup mutCorruptAddress(tx)
       \cup mutOverflowUint32(tx) \cup mutZeroUint32(tx)

(* What a node does not refuse (external): the fields its type needs are    *)
(* there, a buy offer would name the token's owner, the account is that of  *)
(* the seed, an offer is the holder's, and one AMM per asset.               *)
TakesParty ==
  {"Payment", "TrustSet", "EscrowCreate", "OfferCreate", "CheckCreate",
   "PaymentChannelCreate", "PermissionedDomainSet", "CredentialCreate", "AMMCreate",
   "Clawback", "DepositPreauth", "AccountDelete", "LedgerStateFix"}

WellFormed(tx) ==
  /\ tx.account \in Accounts
  /\ tx.type \in TakesParty => tx.party \in Accounts
  /\ tx.type = "NFTokenCreateOffer" => tx.sell /\ tx.names # Nothing
  /\ tx.type = "NFTokenAcceptOffer" => tx.names # Nothing

------------------------------------------------------------------------------
(* How a token changes hands on the ledger (external).                      *)
Moves(tx) ==
  CASE tx.type = "NFTokenMint" ->
         {[token |-> o.id, from |-> Nobody, to |-> tx.account] : o \in LedgerObject(tx)}
    [] tx.type = "NFTokenAcceptOffer" ->
         {[token |-> tx.names.other, from |-> tx.names.owner, to |-> tx.account]}
    [] tx.type = "NFTokenBurn" ->
         {[token |-> tx.names.id, from |-> tx.account, to |-> Nobody]}
    [] OTHER -> {}

Moved(h, move) ==
  IF move.from = Nobody \/ <<move.token, move.from>> \in h
  THEN (h \ {<<move.token, move.from>>})
         \cup (IF move.to = Nobody THEN {} ELSE {<<move.token, move.to>>})
  ELSE h

AllMoved(h, moves) == IF moves = {} THEN h ELSE Moved(h, CHOOSE m \in moves : TRUE)

AccountNFTs(h, a) == {entry[1] : entry \in {e \in h : e[2] = a}}

(* record.go: what an accepted transaction adds to the trackers, given the  *)
(* sequence the answer told and the tokens the node listed.                 *)
\* mutant: every token of the account is recorded as its own
RecordAllNFTs(owner, listed) == {Ref("nft", token, owner, Nobody) : token \in listed}

recordMintedNFTs(owner, listed) ==
  {Ref("nft", token, owner, Nobody) : token \in listed \ {ref.id : ref \in Tracked("nft")}}

WithSequence(sequence, ref) == IF sequence > 0 THEN {ref} ELSE {}

RecordSuccess(tx, sequence, listed) ==
  LET a == tx.account  d == tx.party  n == sequence IN
  CASE tx.type = "EscrowCreate" -> WithSequence(n, Ref("escrow", <<a, n>>, a, d))
    [] tx.type = "OfferCreate" -> WithSequence(n, Ref("offer", <<a, n>>, a, Nobody))
    [] tx.type = "CheckCreate" -> WithSequence(n, Ref("check", checkID(a, n), a, d))
    [] tx.type = "PaymentChannelCreate" ->
         WithSequence(n, Ref("channel", payChannelID(a, d, n), a, d))
    [] tx.type = "PermissionedDomainSet" ->
         WithSequence(n, Ref("domain", permissionedDomainID(a, n), a, Nobody))
    [] tx.type = "MPTokenIssuanceCreate" ->
         WithSequence(n, Ref("mpt", mptIssuanceID(a, n), a, Nobody))
    [] tx.type = "OracleSet" -> {Ref("oracle", <<a, tx.document>>, a, Nobody)}
    [] tx.type = "DIDSet" -> {Ref("did", <<a>>, a, Nobody)}
    [] tx.type = "CredentialCreate" -> {Ref("credential", <<a, d>>, a, d)}
    [] tx.type = "AMMCreate" -> {Ref("amm", <<"USD", d>>, a, d)}
    [] tx.type = "NFTokenMint" -> recordMintedNFTs(a, listed)
    [] tx.type = "NFTokenCreateOffer" ->
         WithSequence(n, Ref("nftOffer", nftokenOfferID(a, n), a, tx.names.id))
    [] OTHER -> {}

Init ==
  /\ enabled \in Amendments
  /\ tracked = NewTracker
  /\ made = {} /\ held = {} /\ pending = {}

(* One turn of the loop whose transaction the node accepted (tesSUCCESS or  *)
(* terQUEUED).  Its token is at its new holder at once or later; an answer  *)
(* may lack the sequence, and the listing of tokens may fail.  A refused    *)
(* transaction and a lost answer leave everything as it is.                 *)
Accepted(tx) ==
  /\ WellFormed(tx)
  /\ made' = made \cup LedgerObject(tx)
  /\ \E late \in {{}, Moves(tx)} :
       /\ held' = AllMoved(held, Moves(tx) \ late)
       /\ pending' = pending \cup late
  /\ \E sequence \in {0, NextSequence(tx.account)},
        listed \in {{}, AccountNFTs(held', tx.account)} :
       tracked' = tracked \cup RecordSuccess(tx, sequence, listed)

Submit ==
  /\ Cardinality(made) < MaxMade
  /\ \E picked \in PickTx : \E tx \in Maybe(picked) : Accepted(tx)
  /\ UNCHANGED enabled

(* The ledger applies an accepted change of holder, or drops it.            *)
Settle(move) ==
  /\ pending' = pending \ {move}
  /\ held' \in {held, Moved(held, move)}
  /\ UNCHANGED <<enabled, tracked, made>>

Next == Submit \/ \E move \in pending : Settle(move)

Spec == Init /\ [][Next]_vars

------------------------------------------------------------------------------
(* The ledger's own rule for who may act on an object (external).           *)
MayAct(type, a, object) ==
  CASE type \in {"EscrowFinish", "AMMDelete"} -> TRUE
    [] type \in {"MPTokenAuthorize", "NFTokenAcceptOffer"} -> a # object.owner
    [] type \in {"CheckCash", "CredentialAccept", "AMMClawback"} -> a = object.other
    [] type \in {"CheckCancel", "CredentialDelete"} -> a \in {object.owner, object.other}
    [] OTHER -> a = object.owner

(* Every reference a tracker holds is one of an object that an accepted     *)
(* transaction made: same derived ID, same owner, same second party.  For a *)
(* token the owner is its minter, although tokens change hands and          *)
(* RecordSuccess takes the account that a listing was asked for.            *)
RefsAreReal == tracked \subseteq made

(* Whatever the selector returns is signed by an account that the ledger    *)
(* lets act on the object it names, by the record of the creation that made *)
(* the object.  (A token may since have been sold: a probe by design.)      *)
SignersMayAct ==
  \A tx \in PickTx : tx.names # Nothing =>
    \E object \in made :
      /\ object.kind = tx.names.kind /\ object.id = tx.names.id
      /\ MayAct(tx.type, tx.account, object)

=============================================================================
