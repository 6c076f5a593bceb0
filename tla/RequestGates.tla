----------------------------- MODULE RequestGates -----------------------------
(***************************************************************************)
(* What the signing RPCs check before they sign (server/server.go,         *)
(* server/checkpoint.go, server/attestation.go, server/initial.go): the    *)
(* handlers recompute what the node claims from the structured fields it   *)
(* sends, and sign only when both agree.                                   *)
(*                                                                         *)
(* A node builds a request from its own view of the chain.  The structured *)
(* fields it sends may come from another view (a stale set, another chain, *)
(* another order) or be malformed.  Hashes are injective: Keccak(x) and    *)
(* Sha(x) are records of their preimage.                                   *)
(***************************************************************************)
EXTENDS Integers, Sequences, Functions

CONSTANTS
    Addresses,  \* 20-byte EVM addresses, as numbers in byte order
    Powers,     \* positive voting powers
    MaxSet,     \* bound on the size of a validator set
    Width,      \* bits of a uint64
    Self,       \* the signer's own address
    Chains, Mainnet,
    Timestamps,
    Bytes,      \* byte values of a query id
    WordLen,    \* length of a bytes32
    Values,     \* oracle values
    MsgTypes, AllowedMsgTypes,
    Operators,  \* operator addresses, bech32 with any prefix
    OwnOperators, \* those that encode the signer's account
    Malformed   \* bytes of another length than the field's, or not bech32

ASSUME GatesAssumption ==
    /\ Self \in Addresses /\ Addresses \subseteq Nat
    /\ Width \in Nat /\ 2^Width \in Nat \ {0} /\ Powers \subseteq 1..(2^Width - 1)
    /\ MaxSet \in Nat /\ WordLen \in Nat /\ "" \notin Chains
    /\ AllowedMsgTypes \subseteq MsgTypes
    /\ OwnOperators \subseteq Operators /\ {"", Malformed} \cap Operators = {}

VARIABLES
    req,    \* the request
    view,   \* the node's view its claims were computed from
    code,   \* the gRPC status, "pending" before the handler has run
    signed  \* digests the gates let through to the replay guard or SignRaw

vars == <<req, view, code, signed>>

Keccak(x) == [keccak |-> x]
Sha(x) == [sha256 |-> x]
Word(ascii) == [word |-> ascii]  \* ASCII text in a zero-padded bytes32

--------------------------------------------------------------------------------
(* Encoders *)

Validator == [addr : Addresses, power : Powers]
SeqsOf(S, lo, hi) == UNION {[1..n -> S] : n \in lo..hi}

\* The sequences with the values of vs in some order.
Rearranged(vs) ==
    {[i \in 1..Len(vs) |-> vs[p[i]]] : p \in Injection(1..Len(vs), 1..Len(vs))}

\* sort.SliceStable: no value is less than one before it, and of two values neither
\* of which is less than the other, the one that came first stays first.
SliceStable(vs, less) ==
    LET p == CHOOSE p \in Injection(1..Len(vs), 1..Len(vs)) :
                \A i, j \in 1..Len(vs) : i < j =>
                    /\ <<vs[p[j]], vs[p[i]]>> \notin less
                    /\ <<vs[p[i]], vs[p[j]]>> \in less \/ p[i] < p[j]
    IN [i \in 1..Len(vs) |-> vs[p[i]]]

\* The comparison of sortBridgeValidators: power descending, then address ascending.
Less == {xy \in Validator \X Validator :
            \/ xy[1].power > xy[2].power
            \/ xy[1].power = xy[2].power /\ xy[1].addr < xy[2].addr}

SortedByPower(vs) ==
    SliceStable(vs, {xy \in Validator \X Validator : xy[1].power > xy[2].power})

sortBridgeValidators(vs) == SliceStable(vs, Less)

\* Offset, length, and one (address, power) pair of words per validator.
encodeAndHashValidatorSet(vs) ==
    Keccak(<<32, Len(vs)>> \o
           [i \in 1..(2 * Len(vs)) |-> LET v == vs[(i + 1) \div 2]
                                       IN IF i % 2 = 1 THEN v.addr ELSE v.power])

computeDomainSeparator(chain) ==
    IF chain = Mainnet THEN Word("checkpoint") ELSE Keccak(<<"checkpoint", chain>>)

encodeValsetCheckpoint(domainSep, powerThreshold, validatorTimestamp, valsetHash) ==
    Keccak(<<domainSep, powerThreshold, validatorTimestamp, valsetHash>>)

Wrap(n) == n % 2^Width

TotalPower(vs) ==
    LET sum[i \in 0..Len(vs)] == IF i = 0 THEN 0 ELSE Wrap(sum[i - 1] + vs[i].power)
    IN sum[Len(vs)]

PowerThresholdDividesFirst(vs) == Wrap((TotalPower(vs) \div 3) * 2)

\* totalPower * 2 / 3 in uint64 arithmetic.
PowerThreshold(vs) == Wrap(TotalPower(vs) * 2) \div 3

\* A byte string copied into a bytes32, zero-padded on the right.
Bytes32(s) == [i \in 1..WordLen |-> IF i <= Len(s) THEN s[i] ELSE 0]

AttestationUints == {"timestamp", "aggregatePower", "previousTimestamp",
                     "nextTimestamp", "attestationTimestamp",
                     "lastConsensusTimestamp"}

EncodeAttestationForgetsNext(a) ==
    Keccak(<<Word("tellorCurrentAttestation"), Bytes32(a.queryId), a.value,
             a.uints.timestamp, a.uints.aggregatePower,
             a.uints.previousTimestamp, a.uints.previousTimestamp,
             a.valsetCheckpoint, a.uints.attestationTimestamp,
             a.uints.lastConsensusTimestamp>>)

\* The ABI encoding of a dynamic value carries its length, so that the tuple of
\* the ten arguments is determined by it.
encodeOracleAttestation(a) ==
    Keccak(<<Word("tellorCurrentAttestation"), Bytes32(a.queryId), a.value,
             a.uints.timestamp, a.uints.aggregatePower,
             a.uints.previousTimestamp, a.uints.nextTimestamp,
             a.valsetCheckpoint, a.uints.attestationTimestamp,
             a.uints.lastConsensusTimestamp>>)

initialRegistrationMessages(operator) == {<<"A", operator>>, <<"B", operator>>}
initialSigningDigest(msg) == Sha(Sha(msg))

--------------------------------------------------------------------------------
(* The node (outside this repository), as the requests show it: it claims  *)
(* the hash of its set in canonical order, the threshold of that set, the  *)
(* separator of its chain and the checkpoint over them.                    *)

IsCanonical(vs) ==
    \A i, j \in 1..Len(vs) : i < j =>
        \/ vs[i].power > vs[j].power
        \/ vs[i].power = vs[j].power /\ vs[i].addr <= vs[j].addr

SameBag(vs, ws) == ws \in Rearranged(vs)

NodeOrder(vs) ==
    CHOOSE ws \in Rearranged(vs) : IsCanonical(ws)

CheckpointView == [validators : SeqsOf(Validator, 1, MaxSet), chain : Chains,
                   ts : Timestamps]

\* A request with the structured fields of sent and the claims of w.
NodeCheckpointRequest(sent, w) ==
    LET hash == encodeAndHashValidatorSet(NodeOrder(w.validators))
        domain == computeDomainSeparator(w.chain)
        threshold == PowerThreshold(w.validators)
    IN [kind |-> "SignBridgeCheckpoint",
        validators |-> sent.validators, chain |-> sent.chain, ts |-> sent.ts,
        valsetHash |-> hash, threshold |-> threshold, domainSep |-> domain,
        expected |-> encodeValsetCheckpoint(domain, threshold, w.ts, hash)]

\* What is malformed is not a hash, nor an address.
ASSUME MalformedAssumption ==
    /\ Malformed \notin Addresses
    /\ Malformed # Keccak("c")
    /\ \A w \in CheckpointView :
          LET r == NodeCheckpointRequest(w, w)
          IN Malformed # r.valsetHash /\ Malformed # r.domainSep /\ Malformed # r.expected

Garbled(r) ==
    {[r EXCEPT !.valsetHash = Malformed], [r EXCEPT !.domainSep = Malformed],
     [r EXCEPT !.expected = Malformed], [r EXCEPT !.threshold = @ + 1],
     [r EXCEPT !.validators = <<>>], [r EXCEPT !.chain = ""],
     [r EXCEPT !.validators[1].addr = Malformed],
     [r EXCEPT !.validators[1].power = 0]}

CheckpointInit ==
    /\ view \in CheckpointView
    /\ \/ \E sent \in CheckpointView : req = NodeCheckpointRequest(sent, view)
       \/ req \in Garbled(NodeCheckpointRequest(view, view))

Attestation == [queryId : SeqsOf(Bytes, 1, WordLen), value : Values,
                uints : [AttestationUints -> Timestamps],
                valsetCheckpoint : {Keccak("c"), Keccak("d")}]

\* The node's query ids are whole words; the other fields of its view are two
\* samples in which neighbouring fields differ.
AttestationView ==
    {a \in Attestation :
        /\ Len(a.queryId) = WordLen
        /\ a.valsetCheckpoint = Keccak("c")
        /\ \E t \in Timestamps : \A f \in AttestationUints :
              a.uints[f] = (IF f \in {"timestamp", "nextTimestamp",
                                      "lastConsensusTimestamp"} THEN t ELSE 1)}

AttestationInit ==
    /\ view \in AttestationView
    /\ \E sent \in Attestation, bad \in {"none", "queryId", "checkpoint", "snapshot"} :
        req = [kind |-> "SignOracleAttestation",
               att |-> [sent EXCEPT
                   !.queryId = IF bad = "queryId" THEN @ \o Bytes32(<<>>) ELSE @,
                   !.valsetCheckpoint = IF bad = "checkpoint" THEN Malformed ELSE @],
               expected |-> IF bad = "snapshot" THEN Malformed
                            ELSE encodeOracleAttestation(view)]

\* A SignDoc is empty, undecodable, or a body with its messages' type URLs.
TxInit ==
    /\ view = {}
    /\ \E doc \in {<<"empty", <<>>>>, <<"undecodable", <<>>>>}
                  \cup {<<"body", b>> : b \in SeqsOf(MsgTypes, 0, MaxSet)} :
        req = [kind |-> "SignTx", doc |-> doc]

InitialInit ==
    /\ view = {}
    /\ \E op \in Operators \cup {"", Malformed} :
        req = [kind |-> "SignInitial", operator |-> op]

Init ==
    /\ CheckpointInit \/ AttestationInit \/ TxInit \/ InitialInit
    /\ code = "pending"
    /\ signed = {}

--------------------------------------------------------------------------------
(* The handlers up to the point where a digest goes to SignRaw, whose      *)
(* failures BridgePlane and ReplayGuard model; a checkpoint goes through   *)
(* ReplayGuard first.                                                      *)

CheckpointWellFormed(r) ==
    /\ Malformed \notin {r.domainSep, r.valsetHash, r.expected}
    /\ r.validators # <<>>
    /\ r.chain # ""
    /\ \A i \in 1..Len(r.validators) :
          r.validators[i].addr # Malformed /\ r.validators[i].power > 0

CheckpointVerdict(r) ==
    IF ~CheckpointWellFormed(r) THEN "InvalidArgument" ELSE
    LET vs == sortBridgeValidators(r.validators)
        valsetHash == encodeAndHashValidatorSet(vs)
        domainSep == computeDomainSeparator(r.chain)
    IN  IF \/ valsetHash # r.valsetHash
           \/ PowerThreshold(vs) # r.threshold
           \/ domainSep # r.domainSep
        THEN "InvalidArgument"
        ELSE IF \A i \in 1..Len(vs) : vs[i].addr # Self
        THEN "PermissionDenied"
        ELSE IF encodeValsetCheckpoint(domainSep, r.threshold, r.ts, valsetHash)
                    # r.expected
        THEN "InvalidArgument"
        ELSE "OK"

SignBridgeCheckpoint ==
    /\ req.kind = "SignBridgeCheckpoint"
    /\ code' = CheckpointVerdict(req)
    /\ signed' = IF code' = "OK" THEN {Sha(req.expected)} ELSE {}

AttestationWellFormed(a, expected) ==
    /\ Len(a.queryId) \in 1..WordLen
    /\ Malformed \notin {a.valsetCheckpoint, expected}

SignOracleAttestation ==
    /\ req.kind = "SignOracleAttestation"
    /\ code' = IF /\ AttestationWellFormed(req.att, req.expected)
                  /\ encodeOracleAttestation(req.att) = req.expected
               THEN "OK" ELSE "InvalidArgument"
    /\ signed' = IF code' = "OK" THEN {Sha(req.expected)} ELSE {}

TxVerdictWithoutCount(doc) ==
    IF doc[1] # "body" THEN "InvalidArgument"
    ELSE IF \E i \in 1..Len(doc[2]) : doc[2][i] \notin AllowedMsgTypes
    THEN "PermissionDenied"
    ELSE "OK"

TxVerdict(doc) ==
    IF doc[1] # "body" THEN "InvalidArgument"
    ELSE IF \/ doc[2] = <<>>
            \/ \E i \in 1..Len(doc[2]) : doc[2][i] \notin AllowedMsgTypes
    THEN "PermissionDenied"
    ELSE "OK"

SignTx ==
    /\ req.kind = "SignTx"
    /\ code' = TxVerdict(req.doc)
    /\ signed' = IF code' = "OK" THEN {Sha(req.doc)} ELSE {}

SignInitial ==
    /\ req.kind = "SignInitial"
    /\ code' = IF req.operator \in {"", Malformed} THEN "InvalidArgument"
               ELSE IF req.operator \notin OwnOperators THEN "PermissionDenied"
               ELSE "OK"
    /\ signed' = IF code' = "OK"
                 THEN {initialSigningDigest(m) :
                           m \in initialRegistrationMessages(req.operator)}
                 ELSE {}

Next ==
    /\ code = "pending"
    /\ SignBridgeCheckpoint \/ SignOracleAttestation \/ SignTx \/ SignInitial
    /\ UNCHANGED <<req, view>>

Spec == Init /\ [][Next]_vars

--------------------------------------------------------------------------------
(* Properties *)

Ran(kind) == code # "pending" /\ req.kind = kind

\* SignBridgeCheckpoint signs exactly when the set it is sent is the node's, in
\* whatever order, for the node's chain and timestamp, and the signer is in it:
\* recomputing, sorting and comparing hashes neither accepts a request that
\* disagrees with the node's view nor refuses one that agrees.
AgreesWithNode ==
    Ran("SignBridgeCheckpoint") =>
        (code = "OK" <=>
            /\ SameBag(req.validators, view.validators)
            /\ req.chain = view.chain
            /\ req.ts = view.ts
            /\ \E i \in 1..Len(req.validators) : req.validators[i].addr = Self
            /\ req = NodeCheckpointRequest(req, view))

IdealTotal(vs) ==
    LET sum[i \in 0..Len(vs)] == IF i = 0 THEN 0 ELSE sum[i - 1] + vs[i].power
    IN sum[Len(vs)]

\* The threshold that is signed is two thirds of the total power, rounded down,
\* for every set whose doubled total fits in a uint64; past that the 64-bit
\* product wraps, as it does in the node.
ThresholdTwoThirds ==
    Ran("SignBridgeCheckpoint") /\ code = "OK" =>
        LET total == IdealTotal(req.validators)
        IN 2 * total < 2^Width =>
              3 * req.threshold <= 2 * total /\ 2 * total < 3 * req.threshold + 3

\* SignOracleAttestation signs exactly when every field it is sent is the one in
\* the node's view, a query id shorter than a word standing for its
\* zero-padding: no field is left out of the snapshot or takes another's place.
SnapshotAgrees ==
    Ran("SignOracleAttestation") =>
        (code = "OK" <=>
            /\ Len(req.att.queryId) \in 1..WordLen
            /\ Bytes32(req.att.queryId) = view.queryId
            /\ req.att.value = view.value
            /\ req.att.uints = view.uints
            /\ req.att.valsetCheckpoint = view.valsetCheckpoint
            /\ req.expected # Malformed)

\* SignTx lets through exactly the documents that carry at least one message and
\* only allowed ones: a document with no message does not pass for want of one
\* that is not allowed.  SignInitial signs both registration messages or none,
\* and only for an address, under any bech32 prefix, of the signer's own account.
ScopedSigning ==
    /\ Ran("SignTx") =>
        (signed # {} <=> /\ req.doc[1] = "body"
                         /\ {req.doc[2][i] : i \in 1..Len(req.doc[2])}
                                \in (SUBSET AllowedMsgTypes) \ {{}})
    /\ Ran("SignInitial") =>
        IF req.operator \in OwnOperators
        THEN \E d, e \in signed : d # e /\ signed = {d, e}
        ELSE signed = {}
================================================================================
