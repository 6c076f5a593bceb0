---------------------------- MODULE SignatureFormat ----------------------------
(***************************************************************************)
(* The signing backends (signer/fortanix_dsm.go, signer/file_signer.go)    *)
(* and the conversion of a signature to Ethereum's format                  *)
(* (signer/sig_utils.go): fetching and caching the public key, low-S       *)
(* normalisation, the search for the recovery byte, and stripping it.      *)
(*                                                                         *)
(* The curve is external.  It is replaced by a group of prime order N in   *)
(* which the point k*G is the scalar k; k and -k share an x coordinate and *)
(* differ in the parity of y, as points of secp256k1 do, so that ECDSA,    *)
(* its twin signatures and key recovery are computed in full.              *)
(***************************************************************************)
EXTENDS Integers

CONSTANTS
    N,      \* the order of the group, an odd prime
    NoKey   \* no public key

VARIABLES
    backend,  \* "file" or "dsm"
    key,      \* the private key the backend signs with now
    cached,   \* compressedPubKey, cached at start-up
    out       \* the last call and what it returned

vars == <<backend, key, cached, out>>

Scalar == 1..(N - 1)
HalfN == N \div 2

--------------------------------------------------------------------------------
(* External: the group, ECDSA, SHA-256 (any fixed function)                *)

ModInverse(a) == CHOOSE b \in Scalar : (a * b) % N = 1

X(k) == IF k <= HalfN THEN k ELSE N - k
Parity(k) == IF k <= HalfN THEN 0 ELSE 1
Point(x, parity) == IF parity = 0 THEN x ELSE N - x

Sha256(m) == (m * m + 1) % N

Ecdsa(d, h, k) == [r |-> X(k), s |-> (ModInverse(k) * (h + X(k) * d)) % N]

Twin(sig) == [sig EXCEPT !.s = N - @]

\* crypto.Ecrecover: the point of the key, or an error.
Ecrecover(h, sig, v) ==
    LET q == (ModInverse(sig.r) * (sig.s * Point(sig.r, v) - h)) % N
    IN IF q = 0 THEN NoKey ELSE q

--------------------------------------------------------------------------------
(* sig_utils.go and fortanix_dsm.go *)

MarshalCompressed(q) == <<X(q), Parity(q)>>

\* The object DSM returns has to be an EC key on secp256k1 with an uncompressed
\* public point; anything else is an error at start-up.
Sobject == [type : {"EC", "RSA"}, curve : {"SecP256K1", "NistP256"},
            pub : Scalar \cup {NoKey}]

fetchDSMPublicKey(o) ==
    IF o.type = "EC" /\ o.curve = "SecP256K1" /\ o.pub # NoKey
    THEN MarshalCompressed(o.pub)
    ELSE NoKey

LowS(sig) == IF sig.s > HalfN THEN Twin(sig) ELSE sig

Recovers(h, sig, v, pub) ==
    /\ Ecrecover(h, sig, v) # NoKey
    /\ MarshalCompressed(Ecrecover(h, sig, v)) = pub

TriesOnlyZero == {0}

Tries == 0..1

\* The first v that recovers the expected key, or an error.
recoverV(h, sig, pub) ==
    LET good == {v \in Tries : Recovers(h, sig, v, pub)}
    IN IF good = {} THEN -1 ELSE CHOOSE v \in good : \A w \in good : v <= w

Error == [ok |-> FALSE]

rsToEthSig(sig, h, pub) ==
    LET low == LowS(sig)
        v == recoverV(h, low, pub)
    IN IF v = -1 THEN Error
       ELSE [ok |-> TRUE, r |-> low.r, s |-> low.s, v |-> v + 27]

--------------------------------------------------------------------------------
(* file_signer.go: crypto.Sign of go-ethereum (external) returns low S and *)
(* v as 0 or 1, which Sign moves to 27 or 28.                              *)

FileSign(h, k) ==
    LET sig == Ecdsa(key, h, k)
    IN [ok |-> TRUE, r |-> sig.r, s |-> IF sig.s > HalfN THEN N - sig.s ELSE sig.s,
        v |-> 27 + (IF sig.s > HalfN THEN 1 - Parity(k) ELSE Parity(k))]

DsmSignTrustsAnswer(h, k) ==
    {rsToEthSig(sig, h, MarshalCompressed(key)) :
         sig \in {Ecdsa(key, h, k), Twin(Ecdsa(key, h, k))}}

\* The client's answer is an error, garbled DER, or a signature, in which DSM may
\* have chosen either twin.
DsmSign(h, k) ==
    {Error} \cup {rsToEthSig(sig, h, cached) :
                      sig \in {Ecdsa(key, h, k), Twin(Ecdsa(key, h, k))}}

EthSigs(h, k) == IF backend = "file" THEN {FileSign(h, k)} ELSE DsmSign(h, k)

--------------------------------------------------------------------------------
NoCall == [op |-> "none"]

NewFileSigner ==
    /\ backend = "file"
    /\ cached = NoKey
    /\ cached' = MarshalCompressed(key)
    /\ UNCHANGED <<backend, key, out>>

\* A signer whose key cannot be used does not start: it stays without a key.
NewFortanixDSMSigner ==
    /\ backend = "dsm"
    /\ cached = NoKey
    /\ \E o \in Sobject :
          /\ o.pub \in {key, NoKey}
          /\ cached' = fetchDSMPublicKey(o)
    /\ UNCHANGED <<backend, key, out>>

\* dsm_key_name may come to name another key while the signer runs.
RotateKey ==
    /\ backend = "dsm"
    /\ key' \in Scalar \ {key}
    /\ UNCHANGED <<backend, cached, out>>

\* Sign hashes its argument; the recovery byte is kept.
Sign(m, k) ==
    /\ cached # NoKey
    /\ Ecdsa(key, Sha256(m), k).s # 0
    /\ \E sig \in EthSigs(Sha256(m), k) :
          out' = [op |-> "Sign", h |-> Sha256(m), sig |-> sig]
    /\ UNCHANGED <<backend, key, cached>>

\* SignRaw signs the digest it is given and strips the recovery byte.
SignRaw(h, k) ==
    /\ cached # NoKey
    /\ Ecdsa(key, h, k).s # 0
    /\ \E sig \in EthSigs(h, k) :
          out' = [op |-> "SignRaw", h |-> h,
                  sig |-> IF sig.ok THEN [ok |-> TRUE, r |-> sig.r, s |-> sig.s] ELSE sig]
    /\ UNCHANGED <<backend, key, cached>>

Init ==
    /\ backend \in {"file", "dsm"}
    /\ key \in Scalar
    /\ cached = NoKey
    /\ out = NoCall

Next ==
    \/ NewFileSigner \/ NewFortanixDSMSigner \/ RotateKey
    \/ \E m \in 0..(N - 1), k \in Scalar : Sign(m, k) \/ SignRaw(m, k)

Spec == Init /\ [][Next]_vars

--------------------------------------------------------------------------------
(* Properties *)

Signed == out # NoCall /\ out.sig.ok

\* The consumer of a 64-byte signature tries both recovery ids
\* (TryRecoverAddressWithBothIDs) and one of them gives the key the signer
\* announced at start-up; a 65-byte signature names the one that does.  A key
\* that was replaced behind the signer's back never signs under the old name.
\* Whichever twin the backend chose, the lower one leaves (EIP-2).
RecoversAnnouncedKey ==
    Signed =>
        \E v \in 0..1 :
            /\ Ecrecover(out.h, out.sig, v) # NoKey
            /\ MarshalCompressed(Ecrecover(out.h, out.sig, v)) = cached
            /\ out.op = "Sign" => out.sig.v = v + 27
            /\ 2 * out.sig.s < N

\* The conversion refuses nothing it should pass: when DSM signs with the key that
\* was announced, either twin of its signature is converted, and to the same
\* bytes.
ConversionIsTotal ==
    cached # NoKey /\ cached = MarshalCompressed(key) =>
        \A h \in 0..(N - 1), k \in Scalar :
            LET sig == Ecdsa(key, h, k)
            IN sig.s # 0 => /\ rsToEthSig(sig, h, cached).ok
                            /\ rsToEthSig(sig, h, cached) = rsToEthSig(Twin(sig), h, cached)
                            /\ backend = "file" =>
                                  FileSign(h, k) = rsToEthSig(sig, h, cached)
================================================================================
