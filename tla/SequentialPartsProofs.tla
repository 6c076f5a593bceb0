------------------------- MODULE SequentialPartsProofs -------------------------
(***************************************************************************)
(* Proofs about PrivvalRequest, Configuration and SignatureFormat, as the  *)
(* parts of MCSequentialParts they are.                                    *)
(***************************************************************************)
EXTENDS MCSequentialParts, Sequences, FiniteSets, TLAPS

--------------------------------------------------------------------------------
(* A privval request *)

\* The inductive invariant of PrivvalRequest: nothing is signed before the request
\* is admitted, an answer is of its request's kind and has a signature or an error,
\* and what is signed passed the handler's checks and names the own chain.
PrivvalInv ==
    part = "privval" =>
        /\ req \in Privval!Request
        /\ pc \in {"received", "admitted", "answered", "crashed"}
        /\ signed \in BOOLEAN
        /\ pc \in {"received", "admitted"} => ~signed
        /\ pc = "answered" => /\ reply = Privval!ResponseTo(req.kind)
                              /\ Privval!IsSign => (signed <=> ~failed)
        /\ signed => Privval!IsSign /\ ~Privval!Refused /\ req.chain = "own"
        /\ role = "off" => pc # "crashed"

\* A request that has just been received satisfies the invariant.
LEMMA PrivvalInit == PartsInit => PrivvalInv
BY Zenon DEF PartsInit, PrivvalInv, Privval!Init

\* The gate, the validation and DefaultValidationRequestHandler keep it.
LEMMA PrivvalStep ==
    ASSUME PrivvalInv, [PartsNext]_partsVars
    PROVE  PrivvalInv'
<1> SUFFICES ASSUME part' = "privval" PROVE PrivvalInv'
  BY DEF PrivvalInv
<1>1. CASE UNCHANGED partsVars
  BY <1>1 DEF PrivvalInv, partsVars, requestVars, privvalVars, Privval!IsSign,
     Privval!Refused
<1>2. CASE PartsNext
  <2>1. part = "privval" /\ part' = part /\ Privval!Next
    BY <1>2 DEF PartsNext
  <2> USE <2>1 DEF PrivvalInv
  <2>2. CASE Privval!gatedHandler
    BY <2>2 DEF Privval!gatedHandler, Privval!Crash, Privval!notPrimaryResponse,
                Privval!Answer, Privval!IsSign
  <2>3. CASE Privval!ungatedHandler
    BY <2>3 DEF Privval!ungatedHandler
  <2>4. CASE Privval!Refuse
    BY <2>4 DEF Privval!Refuse, Privval!Answer, Privval!IsSign
  <2>5. CASE Privval!DefaultValidationRequestHandler
    <3>1. ~Privval!Refused /\ pc = "admitted" /\ UNCHANGED <<req, role>>
      BY <2>5 DEF Privval!DefaultValidationRequestHandler
    <3>2. ~(req.kind = "vote" /\ req.body.type = "unknown")
      BY <3>1 DEF Privval!Refused, Privval!ValidateSignVoteRequest
    <3>3. CASE req.kind = "unset" \/ (req.kind # "ping" /\ req.chain # "own")
      BY <2>5, <3>1, <3>3 DEF Privval!DefaultValidationRequestHandler, Privval!Answer,
                              Privval!IsSign
    <3>4. CASE ~(req.kind = "unset" \/ (req.kind # "ping" /\ req.chain # "own"))
      <4>1. (Privval!IsSign)' = Privval!IsSign /\ (Privval!Refused)' = Privval!Refused
        BY <3>1 DEF Privval!IsSign, Privval!Refused
      <4>2. Privval!IsSign => req.chain = "own"
        BY <3>4 DEF Privval!IsSign
      <4> QED
        BY <2>5, <3>1, <3>2, <3>4, <4>1, <4>2, Zenon
           DEF Privval!DefaultValidationRequestHandler, Privval!Answer
    <3> QED
      BY <3>3, <3>4
  <2> QED
    BY <2>2, <2>3, <2>4, <2>5 DEF Privval!Next
<1> QED
  BY <1>1, <1>2

\* For any set of roles and any bound on a vote's extension: whatever the gate and
\* the handler decide, a reply is of the kind of its request and carries a
\* signature exactly when it carries no error.
THEOREM PrivvalRepliesMatch == PartsSpec => []RepliesMatchRequests
<1>1. PrivvalInv => RepliesMatchRequests
  BY DEF PrivvalInv, RepliesMatchRequests, Privval!RepliesMatchRequests
<1> QED
  BY <1>1, PrivvalInit, PrivvalStep, PTL DEF PartsSpec

\* For any bound on a vote's extension: without an arbiter no request makes the
\* handler panic, whatever its fields hold.
THEOREM PrivvalAnswers == PartsSpec => []UngatedAlwaysAnswers
<1>1. PrivvalInv => UngatedAlwaysAnswers
  BY DEF PrivvalInv, UngatedAlwaysAnswers, Privval!UngatedAlwaysAnswers
<1> QED
  BY <1>1, PrivvalInit, PrivvalStep, PTL DEF PartsSpec

\* For any set of roles and any bound on a vote's extension: FilePV signs only what
\* the validation of SignVoteRequest and SignProposalRequest lets through.
THEOREM PrivvalSignsUsable == PartsSpec => []SignedIsUsable
<1>1. PrivvalInv => SignedIsUsable
  <2> SUFFICES ASSUME PrivvalInv, part = "privval", signed
               PROVE  Privval!SignedIsUsable
    BY DEF SignedIsUsable, Privval!SignedIsUsable
  <2>1. /\ req \in Privval!Request
        /\ Privval!IsSign /\ ~Privval!Refused /\ req.chain = "own"
    BY DEF PrivvalInv
  <2>2. ASSUME req.kind = "vote"
        PROVE  /\ req.body \in [type : {"prevote", "precommit"}, height : {1}, round : {0},
                                index : {0}, address : {"own"}, block : {"zero", "complete"},
                                extension : 0..MaxExtensionSize, extensionSignature : 0..1]
               /\ req.body.extension + req.body.extensionSignature > 0 =>
                     req.body.type = "precommit" /\ req.body.block = "complete"
    <3>1. req.body \in Privval!Vote /\ Privval!ValidateSignVoteRequest(req.body)
      BY <2>1, <2>2 DEF Privval!Request, Privval!Refused,
         Privval!ValidateSignVoteRequest
    <3> QED
      BY <3>1, RolesAssumption DEF Privval!Vote, Privval!ValidateSignVoteRequest
  <2>3. ASSUME req.kind = "proposal"
        PROVE  req.body.block = "complete" /\ req.body.round = 0
    <3>1. req.body \in Privval!Proposal /\ Privval!ValidateSignProposalRequest(req.body)
      BY <2>1, <2>3 DEF Privval!Request, Privval!Refused,
         Privval!ValidateSignProposalRequest
    <3> QED
      BY <3>1 DEF Privval!Proposal, Privval!ValidateSignProposalRequest
  <2> QED
    BY <2>1, <2>2, <2>3 DEF Privval!SignedIsUsable
<1> QED
  BY <1>1, PrivvalInit, PrivvalStep, PTL DEF PartsSpec

--------------------------------------------------------------------------------
(* The start-up *)

\* The stages of the start-up after Load.
Validated == {"logger", "backend", "consensus", "credentials", "server", "listen", "running"}

\* The inductive invariant of Configuration: after Load the configuration in use is
\* one that validate accepts, no dial client runs before the consensus stage is
\* over, a start-up fails only over the environment, over what Load does not look at,
\* or over an address, and a daemon that listens has its gate and its guard file from
\* its configuration.
ConfigInv ==
    part = "config" =>
        /\ stage \in {"load", "refused", "failed"} \cup Validated
        /\ DOMAIN cfg.tls.files = {"ca", "cert", "key"}
        /\ stage = "load" => "tls" \in DOMAIN cfg
        /\ stage \in Validated => Config!validate(cfg)
        /\ stage \in {"load", "logger", "backend", "consensus"} => targets = <<>>
        /\ Config!StopsBeforeDialing
        /\ stage \in {"listen", "running"} =>
              /\ enabled = Config!EnabledRPCsFromConfig(cfg.server.enabledRPCs)
              /\ guard = Config!CheckpointGuardStatePath(cfg)

\* Every file that is loaded satisfies the invariant.
LEMMA ConfigInit == PartsInit => ConfigInv
<1> SUFFICES ASSUME part = "config", Config!Init PROVE ConfigInv
  BY Zenon DEF PartsInit, ConfigInv
<1> DEFINE HasFiles(c) == DOMAIN c.tls.files = {"ca", "cert", "key"} /\ "tls" \in DOMAIN c
<1>1. \A s : HasFiles(Config!WithSigner(s))
  BY DEF Config!WithSigner, Config!Working
<1>2. \A t \in [insecure : BOOLEAN, files : [{"ca", "cert", "key"} -> Config!Path]] :
          HasFiles(Config!WithTLS(t))
  BY DEF Config!WithTLS, Config!Working
<1>3. \A l : HasFiles(Config!WithLog(l))
  BY DEF Config!WithLog, Config!Working
<1>4. \A x : HasFiles(Config!WithServer(x))
  BY DEF Config!WithServer, Config!Working
<1>4a. \A a : HasFiles(Config!WithAddresses(a))
  BY DEF Config!WithAddresses, Config!Working
<1>5. \A x : HasFiles(Config!WithConsensus(x))
  BY DEF Config!WithConsensus, Config!Working
<1> HIDE DEF HasFiles
<1>6. \A c \in Config!File : HasFiles(c)
  BY <1>1, <1>2, <1>3, <1>4, <1>4a, <1>5, Zenon DEF Config!File
<1> QED
  BY <1>6 DEF ConfigInv, Config!Init, Validated, HasFiles, Config!StopsBeforeDialing

\* Load and each stage of the start-up keep it.
LEMMA ConfigStep ==
    ASSUME ConfigInv, [PartsNext]_partsVars
    PROVE  ConfigInv'
<1> SUFFICES ASSUME part' = "config" PROVE ConfigInv'
  BY Zenon DEF ConfigInv
<1>1. CASE UNCHANGED partsVars
  BY <1>1 DEF ConfigInv, partsVars, configVars, Config!StopsBeforeDialing
<1>2. CASE PartsNext
  <2>1. part = "config" /\ part' = part /\ Config!Next
    BY <1>2 DEF PartsNext
  <2> USE <2>1 DEF ConfigInv, Validated, Config!StopsBeforeDialing
  <2>2. CASE Config!EnvironmentFails
    BY <2>2 DEF Config!EnvironmentFails, Config!Goto
  <2>3. CASE Config!Load
    <3>1. DOMAIN cfg'.tls.files = {"ca", "cert", "key"}
      BY <2>3 DEF Config!Load, Config!applyDefaults
    <3> QED
      BY <2>3, <3>1 DEF Config!Load, Config!Goto
  <2>4. CASE Config!NewLogger
    BY <2>4 DEF Config!NewLogger, Config!Goto, Config!validate, Config!validateLog,
                Config!parseLevel
  <2>5. CASE Config!NewSigner
    <3>1. Config!validateSigner(cfg.signer)
      BY <2>5 DEF Config!NewSigner, Config!validate
    <3>2. CASE cfg.signer.backend = "file"
      <4>1. \/ Config!newFileSignerFromConfig(cfg.signer)
            \/ Config!NamesUnusableFile(cfg)
        BY <3>1, <3>2 DEF Config!validateSigner, Config!NamesUnusableFile,
           Config!newFileSignerFromConfig, Config!BuildPasswordReader
      <4>2. stage' = "consensus" \/ (stage' = "failed" /\ Config!NamesUnusableFile(cfg))
        BY <2>5, <3>2, <4>1 DEF Config!NewSigner, Config!Goto, Config!registry
      <4> QED
        BY <2>5, <4>2 DEF Config!NewSigner
    <3>3. CASE cfg.signer.backend = "fortanixdsm"
      <4>1. \/ Config!newFortanixDSMSignerFromConfig(cfg.signer)
            \/ Config!NamesUnusableFile(cfg)
        BY <3>1, <3>3 DEF Config!validateSigner, Config!newFortanixDSMSignerFromConfig,
           Config!NamesUnusableFile
      <4>2. stage' = "consensus" \/ (stage' = "failed" /\ Config!NamesUnusableFile(cfg))
        BY <2>5, <3>3, <4>1 DEF Config!NewSigner, Config!Goto, Config!registry
      <4> QED
        BY <2>5, <4>2 DEF Config!NewSigner
    <3> QED
      BY <3>1, <3>2, <3>3 DEF Config!validateSigner
  <2>6. CASE Config!StartConsensus
    <3>1. ~(Config!Enabled(cfg) /\ Config!FailoverTimeout(cfg) = -1)
      BY <2>6 DEF Config!StartConsensus, Config!validate
    <3>2. CASE Config!Enabled(cfg) /\ ~Config!consensusFilesThere(cfg.consensus)
      <4>1. Config!NamesUnusableFile(cfg)
        BY <3>2 DEF Config!NamesUnusableFile, Config!consensusFilesThere
      <4> QED
        BY <2>6, <3>2, <4>1 DEF Config!StartConsensus, Config!Goto
    <3>3. CASE ~(Config!Enabled(cfg) /\ ~Config!consensusFilesThere(cfg.consensus))
      BY <2>6, <3>1, <3>3 DEF Config!StartConsensus, Config!Goto
    <3> QED
      BY <3>2, <3>3
  <2>7. CASE Config!NewServerCredentials
    <3>1. cfg.tls.insecure \/ \A f \in {"ca", "cert", "key"} : cfg.tls.files[f] = "there"
      BY <2>7 DEF Config!NewServerCredentials, Config!validate
    <3>2. stage' = "server"
      BY <2>7, <3>1 DEF Config!NewServerCredentials, Config!Goto, Config!loadCACert
    <3> QED
      BY <2>7, <3>2 DEF Config!NewServerCredentials
  <2>8. CASE Config!NewServer
    BY <2>8 DEF Config!NewServer, Config!Goto
  <2>9. CASE Config!Listen
    BY <2>9 DEF Config!Listen, Config!Goto
  <2> QED
    BY <2>2, <2>3, <2>4, <2>5, <2>6, <2>7, <2>8, <2>9, Zenon DEF Config!Next
<1> QED
  BY <1>1, <1>2

\* For any targets and any bounds: past Load, the settings stop a start-up only over
\* a password file, an endpoint or a consensus file, before any dial client is
\* started, or over an address that cannot be listened on.
THEOREM SettingsStopEarly == PartsSpec => []StopsBeforeDialing
<1>1. ConfigInv => StopsBeforeDialing
  BY DEF ConfigInv, StopsBeforeDialing
<1> QED
  BY <1>1, ConfigInit, ConfigStep, PTL DEF PartsSpec

\* EnabledRPCsFromConfig gives the full method of every configured short name the
\* setting of that name.
LEMMA GateFollowsConfig ==
    ASSUME NEW rpcs, DOMAIN rpcs \subseteq Config!knownRPCShortNames,
           NEW n \in DOMAIN rpcs
    PROVE  LET map == Config!EnabledRPCsFromConfig(rpcs)
               m == Config!shortRPCNameToFullMethod[n]
           IN m \in DOMAIN map /\ map[m] = rpcs[n]
<1> DEFINE names == DOMAIN rpcs \cap DOMAIN Config!shortRPCNameToFullMethod
           m == Config!shortRPCNameToFullMethod[n]
<1>1. Config!knownRPCShortNames = DOMAIN Config!shortRPCNameToFullMethod
  BY DEF Config!knownRPCShortNames, Config!shortRPCNameToFullMethod
<1>2. n \in names
  BY <1>1
<1>3. \A a, b \in names :
         Config!shortRPCNameToFullMethod[a] = Config!shortRPCNameToFullMethod[b] => a = b
  BY DEF Config!shortRPCNameToFullMethod
<1>4. (CHOOSE a \in names : Config!shortRPCNameToFullMethod[a] = m) = n
  BY <1>2, <1>3
<1> QED
  BY <1>2, <1>4, Zenon DEF Config!EnabledRPCsFromConfig

\* For any targets and any set of RPC settings: a daemon that runs serves the RPCs as
\* its configuration says, and SignBridgeCheckpoint only with a guard file.
THEOREM DaemonServesAsConfigured == PartsSpec => []ServesAsConfigured
<1>1. ConfigInv => ServesAsConfigured
  <2> SUFFICES ASSUME ConfigInv, part = "config", stage \in {"listen", "running"}
               PROVE  Config!ServesAsConfigured
    BY DEF ServesAsConfigured, Config!ServesAsConfigured
  <2> DEFINE rpcs == cfg.server.enabledRPCs
  <2>1. /\ Config!validate(cfg)
        /\ enabled = Config!EnabledRPCsFromConfig(rpcs)
        /\ guard = Config!CheckpointGuardStatePath(cfg)
    BY DEF ConfigInv, Validated
  <2>2. DOMAIN rpcs \subseteq Config!knownRPCShortNames /\ Config!validateGuard(cfg)
    BY <2>1 DEF Config!validate
  <2>3. \A n \in DOMAIN rpcs :
            /\ Config!shortRPCNameToFullMethod[n] \in DOMAIN enabled
            /\ enabled[Config!shortRPCNameToFullMethod[n]] = rpcs[n]
    BY <2>1, <2>2, GateFollowsConfig, Zenon
  <2>4. DOMAIN rpcs \subseteq DOMAIN Config!shortRPCNameToFullMethod
    BY <2>2 DEF Config!knownRPCShortNames, Config!shortRPCNameToFullMethod
  <2>5. Config!IsServed(enabled, "SignBridgeCheckpoint") => guard # ""
    <3>1. Config!shortRPCNameToFullMethod["sign_bridge_checkpoint"] = "SignBridgeCheckpoint"
      BY DEF Config!shortRPCNameToFullMethod
    <3> QED
      BY <2>1, <2>2, <2>3, <3>1 DEF Config!IsServed, Config!validateGuard
  <2> QED
    BY <2>3, <2>4, <2>5, Zenon DEF Config!ServesAsConfigured, Config!IsServed
<1> QED
  BY <1>1, ConfigInit, ConfigStep, PTL DEF PartsSpec

--------------------------------------------------------------------------------
(* Integers modulo the order of the group *)

\* a and b are the same integer modulo N.
Cong(a, b) == \E q \in Int : a - b = q * N

\* Equality modulo N is an equivalence.
LEMMA CongEquivalence ==
    /\ \A a \in Int : Cong(a, a)
    /\ \A a, b \in Int : Cong(a, b) => Cong(b, a)
    /\ \A a, b, c \in Int : Cong(a, b) /\ Cong(b, c) => Cong(a, c)
<1>0. N \in Int
  BY PrimeAssumption
<1>1. \A a \in Int : Cong(a, a)
  <2> SUFFICES ASSUME NEW a \in Int PROVE a - a = 0 * N
    BY DEF Cong
  <2> QED BY <1>0
<1>2. ASSUME NEW a \in Int, NEW b \in Int, Cong(a, b) PROVE Cong(b, a)
  <2>1. PICK q \in Int : a - b = q * N
    BY <1>2 DEF Cong
  <2>2. b - a = (-q) * N /\ -q \in Int
    BY <2>1, <1>0
  <2> QED BY <2>2 DEF Cong
<1>3. ASSUME NEW a \in Int, NEW b \in Int, NEW c \in Int, Cong(a, b), Cong(b, c)
      PROVE  Cong(a, c)
  <2>1. PICK q \in Int : a - b = q * N
    BY <1>3 DEF Cong
  <2>2. PICK p \in Int : b - c = p * N
    BY <1>3 DEF Cong
  <2>3. a - c = (q + p) * N /\ q + p \in Int
    BY <2>1, <2>2, <1>0
  <2> QED BY <2>3 DEF Cong
<1> QED BY <1>1, <1>2, <1>3

\* It is kept by sums, differences and multiples.
LEMMA CongArithmetic ==
    /\ \A a, b, c, d \in Int : Cong(a, b) /\ Cong(c, d) => Cong(a + c, b + d)
    /\ \A a, b, c, d \in Int : Cong(a, b) /\ Cong(c, d) => Cong(a - c, b - d)
    /\ \A a, b, c \in Int : Cong(a, b) => Cong(c * a, c * b)
<1>0. N \in Int
  BY PrimeAssumption
<1>1. ASSUME NEW a \in Int, NEW b \in Int, NEW c \in Int, NEW d \in Int,
             Cong(a, b), Cong(c, d)
      PROVE  Cong(a + c, b + d) /\ Cong(a - c, b - d)
  <2>1. PICK q \in Int : a - b = q * N
    BY <1>1 DEF Cong
  <2>2. PICK p \in Int : c - d = p * N
    BY <1>1 DEF Cong
  <2>3. (a + c) - (b + d) = (q + p) * N /\ q + p \in Int
    BY <2>1, <2>2, <1>0
  <2>4. (a - c) - (b - d) = (q - p) * N /\ q - p \in Int
    BY <2>1, <2>2, <1>0
  <2> QED BY <2>3, <2>4 DEF Cong
<1>2. ASSUME NEW a \in Int, NEW b \in Int, NEW c \in Int, Cong(a, b)
      PROVE  Cong(c * a, c * b)
  <2>1. PICK q \in Int : a - b = q * N
    BY <1>2 DEF Cong
  <2>2. c * a - c * b = c * (a - b)
    OBVIOUS
  <2>3. c * (q * N) = (c * q) * N /\ c * q \in Int
    BY <1>0
  <2>4. c * a - c * b = (c * q) * N
    BY <2>1, <2>2, <2>3
  <2> QED BY <2>3, <2>4 DEF Cong
<1> QED BY <1>1, <1>2, Zenon

\* Quotient and remainder.
LEMMA Quotient ==
    ASSUME NEW a \in Int, NEW n \in Nat \ {0}
    PROVE  a \div n \in Int /\ a = n * (a \div n) + (a % n)
OBVIOUS

\* The remainder is the one number below N that equals a modulo N.
LEMMA CongRemainder ==
    /\ \A a \in Int : a % N \in 0..(N - 1) /\ Cong(a % N, a)
    /\ \A a, b \in 0..(N - 1) : Cong(a, b) => a = b
<1>0. N \in Int /\ N > 0
  BY PrimeAssumption
<1>1. ASSUME NEW a \in Int PROVE a % N \in 0..(N - 1) /\ Cong(a % N, a)
  <2>1. a % N \in 0..(N - 1)
    BY <1>0
  <2>2. a \div N \in Int /\ a = N * (a \div N) + (a % N)
    <3>1. N \in Nat \ {0}
      BY PrimeAssumption
    <3> QED BY <3>1, Quotient, Zenon
  <2>3. (a % N) - a = (-(a \div N)) * N /\ -(a \div N) \in Int
    BY <2>2, <2>1, <1>0
  <2> QED BY <2>1, <2>3 DEF Cong
<1>2. ASSUME NEW a \in 0..(N - 1), NEW b \in 0..(N - 1), Cong(a, b) PROVE a = b
  <2>1. PICK q \in Int : a - b = q * N
    BY <1>2 DEF Cong
  <2>2. ~(q >= 1)
    <3> SUFFICES ASSUME q >= 1 PROVE FALSE
      OBVIOUS
    <3>1. q * N >= N
      BY <1>0
    <3> QED BY <3>1, <2>1, <1>0
  <2>3. ~(q <= -1)
    <3> SUFFICES ASSUME q <= -1 PROVE FALSE
      OBVIOUS
    <3>1. q * N <= -N
      BY <1>0
    <3> QED BY <3>1, <2>1, <1>0
  <2>4. q = 0
    BY <2>2, <2>3
  <2> QED BY <2>4, <2>1, <1>0
<1> QED BY <1>1, <1>2

\* ModInverse(a) cancels the factor a: N is prime.
LEMMA InverseCancels ==
    ASSUME NEW a \in 1..(N - 1)
    PROVE  /\ Format!ModInverse(a) \in Int
           /\ \A x \in Int : Cong(Format!ModInverse(a) * (a * x), x)
<1> DEFINE b == Format!ModInverse(a)
<1>0. N \in Int /\ N > 2
  BY PrimeAssumption
<1>1. b \in 1..(N - 1) /\ (a * b) % N = 1
  BY PrimeAssumption, Zenon DEF Format!ModInverse, Format!Scalar
<1> HIDE DEF b
<1>2. b \in Int /\ a \in Int /\ a * b \in Int
  BY <1>1, <1>0
<1>3. Cong(a * b, 1)
  BY <1>1, <1>2, CongRemainder, CongEquivalence
<1>4. ASSUME NEW x \in Int PROVE Cong(b * (a * x), x)
  <2>1. Cong(x * (a * b), x * 1)
    <3>1. 1 \in Int
      OBVIOUS
    <3> QED BY <3>1, <1>2, <1>3, CongArithmetic, Zenon
  <2>2. x * (a * b) = b * (a * x) /\ x * 1 = x
    BY <1>2
  <2> QED BY <2>1, <2>2
<1> QED BY <1>2, <1>4 DEF b

--------------------------------------------------------------------------------
(* Signatures *)

\* The group's order is odd, and HalfN is its half rounded down.
LEMMA HalfOrder ==
    /\ Format!HalfN \in Nat /\ Format!HalfN >= 1 /\ N = 2 * Format!HalfN + 1
<1>1. PICK h \in 1..N : N = 2 * h + 1
  BY PrimeAssumption
<1>2. (2 * h + 1) \div 2 = h /\ h \in Nat /\ h >= 1
  BY <1>1, PrimeAssumption
<1> QED BY <1>1, <1>2 DEF Format!HalfN

\* An x coordinate and a parity are those of one point, and the other parity gives
\* its negative.
LEMMA Points ==
    ASSUME NEW k \in 1..(N - 1)
    PROVE  /\ Format!X(k) \in 1..(N - 1) /\ Format!Parity(k) \in 0..1
           /\ Format!Point(Format!X(k), Format!Parity(k)) = k
           /\ Format!Point(Format!X(k), 1 - Format!Parity(k)) = N - k
BY HalfOrder DEF Format!X, Format!Parity, Format!Point

\* A compressed public key names one point.
LEMMA CompressedIsInjective ==
    ASSUME NEW p \in 1..(N - 1), NEW q \in 1..(N - 1)
    PROVE  /\ Format!MarshalCompressed(p) = Format!MarshalCompressed(q) <=> p = q
           /\ Format!MarshalCompressed(p) # NoKey
<1>1. Format!MarshalCompressed(p) \in Nat \X Nat
  BY Points, PrimeAssumption DEF Format!MarshalCompressed
<1>2. Format!MarshalCompressed(p) = Format!MarshalCompressed(q) =>
          Format!X(p) = Format!X(q) /\ Format!Parity(p) = Format!Parity(q)
  BY DEF Format!MarshalCompressed
<1>3. Format!X(p) = Format!X(q) /\ Format!Parity(p) = Format!Parity(q) => p = q
  BY Points
<1> QED BY <1>1, <1>2, <1>3, NoKeyAssumption

\* What ECDSA's s satisfies for the nonce k: s * k = h + r * d modulo N.
LEMMA SignEquation ==
    ASSUME NEW d \in 1..(N - 1), NEW h \in 0..(N - 1), NEW k \in 1..(N - 1)
    PROVE  LET sig == Format!Ecdsa(d, h, k)
           IN /\ sig = [r |-> Format!X(k), s |-> sig.s]
              /\ sig.s \in 0..(N - 1)
              /\ Cong(sig.s * k, h + Format!X(k) * d)
<1> DEFINE r == Format!X(k)
           i == Format!ModInverse(k)
           s == (i * (h + r * d)) % N
           t == h + r * d
<1>0. N \in Int /\ N > 2 /\ k \in Int /\ r \in 1..(N - 1) /\ i \in Int
  BY PrimeAssumption, Points, InverseCancels
<1>1. Format!Ecdsa(d, h, k) = [r |-> r, s |-> s]
  BY DEF Format!Ecdsa
<1> HIDE DEF r, i
<1>2. t \in Int /\ i * t \in Int
  BY <1>0
<1>3. s \in 0..(N - 1) /\ Cong(s, i * t)
  BY <1>2, CongRemainder
<1> HIDE DEF s, t
<1>4. s \in Int /\ s * k \in Int /\ k * t \in Int /\ i * (k * t) \in Int
  BY <1>0, <1>2, <1>3
<1>5. Cong(k * s, k * (i * t))
  BY <1>0, <1>2, <1>3, <1>4, CongArithmetic, Zenon
<1>6. k * s = s * k /\ k * (i * t) = i * (k * t)
  BY <1>0, <1>2, <1>4
<1>7. Cong(i * (k * t), t)
  BY <1>2, InverseCancels DEF i
<1>8. Cong(s * k, t)
  BY <1>2, <1>4, <1>5, <1>6, <1>7, CongEquivalence
<1> QED BY <1>1, <1>3, <1>8 DEF t, r

\* crypto.Ecrecover gives the key d exactly when the point it is given satisfies
\* the signature's equation in place of k.
LEMMA RecoverEquation ==
    ASSUME NEW d \in 1..(N - 1), NEW h \in 0..(N - 1), NEW r \in 1..(N - 1),
           NEW s \in Int, NEW v, Format!Point(r, v) \in Int
    PROVE  LET sig == [r |-> r, s |-> s]
           IN /\ Format!Ecrecover(h, sig, v) \in 1..(N - 1) \cup {NoKey}
              /\ Format!Ecrecover(h, sig, v) = d <=>
                     Cong(s * Format!Point(r, v), h + r * d)
<1> DEFINE P == Format!Point(r, v)
           i == Format!ModInverse(r)
           u == s * P - h
           q == (i * u) % N
<1>0. N \in Int /\ N > 2 /\ r \in Int /\ h \in Int /\ d \in Int /\ P \in Int /\ i \in Int
  BY PrimeAssumption, InverseCancels
<1>1. Format!Ecrecover(h, [r |-> r, s |-> s], v) = IF q = 0 THEN NoKey ELSE q
  BY DEF Format!Ecrecover
<1> HIDE DEF P, i
<1>2. s * P \in Int /\ u \in Int /\ i * u \in Int /\ r * d \in Int /\ h + r * d \in Int
  BY <1>0
<1>u. u = s * P - h
  OBVIOUS
<1> HIDE DEF u
<1>3. q \in 0..(N - 1) /\ Cong(q, i * u)
  BY <1>2, CongRemainder
<1>q. q = (i * u) % N
  OBVIOUS
<1> HIDE DEF q
<1>4. Cong(u, r * d) <=> Cong(s * P, h + r * d)
  <2>1. h - h = 0 /\ u + h = s * P /\ r * d + h = h + r * d
        /\ (h + r * d) - h = r * d
    BY <1>0, <1>2, <1>u
  <2>2. Cong(h, h)
    BY <1>0, CongEquivalence
  <2>3. Cong(u, r * d) => Cong(u + h, r * d + h)
    BY <2>2, <1>0, <1>2, CongArithmetic, Zenon
  <2>4. Cong(s * P, h + r * d) => Cong(s * P - h, (h + r * d) - h)
    BY <2>2, <1>0, <1>2, CongArithmetic, Zenon
  <2> QED BY <2>1, <2>3, <2>4, <1>u
<1>5. Cong(u, r * d) => q = d
  <2> SUFFICES ASSUME Cong(u, r * d) PROVE q = d
    OBVIOUS
  <2>1. Cong(i * u, i * (r * d))
    BY <1>0, <1>2, CongArithmetic, Zenon
  <2>2. Cong(i * (r * d), d)
    BY <1>0, InverseCancels DEF i
  <2>3. Cong(q, d)
    <3>1. i * (r * d) \in Int /\ q \in Int
      BY <1>0, <1>2, <1>3
    <3> QED BY <3>1, <2>1, <2>2, <1>3, <1>0, <1>2, CongEquivalence, Zenon
  <2> QED BY <2>3, <1>3, <1>0, CongRemainder
<1>6. q = d => Cong(u, r * d)
  <2> SUFFICES ASSUME q = d PROVE Cong(u, r * d)
    OBVIOUS
  <2>1. Cong(r * d, r * (i * u))
    BY <1>0, <1>2, <1>3, CongArithmetic, Zenon
  <2>2. r * (i * u) = i * (r * u) /\ r * (i * u) \in Int
    BY <1>0, <1>2
  <2>3. Cong(i * (r * u), u)
    BY <1>2, InverseCancels DEF i
  <2>4. Cong(r * d, u)
    BY <2>1, <2>2, <2>3, <1>2, CongEquivalence
  <2> QED BY <2>4, <1>2, CongEquivalence, Zenon
<1>7. NoKey # d /\ d # 0
  BY NoKeyAssumption, <1>0
<1>8. (IF q = 0 THEN NoKey ELSE q) \in 1..(N - 1) \cup {NoKey}
  BY <1>3, <1>0
<1>9. (IF q = 0 THEN NoKey ELSE q) = d <=> q = d
  BY <1>7
<1> QED BY <1>1, <1>4, <1>5, <1>6, <1>8, <1>9 DEF P

\* Exactly one of the two recovery ids gives the key: the parity of the nonce's
\* point for the signature, the other for its twin.
LEMMA RecoveryIds ==
    ASSUME NEW d \in 1..(N - 1), NEW h \in 0..(N - 1), NEW k \in 1..(N - 1),
           Format!Ecdsa(d, h, k).s # 0, NEW v \in 0..1
    PROVE  LET sig == Format!Ecdsa(d, h, k)
           IN /\ Format!Ecrecover(h, sig, v) = d <=> v = Format!Parity(k)
              /\ Format!Ecrecover(h, Format!Twin(sig), v) = d <=> v = 1 - Format!Parity(k)
<1> DEFINE sig == Format!Ecdsa(d, h, k)
           r == Format!X(k)
           s == sig.s
           t == h + r * d
           P == Format!Point(r, v)
<1>0. /\ N \in Int /\ N > 2 /\ k \in Int /\ r \in 1..(N - 1) /\ h \in Int /\ d \in Int
      /\ Format!Parity(k) \in 0..1
  BY PrimeAssumption, Points
<1>1. /\ sig = [r |-> r, s |-> s] /\ s \in 1..(N - 1) /\ Cong(s * k, t)
      /\ Format!Twin(sig) = [r |-> r, s |-> N - s]
  <2>1. /\ sig = [r |-> r, s |-> s] /\ s \in 0..(N - 1) /\ Cong(s * k, t)
    BY SignEquation, Zenon
  <2>2. Format!Twin(sig) = [r |-> r, s |-> N - s]
    BY <2>1 DEF Format!Twin
  <2> QED BY <2>1, <2>2
<1>2. \/ v = Format!Parity(k) /\ P = k
      \/ v = 1 - Format!Parity(k) /\ v # Format!Parity(k) /\ P = N - k
  <2>1. v = Format!Parity(k) \/ v = 1 - Format!Parity(k)
    BY <1>0
  <2>2. 1 - Format!Parity(k) # Format!Parity(k)
    BY <1>0
  <2> QED BY <2>1, <2>2, Points
<1>p. Format!Parity(k) # 1 - Format!Parity(k)
  BY <1>0
<1> HIDE DEF sig, r
<1>3. s \in Int /\ N - s \in Int /\ P \in Int /\ r * d \in Int /\ t \in Int /\ s * k \in Int
  BY <1>0, <1>1, <1>2
<1> HIDE DEF s, P
<1>4. /\ Format!Ecrecover(h, sig, v) = d <=> Cong(s * P, t)
      /\ Format!Ecrecover(h, Format!Twin(sig), v) = d <=> Cong((N - s) * P, t)
  <2>1. Format!Ecrecover(h, [r |-> r, s |-> s], v) = d <=> Cong(s * P, t)
    BY <1>0, <1>3, RecoverEquation DEF P
  <2>2. Format!Ecrecover(h, [r |-> r, s |-> N - s], v) = d <=> Cong((N - s) * P, t)
    BY <1>0, <1>3, RecoverEquation DEF P
  <2> QED BY <2>1, <2>2, <1>1
<1> HIDE DEF t
\* What differs from s * k by a multiple of N solves the equation, and what
\* differs from -(s * k) does not.
<1>5. ASSUME NEW x \in Int, Cong(x, s * k) PROVE Cong(x, t)
  BY <1>5, <1>1, <1>3, CongEquivalence, Zenon
<1>6. ASSUME NEW x \in Int, Cong(x, -(s * k)) PROVE ~Cong(x, t)
  <2> SUFFICES ASSUME Cong(x, t) PROVE FALSE
    OBVIOUS
  <2> DEFINE i == Format!ModInverse(k)
  <2>0. i \in Int /\ -(s * k) \in Int /\ 2 * s \in Int /\ 0 \in Int
    BY InverseCancels, <1>3
  <2>1. Cong(s * k, -(s * k))
    BY <1>6, <1>1, <1>3, <2>0, CongEquivalence, Zenon
  <2>2. Cong(s * k - (-(s * k)), -(s * k) - (-(s * k)))
    BY <2>1, <2>0, <1>3, CongEquivalence, CongArithmetic, Zenon
  <2>3. s * k - (-(s * k)) = k * (2 * s) /\ -(s * k) - (-(s * k)) = 0
    BY <1>0, <1>3
  <2>4. Cong(k * (2 * s), 0) /\ k * (2 * s) \in Int
    BY <2>2, <2>3, <1>0, <2>0
  <2>5. Cong(i * (k * (2 * s)), i * 0) /\ i * 0 = 0 /\ i * (k * (2 * s)) \in Int
    <3>1. Cong(i * (k * (2 * s)), i * 0)
      BY <2>4, <2>0, CongArithmetic, Zenon
    <3> HIDE DEF i
    <3> QED BY <3>1, <2>0, <2>4
  <2>6. Cong(i * (k * (2 * s)), 2 * s)
    BY <2>0, InverseCancels
  <2> HIDE DEF i
  <2>7. Cong(2 * s, 0)
    BY <2>5, <2>6, <2>0, CongEquivalence
  <2>8. PICK q \in Int : 2 * s - 0 = q * N
    BY <2>7 DEF Cong
  <2>9. q > 0 /\ q < 2
    <3>1. ~(q <= 0)
      <4> SUFFICES ASSUME q <= 0 PROVE FALSE
        OBVIOUS
      <4>1. q * N <= 0
        BY <1>0
      <4> QED BY <4>1, <2>8, <1>1, <1>3
    <3>2. ~(q >= 2)
      <4> SUFFICES ASSUME q >= 2 PROVE FALSE
        OBVIOUS
      <4>1. q * N >= 2 * N
        BY <1>0
      <4> QED BY <4>1, <2>8, <1>1, <1>3, <1>0
    <3> QED BY <3>1, <3>2
  <2>10. 2 * s = N
    BY <2>8, <2>9, <1>0, <1>3
  <2> QED BY <2>10, <1>3, HalfOrder
<1>7. CASE v = Format!Parity(k) /\ P = k
  <2>1. Cong(s * P, s * k) /\ s * P \in Int
    BY <1>7, <1>3, CongEquivalence
  <2>2. Cong((N - s) * P, -(s * k)) /\ (N - s) * P \in Int
    <3>1. (N - s) * k - (-(s * k)) = k * N /\ (N - s) * k \in Int
      BY <1>0, <1>3
    <3> QED BY <3>1, <1>7, <1>0, Zenon DEF Cong
  <2> QED BY <2>1, <2>2, <1>4, <1>5, <1>6, <1>7, <1>p DEF sig
<1>8. CASE v = 1 - Format!Parity(k) /\ v # Format!Parity(k) /\ P = N - k
  <2>1. Cong(s * P, -(s * k)) /\ s * P \in Int
    <3>1. s * (N - k) - (-(s * k)) = s * N /\ s * (N - k) \in Int
      BY <1>0, <1>3
    <3> QED BY <3>1, <1>8, <1>3 DEF Cong
  <2>2. Cong((N - s) * P, s * k) /\ (N - s) * P \in Int
    <3>1. (N - s) * (N - k) - s * k = (N - s - k) * N /\ (N - s) * (N - k) \in Int
          /\ N - s - k \in Int
      BY <1>0, <1>3
    <3> QED BY <3>1, <1>8 DEF Cong
  <2> QED BY <2>1, <2>2, <1>4, <1>5, <1>6, <1>8 DEF sig
<1> QED BY <1>2, <1>7, <1>8 DEF sig

\* recoverV returns the id that recovers the key when there is just one.
LEMMA FindsId ==
    ASSUME NEW d \in 1..(N - 1), NEW h \in 0..(N - 1), NEW r \in 1..(N - 1),
           NEW s \in Int, NEW w \in 0..1,
           \A v \in 0..1 : Format!Ecrecover(h, [r |-> r, s |-> s], v) = d <=> v = w
    PROVE  Format!recoverV(h, [r |-> r, s |-> s], Format!MarshalCompressed(d)) = w
<1> DEFINE sig == [r |-> r, s |-> s]
           pub == Format!MarshalCompressed(d)
<1>1. ASSUME NEW v \in 0..1 PROVE Format!Recovers(h, sig, v, pub) <=> v = w
  <2>1. Format!Point(r, v) \in Int
    BY PrimeAssumption DEF Format!Point
  <2>2. Format!Ecrecover(h, sig, v) \in 1..(N - 1) \cup {NoKey}
    BY <2>1, RecoverEquation
  <2>3. Format!Ecrecover(h, sig, v) = d <=> v = w
    OBVIOUS
  <2>4. NoKey # d
    BY NoKeyAssumption, PrimeAssumption
  <2> DEFINE q == Format!Ecrecover(h, sig, v)
  <2>5. Format!Recovers(h, sig, v, pub) <=> q # NoKey /\ Format!MarshalCompressed(q) = pub
    BY DEF Format!Recovers
  <2> HIDE DEF q
  <2>6. q # NoKey => (Format!MarshalCompressed(q) = pub <=> q = d)
    BY <2>2, CompressedIsInjective DEF q
  <2> QED BY <2>3, <2>4, <2>5, <2>6 DEF q
<1> HIDE DEF sig, pub
<1>2. {v \in Format!Tries : Format!Recovers(h, sig, v, pub)} = {w}
  BY <1>1 DEF Format!Tries
<1>3. (CHOOSE v \in {w} : \A u \in {w} : v <= u) = w
  BY w <= w
<1>4. Format!recoverV(h, sig, pub) = w
  BY <1>2, <1>3 DEF Format!recoverV
<1> QED BY <1>4 DEF sig, pub

\* rsToEthSig converts both twins, and to what the file signer returns.
LEMMA Conversion ==
    ASSUME NEW d \in 1..(N - 1), NEW h \in 0..(N - 1), NEW k \in 1..(N - 1),
           Format!Ecdsa(d, h, k).s # 0
    PROVE  LET sig == Format!Ecdsa(d, h, k)
               pub == Format!MarshalCompressed(d)
               high == sig.s > Format!HalfN
               low == [ok |-> TRUE, r |-> sig.r, s |-> IF high THEN N - sig.s ELSE sig.s,
                       v |-> 27 + (IF high THEN 1 - Format!Parity(k) ELSE Format!Parity(k))]
           IN /\ Format!rsToEthSig(sig, h, pub) = low
              /\ Format!rsToEthSig(Format!Twin(sig), h, pub) = low
<1> DEFINE sig == Format!Ecdsa(d, h, k)
           twin == Format!Twin(sig)
           pub == Format!MarshalCompressed(d)
           r == Format!X(k)
           s == sig.s
           w == Format!Parity(k)
<1>0. /\ N \in Int /\ N > 2 /\ r \in 1..(N - 1) /\ w \in 0..1 /\ 1 - w \in 0..1
  BY PrimeAssumption, Points
<1>1. /\ sig = [r |-> r, s |-> s] /\ s \in 1..(N - 1)
      /\ twin = [r |-> r, s |-> N - s] /\ N - s \in Int
  <2>1. /\ sig = [r |-> r, s |-> s] /\ s \in 0..(N - 1)
    BY SignEquation
  <2>2. twin = [r |-> r, s |-> N - s]
    BY <2>1 DEF Format!Twin
  <2> QED BY <2>1, <2>2, <1>0
<1>2. \A v \in 0..1 : /\ Format!Ecrecover(h, sig, v) = d <=> v = w
                      /\ Format!Ecrecover(h, twin, v) = d <=> v = 1 - w
  BY RecoveryIds
<1> HIDE DEF sig, twin, r, w
<1>3. Format!recoverV(h, sig, pub) = w
  <2>1. \A v \in 0..1 : Format!Ecrecover(h, [r |-> r, s |-> s], v) = d <=> v = w
    BY <1>1, <1>2, Zenon
  <2> HIDE DEF s
  <2>2. Format!recoverV(h, [r |-> r, s |-> s], Format!MarshalCompressed(d)) = w
    BY <2>1, <1>0, <1>1, FindsId
  <2> QED BY <2>2, <1>1
<1>4. Format!recoverV(h, twin, pub) = 1 - w
  <2>1. \A v \in 0..1 : Format!Ecrecover(h, [r |-> r, s |-> N - s], v) = d <=> v = 1 - w
    BY <1>1, <1>2, Zenon
  <2> HIDE DEF s
  <2>2. Format!recoverV(h, [r |-> r, s |-> N - s], Format!MarshalCompressed(d)) = 1 - w
    BY <2>1, <1>0, <1>1, FindsId
  <2> QED BY <2>2, <1>1
<1> HIDE DEF s, pub
<1>5. Format!Twin(twin) = sig /\ Format!Twin(sig) = twin
  <2>1. N - (N - s) = s
    BY <1>0, <1>1
  <2>2. Format!Twin([r |-> r, s |-> N - s]) = [r |-> r, s |-> N - (N - s)]
    BY DEF Format!Twin
  <2>3. Format!Twin(twin) = sig
    BY <2>1, <2>2, <1>1, Zenon
  <2> QED BY <2>3 DEF twin
<1>6. CASE s > Format!HalfN
  <2>1. ~(N - s > Format!HalfN)
    BY <1>6, <1>1, HalfOrder
  <2>2. Format!LowS(sig) = twin /\ Format!LowS(twin) = twin
    BY <1>1, <1>5, <1>6, <2>1 DEF Format!LowS
  <2>3. 1 - w # -1 /\ (1 - w) + 27 = 27 + (1 - w)
    BY <1>0
  <2>4. Format!rsToEthSig(sig, h, pub)
        = [ok |-> TRUE, r |-> twin.r, s |-> twin.s, v |-> (1 - w) + 27]
    BY <2>2, <2>3, <1>4 DEF Format!rsToEthSig
  <2>5. Format!rsToEthSig(twin, h, pub)
        = [ok |-> TRUE, r |-> twin.r, s |-> twin.s, v |-> (1 - w) + 27]
    BY <2>2, <2>3, <1>4 DEF Format!rsToEthSig
  <2>6. twin.r = sig.r /\ twin.s = N - sig.s /\ sig.s > Format!HalfN
    BY <1>1, <1>6 DEF s
  <2>7. [ok |-> TRUE, r |-> twin.r, s |-> twin.s, v |-> (1 - w) + 27]
        = [ok |-> TRUE, r |-> sig.r, s |-> IF sig.s > Format!HalfN THEN N - sig.s ELSE sig.s,
           v |-> 27 + (IF sig.s > Format!HalfN THEN 1 - w ELSE w)]
    BY <2>3, <2>6, Zenon
  <2> QED BY <2>4, <2>5, <2>7 DEF sig, twin, pub, w
<1>7. CASE ~(s > Format!HalfN)
  <2>1. N - s > Format!HalfN
    BY <1>7, <1>1, HalfOrder
  <2>2. Format!LowS(sig) = sig /\ Format!LowS(twin) = sig
    BY <1>1, <1>5, <1>7, <2>1 DEF Format!LowS
  <2>3. w # -1 /\ w + 27 = 27 + w
    BY <1>0
  <2>4. Format!rsToEthSig(sig, h, pub)
        = [ok |-> TRUE, r |-> sig.r, s |-> sig.s, v |-> w + 27]
    BY <2>2, <2>3, <1>3 DEF Format!rsToEthSig
  <2>5. Format!rsToEthSig(twin, h, pub)
        = [ok |-> TRUE, r |-> sig.r, s |-> sig.s, v |-> w + 27]
    BY <2>2, <2>3, <1>3 DEF Format!rsToEthSig
  <2> QED BY <2>3, <2>4, <2>5, <1>1, <1>7, Zenon DEF sig, twin, pub, w, s
<1> QED BY <1>6, <1>7

--------------------------------------------------------------------------------
\* The inductive invariant of SignatureFormat: a file signer announced the key it
\* signs with, nothing is signed before a key is announced, and what was returned
\* last recovers the key announced.
FormatInv ==
    part = "format" =>
        /\ backend \in {"file", "dsm"} /\ key \in Format!Scalar
        /\ backend = "file" /\ cached # NoKey => cached = Format!MarshalCompressed(key)
        /\ out # Format!NoCall => cached # NoKey
        /\ Format!RecoversAnnouncedKey

\* Recovery reads r and s of a signature and nothing else.
LEMMA RecoverReads ==
    ASSUME NEW h, NEW v, NEW e, NEW g, e.r = g.r, e.s = g.s
    PROVE  Format!Ecrecover(h, e, v) = Format!Ecrecover(h, g, v)
BY DEF Format!Ecrecover

\* What a backend returns without an error is the lower twin, with the recovery id
\* that gives the key announced: for the file signer because it signs with that key,
\* for DSM because rsToEthSig looked for it.
LEMMA Returned ==
    ASSUME part = "format", FormatInv, cached # NoKey,
           NEW h \in 0..(N - 1), NEW k \in Format!Scalar, Format!Ecdsa(key, h, k).s # 0,
           NEW e \in Format!EthSigs(h, k), e.ok
    PROVE  \E v \in 0..1 : /\ Format!Ecrecover(h, e, v) # NoKey
                           /\ Format!MarshalCompressed(Format!Ecrecover(h, e, v)) = cached
                           /\ e.v = v + 27
                           /\ 2 * e.s < N
<1> DEFINE sig == Format!Ecdsa(key, h, k)
<1>0. key \in 1..(N - 1) /\ k \in 1..(N - 1) /\ N \in Int
  BY PrimeAssumption DEF FormatInv, Format!Scalar
<1>1. sig = [r |-> Format!X(k), s |-> sig.s] /\ sig.s \in 1..(N - 1)
  <2>1. sig = [r |-> Format!X(k), s |-> sig.s] /\ sig.s \in 0..(N - 1)
    BY <1>0, SignEquation
  <2> HIDE DEF sig
  <2> QED BY <2>1, <1>0 DEF sig
<1>2. Format!Twin(sig) = [r |-> Format!X(k), s |-> N - sig.s]
  BY <1>1 DEF Format!Twin
<1>3. CASE backend = "file"
  <2> DEFINE w == IF sig.s > Format!HalfN THEN 1 - Format!Parity(k) ELSE Format!Parity(k)
             z == IF sig.s > Format!HalfN THEN N - sig.s ELSE sig.s
  <2>1. e = [ok |-> TRUE, r |-> sig.r, s |-> z, v |-> 27 + w]
    BY <1>3 DEF Format!EthSigs, Format!FileSign
  <2>2. w \in 0..1
    BY <1>0, Points
  <2>3. Format!Ecrecover(h, [r |-> Format!X(k), s |-> z], w) = key
    BY <1>0, <1>1, <1>2, <2>2, RecoveryIds
  <2>4. Format!Ecrecover(h, e, w) = Format!Ecrecover(h, [r |-> Format!X(k), s |-> z], w)
    <3> HIDE DEF w, z
    <3>1. e.r = Format!X(k) /\ e.s = z
      BY <2>1, <1>1
    <3> QED BY <3>1, RecoverReads, Zenon
  <2>5. key # NoKey
    BY <1>0, NoKeyAssumption
  <2>6. cached = Format!MarshalCompressed(key)
    BY <1>3 DEF FormatInv
  <2>7. 2 * z < N
    BY <1>1, HalfOrder
  <2>8. e.v = w + 27 /\ e.s = z
    BY <2>1, <2>2
  <2> HIDE DEF w, z
  <2> QED BY <2>2, <2>3, <2>4, <2>5, <2>6, <2>7, <2>8
<1>4. CASE backend = "dsm"
  <2>1. PICK g \in {sig, Format!Twin(sig)} : e = Format!rsToEthSig(g, h, cached)
    BY <1>4 DEF Format!EthSigs, Format!DsmSign, Format!Error
  <2> DEFINE low == Format!LowS(g)
             v == Format!recoverV(h, low, cached)
  <2>2. v # -1 /\ e = [ok |-> TRUE, r |-> low.r, s |-> low.s, v |-> v + 27]
    BY <2>1, Zenon DEF Format!rsToEthSig, Format!Error
  <2>3. 2 * low.s < N
    <3>1. g = [r |-> Format!X(k), s |-> g.s] /\ g.s \in 1..(N - 1)
      BY <2>1, <1>0, <1>1, <1>2
    <3>2. low.s = IF g.s > Format!HalfN THEN N - g.s ELSE g.s
      BY <3>1 DEF Format!LowS, Format!Twin
    <3> QED BY <3>1, <3>2, HalfOrder
  <2> HIDE DEF low
  <2>4. v \in 0..1 /\ Format!Recovers(h, low, v, cached)
    <3> DEFINE good == {u \in Format!Tries : Format!Recovers(h, low, u, cached)}
    <3>1. good # {} /\ v = CHOOSE u \in good : \A w \in good : u <= w
      BY <2>2 DEF Format!recoverV
    <3>2. good \subseteq 0..1
      BY DEF Format!Tries
    <3>3. \E u \in good : \A w \in good : u <= w
      <4>1. CASE 0 \in good
        BY <4>1, <3>2
      <4>2. CASE 0 \notin good
        BY <4>2, <3>1, <3>2
      <4> QED BY <4>1, <4>2
    <3> HIDE DEF v
    <3>4. v \in good
      BY <3>1, <3>3
    <3> QED BY <3>4, <3>2
  <2> HIDE DEF v
  <2>5. e.r = low.r /\ e.v = v + 27 /\ e.s = low.s
    BY <2>2
  <2>6. Format!Ecrecover(h, e, v) = Format!Ecrecover(h, low, v)
    BY <2>5, RecoverReads, Zenon
  <2> QED BY <2>3, <2>4, <2>5, <2>6 DEF Format!Recovers
<1> QED BY <1>3, <1>4 DEF FormatInv

\* A backend that has not started satisfies the invariant.
LEMMA FormatInit == PartsInit => FormatInv
BY DEF PartsInit, FormatInv, Format!Init, Format!RecoversAnnouncedKey, Format!Signed

\* The constructors, Sign, SignRaw and a key replaced behind the signer keep it.
LEMMA FormatStep == FormatInv /\ [PartsNext]_partsVars => FormatInv'
<1> SUFFICES ASSUME FormatInv, [PartsNext]_partsVars PROVE FormatInv'
  OBVIOUS
<1>1. CASE UNCHANGED <<part, formatVars>>
  BY <1>1 DEF formatVars, FormatInv, Format!RecoversAnnouncedKey, Format!Signed
<1>2. CASE part = "format" /\ Format!Next /\ UNCHANGED part
  <2>1. CASE Format!NewFileSigner \/ Format!NewFortanixDSMSigner
    <3>1. cached = NoKey /\ out' = out /\ key' = key /\ backend' = backend
      BY <2>1 DEF Format!NewFileSigner, Format!NewFortanixDSMSigner
    <3>2. out' = Format!NoCall
      BY <3>1, <1>2 DEF FormatInv
    <3>3. backend = "file" => cached' = Format!MarshalCompressed(key)
      BY <2>1 DEF Format!NewFileSigner, Format!NewFortanixDSMSigner
    <3> QED
      BY <3>1, <3>2, <3>3, <1>2 DEF FormatInv, Format!RecoversAnnouncedKey, Format!Signed
  <2>2. CASE Format!RotateKey
    BY <2>2, <1>2 DEF Format!RotateKey, FormatInv, Format!RecoversAnnouncedKey, Format!Signed
  <2>3. ASSUME NEW m \in 0..(N - 1), NEW k \in Format!Scalar,
               Format!Sign(m, k) \/ Format!SignRaw(m, k)
        PROVE  FormatInv'
    <3> DEFINE h == out'.h
    <3>1. /\ UNCHANGED <<backend, key, cached>> /\ cached # NoKey
          /\ h \in 0..(N - 1) /\ Format!Ecdsa(key, h, k).s # 0
          /\ \E e \in Format!EthSigs(h, k) :
                \/ out' = [op |-> "Sign", h |-> h, sig |-> e]
                \/ out' = [op |-> "SignRaw", h |-> h,
                           sig |-> IF e.ok THEN [ok |-> TRUE, r |-> e.r, s |-> e.s] ELSE e]
      <4>1. CASE Format!Sign(m, k)
        <5>1. h = Format!Sha256(m)
          BY <4>1 DEF Format!Sign
        <5>2. m * m + 1 \in Int
          BY PrimeAssumption
        <5>3. h \in 0..(N - 1)
          BY <5>1, <5>2, CongRemainder DEF Format!Sha256
        <5> QED BY <4>1, <5>1, <5>3 DEF Format!Sign
      <4>2. CASE Format!SignRaw(m, k)
        <5>1. h = m
          BY <4>2 DEF Format!SignRaw
        <5> HIDE DEF h
        <5> QED BY <4>2, <5>1, Zenon DEF Format!SignRaw
      <4> QED BY <2>3, <4>1, <4>2
    <3> HIDE DEF h
    <3>2. PICK e \in Format!EthSigs(h, k) :
              \/ out' = [op |-> "Sign", h |-> h, sig |-> e]
              \/ out' = [op |-> "SignRaw", h |-> h,
                         sig |-> IF e.ok THEN [ok |-> TRUE, r |-> e.r, s |-> e.s] ELSE e]
      BY <3>1
    <3>3. ASSUME out'.sig.ok
          PROVE  \E v \in 0..1 :
                     /\ Format!Ecrecover(out'.h, out'.sig, v) # NoKey
                     /\ Format!MarshalCompressed(Format!Ecrecover(out'.h, out'.sig, v)) = cached
                     /\ out'.op = "Sign" => out'.sig.v = v + 27
                     /\ 2 * out'.sig.s < N
      <4>1. e.ok
        BY <3>2, <3>3
      <4>2. PICK v \in 0..1 : /\ Format!Ecrecover(h, e, v) # NoKey
                              /\ Format!MarshalCompressed(Format!Ecrecover(h, e, v)) = cached
                              /\ e.v = v + 27
                              /\ 2 * e.s < N
        BY <4>1, <3>1, <3>2, <1>2, Returned
      <4>3. out'.h = h /\ out'.sig.r = e.r /\ out'.sig.s = e.s
            /\ (out'.op = "Sign" => out'.sig.v = e.v)
        BY <3>2, <4>1
      <4>4. Format!Ecrecover(out'.h, out'.sig, v) = Format!Ecrecover(h, e, v)
        BY <4>3, RecoverReads, Zenon
      <4> QED BY <4>2, <4>3, <4>4
    <3>4. (Format!RecoversAnnouncedKey)'
      BY <3>1, <3>3, Zenon DEF Format!RecoversAnnouncedKey, Format!Signed, Format!Ecrecover,
                        Format!MarshalCompressed
    <3> QED
      BY <3>1, <3>4, <1>2 DEF FormatInv
  <2> QED BY <1>2, <2>1, <2>2, <2>3 DEF Format!Next
<1>3. part # "format" => UNCHANGED <<part, formatVars>>
  BY DEF PartsNext, partsVars, formatVars
<1>4. part = "format" => UNCHANGED <<part, formatVars>> \/ (Format!Next /\ UNCHANGED part)
  BY DEF PartsNext, partsVars, formatVars
<1> QED BY <1>1, <1>2, <1>3, <1>4 DEF FormatInv

\* For a group of any odd prime order: whatever twin the backend chose and whenever
\* the key behind dsm_key_name is replaced, a signature that Sign or SignRaw returns
\* has the low S and recovers, with the id it carries, the key announced at start-up.
THEOREM SignatureRecovers == PartsSpec => []RecoversAnnouncedKey
<1>1. FormatInv => RecoversAnnouncedKey
  BY DEF FormatInv, RecoversAnnouncedKey
<1> QED BY <1>1, FormatInit, FormatStep, PTL DEF PartsSpec

\* For a group of any odd prime order: rsToEthSig refuses no signature made with the
\* key announced, converts both twins to the same bytes, and a file signer with the
\* same key returns these bytes too.
THEOREM ConversionRefusesNothing == PartsSpec => []ConversionIsTotal
<1>1. FormatInv => ConversionIsTotal
  <2> SUFFICES ASSUME FormatInv, part = "format", cached = Format!MarshalCompressed(key),
                      NEW h \in 0..(N - 1), NEW k \in Format!Scalar,
                      Format!Ecdsa(key, h, k).s # 0
               PROVE  LET sig == Format!Ecdsa(key, h, k)
                      IN /\ Format!rsToEthSig(sig, h, cached).ok
                         /\ Format!rsToEthSig(sig, h, cached)
                              = Format!rsToEthSig(Format!Twin(sig), h, cached)
                         /\ backend = "file" =>
                               Format!FileSign(h, k) = Format!rsToEthSig(sig, h, cached)
    BY DEF ConversionIsTotal, Format!ConversionIsTotal
  <2>1. key \in 1..(N - 1) /\ k \in 1..(N - 1)
    BY DEF FormatInv, Format!Scalar
  <2> DEFINE sig == Format!Ecdsa(key, h, k)
             high == sig.s > Format!HalfN
             low == [ok |-> TRUE, r |-> sig.r, s |-> IF high THEN N - sig.s ELSE sig.s,
                     v |-> 27 + (IF high THEN 1 - Format!Parity(k) ELSE Format!Parity(k))]
  <2>2. /\ Format!rsToEthSig(sig, h, cached) = low
        /\ Format!rsToEthSig(Format!Twin(sig), h, cached) = low
    BY <2>1, Conversion
  <2>3. Format!FileSign(h, k) = low
    BY DEF Format!FileSign
  <2>4. low.ok
    OBVIOUS
  <2> HIDE DEF low
  <2> QED BY <2>2, <2>3, <2>4
<1> QED BY <1>1, FormatInit, FormatStep, PTL DEF PartsSpec
================================================================================
