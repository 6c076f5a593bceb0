-------------------------- MODULE MCSequentialParts --------------------------
(***************************************************************************)
(* The parts of the signer that run from an input to a result without      *)
(* meeting another process, side by side for TLC: every behaviour is one   *)
(* of RequestGates, PrivvalRequest, SignatureFormat or Configuration, and  *)
(* the variables of the others do not change.                              *)
(***************************************************************************)
EXTENDS RequestGates

CONSTANTS
    Roles, MaxExtensionSize,
    N, NoKey,
    Target, MaxTargets, MaxRPCs,
    Unused

ASSUME RolesAssumption ==
    Roles \subseteq {"off", "primary", "standby"} /\ MaxExtensionSize \in Nat
\* N is an odd prime: every scalar has an inverse.
ASSUME PrimeAssumption ==
    /\ N \in Nat /\ N > 2 /\ \E h \in 1..N : N = 2 * h + 1
    /\ \A a \in 1..(N - 1) : \E b \in 1..(N - 1) : (a * b) % N = 1
ASSUME NoKeyAssumption == NoKey \notin Int /\ NoKey \notin Nat \X Nat
ASSUME TargetAssumption == {"", " "} \cap Target = {}

VARIABLES
    part,
    role, pc, reply, failed, recorded,                   \* PrivvalRequest, with req and signed
    backend, key, cached, out,                           \* SignatureFormat
    cfg, stage, faulty, targets, arbiter, enabled, guard  \* Configuration

Privval == INSTANCE PrivvalRequest
Format == INSTANCE SignatureFormat
Config == INSTANCE Configuration

MCAddresses == 1..2
MCPowers == {1, 5}
MCTimestamps == 1..2
MCBytes == 0..1

requestVars == <<req, signed>>
gatesVars == <<view, code>>
privvalVars == <<role, pc, reply, failed, recorded>>
formatVars == <<backend, key, cached, out>>
configVars == <<cfg, stage, faulty, targets, arbiter, enabled, guard>>
partsVars == <<part, requestVars, gatesVars, privvalVars, formatVars, configVars>>

NoRequest == req = Unused /\ signed = Unused
NoGates == view = Unused /\ code = "pending"
NoPrivval ==
    /\ role = Unused /\ pc = Unused
    /\ reply = Unused /\ failed = Unused /\ recorded = Unused
NoFormat == backend = Unused /\ key = Unused /\ cached = Unused /\ out = Unused
NoConfig ==
    /\ cfg = Unused /\ stage = Unused /\ faulty = Unused /\ targets = Unused
    /\ arbiter = Unused /\ enabled = Unused /\ guard = Unused

PartsInit ==
    \/ /\ part = "gates" /\ Init
       /\ NoPrivval /\ NoFormat /\ NoConfig
    \/ /\ part = "privval" /\ Privval!Init
       /\ NoGates /\ NoFormat /\ NoConfig
    \/ /\ part = "format" /\ Format!Init
       /\ NoRequest /\ NoGates /\ NoPrivval /\ NoConfig
    \/ /\ part = "config" /\ Config!Init
       /\ NoRequest /\ NoGates /\ NoPrivval /\ NoFormat

PartsNext ==
    \/ /\ part = "gates" /\ Next
       /\ UNCHANGED <<part, privvalVars, formatVars, configVars>>
    \/ /\ part = "privval" /\ Privval!Next
       /\ UNCHANGED <<part, gatesVars, formatVars, configVars>>
    \/ /\ part = "format" /\ Format!Next
       /\ UNCHANGED <<part, requestVars, gatesVars, privvalVars, configVars>>
    \/ /\ part = "config" /\ Config!Next
       /\ UNCHANGED <<part, requestVars, gatesVars, privvalVars, formatVars>>

PartsSpec == PartsInit /\ [][PartsNext]_partsVars

--------------------------------------------------------------------------------
(* Properties, each where its part is defined.  Those of RequestGates are  *)
(* checked as they are: code stays "pending" in the other parts.           *)

\* A privval request gets a reply of its kind, without an error exactly when
\* FilePV signed.
RepliesMatchRequests == part = "privval" => Privval!RepliesMatchRequests

\* The handler's checks let only votes and proposals through that can be used.
SignedIsUsable == part = "privval" => Privval!SignedIsUsable

\* Without an arbiter every privval request is answered.
UngatedAlwaysAnswers == part = "privval" => Privval!UngatedAlwaysAnswers

\* What a backend returns is the lower twin and recovers the key the backend
\* announced (rsToEthSig).
RecoversAnnouncedKey == part = "format" => Format!RecoversAnnouncedKey

\* The conversion refuses no signature of the announced key (rsToEthSig).
ConversionIsTotal == part = "format" => Format!ConversionIsTotal

\* Past Load the settings stop a daemon before its dial clients start, or over an
\* address it cannot listen on.
StopsBeforeDialing == part = "config" => Config!StopsBeforeDialing

\* An RPC that the configuration turns off is off in the gate, and a daemon that
\* serves SignBridgeCheckpoint has a file for the replay guard.
ServesAsConfigured == part = "config" => Config!ServesAsConfigured
==============================================================================
