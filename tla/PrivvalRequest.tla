---------------------------- MODULE PrivvalRequest ----------------------------
(***************************************************************************)
(* One privval request on its way through the primary gate                 *)
(* (consensus/server.go), the stateless checks (consensus/handler.go,      *)
(* consensus/validate.go) and CometBFT's default handler with FilePV, to   *)
(* the reply.  ConsensusPlane leaves the verdict of the checks open; here  *)
(* it is computed from the request, for every combination of fields that   *)
(* the checks tell apart.                                                  *)
(***************************************************************************)
EXTENDS Integers

CONSTANTS
    Roles,            \* how the arbiter answers: "off" (none), "primary", "standby"
    MaxExtensionSize  \* types.MaxVoteExtensionSize

VARIABLES
    req,       \* the request
    role,      \* what Acquire answers to this connection
    pc,        \* "received", "admitted", "answered" or "crashed"
    reply,     \* kind of the reply's message
    failed,    \* it carries an error
    recorded,  \* RecordSign was called
    signed     \* FilePV signed it

vars == <<req, role, pc, reply, failed, recorded, signed>>

ChainIDs == {"own", "other", "empty", "oversized", "NUL"}
BlockIDs == {"zero", "complete", "partial", "invalid"}
ValidatorAddresses == {"own", "other", "short"}

Absent == [absent |-> TRUE]

Vote == [type : {"prevote", "precommit", "unknown"}, height : -1..1, round : -1..0,
         index : -1..0, address : ValidatorAddresses, block : BlockIDs,
         extension : {0, 1, MaxExtensionSize + 1}, extensionSignature : 0..1]

Proposal == [type : {"proposal", "unknown"}, height : -1..1, round : -1..0,
             polRound : -2..0, block : BlockIDs]

Request ==
    [kind : {"pubKey"}, chain : ChainIDs, body : {Absent}]
    \cup [kind : {"ping", "unset"}, chain : {"empty"}, body : {Absent}]
    \cup [kind : {"vote"}, chain : ChainIDs, body : Vote \cup {Absent}]
    \cup [kind : {"proposal"}, chain : ChainIDs, body : Proposal \cup {Absent}]

Init ==
    /\ req \in Request
    /\ role \in Roles
    /\ pc = "received"
    /\ reply = "none"
    /\ failed = FALSE
    /\ recorded = FALSE
    /\ signed = FALSE

--------------------------------------------------------------------------------
(* The checks *)

validateRequestChainID(id) == id \notin {"empty", "oversized", "NUL"}

ValidateVoteAnyType(v) ==
    /\ v # Absent
    /\ v.height > 0
    /\ v.round >= 0
    /\ v.index >= 0
    /\ v.address = "own"
    /\ v.block \in {"zero", "complete"}
    /\ v.extension <= MaxExtensionSize
    /\ v.type # "precommit" \/ v.block = "zero" =>
          v.extension = 0 /\ v.extensionSignature = 0

ValidateVoteKeepsExtensionSignature(v) ==
    /\ v # Absent
    /\ v.type \in {"prevote", "precommit"}
    /\ v.height > 0
    /\ v.round >= 0
    /\ v.index >= 0
    /\ v.address = "own"
    /\ v.block \in {"zero", "complete"}
    /\ v.extension <= MaxExtensionSize
    /\ v.type # "precommit" \/ v.block = "zero" => v.extension = 0

ValidateSignVoteRequest(v) ==
    /\ v # Absent
    /\ v.type \in {"prevote", "precommit"}
    /\ v.height > 0
    /\ v.round >= 0
    /\ v.index >= 0
    /\ v.address = "own"
    /\ v.block \in {"zero", "complete"}
    /\ v.extension <= MaxExtensionSize
    /\ v.type # "precommit" \/ v.block = "zero" =>
          v.extension = 0 /\ v.extensionSignature = 0

ValidateSignProposalRequest(p) ==
    /\ p # Absent
    /\ p.type = "proposal"
    /\ p.height >= 0
    /\ p.round >= 0
    /\ p.polRound >= -1
    /\ p.block = "complete"

--------------------------------------------------------------------------------
(* The steps of a request *)

Answer(kind, error) == pc' = "answered" /\ reply' = kind /\ failed' = error

Crash == pc' = "crashed" /\ UNCHANGED <<reply, failed>>

\* wrapMsg: the response that belongs to a request; an unset request has none.
ResponseTo(kind) ==
    CASE kind = "pubKey" -> "pubKeyResponse"
      [] kind = "vote" -> "signedVoteResponse"
      [] kind = "proposal" -> "signedProposalResponse"
      [] kind = "ping" -> "pingResponse"
      [] OTHER -> "empty"

IsSign == req.kind \in {"vote", "proposal"}

notPrimaryVoteResponse == Answer("signedVoteResponse", TRUE)

notPrimaryResponse == Answer(ResponseTo(req.kind), TRUE)

\* notPrimaryResponse reads the height of the vote or proposal, then Acquire
\* decides and RecordSign sets the gauge.
gatedHandler ==
    /\ pc = "received"
    /\ role # "off"
    /\ IF IsSign /\ req.body = Absent THEN Crash /\ UNCHANGED recorded
       ELSE IF IsSign /\ role = "standby" THEN notPrimaryResponse /\ UNCHANGED recorded
       ELSE /\ pc' = "admitted"
            /\ recorded' = IsSign
            /\ UNCHANGED <<reply, failed>>
    /\ UNCHANGED <<req, role, signed>>

ungatedHandler ==
    /\ pc = "received"
    /\ role = "off"
    /\ pc' = "admitted"
    /\ UNCHANGED <<req, role, reply, failed, recorded, signed>>

Refused ==
    \/ req.kind \in {"pubKey", "vote", "proposal"} /\ ~validateRequestChainID(req.chain)
    \/ req.kind = "vote" /\ ~ValidateSignVoteRequest(req.body)
    \/ req.kind = "proposal" /\ ~ValidateSignProposalRequest(req.body)

Refuse ==
    /\ pc = "admitted"
    /\ Refused
    /\ Answer(ResponseTo(req.kind), TRUE)
    /\ UNCHANGED <<req, role, recorded, signed>>

\* CometBFT's handler: another chain's requests and unset ones are errors, the
\* rest goes to FilePV, which may refuse a step it has passed and panics on a
\* vote type it does not know.
DefaultValidationRequestHandler ==
    /\ pc = "admitted"
    /\ ~Refused
    /\ IF \/ req.kind = "unset"
          \/ req.kind # "ping" /\ req.chain # "own"
       THEN Answer(ResponseTo(req.kind), TRUE) /\ UNCHANGED signed
       ELSE IF req.kind = "vote" /\ req.body.type = "unknown"
       THEN Crash /\ UNCHANGED signed
       ELSE IF IsSign
       THEN \/ Answer(ResponseTo(req.kind), TRUE) /\ UNCHANGED signed
            \/ Answer(ResponseTo(req.kind), FALSE) /\ signed' = TRUE
       ELSE Answer(ResponseTo(req.kind), FALSE) /\ UNCHANGED signed
    /\ UNCHANGED <<req, role, recorded>>

Next ==
    gatedHandler \/ ungatedHandler \/ Refuse \/ DefaultValidationRequestHandler

Spec == Init /\ [][Next]_vars

--------------------------------------------------------------------------------
(* Properties *)

\* Whichever of the gate, the checks and CometBFT's handler answers, the node
\* gets a response of the kind it is waiting for, and one without an error
\* exactly when a signature was made: a refused vote never looks like a signed
\* one.
RepliesMatchRequests ==
    pc = "answered" =>
        /\ reply = ResponseTo(req.kind)
        /\ IsSign => (signed <=> ~failed)

\* A signed vote can be used by the chain: it is for this chain and this
\* validator, in range, for nil or a whole block, and carries vote-extension
\* fields only where the protocol has them, on a precommit for a block.
SignedIsUsable ==
    signed =>
        /\ req.chain = "own"
        /\ req.kind = "vote" =>
              /\ req.body \in [type : {"prevote", "precommit"}, height : {1}, round : {0},
                               index : {0}, address : {"own"}, block : {"zero", "complete"},
                               extension : 0..MaxExtensionSize, extensionSignature : 0..1]
              /\ req.body.extension + req.body.extensionSignature > 0 =>
                    req.body.type = "precommit" /\ req.body.block = "complete"
        /\ req.kind = "proposal" => req.body.block = "complete" /\ req.body.round = 0

\* Without an arbiter every request is answered, whatever its fields hold: the
\* checks keep from FilePV what it would panic on.
UngatedAlwaysAnswers == role = "off" => pc # "crashed"

\* The tests of the handler (consensus_test.go) expect an error, hence an answer,
\* for a request without a vote or proposal.
AlwaysAnswers == pc # "crashed"
================================================================================
