---------------------------- MODULE ConsensusPlane ----------------------------
(***************************************************************************)
(* Consensus signing: one dial client per configured target                *)
(* (consensus/server.go), the primary arbiter they share, the              *)
(* LockedPrivValidator and CometBFT's FilePV behind it (external), the     *)
(* last-sign state file, and the daemon that starts and stops them         *)
(* (cmd/bridge-signer/cmd_start.go).                                       *)
(*                                                                         *)
(* A sign request is reduced to its height, round and step, the block it   *)
(* names and its timestamp; a signature is identified with what it signs.  *)
(***************************************************************************)
EXTENDS PrimaryArbiter

CONSTANTS
    Clients,       \* the RunDialClient goroutines
    TargetOf,      \* TargetOf[c]: the target client c dials
    SignBytes,     \* votes and proposals a node may ask to have signed
    Election,      \* whether primary_failover_timeout is configured
    CrashesHappen, \* whether the process may stop abruptly
    StateLossHappens, \* whether the state file may vanish while it is down
    nil            \* no request, no signature, no lock holder, no state file

\* What FilePV holds before it has signed anything (freshStateJSON).
Fresh == [height |-> 0, round |-> 0, step |-> 0, block |-> nil, time |-> 0]

SignStates == SignBytes \cup {Fresh}

ASSUME TargetOfAssumption == TargetOf \in [Clients -> Ids]
ASSUME SignBytesAssumption == \A m \in SignBytes :
    m.height \in Nat /\ m.round \in Nat /\ m.step \in 1..3
ASSUME SwitchesAssumption ==
    Election \in BOOLEAN /\ CrashesHappen \in BOOLEAN
    /\ StateLossHappens \in BOOLEAN
ASSUME NoSignatureAssumption == nil \notin SignStates /\ nil \notin Clients

VARIABLES
    proc,     \* the daemon: "up" or "down"
    ctxDone,  \* the daemon's context is cancelled
    pc,       \* pc[c]: where client c is
    req,      \* req[c]: the sign request client c is serving
    res,      \* res[c]: the signature client c is about to send; nil for none
    pvmu,     \* holder of LockedPrivValidator's mutex across a Save
    lss,      \* FilePV's LastSignState in memory
    file,     \* contents of the state file, or nil when there is none
    released, \* history: signatures written to a connection
    forgot    \* history: init-state ran after a signature was released

clientVars == <<pc, req, res>>
pvVars == <<pvmu, lss, file>>
vars == <<primary, idle, maxHeight, proc, ctxDone, pc, req, res, pvmu, lss,
          file, released, forgot>>

Init ==
    /\ ArbiterInit
    /\ proc = "down"
    /\ ctxDone = FALSE
    /\ pc = [c \in Clients |-> "returned"]
    /\ req = [c \in Clients |-> nil]
    /\ res = [c \in Clients |-> nil]
    /\ pvmu = nil
    /\ lss = Fresh
    /\ file = nil
    /\ released = {}
    /\ forgot = FALSE

Goto(c, label) == pc' = [pc EXCEPT ![c] = label]

\* onState(false), as RunDialClient defines it.
Disconnected(c) ==
    IF Election THEN Release(TargetOf[c]) ELSE UNCHANGED arbiterVars

--------------------------------------------------------------------------------
(* runDialClient *)

StopAtTop(c) ==
    /\ pc[c] = "top"
    /\ ctxDone
    /\ Goto(c, "returned")
    /\ UNCHANGED <<arbiterVars, proc, ctxDone, req, res, pvVars, released,
                   forgot>>

BeginDialIgnoresCancel(c) ==
    /\ pc[c] = "top"
    /\ Goto(c, "dialing")
    /\ UNCHANGED <<arbiterVars, proc, ctxDone, req, res, pvVars, released,
                   forgot>>

BeginDial(c) ==
    /\ pc[c] = "top"
    /\ ~ctxDone
    /\ Goto(c, "dialing")
    /\ UNCHANGED <<arbiterVars, proc, ctxDone, req, res, pvVars, released,
                   forgot>>

DialFails(c) ==
    /\ pc[c] = "dialing"
    /\ Disconnected(c)
    /\ Goto(c, "wait")
    /\ UNCHANGED <<proc, ctxDone, req, res, pvVars, released, forgot>>

\* Dialling does not look at the context: it can succeed after a cancellation.
DialOk(c) ==
    /\ pc[c] = "dialing"
    /\ Goto(c, "read")
    /\ UNCHANGED <<arbiterVars, proc, ctxDone, req, res, pvVars, released,
                   forgot>>

\* serveConn has returned; the connection is closed and the role given up.
Closed(c) ==
    /\ pc[c] = "closing"
    /\ Disconnected(c)
    /\ Goto(c, "wait")
    /\ UNCHANGED <<proc, ctxDone, req, res, pvVars, released, forgot>>

\* The pause before the next dial is over, or the context was cancelled first.
WaitEnds(c) ==
    /\ pc[c] = "wait"
    /\ \/ Goto(c, "top")
       \/ ctxDone /\ Goto(c, "returned")
    /\ UNCHANGED <<arbiterVars, proc, ctxDone, req, res, pvVars, released,
                   forgot>>

--------------------------------------------------------------------------------
(* serveConn and the handlers it calls *)

\* The peer is gone, the read deadline passed, or AfterFunc closed the
\* connection on cancellation.
ReadFails(c) ==
    /\ pc[c] = "read"
    /\ Goto(c, "closing")
    /\ UNCHANGED <<arbiterVars, proc, ctxDone, req, res, pvVars, released,
                   forgot>>

\* gatedHandler, present only when an arbiter is configured.
Gate(c, m, granted) ==
    IF Election THEN Acquire(TargetOf[c], m.height, granted)
                ELSE granted /\ UNCHANGED arbiterVars

\* A vote or proposal is read.  A refusal by the gate or by the validation of
\* the request (valid, which has no state) is answered with an error.
Receive(c, m, valid) ==
    /\ pc[c] = "read"
    /\ req' = [req EXCEPT ![c] = m]
    /\ \E granted \in BOOLEAN :
           /\ Gate(c, m, granted)
           /\ Goto(c, IF granted /\ valid THEN "sign" ELSE "reply")
    /\ UNCHANGED <<proc, ctxDone, res, pvVars, released, forgot>>

\* A ping passes the gate and is answered at once; so is a pubkey request that
\* fails its validation.
ReceivePing(c) ==
    /\ pc[c] = "read"
    /\ Goto(c, "reply")
    /\ UNCHANGED <<arbiterVars, proc, ctxDone, req, res, pvVars, released,
                   forgot>>

\* A pubkey request passes the gate too, and then takes the lock.
ReceivePubKeyRequest(c) ==
    /\ pc[c] = "read"
    /\ Goto(c, "pubkey")
    /\ UNCHANGED <<arbiterVars, proc, ctxDone, req, res, pvVars, released,
                   forgot>>

GetPubKey(c) ==
    /\ pc[c] = "pubkey"
    /\ pvmu = nil
    /\ Goto(c, "reply")
    /\ UNCHANGED <<arbiterVars, proc, ctxDone, req, res, pvVars, released,
                   forgot>>

\* The response is written.  A write that fails may still have reached the peer.
Sent(c) == released \cup ({res[c]} \ {nil})

Reply(c) ==
    /\ pc[c] = "reply"
    /\ released' = Sent(c)
    /\ req' = [req EXCEPT ![c] = nil]
    /\ res' = [res EXCEPT ![c] = nil]
    /\ \/ Goto(c, "read")
       \/ Goto(c, "closing")
    /\ UNCHANGED <<arbiterVars, proc, ctxDone, pvVars, forgot>>

--------------------------------------------------------------------------------
(* LockedPrivValidator and, external, FilePV.SignVote and SignProposal *)

SameHRS(a, b) == a.height = b.height /\ a.round = b.round /\ a.step = b.step

\* a's height, round and step precede b's.
Before(a, b) ==
    \/ a.height < b.height
    \/ a.height = b.height /\ a.round < b.round
    \/ a.height = b.height /\ a.round = b.round /\ a.step < b.step

\* A regression, or other data at the same height, round and step.
PvRefuses(m) == Before(m, lss) \/ (SameHRS(m, lss) /\ m.block # lss.block)

PvRefuse(c) ==
    /\ pc[c] = "sign"
    /\ pvmu = nil
    /\ PvRefuses(req[c])
    /\ Goto(c, "reply")
    /\ UNCHANGED <<arbiterVars, proc, ctxDone, req, res, pvVars, released,
                   forgot>>

PvRepeats(m) == SameHRS(m, lss) /\ m.block = lss.block

PvRepeatKeepsTime(c) ==
    /\ pc[c] = "sign"
    /\ pvmu = nil
    /\ PvRepeats(req[c])
    /\ res' = [res EXCEPT ![c] = req[c]]
    /\ Goto(c, "reply")
    /\ UNCHANGED <<arbiterVars, proc, ctxDone, req, pvVars, released, forgot>>

\* The same data again, the timestamp aside: the stored timestamp and signature
\* are returned.
PvRepeat(c) ==
    /\ pc[c] = "sign"
    /\ pvmu = nil
    /\ PvRepeats(req[c])
    /\ res' = [res EXCEPT ![c] = lss]
    /\ Goto(c, "reply")
    /\ UNCHANGED <<arbiterVars, proc, ctxDone, req, pvVars, released, forgot>>

\* A new step is signed; the last-sign state is updated in memory first.
PvSign(c) ==
    /\ pc[c] = "sign"
    /\ pvmu = nil
    /\ Before(lss, req[c])
    /\ pvmu' = c
    /\ lss' = req[c]
    /\ Goto(c, "save")
    /\ UNCHANGED <<arbiterVars, proc, ctxDone, req, res, file, released, forgot>>

PvSaveSkipped(c) ==
    /\ pc[c] = "save"
    /\ pvmu' = nil
    /\ res' = [res EXCEPT ![c] = req[c]]
    /\ Goto(c, "reply")
    /\ UNCHANGED <<arbiterVars, proc, ctxDone, req, lss, file, released, forgot>>

PvSaveKeepsLock(c) ==
    /\ pc[c] = "save"
    /\ file' = lss
    /\ res' = [res EXCEPT ![c] = req[c]]
    /\ Goto(c, "reply")
    /\ UNCHANGED <<arbiterVars, proc, ctxDone, req, pvmu, lss, released, forgot>>

\* The state is saved, and only then is the signature handed back.  A failed
\* save panics, which is a Crash.
PvSave(c) ==
    /\ pc[c] = "save"
    /\ file' = lss
    /\ pvmu' = nil
    /\ res' = [res EXCEPT ![c] = req[c]]
    /\ Goto(c, "reply")
    /\ UNCHANGED <<arbiterVars, proc, ctxDone, req, lss, released, forgot>>

--------------------------------------------------------------------------------
(* The daemon, the operator and the disk *)

RequireNoStateFile == TRUE

\* start refuses to run without a state file.
RequireStateFile == file # nil

\* A file that is not there loads as the fresh state.
LoadCometFilePV(f) == IF f = nil THEN Fresh ELSE f

\* A new arbiter and one goroutine per target.
Start ==
    /\ proc = "down"
    /\ RequireStateFile
    /\ proc' = "up"
    /\ ctxDone' = FALSE
    /\ lss' = LoadCometFilePV(file)
    /\ pc' = [c \in Clients |-> "top"]
    /\ UNCHANGED <<arbiterVars, req, res, pvmu, file, released, forgot>>

\* A signal arrives or a server exits: ctxCancel.
Cancel ==
    /\ proc = "up"
    /\ ~ctxDone
    /\ ctxDone' = TRUE
    /\ UNCHANGED <<arbiterVars, proc, clientVars, pvVars, released, forgot>>

\* Everything in memory is gone.
LoseMemory ==
    /\ proc' = "down"
    /\ ctxDone' = FALSE
    /\ pc' = [c \in Clients |-> "returned"]
    /\ req' = [c \in Clients |-> nil]
    /\ res' = [c \in Clients |-> nil]
    /\ pvmu' = nil
    /\ lss' = Fresh
    /\ primary' = NoPrimary
    /\ idle' = Timeout + 1
    /\ maxHeight' = 0
    /\ UNCHANGED <<file, released, forgot>>

\* consensusWg.Wait returned, and the daemon exits.
Exit ==
    /\ proc = "up"
    /\ ctxDone
    /\ \A c \in Clients : pc[c] = "returned"
    /\ LoseMemory

\* The process dies at any point.
Crash ==
    /\ CrashesHappen
    /\ proc = "up"
    /\ LoseMemory

\* The state file is deleted or un-mounted while the signer is down.
LoseState ==
    /\ StateLossHappens
    /\ proc = "down"
    /\ file # nil
    /\ file' = nil
    /\ UNCHANGED <<arbiterVars, proc, ctxDone, clientVars, pvmu, lss, released,
                   forgot>>

\* The operator runs init-state, which refuses to touch an existing file.
InitState ==
    /\ proc = "down"
    /\ file = nil
    /\ file' = Fresh
    /\ forgot' = (forgot \/ released # {})
    /\ UNCHANGED <<arbiterVars, proc, ctxDone, clientVars, pvmu, lss, released>>

TimePasses ==
    /\ proc = "up"
    /\ Election
    /\ Tick
    /\ UNCHANGED <<proc, ctxDone, clientVars, pvVars, released, forgot>>

Client(c) ==
    \/ StopAtTop(c) \/ BeginDial(c) \/ DialFails(c) \/ DialOk(c)
    \/ ReadFails(c) \/ \E m \in SignBytes, valid \in BOOLEAN : Receive(c, m, valid)
    \/ ReceivePing(c) \/ ReceivePubKeyRequest(c) \/ GetPubKey(c)
    \/ PvRefuse(c) \/ PvRepeat(c) \/ PvSign(c) \/ PvSave(c)
    \/ Reply(c) \/ Closed(c) \/ WaitEnds(c)

Next ==
    \/ \E c \in Clients : Client(c)
    \/ Start \/ Cancel \/ Exit \/ Crash
    \/ LoseState \/ InitState \/ TimePasses

Spec == Init /\ [][Next]_vars

\* Goroutines are scheduled, a waiting one gets the mutex in the end, dials,
\* reads and writes have deadlines, and AfterFunc closes the connection of a
\* cancelled context.
FairSpec ==
    /\ Spec
    /\ WF_vars(Exit)
    /\ WF_vars(TimePasses)
    /\ \A c \in Clients :
           SF_vars(Client(c)) /\ SF_vars(ctxDone /\ ReadFails(c))

--------------------------------------------------------------------------------
(* Properties *)

Serving == {"read", "sign", "save", "pubkey", "reply"}
PCs == Serving \cup {"top", "dialing", "closing", "wait", "returned"}

\* The types of the state; in particular only signatures of real requests, never
\* the fresh state or an error, count as released.
TypeOK ==
    /\ ArbiterTypeOK
    /\ proc \in {"up", "down"}
    /\ ctxDone \in BOOLEAN
    /\ pc \in [Clients -> PCs]
    /\ req \in [Clients -> SignBytes \cup {nil}]
    /\ res \in [Clients -> SignBytes \cup {nil}]
    /\ pvmu \in Clients \cup {nil}
    /\ lss \in SignStates
    /\ file \in SignStates \cup {nil}
    /\ released \subseteq SignBytes
    /\ forgot \in BOOLEAN

\* No two signatures that left the signer are for the same height, round and
\* step and differ in anything, the timestamp included: whichever nodes asked,
\* whoever was primary, wherever the process crashed, and whether or not the
\* state file was lost, until the operator runs init-state on a signer that has
\* signed (LockedPrivValidator, FilePV, RequireStateFile, InitStateFile).
NoEquivocation ==
    ~forgot => \A a, b \in released : SameHRS(a, b) => a = b

\* Signatures that have left the signer or are about to.
Out == released \cup ({res[c] : c \in Clients} \ {nil})

\* A signature that has left the signer, or is on its way out, is covered by the
\* state file: a restart at any moment finds a last-sign state that refuses
\* everything that conflicts with it (FilePV saves before it returns).
ReleasedIsDurable ==
    ~forgot /\ file # nil =>
        \A m \in Out : m = file \/ Before(m, file)

\* The role is never left with a target that has no connection, except for the
\* moment between serveConn's return and onState(false): a standby need not wait
\* for the idle timeout of a node that is gone (RunDialClient, Release).
PrimaryIsConnected ==
    primary # NoPrimary =>
        \E c \in Clients :
            TargetOf[c] = primary /\ pc[c] \in Serving \cup {"closing"}

\* Whatever FilePV signs, the arbiter has granted that height before in the
\* same run of the daemon: what maxHeight holds a preferred node back to is
\* never behind what was signed, even by a client whose grant is stale by the
\* time it gets the lock (Acquire, grant, SignVote).
SignedWithinGranted ==
    [][Election /\ lss' # lss /\ proc = "up" /\ proc' = "up" =>
           lss'.height <= maxHeight]_vars

\* The role is cleared only when no connection to the target that held it is in
\* use, as the comment on Release says.
ClearedWhenUnusable ==
    [][primary # NoPrimary /\ primary' = NoPrimary /\ proc' = "up" =>
           \A c \in Clients : TargetOf[c] = primary => pc'[c] \notin Serving]_vars

Ledger == INSTANCE VoteLedger

\* The consensus plane implements a signer that never contradicts itself.
ImplementsLedger == Ledger!Spec

\* Every request a client has read is answered, or its connection is given up:
\* nobody waits for ever for LockedPrivValidator's mutex.
RequestsEnd ==
    \A c \in Clients :
        (pc[c] \in Serving \ {"read"}) ~> (pc[c] \notin Serving \ {"read"})

\* After ctxCancel every dial client returns, so consensusWg.Wait, which has no
\* timeout, returns and the daemon exits.
ShutdownCompletes == ctxDone ~> (proc = "down")
================================================================================
