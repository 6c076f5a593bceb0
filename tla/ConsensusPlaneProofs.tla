------------------------- MODULE ConsensusPlaneProofs -------------------------
(***************************************************************************)
(* Proofs about ConsensusPlane, for any number of clients, targets and     *)
(* requests, with and without an arbiter.                                  *)
(***************************************************************************)
EXTENDS ConsensusPlane, TLAPS

--------------------------------------------------------------------------------
(* The inductive invariant *)

\* LockedPrivValidator's mutex is held exactly by the client that is saving.
LockInv == \A c \in Clients : pc[c] = "save" <=> pvmu = c

\* A daemon that is down has no clients and no primary.
DownInv ==
    proc = "down" =>
        /\ primary = NoPrimary
        /\ \A c \in Clients : pc[c] = "returned" /\ res[c] = nil

\* A client that signs has a request, whose height the arbiter has granted, and
\* only a client that replies holds a signature.
RequestInv ==
    \A c \in Clients :
        /\ pc[c] \in {"sign", "save"} => req[c] \in SignBytes
        /\ pc[c] = "sign" /\ Election => req[c].height <= maxHeight
        /\ res[c] # nil => pc[c] = "reply"

\* Memory agrees with the state file, except that it is strictly ahead of it
\* while a client saves.
StateInv ==
    proc = "up" =>
        /\ file # nil
        /\ pvmu = nil => lss = file
        /\ pvmu # nil => lss = req[pvmu] /\ Before(file, lss)

\* Signatures that left or are about to leave do not contradict each other.
UniqueInv == ~forgot => \A a, b \in Out : SameHRS(a, b) => a = b

\* Without an arbiter nobody is ever primary.
RoleInv == PrimaryIsConnected /\ (primary # NoPrimary => Election)

IInv ==
    /\ TypeOK /\ LockInv /\ DownInv /\ RequestInv /\ StateInv
    /\ ReleasedIsDurable /\ UniqueInv /\ RoleInv

--------------------------------------------------------------------------------
(* Heights, rounds and steps are ordered *)

\* The height, round and step of a last-sign state are numbers, and only the
\* fresh state has step 0.
LEMMA SignStateFields ==
    ASSUME NEW m \in SignStates
    PROVE  /\ m.height \in Nat /\ m.round \in Nat /\ m.step \in 0..3
           /\ m \in SignBytes => m.step # 0
BY SignBytesAssumption DEF SignStates, Fresh

\* CheckHRS compares positions by a transitive relation.
LEMMA BeforeTransitive ==
    ASSUME NEW a \in SignStates, NEW b \in SignStates, NEW d \in SignStates,
           Before(a, b), Before(b, d)
    PROVE  Before(a, d)
BY SignStateFields DEF Before

\* A position is never before itself.
LEMMA BeforeDiffers ==
    ASSUME NEW a \in SignStates, NEW b \in SignStates, Before(a, b)
    PROVE  ~SameHRS(a, b) /\ ~SameHRS(b, a) /\ a # b
BY SignStateFields DEF Before, SameHRS

--------------------------------------------------------------------------------
(* Steps that are alike *)

\* c moves on, to anything but signing, and nothing else changes.
JustMoves(c) ==
    /\ pc[c] \notin {"save", "reply", "closing", "returned"}
    /\ \E to \in PCs \ {"sign", "save"} :
           /\ pc[c] \in Serving => to \in Serving \cup {"closing"}
           /\ Goto(c, to)
    /\ UNCHANGED <<primary, idle, maxHeight, proc, ctxDone, req, res, pvmu, lss,
                   file, released, forgot>>

\* c reports that it is disconnected.
Disconnects(c) ==
    /\ pc[c] \in {"dialing", "closing"}
    /\ Disconnected(c)
    /\ Goto(c, "wait")
    /\ UNCHANGED <<proc, ctxDone, req, res, pvmu, lss, file, released, forgot>>

Steps(c) ==
    \/ JustMoves(c) \/ Disconnects(c)
    \/ \E m \in SignBytes, valid \in BOOLEAN : Receive(c, m, valid)
    \/ PvRepeat(c) \/ PvSign(c) \/ PvSave(c) \/ Reply(c)

\* Every step of a client is one of seven kinds.
LEMMA ClientSteps ==
    ASSUME NEW c \in Clients, Client(c)
    PROVE  Steps(c)
<1>. USE DEF JustMoves, Serving, PCs, arbiterVars, pvVars, Goto
<1>1. CASE StopAtTop(c) \/ BeginDial(c) \/ DialOk(c)
  BY <1>1 DEF StopAtTop, BeginDial, DialOk, Steps
<1>2. CASE ReadFails(c) \/ ReceivePing(c) \/ ReceivePubKeyRequest(c)
  BY <1>2 DEF ReadFails, ReceivePing, ReceivePubKeyRequest, Steps
<1>3. CASE GetPubKey(c) \/ PvRefuse(c) \/ WaitEnds(c)
  BY <1>3 DEF GetPubKey, PvRefuse, WaitEnds, Steps
<1>4. CASE DialFails(c) \/ Closed(c)
  BY <1>4 DEF DialFails, Closed, Disconnects, Steps
<1>. QED
  BY <1>1, <1>2, <1>3, <1>4 DEF Client, Steps

--------------------------------------------------------------------------------
(* The invariant is inductive *)

\* Initially nothing has been signed and nobody runs.
LEMMA InvInit == Init => IInv
<1>. SUFFICES ASSUME Init PROVE IInv
  OBVIOUS
<1>1. ArbiterTypeOK
  BY IdsAssumption, TimeoutAssumption DEF Init, ArbiterInit, ArbiterTypeOK
<1>2. TypeOK
  BY <1>1 DEF Init, TypeOK, PCs, SignStates
<1>3. Out = {}
  BY DEF Init, Out
<1>4. LockInv /\ DownInv /\ RequestInv /\ StateInv
  BY NoSignatureAssumption
     DEF Init, ArbiterInit, LockInv, DownInv, RequestInv, StateInv
<1>5. ReleasedIsDurable /\ UniqueInv /\ RoleInv
  BY <1>3 DEF Init, ArbiterInit, ReleasedIsDurable, UniqueInv, RoleInv,
              PrimaryIsConnected
<1>. QED
  BY <1>2, <1>4, <1>5 DEF IInv

\* Acquire keeps the arbiter's types.
LEMMA AcquireType ==
    ASSUME ArbiterTypeOK, NEW id \in Ids, NEW h \in Nat, NEW granted \in BOOLEAN,
           Acquire(id, h, granted)
    PROVE  ArbiterTypeOK'
BY TimeoutAssumption DEF ArbiterTypeOK, Acquire

\* So does Release.
LEMMA ReleaseType ==
    ASSUME ArbiterTypeOK, NEW id \in Ids, Release(id)
    PROVE  ArbiterTypeOK'
BY TimeoutAssumption DEF ArbiterTypeOK, Release

\* A client that only moves on preserves the invariant.
LEMMA JustMovesInv ==
    ASSUME IInv, NEW c \in Clients, JustMoves(c)
    PROVE  IInv'
<1>. USE DEF IInv, JustMoves, Goto
<1>0. Out' \subseteq Out
  BY NoSignatureAssumption DEF Out, TypeOK, RequestInv
<1>1. TypeOK'
  BY DEF TypeOK, ArbiterTypeOK, PCs, Serving
<1>2. LockInv'
  BY DEF LockInv, TypeOK
<1>3. DownInv'
  BY DEF DownInv, TypeOK
<1>4. RequestInv'
  BY DEF RequestInv, TypeOK
<1>5. StateInv'
  BY DEF StateInv
<1>6. ReleasedIsDurable'
  BY <1>0 DEF ReleasedIsDurable
<1>7. UniqueInv'
  BY <1>0 DEF UniqueInv
<1>8. RoleInv'
  BY DEF RoleInv, PrimaryIsConnected, Serving, TypeOK
<1>. QED
  BY <1>1, <1>2, <1>3, <1>4, <1>5, <1>6, <1>7, <1>8

\* A disconnecting client gives up the role.
LEMMA DisconnectsInv ==
    ASSUME IInv, NEW c \in Clients, Disconnects(c)
    PROVE  IInv'
<1>. USE DEF IInv, Disconnects, Disconnected, Goto, arbiterVars
<1>0. Out' \subseteq Out
  BY NoSignatureAssumption DEF Out, TypeOK, RequestInv
<1>1. TypeOK'
  <2>1. TargetOf[c] \in Ids
    BY TargetOfAssumption
  <2>2. ArbiterTypeOK'
    BY <2>1, ReleaseType DEF TypeOK, ArbiterTypeOK
  <2>. QED
    BY <2>2 DEF TypeOK, PCs
<1>2. LockInv'
  BY DEF LockInv, TypeOK
<1>3. DownInv'
  BY DEF DownInv, TypeOK, Release
<1>4. RequestInv'
  BY DEF RequestInv, TypeOK, Release
<1>5. StateInv'
  BY DEF StateInv
<1>6. ReleasedIsDurable'
  BY <1>0 DEF ReleasedIsDurable
<1>7. UniqueInv'
  BY <1>0 DEF UniqueInv
<1>8. RoleInv'
  BY DEF RoleInv, PrimaryIsConnected, Serving, TypeOK, Release
<1>. QED
  BY <1>1, <1>2, <1>3, <1>4, <1>5, <1>6, <1>7, <1>8

\* A request that is granted is within the heights granted.
LEMMA ReceiveInv ==
    ASSUME IInv, NEW c \in Clients, NEW m \in SignBytes,
           NEW valid \in BOOLEAN, Receive(c, m, valid)
    PROVE  IInv'
<1>. USE DEF IInv, Receive, Gate, Goto, arbiterVars, pvVars
<1>0. Out' \subseteq Out
  BY NoSignatureAssumption DEF Out, TypeOK, RequestInv
<1>1. TypeOK'
  <2>1. TargetOf[c] \in Ids /\ m.height \in Nat
    BY TargetOfAssumption, SignBytesAssumption
  <2>2. ArbiterTypeOK'
    BY <2>1, AcquireType DEF TypeOK, ArbiterTypeOK
  <2>. QED
    BY <2>2 DEF TypeOK, PCs, Serving
<1>2. LockInv'
  BY DEF LockInv, TypeOK
<1>3. DownInv'
  BY DEF DownInv, TypeOK
<1>4. RequestInv'
  <2>1. /\ maxHeight \in Nat /\ maxHeight' \in Nat /\ maxHeight <= maxHeight'
        /\ Election /\ pc'[c] = "sign" => m.height <= maxHeight'
    BY SignBytesAssumption DEF TypeOK, ArbiterTypeOK, Acquire
  <2>2. \A d \in Clients : d # c => pc'[d] = pc[d] /\ req'[d] = req[d]
    BY DEF TypeOK
  <2>3. \A d \in Clients : pc[d] = "sign" => req[d].height \in Nat
    BY SignBytesAssumption DEF RequestInv
  <2>4. req'[c] = m /\ pc'[c] \in {"sign", "reply"} /\ res'[c] = nil
    BY DEF TypeOK, RequestInv
  <2>. QED
    BY <2>1, <2>2, <2>3, <2>4 DEF RequestInv
<1>5. StateInv'
  BY DEF StateInv, TypeOK, LockInv
<1>6. ReleasedIsDurable'
  BY <1>0 DEF ReleasedIsDurable
<1>7. UniqueInv'
  BY <1>0 DEF UniqueInv
<1>8. RoleInv'
  BY DEF RoleInv, PrimaryIsConnected, Serving, TypeOK, Acquire
<1>. QED
  BY <1>1, <1>2, <1>3, <1>4, <1>5, <1>6, <1>7, <1>8

\* A repeated signature is the one the state file holds.
LEMMA PvRepeatInv ==
    ASSUME IInv, NEW c \in Clients, PvRepeat(c)
    PROVE  IInv'
<1>. USE DEF IInv, PvRepeat, Goto, arbiterVars, pvVars
<1>0. lss = file /\ lss \in SignBytes /\ Out' \subseteq Out \cup {file}
  <2>1. proc = "up" /\ lss = file
    BY DEF StateInv, DownInv, TypeOK
  <2>2. lss \in SignBytes
    BY SignStateFields DEF TypeOK, RequestInv, PvRepeats, SameHRS, SignStates,
       Fresh
  <2>. QED
    BY <2>1, <2>2 DEF Out, TypeOK
<1>1. TypeOK'
  BY <1>0 DEF TypeOK, ArbiterTypeOK, PCs, Serving
<1>2. LockInv'
  BY DEF LockInv, TypeOK
<1>3. DownInv'
  BY DEF DownInv, TypeOK
<1>4. RequestInv'
  BY DEF RequestInv, TypeOK
<1>5. StateInv'
  BY DEF StateInv
<1>6. ReleasedIsDurable'
  BY <1>0 DEF ReleasedIsDurable
<1>7. UniqueInv'
  <2>1. Out \subseteq SignStates
    BY DEF Out, TypeOK, SignStates
  <2>2. ~forgot => \A m \in Out : m = file \/ Before(m, file)
    BY <1>0, NoSignatureAssumption DEF ReleasedIsDurable, SignStates
  <2>3. ~forgot => \A m \in Out : SameHRS(m, file) \/ SameHRS(file, m) => m = file
    BY <1>0, <2>1, <2>2, BeforeDiffers DEF SignStates
  <2>. QED
    BY <1>0, <2>1, <2>2, <2>3 DEF UniqueInv
<1>8. RoleInv'
  BY DEF RoleInv, PrimaryIsConnected, Serving, TypeOK
<1>. QED
  BY <1>1, <1>2, <1>3, <1>4, <1>5, <1>6, <1>7, <1>8

\* Signing a new step takes the lock and moves memory ahead of the file.
LEMMA PvSignInv ==
    ASSUME IInv, NEW c \in Clients, PvSign(c)
    PROVE  IInv'
<1>. USE DEF IInv, PvSign, Goto, arbiterVars
<1>0. Out' \subseteq Out
  BY NoSignatureAssumption DEF Out, TypeOK, RequestInv
<1>1. TypeOK'
  BY DEF TypeOK, ArbiterTypeOK, PCs, Serving, RequestInv, SignStates
<1>2. LockInv'
  BY NoSignatureAssumption DEF LockInv, TypeOK
<1>3. DownInv'
  BY DEF DownInv, TypeOK
<1>4. RequestInv'
  BY DEF RequestInv, TypeOK
<1>5. StateInv'
  BY DEF StateInv, TypeOK, LockInv
<1>6. ReleasedIsDurable'
  BY <1>0 DEF ReleasedIsDurable
<1>7. UniqueInv'
  BY <1>0 DEF UniqueInv
<1>8. RoleInv'
  BY DEF RoleInv, PrimaryIsConnected, Serving, TypeOK
<1>. QED
  BY <1>1, <1>2, <1>3, <1>4, <1>5, <1>6, <1>7, <1>8

\* What is saved covers every signature that has left.
LEMMA PvSaveInv ==
    ASSUME IInv, NEW c \in Clients, PvSave(c)
    PROVE  IInv'
<1>. USE DEF IInv, PvSave, Goto, arbiterVars
<1>0. /\ proc = "up" /\ file \in SignStates /\ lss \in SignStates
      /\ lss = req[c] /\ Before(file, lss) /\ Out' \subseteq Out \cup {lss}
  <2>1. proc = "up" /\ pvmu = c
    BY DEF DownInv, LockInv, TypeOK
  <2>2. lss = req[c] /\ Before(file, lss) /\ file # nil
    BY <2>1, NoSignatureAssumption DEF StateInv
  <2>. QED
    BY <2>1, <2>2 DEF Out, TypeOK
<1>9. Out \subseteq SignStates
  BY DEF Out, TypeOK, SignStates
<1>1. TypeOK'
  BY DEF TypeOK, ArbiterTypeOK, PCs, Serving
<1>2. LockInv'
  BY NoSignatureAssumption DEF LockInv, TypeOK
<1>3. DownInv'
  BY DEF DownInv, TypeOK
<1>4. RequestInv'
  BY DEF RequestInv, TypeOK
<1>5. StateInv'
  BY NoSignatureAssumption DEF StateInv, TypeOK
<1>6. ReleasedIsDurable'
  <2>. SUFFICES ASSUME ~forgot, NEW m \in Out PROVE Before(m, lss)
    BY <1>0 DEF ReleasedIsDurable
  <2>1. m = file \/ Before(m, file)
    BY <1>0 DEF ReleasedIsDurable, DownInv, StateInv
  <2>. QED
    BY <1>0, <1>9, <2>1, BeforeTransitive
<1>7. UniqueInv'
  <2>. SUFFICES ASSUME ~forgot, NEW m \in Out
                PROVE  ~SameHRS(m, lss) /\ ~SameHRS(lss, m)
    BY <1>0 DEF UniqueInv
  <2>1. m = file \/ Before(m, file)
    BY <1>0, NoSignatureAssumption DEF ReleasedIsDurable
  <2>2. Before(m, lss)
    BY <1>0, <1>9, <2>1, BeforeTransitive
  <2>. QED
    BY <1>0, <1>9, <2>2, BeforeDiffers
<1>8. RoleInv'
  BY DEF RoleInv, PrimaryIsConnected, Serving, TypeOK
<1>. QED
  BY <1>1, <1>2, <1>3, <1>4, <1>5, <1>6, <1>7, <1>8

\* Sending a signature changes nothing about which ones are out.
LEMMA ReplyInv ==
    ASSUME IInv, NEW c \in Clients, Reply(c)
    PROVE  IInv'
<1>. USE DEF IInv, Reply, Sent, Goto, arbiterVars, pvVars
<1>0. Out' \subseteq Out
  BY NoSignatureAssumption DEF Out, TypeOK, RequestInv
<1>1. TypeOK'
  BY DEF TypeOK, ArbiterTypeOK, PCs, Serving
<1>2. LockInv'
  BY DEF LockInv, TypeOK
<1>3. DownInv'
  BY DEF DownInv, TypeOK
<1>4. RequestInv'
  BY DEF RequestInv, TypeOK
<1>5. StateInv'
  BY DEF StateInv, TypeOK, LockInv
<1>6. ReleasedIsDurable'
  BY <1>0 DEF ReleasedIsDurable
<1>7. UniqueInv'
  BY <1>0 DEF UniqueInv
<1>8. RoleInv'
  BY DEF RoleInv, PrimaryIsConnected, Serving, TypeOK
<1>. QED
  BY <1>1, <1>2, <1>3, <1>4, <1>5, <1>6, <1>7, <1>8

\* A start finds the state file, and memory agrees with it.
LEMMA StartInv ==
    ASSUME IInv, Start
    PROVE  IInv'
<1>. USE DEF IInv, Start, RequireStateFile, LoadCometFilePV, arbiterVars
<1>0. Out' \subseteq Out
  BY NoSignatureAssumption DEF Out, TypeOK, RequestInv
<1>1. TypeOK'
  BY DEF TypeOK, ArbiterTypeOK, PCs, Serving
<1>2. LockInv'
  BY DEF LockInv, DownInv
<1>3. DownInv'
  BY DEF DownInv
<1>4. RequestInv'
  BY DEF RequestInv, TypeOK, DownInv
<1>5. StateInv'
  BY DEF StateInv, DownInv, LockInv, TypeOK
<1>6. ReleasedIsDurable'
  BY <1>0 DEF ReleasedIsDurable
<1>7. UniqueInv'
  BY <1>0 DEF UniqueInv
<1>8. RoleInv'
  BY DEF RoleInv, PrimaryIsConnected, Serving, DownInv
<1>. QED
  BY <1>1, <1>2, <1>3, <1>4, <1>5, <1>6, <1>7, <1>8

\* A cancellation touches only the context.
LEMMA CancelInv ==
    ASSUME IInv, Cancel
    PROVE  IInv'
<1>. USE DEF IInv, Cancel, arbiterVars, clientVars, pvVars
<1>0. Out' \subseteq Out
  BY NoSignatureAssumption DEF Out, TypeOK, RequestInv
<1>1. TypeOK'
  BY DEF TypeOK, ArbiterTypeOK, PCs, Serving
<1>2. LockInv'
  BY DEF LockInv
<1>3. DownInv'
  BY DEF DownInv
<1>4. RequestInv'
  BY DEF RequestInv
<1>5. StateInv'
  BY DEF StateInv
<1>6. ReleasedIsDurable'
  BY <1>0 DEF ReleasedIsDurable
<1>7. UniqueInv'
  BY <1>0 DEF UniqueInv
<1>8. RoleInv'
  BY DEF RoleInv, PrimaryIsConnected, Serving
<1>. QED
  BY <1>1, <1>2, <1>3, <1>4, <1>5, <1>6, <1>7, <1>8

\* A daemon that stops, in order or not, leaves the state file.
LEMMA LoseMemoryInv ==
    ASSUME IInv, LoseMemory
    PROVE  IInv'
<1>. USE DEF IInv, LoseMemory
<1>0. Out' \subseteq Out
  BY NoSignatureAssumption DEF Out, TypeOK, RequestInv
<1>1. TypeOK'
  <2>1. ArbiterTypeOK'
    BY TimeoutAssumption DEF ArbiterTypeOK
  <2>. QED
    BY <2>1 DEF TypeOK, PCs, SignStates
<1>2. LockInv'
  BY NoSignatureAssumption DEF LockInv
<1>3. DownInv'
  BY DEF DownInv
<1>4. RequestInv'
  BY DEF RequestInv
<1>5. StateInv'
  BY DEF StateInv
<1>6. ReleasedIsDurable'
  BY <1>0 DEF ReleasedIsDurable
<1>7. UniqueInv'
  BY <1>0 DEF UniqueInv
<1>8. RoleInv'
  BY DEF RoleInv, PrimaryIsConnected, Serving
<1>. QED
  BY <1>1, <1>2, <1>3, <1>4, <1>5, <1>6, <1>7, <1>8

\* Losing the state file while the daemon is down breaks nothing yet.
LEMMA LoseStateInv ==
    ASSUME IInv, LoseState
    PROVE  IInv'
<1>. USE DEF IInv, LoseState, arbiterVars, clientVars
<1>0. Out' \subseteq Out
  BY NoSignatureAssumption DEF Out, TypeOK, RequestInv
<1>1. TypeOK'
  BY DEF TypeOK, ArbiterTypeOK, PCs, Serving
<1>2. LockInv'
  BY DEF LockInv
<1>3. DownInv'
  BY DEF DownInv
<1>4. RequestInv'
  BY DEF RequestInv
<1>5. StateInv'
  BY DEF StateInv
<1>6. ReleasedIsDurable'
  BY <1>0 DEF ReleasedIsDurable
<1>7. UniqueInv'
  BY <1>0 DEF UniqueInv
<1>8. RoleInv'
  BY DEF RoleInv, PrimaryIsConnected, Serving
<1>. QED
  BY <1>1, <1>2, <1>3, <1>4, <1>5, <1>6, <1>7, <1>8

\* init-state forgets, unless nothing has left.
LEMMA InitStateInv ==
    ASSUME IInv, InitState
    PROVE  IInv'
<1>. USE DEF IInv, InitState, arbiterVars, clientVars
<1>0. Out' \subseteq Out
  BY NoSignatureAssumption DEF Out, TypeOK, RequestInv
<1>1. TypeOK'
  BY DEF TypeOK, ArbiterTypeOK, PCs, Serving, SignStates
<1>2. LockInv'
  BY DEF LockInv
<1>3. DownInv'
  BY DEF DownInv
<1>4. RequestInv'
  BY DEF RequestInv
<1>5. StateInv'
  BY DEF StateInv
<1>6. ReleasedIsDurable'
  BY DEF ReleasedIsDurable, DownInv, Out
<1>7. UniqueInv'
  BY <1>0 DEF UniqueInv
<1>8. RoleInv'
  BY DEF RoleInv, PrimaryIsConnected, Serving
<1>. QED
  BY <1>1, <1>2, <1>3, <1>4, <1>5, <1>6, <1>7, <1>8

\* Time touches only the idle timer.
LEMMA TimePassesInv ==
    ASSUME IInv, TimePasses
    PROVE  IInv'
<1>. USE DEF IInv, TimePasses, Tick, clientVars, pvVars
<1>0. Out' \subseteq Out
  BY NoSignatureAssumption DEF Out, TypeOK, RequestInv
<1>1. TypeOK'
  BY TimeoutAssumption DEF TypeOK, ArbiterTypeOK
<1>2. LockInv'
  BY DEF LockInv
<1>3. DownInv'
  BY DEF DownInv
<1>4. RequestInv'
  BY DEF RequestInv
<1>5. StateInv'
  BY DEF StateInv
<1>6. ReleasedIsDurable'
  BY <1>0 DEF ReleasedIsDurable
<1>7. UniqueInv'
  BY <1>0 DEF UniqueInv
<1>8. RoleInv'
  BY DEF RoleInv, PrimaryIsConnected, Serving
<1>. QED
  BY <1>1, <1>2, <1>3, <1>4, <1>5, <1>6, <1>7, <1>8

\* A step that changes nothing preserves the invariant.
LEMMA StutterInv ==
    ASSUME IInv, UNCHANGED vars
    PROVE  IInv'
<1>. USE DEF IInv, vars
<1>0. Out' \subseteq Out
  BY NoSignatureAssumption DEF Out, TypeOK, RequestInv
<1>1. TypeOK'
  BY DEF TypeOK, ArbiterTypeOK, PCs, Serving
<1>2. LockInv'
  BY DEF LockInv
<1>3. DownInv'
  BY DEF DownInv
<1>4. RequestInv'
  BY DEF RequestInv
<1>5. StateInv'
  BY DEF StateInv
<1>6. ReleasedIsDurable'
  BY <1>0 DEF ReleasedIsDurable
<1>7. UniqueInv'
  BY <1>0 DEF UniqueInv
<1>8. RoleInv'
  BY DEF RoleInv, PrimaryIsConnected, Serving
<1>. QED
  BY <1>1, <1>2, <1>3, <1>4, <1>5, <1>6, <1>7, <1>8

\* Every step of the consensus plane preserves the invariant.
LEMMA InvStep == IInv /\ [Next]_vars => IInv'
<1>. SUFFICES ASSUME IInv, [Next]_vars PROVE IInv'
  OBVIOUS
<1>1. ASSUME NEW c \in Clients, Client(c) PROVE IInv'
  BY <1>1, ClientSteps, JustMovesInv, DisconnectsInv, ReceiveInv, PvRepeatInv,
     PvSignInv, PvSaveInv, ReplyInv DEF Steps
<1>2. CASE Exit \/ Crash
  BY <1>2, LoseMemoryInv DEF Exit, Crash
<1>. QED
  BY <1>1, <1>2, StartInv, CancelInv, LoseStateInv, InitStateInv, TimePassesInv,
     StutterInv DEF Next

\* The invariant always holds.
LEMMA Invariance == Spec => []IInv
BY InvInit, InvStep, PTL DEF Spec

--------------------------------------------------------------------------------
(* The theorems *)

\* The types are right.
THEOREM TypeCorrect == Spec => []TypeOK
<1>1. IInv => TypeOK
  BY DEF IInv
<1>. QED
  BY <1>1, Invariance, PTL

\* No two signatures that left the signer contradict each other, unless
\* init-state was run after one had left.
THEOREM NeverEquivocates == Spec => []NoEquivocation
<1>1. IInv => NoEquivocation
  BY DEF IInv, UniqueInv, NoEquivocation, Out
<1>. QED
  BY <1>1, Invariance, PTL

\* What has left the signer is covered by the state file.
THEOREM SavesBeforeSending == Spec => []ReleasedIsDurable
<1>1. IInv => ReleasedIsDurable
  BY DEF IInv
<1>. QED
  BY <1>1, Invariance, PTL

\* The primary is connected.
THEOREM RoleFollowsConnections == Spec => []PrimaryIsConnected
<1>1. IInv => PrimaryIsConnected
  BY DEF IInv, RoleInv
<1>. QED
  BY <1>1, Invariance, PTL

\* FilePV signs nothing above the heights the arbiter has granted.
THEOREM SignsWithinGrants == Spec => SignedWithinGranted
<1>. DEFINE Within == Election /\ lss' # lss /\ proc = "up" /\ proc' = "up" =>
                          lss'.height <= maxHeight
<1>1. IInv /\ [Next]_vars => [Within]_vars
  <2>. SUFFICES ASSUME IInv, Next, Election, lss' # lss, proc = "up", proc' = "up"
                PROVE  lss'.height <= maxHeight
    OBVIOUS
  <2>1. PICK c \in Clients : Client(c)
    BY DEF Next, Start, Cancel, Exit, Crash, LoseMemory, LoseState, InitState,
           TimePasses, pvVars
  <2>2. PvSign(c)
    BY <2>1, ClientSteps DEF Steps, JustMoves, Disconnects, Receive, PvRepeat,
                             PvSave, Reply, pvVars
  <2>. QED
    BY <2>2 DEF PvSign, IInv, RequestInv
<1>. QED
  BY <1>1, Invariance, PTL DEF Spec, SignedWithinGranted

\* When no target is listed twice, the role is cleared only when the target that
\* held it has no connection in use (RunDialClient, Release).
THEOREM ClearsOnlyUnusable ==
    ASSUME \A c, d \in Clients : TargetOf[c] = TargetOf[d] => c = d
    PROVE  Spec => ClearedWhenUnusable
<1>. DEFINE Unusable == primary # NoPrimary /\ primary' = NoPrimary /\ proc' = "up" =>
                            \A c \in Clients : TargetOf[c] = primary => pc'[c] \notin Serving
<1>1. IInv /\ [Next]_vars => [Unusable]_vars
  <2>. SUFFICES ASSUME IInv, Next, primary # NoPrimary, primary' = NoPrimary,
                       proc' = "up", NEW c \in Clients, TargetOf[c] = primary
                PROVE  pc'[c] \notin Serving
    OBVIOUS
  <2>1. PICK d \in Clients : Client(d)
    BY DEF Next, Start, Cancel, Exit, Crash, LoseMemory, LoseState, InitState,
           TimePasses, Tick, arbiterVars
  <2>2. TargetOf[d] \in Ids /\ NoPrimary \notin Ids
    BY TargetOfAssumption, IdsAssumption
  <2>3. Disconnects(d)
    BY <2>1, <2>2, ClientSteps DEF Steps, JustMoves, Receive, Gate, Acquire, PvRepeat,
       PvSign, PvSave, Reply, arbiterVars
  <2>4. TargetOf[d] = primary
    BY <2>3 DEF Disconnects, Disconnected, Release, arbiterVars
  <2>5. c = d
    BY <2>4
  <2>. QED
    BY <2>3, <2>5 DEF Disconnects, Goto, Serving, IInv, TypeOK
<1>. QED
  BY <1>1, Invariance, PTL DEF Spec, ClearedWhenUnusable

\* The consensus plane implements VoteLedger: a reply releases a signature that
\* contradicts none before it, and only init-state forgets.
THEOREM Refinement == Spec => ImplementsLedger
<1>1. Init => Ledger!Init
  BY DEF Init, Ledger!Init
<1>2. IInv /\ [Next]_vars => [Ledger!Next]_<<released, forgot>>
  <2>. SUFFICES ASSUME IInv, [Next]_vars, ~UNCHANGED <<released, forgot>>
                PROVE  Ledger!Next
    OBVIOUS
  <2>1. CASE InitState
    <3>1. forgot' = TRUE /\ released' = released
      BY <2>1 DEF InitState, IInv, TypeOK
    <3>. QED
      BY <3>1 DEF Ledger!Next, Ledger!Forget
  <2>2. CASE \E c \in Clients : Reply(c)
    <3>. PICK c \in Clients : Reply(c)
      BY <2>2
    <3>1. res[c] # nil /\ released' = released \cup {res[c]} /\ forgot' = forgot
      BY DEF Reply, Sent
    <3>2. res[c] \in SignBytes /\ res[c] \in Out /\ released \subseteq Out
      BY <3>1 DEF IInv, TypeOK, Out
    <3>3. forgot \/ \A s \in released : Ledger!SamePosition(s, res[c]) => s = res[c]
      BY <3>2 DEF IInv, UniqueInv, SameHRS, Ledger!SamePosition
    <3>. QED
      BY <3>1, <3>2, <3>3 DEF Ledger!Next, Ledger!Release
  <2>3. ASSUME NEW c \in Clients, Client(c) PROVE Reply(c)
    BY <2>3, ClientSteps DEF Steps, JustMoves, Disconnects, Receive, PvRepeat,
                             PvSign, PvSave
  <2>. QED
    BY <2>1, <2>2, <2>3 DEF Next, Start, Cancel, Exit, Crash, LoseMemory,
                            LoseState, TimePasses, vars
<1>. QED
  BY <1>1, <1>2, Invariance, PTL DEF Spec, ImplementsLedger, Ledger!Spec
================================================================================
