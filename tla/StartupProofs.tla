----------------------------- MODULE StartupProofs -----------------------------
(***************************************************************************)
(* Proofs about the files the signer creates before it runs and about its  *)
(* run: AtomicNewFile for any number of writers; Bootstrap for any number  *)
(* of init-state commands and of successive daemons; and DaemonLifecycle   *)
(* for any number of dial clients, gRPC calls and signals.  The three have *)
(* no state in common.                                                     *)
(***************************************************************************)
EXTENDS AtomicNewFile, Bootstrap, DaemonLifecycle, TLAPS

--------------------------------------------------------------------------------
(* The inductive invariant *)

\* What is in memory is one of the outcomes of a power loss, and the path's
\* entry is on its way to the disk: besides it only its absence can come back.
DiskInv ==
    /\ \A w \in Writer : data[w] \in onDisk[w]
    /\ path \in entries
    /\ entries \subseteq {None, path}

\* Whatever the path is linked to was written and synced whole before.
WholeInv ==
    \A w \in Writer :
        /\ pc[w] = "written" => data[w] = "whole"
        /\ pc[w] \in {"synced", "linked", "finishing", "ok"} \/ w = path =>
              data[w] = "whole" /\ onDisk[w] = {"whole"}

\* A writer is linked to the path only after the sync of its temp file, and a
\* writer that is about to succeed is linked durably.
LinkInv ==
    \A w \in Writer :
        /\ w = path => pc[w] \notin {"idle", "created", "written", "synced"}
        /\ pc[w] \in {"linked", "finishing", "ok"} => path = w
        /\ pc[w] \in {"finishing", "ok"} => entries = {w}

\* The inductive invariant of AtomicNewFile.
IInv == TypeOK /\ DiskInv /\ WholeInv /\ LinkInv /\ TempsAreRemoved

--------------------------------------------------------------------------------
(* Steps *)

\* Steps of WriteNewFileAtomic before the link, and failures, touch nothing the
\* path is linked to.
LEMMA PrivateSteps ==
    ASSUME IInv, NEW v \in Writer,
           \/ ExportFails(v) \/ CreateTemp(v) \/ Write(v) \/ SyncTemp(v)
           \/ LinkFails(v) \/ Return(v) \/ ProcessDies(v)
    PROVE  IInv'
<1> USE NoneAssumption DEF IInv, Goto
<1>1. TypeOK'
  BY DEF TypeOK, Running, Returned, Content, ExportFails, CreateTemp, Write,
     SyncTemp, LinkFails, Return, ProcessDies
<1>2. path' = path /\ entries' = entries
  BY DEF ExportFails, CreateTemp, Write, SyncTemp, LinkFails, Return, ProcessDies
<1>3. DiskInv'
  BY <1>2 DEF TypeOK, DiskInv, Content, ExportFails, CreateTemp, Write,
     SyncTemp, LinkFails, Return, ProcessDies
<1>4. WholeInv'
  <2>1. CASE ExportFails(v) \/ CreateTemp(v) \/ LinkFails(v)
    BY <1>2, <2>1 DEF TypeOK, WholeInv, ExportFails, CreateTemp, LinkFails
  <2>2. CASE Write(v)
    BY <1>2, <2>2 DEF TypeOK, WholeInv, LinkInv, Write
  <2>3. CASE SyncTemp(v)
    BY <1>2, <2>3 DEF TypeOK, WholeInv, LinkInv, SyncTemp
  <2>4. CASE Return(v) \/ ProcessDies(v)
    BY <1>2, <2>4 DEF TypeOK, WholeInv, Return, ProcessDies
  <2>5. QED
    BY <2>1, <2>2, <2>3, <2>4
<1>5. LinkInv'
  BY <1>2 DEF TypeOK, LinkInv, ExportFails, CreateTemp, Write,
     SyncTemp, LinkFails, Return, ProcessDies, Running
<1>6. TempsAreRemoved'
  BY DEF TypeOK, TempsAreRemoved, ExportFails, CreateTemp, Write,
     SyncTemp, LinkFails, Return, ProcessDies
<1>7. QED
  BY <1>1, <1>3, <1>4, <1>5, <1>6

\* The link and the sync of the directory: the path goes from nothing to a file
\* that was synced whole, and stays there.
LEMMA PublicSteps ==
    ASSUME IInv, NEW v \in Writer, Link(v) \/ syncDir(v)
    PROVE  IInv'
<1> USE NoneAssumption DEF IInv, Goto
<1>1. TypeOK'
  BY DEF TypeOK, Running, Returned, Link, syncDir
<1>2. DiskInv'
  BY DEF TypeOK, DiskInv, Link, syncDir
<1>3. WholeInv'
  BY DEF TypeOK, WholeInv, Link, syncDir
<1>4. LinkInv'
  BY DEF TypeOK, DiskInv, LinkInv, Link, syncDir
<1>5. TempsAreRemoved'
  BY DEF TypeOK, TempsAreRemoved, Link, syncDir
<1>6. QED
  BY <1>1, <1>2, <1>3, <1>4, <1>5

\* A power loss takes back at most what nobody was promised.
LEMMA PowerLossStep ==
    ASSUME IInv, PowerLoss
    PROVE  IInv'
<1> USE NoneAssumption DEF IInv
<1>1. path' = path \/ path' = None
  BY DEF DiskInv, PowerLoss
<1>2. TypeOK'
  BY <1>1 DEF TypeOK, Running, Returned, PowerLoss
<1>3. DiskInv'
  BY DEF TypeOK, DiskInv, PowerLoss
<1>4. WholeInv'
  BY <1>1 DEF TypeOK, WholeInv, PowerLoss, Returned
<1>5. LinkInv'
  BY <1>1 DEF TypeOK, LinkInv, PowerLoss, Returned
<1>6. TempsAreRemoved'
  BY DEF TypeOK, TempsAreRemoved, PowerLoss, Returned
<1>7. QED
  BY <1>2, <1>3, <1>4, <1>5, <1>6

\* Every reachable state satisfies the invariant.
THEOREM Invariance == Spec => []IInv
<1>1. Init => IInv
  BY NoneAssumption DEF Init, IInv, TypeOK, DiskInv, WholeInv, LinkInv,
     TempsAreRemoved, Running, Returned, Content
<1>2. IInv /\ [Next]_vars => IInv'
  <2>1. CASE UNCHANGED vars
    BY <2>1 DEF vars, IInv, TypeOK, DiskInv, WholeInv, LinkInv, TempsAreRemoved
  <2>2. QED
    BY <2>1, PrivateSteps, PublicSteps, PowerLossStep DEF Next, Step
<1>3. QED
  BY <1>1, <1>2, PTL DEF Spec

--------------------------------------------------------------------------------
(* Results *)

\* For any number of writers, failing system calls, deaths and power losses: a
\* success that WriteNewFileAtomic reported is on disk and stays there.
THEOREM DurableSuccess == Spec => []SuccessIsDurable
<1>1. IInv => SuccessIsDurable
  BY DEF IInv, WholeInv, LinkInv, SuccessIsDurable
<1>2. QED
  BY <1>1, Invariance, PTL

\* For any number of writers: no return of WriteNewFileAtomic leaves a temp file
\* behind, unless the power fails before the removal is on disk.
THEOREM NoTempLeft == Spec => []TempsAreRemoved
<1>1. IInv => TempsAreRemoved
  BY DEF IInv
<1>2. QED
  BY <1>1, Invariance, PTL

\* WriteNewFileAtomic implements WriteOnceFile: the link is an Appear step, the
\* successful return a Promise step, a power loss before any promise at most a
\* Vanish step, and every other step changes nothing a reader of the path sees.
THEOREM Refinement == Spec => ImplementsWriteOnce
<1> DEFINE file == IF path = None \/ data[path] = "whole" THEN path ELSE Torn
           promised == {w \in Writer : pc[w] = "ok"}
<1>1. Init => Ledger!Init
  BY DEF Init, Ledger!Init
<1>2. ASSUME IInv, [Next]_vars
      PROVE  [Ledger!Next]_<<file, promised>>
  <2> USE NoneAssumption
  <2>1. IInv'
    BY <1>2, PrivateSteps, PublicSteps, PowerLossStep
       DEF Next, Step, vars, IInv, TypeOK, DiskInv, WholeInv, LinkInv, TempsAreRemoved
  <2>2. file = path /\ file' = path'
    BY <1>2, <2>1 DEF IInv, TypeOK, WholeInv
  <2> HIDE DEF file
  <2>3. ASSUME NEW v \in Writer,
               \/ ExportFails(v) \/ CreateTemp(v) \/ Write(v) \/ SyncTemp(v)
               \/ LinkFails(v) \/ ProcessDies(v) \/ syncDir(v)
        PROVE  UNCHANGED <<file, promised>>
    <3>1. path' = path
      BY <2>3 DEF ExportFails, CreateTemp, Write, SyncTemp, LinkFails,
         ProcessDies, syncDir
    <3>2. \A w \in Writer : pc'[w] = "ok" <=> pc[w] = "ok"
      BY <1>2, <2>3 DEF IInv, TypeOK, Goto, Running, ExportFails, CreateTemp, Write,
         SyncTemp, LinkFails, ProcessDies, syncDir
    <3>3. QED
      BY <2>2, <3>1, <3>2
  <2>4. ASSUME NEW v \in Writer, Link(v)
        PROVE  Ledger!Appear(v)
    <3>1. path = None /\ path' = v
      BY <2>4 DEF Link
    <3>2. \A w \in Writer : pc'[w] = "ok" <=> pc[w] = "ok"
      BY <1>2, <2>4 DEF IInv, TypeOK, Goto, Link
    <3>3. QED
      BY <2>2, <3>1, <3>2 DEF Ledger!Appear, file
  <2>5. ASSUME NEW v \in Writer, Return(v)
        PROVE  Ledger!Promise(v) \/ UNCHANGED <<file, promised>>
    <3>1. path' = path
      BY <2>5 DEF Return
    <3>2. CASE pc[v] = "failing"
      <4>1. \A w \in Writer : pc'[w] = "ok" <=> pc[w] = "ok"
        BY <1>2, <2>5, <3>2 DEF IInv, TypeOK, Goto, Return
      <4>2. QED
        BY <2>2, <3>1, <4>1
    <3>3. CASE pc[v] = "finishing"
      <4>1. path = v
        BY <1>2, <3>3 DEF IInv, LinkInv
      <4>2. promised' = promised \cup {v}
        BY <1>2, <2>5, <3>3 DEF IInv, TypeOK, Goto, Return
      <4>3. QED
        BY <2>2, <3>1, <4>1, <4>2 DEF Ledger!Promise, file
    <3>4. QED
      BY <2>5, <3>2, <3>3 DEF Return
  <2>6. CASE PowerLoss
    <3>1. promised' = promised
      BY <2>6 DEF PowerLoss, Returned
    <3>2. path' = path \/ path' = None
      BY <1>2, <2>6 DEF IInv, DiskInv, PowerLoss
    <3>3. promised # {} => path' = path
      BY <1>2, <2>6 DEF IInv, LinkInv, PowerLoss
    <3>4. QED
      BY <2>2, <3>1, <3>2, <3>3 DEF Ledger!Next, Ledger!Vanish, file
  <2>7. CASE UNCHANGED vars
    BY <2>2, <2>7 DEF vars
  <2>8. QED
    BY <1>2, <2>3, <2>4, <2>5, <2>6, <2>7, SMTT(20) DEF Next, Step, Ledger!Next
<1>3. QED
  BY <1>1, <1>2, Invariance, PTL DEF Spec, ImplementsWriteOnce, Ledger!Spec

--------------------------------------------------------------------------------
(* Bootstrap: the connection key *)

\* One daemon runs at a time; what it has seen of the key file, and the key it
\* holds, agree with what is on file.
KeyInv ==
    /\ \A q, r \in Run :
          run[q] \notin {"idle", "down"} /\ run[r] \notin {"idle", "down"} => q = r
    /\ \A r \in Run :
          /\ run[r] = "generate" => key = None
          /\ run[r] = "open" => key = Torn
          /\ run[r] \in {"keyed", "up"} => key = pk[r] /\ pk[r] \in Run

\* The invariant behind OneIdentity.
IdentityInv == BootTypeOK /\ KeyInv /\ OneIdentity

\* init-state does not touch the key file.
LEMMA InitKeepsIdentity ==
    ASSUME IdentityInv, NEW c \in Command,
           InitBegin(c) \/ InitOpen(c) \/ InitWrite(c) \/ InitDies(c)
    PROVE  IdentityInv'
<1>1. BootTypeOK'
  BY DEF IdentityInv, BootTypeOK, StateContent, InitBegin, InitOpen,
     InitWrite, InitDies
<1>2. UNCHANGED <<key, run, pk, used>>
  BY DEF InitBegin, InitOpen, InitWrite, InitDies
<1>3. QED
  BY <1>1, <1>2 DEF IdentityInv, KeyInv, OneIdentity

\* A run of the daemon writes the key file only while nobody has used a key.
LEMMA RunKeepsIdentity ==
    ASSUME IdentityInv, NEW r \in Run,
           \/ GenOrLoadConnKey(r) \/ OpenKeyFile(r) \/ WriteKey(r)
           \/ LoadState(r) \/ SignAndSave(r) \/ Stops(r)
    PROVE  IdentityInv'
<1> USE ContentAssumption DEF IdentityInv
<1>1. BootTypeOK'
  BY DEF BootTypeOK, StateContent, KeyInv, GenOrLoadConnKey,
     OpenKeyFile, WriteKey, LoadState, SignAndSave, Stops
<1>2. KeyInv'
  <2>1. CASE GenOrLoadConnKey(r)
    BY <2>1 DEF BootTypeOK, KeyInv, GenOrLoadConnKey
  <2>2. CASE OpenKeyFile(r)
    BY <2>2 DEF BootTypeOK, KeyInv, OpenKeyFile
  <2>3. CASE WriteKey(r)
    BY <2>3 DEF BootTypeOK, KeyInv, WriteKey
  <2>4. CASE LoadState(r) \/ SignAndSave(r) \/ Stops(r)
    BY <2>4 DEF BootTypeOK, KeyInv, LoadState, SignAndSave, Stops
  <2>5. QED
    BY <2>1, <2>2, <2>3, <2>4
<1>3. OneIdentity'
  BY DEF BootTypeOK, KeyInv, OneIdentity, GenOrLoadConnKey,
     OpenKeyFile, WriteKey, LoadState, SignAndSave, Stops
<1>4. QED
  BY <1>1, <1>2, <1>3

\* Before the first run there is neither a key nor anybody who used one.
LEMMA InitialIdentity == BootInit => IdentityInv
BY DEF BootInit, IdentityInv, BootTypeOK, StateContent, KeyInv, OneIdentity

\* Every step keeps the invariant.
LEMMA IdentityStep ==
    ASSUME IdentityInv, [BootNext]_bootVars
    PROVE  IdentityInv'
<1>1. CASE UNCHANGED bootVars
  BY <1>1 DEF bootVars, IdentityInv, BootTypeOK, KeyInv, OneIdentity
<1>2. QED
  BY <1>1, InitKeepsIdentity, RunKeepsIdentity DEF BootNext

\* For any number of runs, each of which may die at any point of writing the
\* connection key: all that ever dialled a node used the same key.
THEOREM IdentityIsStable == BootSpec => []OneIdentity
<1>1. IdentityInv => OneIdentity
  BY DEF IdentityInv
<1>2. QED
  BY <1>1, InitialIdentity, IdentityStep, PTL DEF BootSpec

(* Bootstrap: the last-sign state *)

\* No init-state command is between its os.Stat and the end of its os.WriteFile,
\* and the state file, which a daemon has saved, stays: a command that begins now
\* finds it, and runs of the daemon only save it again.
LEMMA SettledStep ==
    ASSUME BootTypeOK, SignedAndSettled, [BootNext]_bootVars
    PROVE  SignedAndSettled'
<1> USE ContentAssumption DEF SignedAndSettled
<1>1. ASSUME NEW c \in Command, InitBegin(c)
      PROVE  SignedAndSettled'
  <2>1. cmd' = [cmd EXCEPT ![c] = "done"] /\ state' = state
    BY <1>1 DEF InitBegin
  <2>2. QED
    BY <2>1 DEF BootTypeOK
<1>2. ASSUME NEW c \in Command, InitOpen(c) \/ InitWrite(c) \/ InitDies(c)
      PROVE  FALSE
  BY <1>2 DEF InitOpen, InitWrite, InitDies
<1>3. ASSUME NEW r \in Run,
             \/ GenOrLoadConnKey(r) \/ OpenKeyFile(r) \/ WriteKey(r)
             \/ LoadState(r) \/ SignAndSave(r) \/ Stops(r)
      PROVE  SignedAndSettled'
  BY <1>3 DEF GenOrLoadConnKey, OpenKeyFile, WriteKey, LoadState, SignAndSave, Stops
<1>4. CASE UNCHANGED bootVars
  BY <1>4 DEF bootVars
<1>5. QED
  BY <1>1, <1>2, <1>3, <1>4 DEF BootNext

\* For any number of init-state commands, overlapping as they please, and of runs:
\* once the daemon has signed and no command is half-way, no command ever again
\* replaces the state that it signed with.
THEOREM SignedStateIsKept == BootSpec => SettledStateIsKept
<1>1. BootSpec => []BootTypeOK
  <2>1. IdentityInv => BootTypeOK
    BY DEF IdentityInv
  <2>2. QED
    BY <2>1, InitialIdentity, IdentityStep, PTL DEF BootSpec
<1>2. BootTypeOK /\ SignedAndSettled /\ [BootNext]_bootVars => SignedAndSettled'
  BY SettledStep
<1>3. SignedAndSettled => state = "signed"
  BY DEF SignedAndSettled
<1>4. QED
  BY <1>1, <1>2, <1>3, PTL DEF BootSpec, SettledStateIsKept

--------------------------------------------------------------------------------
(* DaemonLifecycle *)

\* The phases before the servers start.
Early == {"loading", "initializing", "starting", "building"}

\* Nothing is served before the servers start, and they are stopped in one phase
\* only, after the dial clients have returned and before the daemon exits.
StopInv ==
    /\ phase \in Early =>
          /\ calls = {} /\ serve["grpc"] = "no"
          /\ reason = "none"
    /\ stop["grpc"] # "no" => phase \in {"stopping", "exited"} /\ running = {}
    /\ phase = "stopping" => stop["grpc"] # "no"
    /\ stop["grpc"] = "stopped" => calls = {}

\* Whoever learns of a signal does so after one was sent, and the shutdown has
\* one or a failure for its reason.
CauseInv ==
    /\ sigCh > 0 \/ initSigCh > 0 \/ initCtx => sent > 0
    /\ phase \in {"waiting", "stopping"} => sent > 0 \/ reason # "none"

\* The inductive invariant of DaemonLifecycle.
DaemonInv ==
    /\ DaemonTypeOK /\ StopInv /\ CauseInv
    /\ ExitInterruptsNothing /\ FailureIsReported

\* Signals and what the goroutines beside runDaemon's do, calls excepted.
LEMMA SignalSteps ==
    ASSUME DaemonInv, Signal \/ CancelInit \/ TimerExpires
    PROVE  DaemonInv'
<1> USE DEF DaemonInv, SigChCap, InitSigChCap, Ended
<1>1. CASE Signal
  <2>1. ctxDone' \in BOOLEAN
    BY <1>1, Zenon DEF DaemonTypeOK, Signal
  <2>2. /\ sent' \in 0..MaxSignals /\ sent' > 0
        /\ sigCh' \in 0..2 /\ initSigCh' \in 0..1
    BY <1>1, MaxSignalsAssumption DEF DaemonTypeOK, Signal, Deliver, Buffered
  <2>3. UNCHANGED <<initCtx, running, serve, stop, errCh, calls, timeout, reason, result>>
    BY <1>1, Zenon DEF Signal
  <2>4. phase' = phase \/ (phase = "loading" /\ phase' = "killed")
    BY <1>1, Zenon DEF Signal
  <2>5. DaemonTypeOK'
    BY <2>1, <2>2, <2>3, <2>4 DEF DaemonTypeOK, Phases
  <2>6. StopInv'
    BY <2>3, <2>4 DEF StopInv, Early
  <2>7. CauseInv' /\ ExitInterruptsNothing' /\ FailureIsReported'
    BY <1>1, <2>2, <2>3, <2>4 DEF CauseInv, StopInv, ExitInterruptsNothing,
        FailureIsReported,
       Signal
  <2>8. QED
    BY <2>5, <2>6, <2>7
<1>2. CASE CancelInit
  BY <1>2 DEF DaemonTypeOK, Phases, Server, StopInv, Early, CauseInv,
     ExitInterruptsNothing, FailureIsReported, CancelInit
<1>3. CASE TimerExpires
  BY <1>3 DEF DaemonTypeOK, Phases, Server, StopInv, Early, CauseInv,
     ExitInterruptsNothing, FailureIsReported, TimerExpires
<1>4. QED
  BY <1>1, <1>2, <1>3

\* Start-up up to the point where the servers start.
LEMMA StartSteps ==
    ASSUME DaemonInv,
           \/ LoadFails \/ Load \/ NewSignerOk \/ NewSignerFails \/ SetUpFails
           \/ StartConsensus \/ ServerSetUpFails \/ StartServers
    PROVE  DaemonInv'
<1> USE DEF DaemonInv, Exit
<1>1. DaemonTypeOK'
  BY ZenonT(30) DEF DaemonTypeOK, Phases, Server, LoadFails, Load,
     NewSignerOk, NewSignerFails, SetUpFails, StartConsensus,
     ServerSetUpFails, StartServers
<1>2. StopInv'
  BY DEF DaemonTypeOK, Server, StopInv, Early, LoadFails, Load,
     NewSignerOk, NewSignerFails, SetUpFails, StartConsensus,
     ServerSetUpFails, StartServers
<1>3. CauseInv'
  BY DEF CauseInv, LoadFails, Load, NewSignerOk, NewSignerFails,
     SetUpFails, StartConsensus, ServerSetUpFails, StartServers
<1>4. ExitInterruptsNothing'
  BY DEF StopInv, Early, ExitInterruptsNothing, LoadFails, Load,
     NewSignerOk, NewSignerFails, SetUpFails, StartConsensus,
     ServerSetUpFails, StartServers
<1>5. FailureIsReported'
  BY DEF DaemonTypeOK, StopInv, Early, CauseInv, FailureIsReported,
     LoadFails, Load, NewSignerOk, NewSignerFails,
     SetUpFails, StartConsensus, ServerSetUpFails, StartServers
<1>6. QED
  BY <1>1, <1>2, <1>3, <1>4, <1>5

\* The dial clients, the servers and their calls.
LEMMA ServingSteps ==
    ASSUME DaemonInv,
           \/ \E c \in Clients : ClientReturns(c)
           \/ \E s \in Server : Listen(s) \/ ServeFails(s)
           \/ \E c \in Calls : CallBegins(c) \/ CallEnds(c)
           \/ GracefulStop \/ HealthStop
    PROVE  DaemonInv'
<1> USE DEF DaemonInv, Ended
<1>1. DaemonTypeOK'
  <2>1. UNCHANGED <<phase, sent, sigCh, initSigCh, initCtx, ctxDone, timeout,
                    reason, result>>
    BY DEF ClientReturns, Listen, ServeFails, CallBegins,
       CallEnds, GracefulStop, HealthStop
  <2>2. running' \subseteq Clients /\ errCh' \subseteq Server /\ calls' \subseteq Calls
    BY DEF DaemonTypeOK, ClientReturns, Listen, ServeFails,
       CallBegins, CallEnds, GracefulStop, HealthStop
  <2>3. serve' \in [Server -> {"no", "starting", "serving", "returned"}]
    BY DEF DaemonTypeOK, Server, ClientReturns, Listen, ServeFails,
       CallBegins, CallEnds, GracefulStop, HealthStop
  <2>4. stop' \in [Server -> {"no", "stopping", "stopped"}]
    BY DEF DaemonTypeOK, Server, ClientReturns, Listen, ServeFails,
       CallBegins, CallEnds, GracefulStop, HealthStop
  <2>5. QED
    BY <2>1, <2>2, <2>3, <2>4 DEF DaemonTypeOK
<1>2. StopInv'
  BY DEF DaemonTypeOK, Server, StopInv, Early, ClientReturns, Listen,
     ServeFails, CallBegins, CallEnds, GracefulStop,
     HealthStop
<1>3. UNCHANGED <<phase, sent, sigCh, initSigCh, initCtx, reason, result, timeout>>
  BY DEF ClientReturns, Listen, ServeFails, CallBegins,
     CallEnds, GracefulStop, HealthStop
<1>4. CauseInv' /\ FailureIsReported'
  BY <1>3 DEF CauseInv, FailureIsReported
<1>5. phase # "exited"
  BY DEF ClientReturns, Listen, ServeFails, CallBegins,
     CallEnds, GracefulStop, HealthStop
<1>6. ExitInterruptsNothing'
  BY <1>2, <1>3, <1>5 DEF StopInv, ExitInterruptsNothing
<1>7. QED
  BY <1>1, <1>2, <1>4, <1>6

\* From the wait in runDaemon to its return.
LEMMA ShutdownSteps ==
    ASSUME DaemonInv,
           \/ ReceiveSignal \/ \E s \in Server : ReceiveExit(s)
           \/ StopServers \/ ShutdownEnds \/ SecondSignal
    PROVE  DaemonInv'
<1> USE DEF DaemonInv, Exit
<1>1. DaemonTypeOK'
  <2>1. ctxDone' \in BOOLEAN
    BY ZenonT(30) DEF DaemonTypeOK, ReceiveSignal, ReceiveExit, StopServers,
       ShutdownEnds, SecondSignal
  <2>2. UNCHANGED <<sent, initSigCh, initCtx, running, serve, calls, timeout>>
    BY Zenon DEF ReceiveSignal, ReceiveExit, StopServers, ShutdownEnds,
       SecondSignal
  <2>3. /\ sigCh' \in 0..SigChCap /\ phase' \in Phases
        /\ result' \in {"none", "ok", "error", "forced"}
    BY DEF DaemonTypeOK, SigChCap, Phases, ReceiveSignal,
       ReceiveExit, StopServers, ShutdownEnds, SecondSignal
  <2>4. /\ stop' \in [Server -> {"no", "stopping", "stopped"}]
        /\ errCh' \subseteq Server /\ reason' \in Server \cup {"none"}
    BY DEF DaemonTypeOK, ReceiveSignal, ReceiveExit, StopServers,
       ShutdownEnds, SecondSignal
  <2>5. QED
    BY <2>1, <2>2, <2>3, <2>4 DEF DaemonTypeOK
<1>2. StopInv'
  BY DEF DaemonTypeOK, Server, StopInv, Early, ReceiveSignal,
     ReceiveExit, StopServers, ShutdownEnds, SecondSignal
<1>3. CauseInv'
  BY DEF DaemonTypeOK, SigChCap, Server, CauseInv, ReceiveSignal,
     ReceiveExit, StopServers, ShutdownEnds, SecondSignal
<1>4. ExitInterruptsNothing'
  BY DEF DaemonTypeOK, Server, StopInv, ExitInterruptsNothing,
     ReceiveSignal, ReceiveExit, StopServers, ShutdownEnds,
     SecondSignal
<1>5. FailureIsReported'
  BY DEF DaemonTypeOK, CauseInv, FailureIsReported, ReceiveSignal,
     ReceiveExit, StopServers, ShutdownEnds, SecondSignal
<1>6. QED
  BY <1>1, <1>2, <1>3, <1>4, <1>5

\* Every reachable state satisfies the invariant.
LEMMA DaemonInvariance == DaemonSpec => []DaemonInv
<1>1. DaemonInit => DaemonInv
  <2> SUFFICES ASSUME DaemonInit PROVE DaemonInv
    OBVIOUS
  <2>1. DaemonTypeOK
    <3>1. initCtx \in BOOLEAN /\ ctxDone \in BOOLEAN /\ timeout \in BOOLEAN
      BY Zenon DEF DaemonInit
    <3>2. sent \in 0..MaxSignals /\ sigCh \in 0..SigChCap /\ initSigCh \in 0..InitSigChCap
      BY MaxSignalsAssumption DEF DaemonInit, SigChCap, InitSigChCap
    <3>3. QED
      BY <3>1, <3>2 DEF DaemonInit, DaemonTypeOK, Phases
  <2>2. StopInv /\ ExitInterruptsNothing /\ FailureIsReported
    BY DEF DaemonInit, StopInv, Server, ExitInterruptsNothing,
       FailureIsReported
  <2>3. CauseInv
    BY DEF DaemonInit, CauseInv
  <2>4. QED
    BY <2>1, <2>2, <2>3 DEF DaemonInv
<1>2. DaemonInv /\ [DaemonNext]_daemonVars => DaemonInv'
  <2>1. CASE UNCHANGED daemonVars
    BY <2>1 DEF daemonVars, DaemonInv, DaemonTypeOK, StopInv, CauseInv,
       ExitInterruptsNothing, FailureIsReported
  <2>2. QED
    BY <2>1, SignalSteps, StartSteps, ServingSteps, ShutdownSteps DEF DaemonNext,
       Main, NewSigner
<1>3. QED
  BY <1>1, <1>2, PTL DEF DaemonSpec

\* For any number of signals and whatever fails: the signal channels of runDaemon
\* never hold more than their capacity, and every variable keeps its type.
THEOREM TypeCorrect == DaemonSpec => []DaemonTypeOK
<1>1. DaemonInv => DaemonTypeOK
  BY DEF DaemonInv
<1>2. QED
  BY <1>1, DaemonInvariance, PTL

\* For any number of dial clients, calls and signals: a shutdown of runDaemon
\* that ends by itself, whatever began it, has interrupted no call, and none interrupts a dial client
\* once the servers are being stopped.
THEOREM OrderlyExit == DaemonSpec => []ExitInterruptsNothing
<1>1. DaemonInv => ExitInterruptsNothing
  BY DEF DaemonInv
<1>2. QED
  BY <1>1, DaemonInvariance, PTL

\* For any number of signals: runDaemon never returns nil unless it was sent one,
\* nor after it has received a server's failure.
THEOREM FailureReported == DaemonSpec => []FailureIsReported
<1>1. DaemonInv => FailureIsReported
  BY DEF DaemonInv
<1>2. QED
  BY <1>1, DaemonInvariance, PTL
================================================================================
