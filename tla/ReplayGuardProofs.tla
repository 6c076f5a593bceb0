-------------------------- MODULE ReplayGuardProofs --------------------------
(***************************************************************************)
(* Theorems about ReplayGuard for any number of concurrent calls, any set  *)
(* of timestamps and validator sets, and crashes at any point.  First the  *)
(* steps that ReplayGuardInvariant leaves: RecordSignature,                *)
(* CachedSignature, starts and crashes preserve the inductive invariant.   *)
(***************************************************************************)
EXTENDS ReplayGuardInvariant

\* RecordSignature stores the memo in memory.
LEMMA InvRecordBegin ==
    ASSUME IInv, TypeOK', NEW r \in Rpc, RecordBegin(r)
    PROVE  IInv'
<1> USE HighWaterType, NilAssumption DEF IInv
<1>a. \A q \in Rpc : pc[q] \notin Advancing \cup Recording
  BY DEF RecordBegin, MutexInv
<1>b. /\ req[r] \in Checkpoint /\ sig[r] = req[r] /\ signCount[req[r]] > 0
      /\ req[r].ts = guard.highWater
  BY DEF TypeOK, RecordBegin, CallInv, Superseded
<1>1. MutexInv' /\ DownInv' /\ FileInv' /\ ReleasedInv'
  BY <1>a DEF TypeOK, MutexInv, Advancing, Recording, RecordBegin,
     Superseded, DownInv, FileInv, ReleasedInv
<1>2. CallInv'
  BY <1>a DEF TypeOK, CallInv, Advancing, RecordBegin, Superseded,
     Recording
<1>3. FloorInv'
  BY DEF TypeOK, FloorInv, Claimed, Advancing, RecordBegin, Superseded
<1>4. UniqueInv'
  BY DEF TypeOK, UniqueInv, OneSigningPerTimestamp, RecordBegin,
     Superseded
<1>5. MemoInv'
  BY <1>b DEF TypeOK, MemoInv, Genuine, RecordBegin, Superseded,
     CallInv, HasMemo, Guard
<1>6. QED BY <1>1, <1>2, <1>3, <1>4, <1>5

\* A rejected repeat is looked up in the memo.
LEMMA InvCachedSignature ==
    ASSUME IInv, TypeOK', NEW r \in Rpc, CachedSignature(r)
    PROVE  IInv'
<1> USE HighWaterType, NilAssumption DEF IInv
<1>1. MutexInv' /\ DownInv' /\ FileInv' /\ ReleasedInv'
  BY DEF TypeOK, MutexInv, Advancing, Recording, CachedSignature, Hit,
     DownInv, FileInv, ReleasedInv
<1>2. CallInv'
  BY DEF TypeOK, CallInv, Advancing, CachedSignature, Hit, MemoInv,
     Genuine, HasMemo
<1>3. FloorInv'
  BY DEF TypeOK, FloorInv, Claimed, Advancing, CachedSignature, Hit
<1>4. UniqueInv'
  BY DEF TypeOK, UniqueInv, OneSigningPerTimestamp, CachedSignature, Hit
<1>5. MemoInv'
  BY DEF TypeOK, MemoInv, Genuine, CachedSignature, Hit
<1>6. QED BY <1>1, <1>2, <1>3, <1>4, <1>5

\* The handler returns its answer.
LEMMA InvReply ==
    ASSUME IInv, TypeOK', NEW r \in Rpc, Reply(r)
    PROVE  IInv'
<1> USE HighWaterType, NilAssumption DEF IInv
<1>1. MutexInv' /\ DownInv' /\ FileInv' /\ ReleasedInv'
  BY DEF TypeOK, MutexInv, Advancing, Recording, Reply, DownInv, FileInv,
     ReleasedInv, CallInv
<1>2. CallInv'
  BY DEF TypeOK, CallInv, Advancing, Reply
<1>3. FloorInv'
  BY DEF TypeOK, FloorInv, Claimed, Advancing, Reply
<1>4. UniqueInv'
  BY DEF TypeOK, UniqueInv, OneSigningPerTimestamp, Reply
<1>5. MemoInv'
  BY DEF TypeOK, MemoInv, Genuine, Reply
<1>6. QED BY <1>1, <1>2, <1>3, <1>4, <1>5

\* newCheckpointReplayGuard loads the file.
LEMMA InvStart ==
    ASSUME IInv, TypeOK', Start
    PROVE  IInv'
<1> USE HighWaterType, NilAssumption DEF IInv
<1>a. \A q \in Rpc : pc[q] = "idle"
  BY DEF Start, DownInv
<1>1. MutexInv' /\ DownInv' /\ FileInv' /\ ReleasedInv'
  BY <1>a DEF TypeOK, MutexInv, Advancing, Recording, Start, DownInv,
     FileInv, ReleasedInv
<1>2. CallInv'
  BY <1>a DEF TypeOK, CallInv, Advancing, Start, DownInv
<1>3. FloorInv'
  BY <1>a DEF TypeOK, FloorInv, Claimed, Advancing, Start, FileInv
<1>4. UniqueInv'
  BY DEF TypeOK, UniqueInv, OneSigningPerTimestamp, Start
<1>5. MemoInv'
  BY DEF TypeOK, MemoInv, Genuine, Start, FileInv
<1>6. QED BY <1>1, <1>2, <1>3, <1>4, <1>5

\* The process or the machine stops: memory is lost, and the file comes back as
\* one that could survive.
LEMMA InvCrash ==
    ASSUME IInv, TypeOK', LoseMemory,
           file' \in survivors, survivors' \subseteq survivors, file' \in survivors'
    PROVE  IInv'
<1> USE HighWaterType, NilAssumption DEF IInv, TypeOK, LoseMemory
<1>1. MutexInv' /\ DownInv' /\ FileInv' /\ ReleasedInv'
  BY DEF MutexInv, DownInv, FileInv, ReleasedInv, Advancing, Recording
<1>2. CallInv'
  BY DEF CallInv, Advancing
<1>3. FloorInv'
  BY DEF FloorInv, Claimed, Advancing
<1>4. UniqueInv'
  BY DEF UniqueInv, OneSigningPerTimestamp
<1>5. MemoInv'
  BY NoMemoType DEF MemoInv, Genuine
<1>6. QED BY <1>1, <1>2, <1>3, <1>4, <1>5

\* Nothing but the daemon's own state changes: newCheckpointReplayGuard refuses an
\* unreadable file, or the step stutters.
LEMMA InvIdle ==
    ASSUME IInv, TypeOK', StartRefused \/ UNCHANGED vars
    PROVE  IInv'
<1> USE HighWaterType, NilAssumption DEF IInv, TypeOK, StartRefused, vars
<1>1. MutexInv' /\ DownInv' /\ FileInv' /\ ReleasedInv'
  BY DEF MutexInv, DownInv, FileInv, ReleasedInv, Advancing, Recording
<1>2. CallInv'
  BY DEF CallInv, Advancing
<1>3. FloorInv'
  BY DEF FloorInv, Claimed, Advancing
<1>4. UniqueInv'
  BY DEF UniqueInv, OneSigningPerTimestamp
<1>5. MemoInv'
  BY DEF MemoInv, Genuine
<1>6. QED BY <1>1, <1>2, <1>3, <1>4, <1>5

\* Every step of a handler, of the daemon and of the machine preserves the
\* inductive invariant.
LEMMA InvStep == IInv /\ [Next]_vars => IInv'
<1> SUFFICES ASSUME IInv, [Next]_vars PROVE IInv'
  OBVIOUS
<1>1. TypeOK'
  BY TypeStep DEF IInv
<1>2. CASE ProcessCrash \/ PowerLoss
  BY <1>1, <1>2, InvCrash DEF ProcessCrash, PowerLoss, diskVars, IInv, FileInv
<1>3. QED
  BY <1>1, <1>2, InvBegin, InvAdvanceRejected, InvAdvanceBegin, InvAdvanceFails,
     InvRename, InvSyncDirOk, InvSignRawOk, InvMovesOn, InvSignRawLost,
     InvRecordBegin, InvCachedSignature, InvReply, InvStart, InvIdle
     DEF Next, Handler

--------------------------------------------------------------------------------

\* The inductive invariant holds initially.
LEMMA InvInit == Init => IInv
<1> SUFFICES ASSUME Init PROVE IInv
  OBVIOUS
<1>1. TypeOK
  BY TypeInit
<1>2. \A c \in Checkpoint : ~Claimed(c) /\ signCount[c] = 0
  BY DEF Init, Claimed
<1>3. \A f \in FirstFiles : ~HasMemo(Load(f))
  <2> SUFFICES ASSUME NEW f \in FirstFiles PROVE ~HasMemo(Load(f))
    OBVIOUS
  <2>1. f.signature = nil
    BY DEF FirstFiles
  <2>2. ~HasMemo(f)
    BY <2>1 DEF HasMemo
  <2>3. PICK ts : Load(f) = NoMemo(ts)
    BY <2>2 DEF Load
  <2>4. QED
    BY <2>3 DEF HasMemo, NoMemo
<1>4. MutexInv /\ DownInv /\ CallInv /\ FileInv /\ FloorInv /\ ReleasedInv
  BY <1>2 DEF Init, MutexInv, DownInv, CallInv, FileInv, FloorInv, ReleasedInv,
              Advancing, Recording
<1>5. UniqueInv
  BY <1>2 DEF Init, UniqueInv, OneSigningPerTimestamp
<1>6. MemoInv
  BY <1>3, NoMemoType, HighWaterType DEF Init, MemoInv, Genuine
<1>7. QED
  BY <1>1, <1>4, <1>5, <1>6 DEF IInv

\* The inductive invariant holds in every state reached.
LEMMA Invariance == Spec => []IInv
BY InvInit, InvStep, PTL DEF Spec

--------------------------------------------------------------------------------

\* Every state reached is well typed; in particular an error answer is never
\* counted as a released signature.
THEOREM TypeCorrect == Spec => []TypeOK
<1>1. IInv => TypeOK
  BY DEF IInv
<1>2. QED
  BY <1>1, Invariance, PTL

\* At most one signature is made at any validator_timestamp, for any number of
\* racing calls, any failing write and any crash (CheckAndAdvance, steps 7-8).
THEOREM SignsOncePerTimestamp == Spec => []OneSigningPerTimestamp
<1>1. IInv => OneSigningPerTimestamp
  BY DEF IInv, UniqueInv
<1>2. QED
  BY <1>1, Invariance, PTL

\* The timestamp of every signature made is covered by every content the state
\* file can have after a power loss (writeBytesAtomic before SignRaw).
THEOREM SignsAfterPersisting == Spec => []SignedIsDurable
<1>1. IInv => SignedIsDurable
  BY DEF IInv, FloorInv, Claimed, SignedIsDurable
<1>2. QED
  BY <1>1, Invariance, PTL

\* A signature returned is over the checkpoint asked for (CachedSignature).
THEOREM AnswersCorrect == Spec => []AnswersMatchRequests
<1>1. IInv => AnswersMatchRequests
  BY DEF IInv, CallInv, AnswersMatchRequests
<1>2. QED
  BY <1>1, Invariance, PTL

\* The guard, its file and its handlers implement CheckpointLedger: SignRaw
\* making a signature is a Sign step, a successful return a Release step, and
\* every other step, crashes and restarts included, changes nothing.
THEOREM Refinement == Spec => ImplementsLedger
<1> DEFINE signedSet == {c \in Checkpoint : signCount[c] > 0}
<1>1. Init => Ledger!Init
  BY DEF Init, Ledger!Init
<1>2. ASSUME IInv, [Next]_vars
      PROVE  [Ledger!Next]_<<signedSet, released>>
  <2>1. ASSUME NEW r \in Rpc, SignRawOk(r) \/ SignRawLost(r)
        PROVE  \E c \in Checkpoint : Ledger!Sign(c)
    <3>1. req[r] \in Checkpoint /\ pc[r] = "sign"
      BY <1>2, <2>1 DEF IInv, CallInv, SignRawOk, SignRawLost
    <3>2. \A d \in signedSet : d.ts # req[r].ts
      BY <1>2, <3>1 DEF IInv, UniqueInv
    <3>3. signedSet' = signedSet \cup {req[r]}
      BY <1>2, <2>1, <3>1 DEF IInv, TypeOK, SignRawOk, SignRawLost
    <3>4. released' = released
      BY <2>1 DEF SignRawOk, SignRawLost
    <3>5. Ledger!Sign(req[r])
      BY <3>2, <3>3, <3>4 DEF Ledger!Sign
    <3>6. QED
      BY <3>1, <3>5 DEF Ledger!Sign
  <2>2. ASSUME NEW r \in Rpc, Reply(r)
        PROVE  \/ UNCHANGED <<signedSet, released>>
               \/ \E c \in Checkpoint : Ledger!Release(c)
    <3>1. CASE sig[r] = nil
      BY <2>2, <3>1 DEF Reply
    <3>2. CASE sig[r] # nil
      <4>1. sig[r] \in Checkpoint /\ sig[r] \in signedSet
        BY <1>2, <2>2, <3>2 DEF IInv, CallInv, Reply
      <4>2. Ledger!Release(sig[r])
        BY <2>2, <3>2, <4>1 DEF Reply, Ledger!Release
      <4>3. QED
        BY <4>1, <4>2
    <3>3. QED
      BY <3>1, <3>2
  <2>3. ASSUME UNCHANGED <<signCount, released>>
        PROVE  UNCHANGED <<signedSet, released>>
    BY <2>3
  <2>4. CASE \E r \in Rpc : Handler(r)
    BY <2>1, <2>2, <2>3, <2>4
       DEF Handler, AdvanceRejected, AdvanceBegin, AdvanceFails, Rename,
       SyncDirOk,
           SignRawFails, RecordSuperseded, RecordBegin, RecordFails,
           CachedSignature, Ledger!Next
  <2>5. CASE \E r \in Rpc, c \in Checkpoint : Begin(r, c)
    BY <2>3, <2>5 DEF Begin
  <2>6. CASE Start \/ StartRefused \/ ProcessCrash \/ PowerLoss
    BY <2>3, <2>6 DEF Start, StartRefused, ProcessCrash, PowerLoss, LoseMemory
  <2>7. CASE UNCHANGED vars
    BY <2>3, <2>7 DEF vars
  <2>8. QED
    BY <1>2, <2>4, <2>5, <2>6, <2>7 DEF Next
<1>3. QED
  BY <1>1, <1>2, Invariance, PTL DEF Spec, ImplementsLedger, Ledger!Spec

--------------------------------------------------------------------------------
(* Replays *)

\* A repeat of c is answered from the memo of g, or g has moved past c.
Covers(g, c) ==
    \/ HasMemo(g) /\ c.ts = g.highWater /\ c = g.checkpoint
    \/ c.ts < g.highWater

\* The signature over c was returned to a caller, or is on its way to one.
Returned(c) ==
    \/ c \in returned
    \/ \E r \in Rpc : pc[r] \in Recording \cup {"reply"} /\ sig[r] = c

\* What the guard answers with, or would go back to if the advance in progress
\* failed, covers every signature returned.
ReplayInv ==
    /\ up # "up" => returned = {}
    /\ \A c \in Checkpoint : Returned(c) =>
          /\ (\A r \in Rpc : pc[r] \notin Advancing) => Covers(guard, c)
          /\ \A r \in Rpc : pc[r] \in Advancing => Covers(saved[r], c)

\* A handler that does not hold the mutex, or does not change the guard, keeps
\* every returned signature replayable.
LEMMA ReplayPassive ==
    ASSUME IInv, ReplayInv, NEW r \in Rpc,
           \/ AdvanceRejected(r) \/ Rename(r) \/ SignRawOk(r) \/ SignRawFails(r)
           \/ SignRawLost(r) \/ RecordFails(r) \/ Reply(r)
           \/ \E c \in Checkpoint : Begin(r, c)
    PROVE  ReplayInv'
<1> USE NilAssumption DEF IInv, ReplayInv
<1>1. \A c \in Checkpoint : Returned(c)' => Returned(c)
  BY DEF TypeOK, CallInv, Returned, Recording, AdvanceRejected, Rename, SignRawOk,
         SignRawFails, SignRawLost, RecordFails, Reply, Begin
<1>2. \A q \in Rpc : pc'[q] \in Advancing <=> pc[q] \in Advancing
  BY DEF TypeOK, Advancing, AdvanceRejected, Rename, SignRawOk,
         SignRawFails, SignRawLost, RecordFails, Reply, Begin
<1>3. UNCHANGED <<up, guard, saved>>
  BY DEF AdvanceRejected, Rename, SignRawOk,
         SignRawFails, SignRawLost, RecordFails, Reply, Begin
<1>4. up' # "up" => returned' = {}
  BY DEF DownInv, AdvanceRejected, Rename, SignRawOk,
         SignRawFails, SignRawLost, RecordFails, Reply, Begin
<1>5. QED
  BY <1>1, <1>2, <1>3, <1>4 DEF Covers, HasMemo

\* CheckAndAdvance sets the guard aside before it moves on.
LEMMA ReplayAdvanceBegin ==
    ASSUME IInv, ReplayInv, NEW r \in Rpc, AdvanceBegin(r)
    PROVE  ReplayInv'
<1> USE DEF IInv, ReplayInv
<1>1. \A q \in Rpc : pc[q] \notin Advancing
  BY NilAssumption DEF AdvanceBegin, MutexInv
<1>2. \A c \in Checkpoint : Returned(c)' => Returned(c)
  BY DEF TypeOK, Returned, Recording, AdvanceBegin
<1>3. \A q \in Rpc : pc'[q] \in Advancing => saved'[q] = guard
  BY <1>1 DEF TypeOK, Advancing, AdvanceBegin
<1>4. pc'[r] \in Advancing
  BY DEF TypeOK, Advancing, AdvanceBegin
<1>5. QED
  BY <1>1, <1>2, <1>3, <1>4 DEF Covers, HasMemo, AdvanceBegin

\* A failed CheckAndAdvance restores what it set aside.
LEMMA ReplayAdvanceFails ==
    ASSUME IInv, ReplayInv, NEW r \in Rpc, AdvanceFails(r)
    PROVE  ReplayInv'
<1> USE DEF IInv, ReplayInv
<1>1. \A q \in Rpc : pc[q] \in Advancing => q = r
  BY DEF TypeOK, MutexInv, AdvanceFails, Advancing
<1>2. \A c \in Checkpoint : Returned(c)' => Returned(c)
  BY NilAssumption DEF TypeOK, CallInv, Returned, Recording, AdvanceFails
<1>3. \A q \in Rpc : pc'[q] \notin Advancing
  BY <1>1 DEF TypeOK, Advancing, AdvanceFails
<1>4. pc[r] \in Advancing /\ guard' = saved[r]
  BY DEF Advancing, AdvanceFails, RolledBack
<1>5. QED
  BY <1>1, <1>2, <1>3, <1>4 DEF Covers, HasMemo, AdvanceFails

\* Once the advance is durable the guard is past everything it covered before.
LEMMA ReplaySyncDirOk ==
    ASSUME IInv, ReplayInv, NEW r \in Rpc, SyncDirOk(r)
    PROVE  ReplayInv'
<1> USE DEF IInv, ReplayInv
<1>1. \A q \in Rpc : pc[q] \in Advancing => q = r
  BY DEF TypeOK, MutexInv, SyncDirOk, Advancing, Recording
<1>2. \A c \in Checkpoint : Returned(c)' => Returned(c)
  BY NilAssumption DEF TypeOK, CallInv, Returned, Recording, SyncDirOk
<1>3. \A q \in Rpc : pc'[q] \notin Advancing
  BY <1>1 DEF TypeOK, Advancing, SyncDirOk
<1>4. ASSUME NEW c \in Checkpoint, Returned(c) PROVE Covers(guard, c)
  <2>1. CASE pc[r] \in Advancing
    <3>1. Covers(saved[r], c)
      BY <1>4, <2>1
    <3>2. guard.highWater = req[r].ts /\ saved[r].highWater < req[r].ts
      BY <2>1 DEF CallInv, NoMemo
    <3>3. c.ts \in Nat /\ req[r].ts \in Nat /\ saved[r].highWater \in Nat
      BY <2>1, HighWaterType DEF TypeOK, CallInv, Advancing
    <3>4. QED
      BY <3>1, <3>2, <3>3 DEF Covers
  <2>2. CASE pc[r] \notin Advancing
    BY <1>1, <1>4, <2>2
  <2>3. QED
    BY <2>1, <2>2
<1>5. QED
  BY <1>2, <1>3, <1>4 DEF Covers, HasMemo, SyncDirOk

\* RecordSignature replaces a memo only by one of the same timestamp, of which
\* there is one; a signature it is too late to record is already superseded.
LEMMA ReplayRecord ==
    ASSUME IInv, ReplayInv, NEW r \in Rpc, RecordBegin(r) \/ RecordSuperseded(r)
    PROVE  ReplayInv'
<1> USE DEF IInv, ReplayInv
<1>1. \A q \in Rpc : pc[q] \notin Advancing
  BY NilAssumption DEF RecordBegin, RecordSuperseded, MutexInv
<1>2. /\ req[r] \in Checkpoint /\ sig[r] = req[r] /\ signCount[req[r]] > 0
      /\ up = "up" /\ req[r].ts <= guard.highWater
  BY DEF TypeOK, RecordBegin, RecordSuperseded, CallInv, DownInv, FloorInv, Claimed
<1>3. \A c \in Checkpoint : Returned(c)' => Returned(c) \/ c = req[r]
  BY <1>2 DEF TypeOK, Returned, Recording, RecordBegin, RecordSuperseded
<1>4. \A q \in Rpc : pc'[q] \notin Advancing
  BY <1>1 DEF TypeOK, Advancing, RecordBegin, RecordSuperseded
<1>5. CASE RecordSuperseded(r)
  <2>1. req[r].ts < guard.highWater
    <3>1. req[r].ts # guard.highWater
      BY <1>5 DEF RecordSuperseded, Superseded
    <3>2. req[r].ts \in Nat /\ guard.highWater \in Nat
      BY <1>2, HighWaterType DEF TypeOK
    <3>3. QED
      BY <1>2, <3>1, <3>2
  <2>2. QED
    BY <1>1, <1>3, <1>4, <1>5, <2>1 DEF Covers, HasMemo, RecordSuperseded
<1>6. CASE RecordBegin(r)
  <2>1. /\ guard'.checkpoint = req[r] /\ HasMemo(guard')
        /\ guard'.highWater = guard.highWater /\ req[r].ts = guard.highWater
    BY <1>2, <1>6, NilAssumption DEF TypeOK, Guard, HasMemo, RecordBegin, Superseded
  <2>2. ASSUME NEW c \in Checkpoint, Returned(c) \/ c = req[r]
        PROVE  Covers(guard', c)
    <3>1. CASE HasMemo(guard) /\ c.ts = guard.highWater /\ c = guard.checkpoint
      <4>1. signCount[c] > 0
        BY <3>1 DEF MemoInv, Genuine
      <4>2. c = req[r]
        BY <1>2, <2>1, <3>1, <4>1 DEF UniqueInv, OneSigningPerTimestamp
      <4>3. QED
        BY <2>1, <4>2 DEF Covers
    <3>2. CASE c.ts < guard.highWater \/ c = req[r]
      BY <2>1, <3>2 DEF Covers
    <3>3. QED
      BY <1>1, <2>2, <3>1, <3>2 DEF Covers
  <2>3. QED
    BY <1>2, <1>3, <1>4, <1>6, <2>2 DEF RecordBegin
<1>7. QED
  BY <1>5, <1>6

\* CachedSignature returns what the memo covers.
LEMMA ReplayCachedSignature ==
    ASSUME IInv, ReplayInv, NEW r \in Rpc, CachedSignature(r)
    PROVE  ReplayInv'
<1> USE DEF IInv, ReplayInv
<1>1. \A q \in Rpc : pc[q] \notin Advancing
  BY NilAssumption DEF CachedSignature, MutexInv
<1>2. \A q \in Rpc : pc'[q] \notin Advancing
  BY <1>1, SMTT(20) DEF TypeOK, Advancing, CachedSignature
<1>3. sig'[r] # nil => Hit(req[r]) /\ sig'[r] = req[r]
  BY DEF TypeOK, CachedSignature, Hit, MemoInv, Genuine
<1>4. \A c \in Checkpoint : Returned(c)' => Returned(c) \/ Hit(c)
  BY <1>3, NilAssumption, SMTT(20) DEF TypeOK, Returned, Recording, CachedSignature
<1>5. QED
  BY <1>1, <1>2, <1>4 DEF Covers, HasMemo, Hit, CachedSignature

\* A daemon that starts has returned nothing, and one that stops takes what it has
\* returned along.
LEMMA ReplayStart ==
    ASSUME IInv, ReplayInv,
           \/ Start \/ StartRefused \/ ProcessCrash \/ PowerLoss \/ UNCHANGED vars
    PROVE  ReplayInv'
<1> USE DEF IInv, ReplayInv
<1>1. CASE Start \/ StartRefused
  <2>1. returned' = {} /\ \A q \in Rpc : pc'[q] = "idle"
    BY <1>1 DEF Start, StartRefused, DownInv
  <2>2. QED
    BY <2>1 DEF Returned, Recording
<1>2. CASE UNCHANGED vars
  BY <1>2 DEF vars, Returned, Covers, HasMemo
<1>3. CASE ProcessCrash \/ PowerLoss
  <2>1. returned' = {} /\ \A q \in Rpc : pc'[q] = "idle"
    BY <1>3 DEF ProcessCrash, PowerLoss, LoseMemory
  <2>2. QED
    BY <2>1 DEF Returned, Recording
<1>4. QED
  BY <1>1, <1>2, <1>3

\* Every signature the running daemon has returned can be had again until a newer
\* checkpoint takes its place, for any number of racing calls, whatever write
\* fails and whenever the daemon last crashed (CheckAndAdvance's rollback,
\* RecordSignature, CachedSignature).
THEOREM ReturnedStaysReplayable == Spec => []ReleasedIsReplayable
<1>1. Init => ReplayInv
  BY DEF Init, ReplayInv, Returned, Recording
<1>2. IInv /\ ReplayInv /\ [Next]_vars => ReplayInv'
  BY ReplayPassive, ReplayAdvanceBegin, ReplayAdvanceFails, ReplaySyncDirOk,
     ReplayRecord, ReplayCachedSignature, ReplayStart DEF Next, Handler
<1>3. IInv /\ ReplayInv => ReleasedIsReplayable
  BY NilAssumption DEF IInv, MutexInv, TypeOK, ReplayInv, Returned, Covers, Hit, ReleasedIsReplayable
<1>4. QED
  BY <1>1, <1>2, <1>3, Invariance, PTL DEF Spec
================================================================================
