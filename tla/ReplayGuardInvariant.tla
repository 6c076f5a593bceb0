------------------------ MODULE ReplayGuardInvariant ------------------------
(***************************************************************************)
(* The inductive invariant of ReplayGuard, type correctness, and the proof *)
(* that CheckAndAdvance and SignRaw preserve the invariant.                *)
(***************************************************************************)
EXTENDS ReplayGuard, TLAPS

Advancing == {"advanceWrite", "advanceSync"}
Recording == {"recordWrite", "recordSync"}

\* A signature over c exists, or the backend is about to be asked for one.
Claimed(c) == signCount[c] > 0 \/ \E r \in Rpc : pc[r] = "sign" /\ req[r] = c

\* The memo of g, if any, is the signature made at g's high-water mark.
Genuine(g) ==
    HasMemo(g) => /\ g.signature = g.checkpoint
                  /\ g.checkpoint.ts = g.highWater
                  /\ signCount[g.checkpoint] > 0

\* Only the holder of the mutex is between taking and releasing it.
MutexInv == \A r \in Rpc : pc[r] \in Advancing \cup Recording => mu = r

\* No call is in flight in a process that is not running.
DownInv == up # "up" => \A r \in Rpc : pc[r] = "idle"

\* What a call knows at each point of the handler.
CallInv ==
    \A r \in Rpc :
        /\ pc[r] # "idle" => req[r] \in Checkpoint
        /\ pc[r] \notin {"record", "recordWrite", "recordSync", "reply"}
               => sig[r] = nil
        /\ pc[r] \in {"record", "recordWrite", "recordSync"}
               => sig[r] = req[r] /\ signCount[req[r]] > 0
        /\ pc[r] = "reply" /\ sig[r] # nil
               => sig[r] = req[r] /\ signCount[req[r]] > 0
        /\ pc[r] \in Advancing => /\ guard = NoMemo(req[r].ts)
                                  /\ saved[r].highWater < req[r].ts

\* The file a reader sees may survive; between the rename and the end of the
\* directory sync it is the blob of the guard.
FileInv ==
    /\ file \in survivors
    /\ \A r \in Rpc : pc[r] \in {"advanceSync", "recordSync"} => file = Blob(guard)

\* Nothing the guard could go back to, in memory or on disk, lies below a
\* claimed timestamp.
FloorInv ==
    \A c \in Checkpoint : Claimed(c) =>
        /\ \A f \in survivors : c.ts <= Load(f).highWater
        /\ up = "up" => c.ts <= guard.highWater
        /\ \A r \in Rpc : pc[r] \in Advancing => c.ts <= saved[r].highWater

\* No two claims on a timestamp.
UniqueInv ==
    /\ OneSigningPerTimestamp
    /\ \A r \in Rpc : pc[r] = "sign" =>
           \A c \in Checkpoint : c.ts = req[r].ts => signCount[c] = 0
    /\ \A r, q \in Rpc : /\ pc[r] = "sign" /\ pc[q] = "sign"
                         /\ req[r].ts = req[q].ts
                         => r = q

\* A memo, in memory, set aside for a rollback or on disk, was really signed.
MemoInv ==
    /\ Genuine(guard)
    /\ \A r \in Rpc : Genuine(saved[r])
    /\ \A f \in survivors : Genuine(Load(f))

ReleasedInv == \A c \in released : signCount[c] > 0

IInv ==
    /\ TypeOK
    /\ MutexInv
    /\ DownInv
    /\ CallInv
    /\ FileInv
    /\ FloorInv
    /\ UniqueInv
    /\ MemoInv
    /\ ReleasedInv

--------------------------------------------------------------------------------

\* Loading the file persistLocked writes gives back the guard, memo included.
LEMMA LoadBlob ==
    ASSUME NEW g \in Guard
    PROVE  /\ Blob(g) \in GuardFile
           /\ Load(Blob(g)).highWater = g.highWater
           /\ HasMemo(g) => Load(Blob(g)) = g
           /\ ~HasMemo(g) => Load(Blob(g)) = NoMemo(g.highWater)
BY NilAssumption DEF Guard, GuardFile, Blob, Load, HasMemo, NoMemo,
   MaybeCheckpoint

\* newCheckpointReplayGuard builds a well-formed guard from any file.
LEMMA LoadType ==
    ASSUME NEW f \in GuardFile
    PROVE  Load(f) \in Guard
BY DEF Guard, GuardFile, Load, HasMemo, NoMemo, MaybeCheckpoint, HighWaters

\* A guard with no memo is well formed.
LEMMA NoMemoType ==
    ASSUME NEW t \in HighWaters
    PROVE  /\ NoMemo(t) \in Guard
           /\ NoMemo(t).highWater = t
           /\ ~HasMemo(NoMemo(t))
BY DEF Guard, NoMemo, HasMemo, MaybeCheckpoint

\* Timestamps and high-water marks are naturals.
LEMMA HighWaterType ==
    /\ HighWaters \subseteq Nat
    /\ 0 \in HighWaters
    /\ \A c \in Checkpoint : c.ts \in Timestamps /\ c.ts \in HighWaters /\ c.ts \in Nat
    /\ \A g \in Guard : g.highWater \in Nat /\ g.highWater \in HighWaters
<1>1. HighWaters \subseteq Nat
  BY TimestampsAssumption DEF HighWaters
<1>2. \A c \in Checkpoint : c.ts \in Timestamps
  BY DEF Checkpoint
<1>3. QED
  BY <1>1, <1>2, TimestampsAssumption DEF HighWaters, Guard

\* Every initial state is well typed, whatever file the daemon finds.
LEMMA TypeInit == Init => TypeOK
<1> SUFFICES ASSUME Init PROVE TypeOK
  OBVIOUS
<1>1. FirstFiles \subseteq GuardFile
  BY HighWaterType DEF FirstFiles, GuardFile, MaybeCheckpoint, HighWaters
<1>2. QED
  BY <1>1, NoMemoType, HighWaterType DEF Init, TypeOK, PCs, MaybeCheckpoint

\* Every step preserves the types; CallInv is needed because a handler that signs
\* or advances uses the checkpoint its caller asked for.
LEMMA TypeStep == TypeOK /\ CallInv /\ [Next]_vars => TypeOK'
<1> SUFFICES ASSUME TypeOK, CallInv, [Next]_vars PROVE TypeOK'
  OBVIOUS
<1> USE DEF TypeOK
<1>1. ASSUME NEW r \in Rpc, NEW c \in Checkpoint, Begin(r, c) PROVE TypeOK'
  BY <1>1 DEF Begin, PCs, MaybeCheckpoint
<1>2. ASSUME NEW r \in Rpc, AdvanceRejected(r) PROVE TypeOK'
  BY <1>2 DEF AdvanceRejected, PCs
<1>3. ASSUME NEW r \in Rpc, AdvanceBegin(r) PROVE TypeOK'
  <2>1. req[r] \in Checkpoint
    BY <1>3 DEF AdvanceBegin, CallInv
  <2>2. Advanced(req[r].ts) \in Guard
    BY <2>1, HighWaterType, NoMemoType DEF Advanced
  <2>3. QED
    BY <1>3, <2>2 DEF AdvanceBegin, PCs
<1>4. ASSUME NEW r \in Rpc, AdvanceFails(r) PROVE TypeOK'
  BY <1>4, HighWaterType, NoMemoType DEF AdvanceFails, RolledBack, PCs
<1>5. ASSUME NEW r \in Rpc, Rename(r) PROVE TypeOK'
  BY <1>5, LoadBlob DEF Rename, PCs
<1>6. ASSUME NEW r \in Rpc, SyncDirOk(r) PROVE TypeOK'
  BY <1>6, HighWaterType, NoMemoType DEF SyncDirOk, PCs
<1>7. ASSUME NEW r \in Rpc, SignRawOk(r) PROVE TypeOK'
  BY <1>7 DEF SignRawOk, PCs, CallInv, MaybeCheckpoint
<1>8. ASSUME NEW r \in Rpc, SignRawFails(r) PROVE TypeOK'
  BY <1>8 DEF SignRawFails, PCs
<1>8a. ASSUME NEW r \in Rpc, SignRawLost(r) PROVE TypeOK'
  BY <1>8a DEF SignRawLost, PCs, CallInv
<1>9. ASSUME NEW r \in Rpc, RecordSuperseded(r) PROVE TypeOK'
  BY <1>9 DEF RecordSuperseded, PCs
<1>10. ASSUME NEW r \in Rpc, RecordBegin(r) PROVE TypeOK'
  BY <1>10 DEF RecordBegin, PCs, Guard
<1>11. ASSUME NEW r \in Rpc, RecordFails(r) PROVE TypeOK'
  BY <1>11 DEF RecordFails, PCs
<1>12. ASSUME NEW r \in Rpc, CachedSignature(r) PROVE TypeOK'
  BY <1>12 DEF CachedSignature, PCs, MaybeCheckpoint, Guard
<1>13. ASSUME NEW r \in Rpc, Reply(r) PROVE TypeOK'
  BY <1>13 DEF Reply, PCs, MaybeCheckpoint
<1>14. CASE Start
  BY <1>14, LoadType DEF Start
<1>15. CASE StartRefused
  BY <1>15 DEF StartRefused
<1>16. ASSUME LoseMemory, file' \in GuardFile, survivors' \subseteq GuardFile
       PROVE  TypeOK'
  BY <1>16, HighWaterType, NoMemoType DEF LoseMemory, PCs, MaybeCheckpoint
<1>17. CASE ProcessCrash
  BY <1>16, <1>17 DEF ProcessCrash, diskVars
<1>18. CASE PowerLoss
  BY <1>16, <1>18 DEF PowerLoss
<1>19. CASE UNCHANGED vars
  BY <1>19 DEF vars
<1>20. QED
  BY <1>1, <1>2, <1>3, <1>4, <1>5, <1>6, <1>7, <1>8, <1>8a, <1>9, <1>10, <1>11,
     <1>12,
     <1>13, <1>14, <1>15, <1>17, <1>18, <1>19 DEF Next, Handler

\* A handler starts with a checkpoint that passed steps 1 to 6.
LEMMA InvBegin ==
    ASSUME IInv, TypeOK', NEW r \in Rpc, NEW c \in Checkpoint, Begin(r, c)
    PROVE  IInv'
<1> USE HighWaterType, NilAssumption DEF IInv
<1>1. MutexInv' /\ DownInv' /\ FileInv' /\ ReleasedInv'
  BY DEF TypeOK, MutexInv, Advancing, Recording, Begin, DownInv, FileInv,
     ReleasedInv
<1>2. CallInv'
  BY DEF TypeOK, CallInv, Advancing, Begin
<1>3. FloorInv'
  BY DEF TypeOK, FloorInv, Claimed, Advancing, Begin
<1>4. UniqueInv'
  BY DEF TypeOK, UniqueInv, OneSigningPerTimestamp, Begin
<1>5. MemoInv'
  BY DEF TypeOK, MemoInv, Genuine, Begin
<1>6. QED BY <1>1, <1>2, <1>3, <1>4, <1>5

\* CheckAndAdvance rejects a timestamp at or below the mark.
LEMMA InvAdvanceRejected ==
    ASSUME IInv, TypeOK', NEW r \in Rpc, AdvanceRejected(r)
    PROVE  IInv'
<1> USE HighWaterType, NilAssumption DEF IInv
<1>1. MutexInv' /\ DownInv' /\ FileInv' /\ ReleasedInv'
  BY DEF TypeOK, MutexInv, Advancing, Recording, AdvanceRejected, Rejects,
     DownInv, FileInv, ReleasedInv
<1>2. CallInv'
  BY DEF TypeOK, CallInv, Advancing, AdvanceRejected, Rejects
<1>3. FloorInv'
  BY DEF TypeOK, FloorInv, Claimed, Advancing, AdvanceRejected, Rejects
<1>4. UniqueInv'
  BY DEF TypeOK, UniqueInv, OneSigningPerTimestamp, AdvanceRejected,
     Rejects
<1>5. MemoInv'
  BY DEF TypeOK, MemoInv, Genuine, AdvanceRejected, Rejects
<1>6. QED BY <1>1, <1>2, <1>3, <1>4, <1>5

\* CheckAndAdvance moves the mark in memory and drops the memo.
LEMMA InvAdvanceBegin ==
    ASSUME IInv, TypeOK', NEW r \in Rpc, AdvanceBegin(r)
    PROVE  IInv'
<1> USE HighWaterType, NilAssumption DEF IInv
<1>a. \A q \in Rpc : pc[q] \notin Advancing \cup Recording
  BY DEF AdvanceBegin, MutexInv
<1>b. /\ req[r] \in Checkpoint
      /\ req[r].ts \in Nat /\ guard.highWater < req[r].ts
      /\ guard' = NoMemo(req[r].ts)
  BY DEF TypeOK, AdvanceBegin, CallInv, Rejects, Advanced
<1>c. guard'.highWater = req[r].ts /\ ~HasMemo(guard')
  BY <1>b, NoMemoType
<1>1. MutexInv' /\ DownInv' /\ FileInv' /\ ReleasedInv'
  BY <1>a DEF TypeOK, MutexInv, Advancing, Recording, AdvanceBegin, Rejects,
     Advanced, DownInv, FileInv, ReleasedInv
<1>2. CallInv'
  BY <1>a, <1>b DEF TypeOK, CallInv, Advancing, AdvanceBegin, Rejects,
     Advanced, NoMemo
<1>3. FloorInv'
  <2>1. SUFFICES ASSUME NEW c \in Checkpoint, Claimed(c)'
                 PROVE  /\ \A f \in survivors' : c.ts <= Load(f).highWater
                        /\ up' = "up" => c.ts <= guard'.highWater
                        /\ \A q \in Rpc : pc'[q] \in Advancing
                                              => c.ts <= saved'[q].highWater
    BY DEF FloorInv
  <2>2. Claimed(c)
    BY <2>1 DEF TypeOK, AdvanceBegin, Claimed
  <2>3. up = "up"
    BY DEF TypeOK, AdvanceBegin, DownInv
  <2>4. c.ts <= guard.highWater /\ c.ts \in Nat /\ guard.highWater \in Nat
    BY <2>2, <2>3 DEF TypeOK, FloorInv
  <2>5. \A q \in Rpc : pc'[q] \in Advancing => q = r
    BY <1>a DEF TypeOK, AdvanceBegin
  <2>6. saved'[r] = guard
    BY DEF TypeOK, AdvanceBegin
  <2>7. \A f \in survivors' : c.ts <= Load(f).highWater
    BY <2>2 DEF AdvanceBegin, FloorInv
  <2>8. QED
    BY <1>b, <1>c, <2>4, <2>5, <2>6, <2>7
<1>4. UniqueInv'
  BY DEF TypeOK, UniqueInv, OneSigningPerTimestamp, AdvanceBegin,
     Rejects, Advanced
<1>5. MemoInv'
  BY <1>b, <1>c DEF TypeOK, MemoInv, Genuine, AdvanceBegin, Rejects,
     Advanced
<1>6. QED BY <1>1, <1>2, <1>3, <1>4, <1>5

\* CheckAndAdvance rolls memory back when persisting fails.
LEMMA InvAdvanceFails ==
    ASSUME IInv, TypeOK', NEW r \in Rpc, AdvanceFails(r)
    PROVE  IInv'
<1> USE HighWaterType, NilAssumption DEF IInv
<1>a. \A q \in Rpc \ {r} : pc[q] \notin Advancing \cup Recording
  BY DEF AdvanceFails, MutexInv, Advancing
<1>1. MutexInv' /\ DownInv' /\ FileInv' /\ ReleasedInv'
  BY <1>a DEF TypeOK, MutexInv, Advancing, Recording, AdvanceFails,
     RolledBack, DownInv, FileInv, ReleasedInv
<1>2. CallInv'
  BY <1>a DEF TypeOK, CallInv, Advancing, AdvanceFails, RolledBack,
     NoMemo
<1>3. FloorInv'
  BY DEF TypeOK, FloorInv, Claimed, Advancing, AdvanceFails, RolledBack
<1>4. UniqueInv'
  BY DEF TypeOK, UniqueInv, OneSigningPerTimestamp, AdvanceFails,
     RolledBack
<1>5. MemoInv'
  BY NoMemoType DEF TypeOK, MemoInv, Genuine, AdvanceFails, RolledBack
<1>6. QED BY <1>1, <1>2, <1>3, <1>4, <1>5

\* The new blob takes the place of the guard file.
LEMMA InvRename ==
    ASSUME IInv, TypeOK', NEW r \in Rpc, Rename(r)
    PROVE  IInv'
<1> USE HighWaterType, NilAssumption DEF IInv
<1>a. up = "up" /\ req[r] \in Checkpoint
  BY DEF TypeOK, Rename, DownInv, CallInv
<1>1. MutexInv' /\ DownInv' /\ FileInv' /\ ReleasedInv'
  BY DEF TypeOK, MutexInv, Advancing, Recording, Rename, DownInv, FileInv,
     ReleasedInv
<1>2. CallInv'
  BY DEF TypeOK, CallInv, Advancing, Rename
<1>3. FloorInv'
  BY <1>a, LoadBlob DEF TypeOK, FloorInv, Claimed, Advancing, Rename,
     CallInv, FileInv, DownInv
<1>4. UniqueInv'
  BY DEF TypeOK, UniqueInv, OneSigningPerTimestamp, Rename
<1>5. MemoInv'
  BY LoadBlob, NoMemoType DEF TypeOK, MemoInv, Genuine, Rename,
     HasMemo, NoMemo
<1>6. QED BY <1>1, <1>2, <1>3, <1>4, <1>5

\* The directory sync makes the blob durable; here a claim is created.
LEMMA InvSyncDirOk ==
    ASSUME IInv, TypeOK', NEW r \in Rpc, SyncDirOk(r)
    PROVE  IInv'
<1> USE HighWaterType, NilAssumption DEF IInv
<1>a. /\ \A q \in Rpc \ {r} : pc[q] \notin Advancing \cup Recording
      /\ up = "up" /\ req[r] \in Checkpoint
  BY DEF TypeOK, SyncDirOk, DownInv, CallInv, MutexInv, Advancing,
     Recording
<1>1. MutexInv' /\ DownInv' /\ FileInv' /\ ReleasedInv'
  BY DEF TypeOK, MutexInv, Advancing, Recording, SyncDirOk, DownInv,
     FileInv, ReleasedInv
<1>2. CallInv'
  BY DEF TypeOK, CallInv, Advancing, SyncDirOk
<1>3. FloorInv'
  BY <1>a, LoadBlob DEF TypeOK, FloorInv, Claimed, Advancing,
     SyncDirOk, CallInv, FileInv, DownInv, NoMemo
<1>4. UniqueInv'
  BY <1>a DEF TypeOK, UniqueInv, OneSigningPerTimestamp, SyncDirOk,
     CallInv, FloorInv, Claimed, Advancing
<1>5. MemoInv'
  BY NoMemoType DEF TypeOK, MemoInv, Genuine, SyncDirOk, FileInv
<1>6. QED BY <1>1, <1>2, <1>3, <1>4, <1>5

\* The backend returns a signature.
LEMMA InvSignRawOk ==
    ASSUME IInv, TypeOK', NEW r \in Rpc, SignRawOk(r)
    PROVE  IInv'
<1> USE HighWaterType, NilAssumption DEF IInv
<1>1. MutexInv' /\ DownInv' /\ FileInv' /\ ReleasedInv'
  BY DEF TypeOK, MutexInv, Advancing, Recording, SignRawOk, DownInv,
     FileInv, ReleasedInv
<1>2. CallInv'
  BY DEF TypeOK, CallInv, Advancing, SignRawOk
<1>3. FloorInv'
  BY DEF TypeOK, FloorInv, Claimed, Advancing, SignRawOk
<1>4. UniqueInv'
  BY DEF TypeOK, UniqueInv, OneSigningPerTimestamp, SignRawOk
<1>5. MemoInv'
  BY DEF TypeOK, MemoInv, Genuine, SignRawOk
<1>6. QED BY <1>1, <1>2, <1>3, <1>4, <1>5

\* A handler that moves on without touching the guard, the file or a count: the
\* backend signs nothing, RecordSignature comes too late, or persisting the memo
\* fails, which the handler only logs.
LEMMA InvMovesOn ==
    ASSUME IInv, TypeOK', NEW r \in Rpc,
           SignRawFails(r) \/ RecordSuperseded(r) \/ RecordFails(r)
    PROVE  IInv'
<1> USE HighWaterType, NilAssumption
    DEF IInv, TypeOK, SignRawFails, RecordSuperseded, RecordFails
<1>1. MutexInv' /\ DownInv' /\ FileInv'
  BY DEF MutexInv, DownInv, FileInv, Advancing, Recording
<1>2. CallInv'
  BY DEF CallInv, Advancing
<1>3. FloorInv'
  BY DEF FloorInv, Claimed, Advancing
<1>4. UniqueInv' /\ ReleasedInv'
  BY SMTT(20) DEF UniqueInv, OneSigningPerTimestamp, ReleasedInv
<1>5. MemoInv'
  BY DEF MemoInv, Genuine
<1>6. QED BY <1>1, <1>2, <1>3, <1>4, <1>5

\* The backend signs but its answer is lost.
LEMMA InvSignRawLost ==
    ASSUME IInv, TypeOK', NEW r \in Rpc, SignRawLost(r)
    PROVE  IInv'
<1> USE HighWaterType, NilAssumption DEF IInv
<1>1. MutexInv' /\ DownInv' /\ FileInv' /\ ReleasedInv'
  BY DEF TypeOK, MutexInv, Advancing, Recording, SignRawLost, DownInv,
     FileInv, ReleasedInv
<1>2. CallInv'
  BY DEF TypeOK, CallInv, Advancing, SignRawLost
<1>3. FloorInv'
  BY DEF TypeOK, FloorInv, Claimed, Advancing, SignRawLost
<1>4. UniqueInv'
  BY DEF TypeOK, UniqueInv, OneSigningPerTimestamp, SignRawLost
<1>5. MemoInv'
  BY DEF TypeOK, MemoInv, Genuine, SignRawLost
<1>6. QED BY <1>1, <1>2, <1>3, <1>4, <1>5
================================================================================
