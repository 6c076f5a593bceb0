------------------------------ MODULE ReplayGuard ------------------------------
(***************************************************************************)
(* The checkpoint replay guard of the bridge signer                        *)
(* (server/replay_guard.go) and the tail of the SignBridgeCheckpoint       *)
(* handler that uses it (server/server.go, steps 7 and 8): many handlers   *)
(* in flight, one guard, one state file, crashes at any point.             *)
(*                                                                         *)
(* A checkpoint is what encodeValsetCheckpoint hashes, reduced to its      *)
(* timestamp and the rest of its preimage.  A signature is identified with *)
(* the checkpoint it signs.                                                *)
(***************************************************************************)
EXTENDS Naturals

CONSTANTS
    Rpc,        \* SignBridgeCheckpoint calls that can be in flight at once
    Timestamps, \* validator_timestamp values
    ValSets,    \* everything else a checkpoint commits to
    nil         \* Go's nil: no checkpoint, no signature, mutex free

Checkpoint == [ts : Timestamps, valset : ValSets]

ASSUME TimestampsAssumption == Timestamps \subseteq Nat
ASSUME NilAssumption == nil \notin Rpc /\ nil \notin Checkpoint

VARIABLES
    up,        \* the daemon: "down", "up", or "refused" (would not start)
    guard,     \* the in-memory checkpointReplayGuard
    mu,        \* holder of its mutex
    file,      \* contents of the state file, as a reader sees them
    survivors, \* contents the state file may have after a power loss
    pc,        \* pc[r]: where call r is in the handler
    req,       \* req[r]: the checkpoint call r asks for
    sig,       \* sig[r]: the signature call r holds
    saved,     \* saved[r]: the guard state CheckAndAdvance would roll back to
    signCount, \* history: signatures the backend has made of each checkpoint
    returned,  \* history: checkpoints whose signature this process has returned
    released   \* history: checkpoints whose signature any process has returned

diskVars == <<file, survivors>>
vars == <<up, guard, mu, file, survivors, pc, req, sig, saved, signCount,
          returned, released>>

--------------------------------------------------------------------------------
(* Guard and file contents *)

MaybeCheckpoint == Checkpoint \cup {nil}
HighWaters == Timestamps \cup {0}

Guard == [highWater : HighWaters, checkpoint : MaybeCheckpoint,
          signature : MaybeCheckpoint]

\* "corrupt" is any content the loader cannot parse.
GuardFile == [format : {"missing", "json", "legacy", "corrupt"},
              highWater : HighWaters, checkpoint : MaybeCheckpoint,
              signature : MaybeCheckpoint]

NoMemo(ts) == [highWater |-> ts, checkpoint |-> nil, signature |-> nil]

HasMemo(g) == g.checkpoint # nil /\ g.signature # nil

\* persistLocked: the memo is written only when both halves are present.
Blob(g) == [format     |-> "json",
            highWater  |-> g.highWater,
            checkpoint |-> IF HasMemo(g) THEN g.checkpoint ELSE nil,
            signature  |-> IF HasMemo(g) THEN g.signature ELSE nil]

LoadForgetsHighWater(f) == NoMemo(0)

\* What newCheckpointReplayGuard builds from a readable file.  A JSON file with
\* half a memo loads as one with no memo.
Load(f) ==
    IF f.format = "json" /\ HasMemo(f)
    THEN [highWater |-> f.highWater, checkpoint |-> f.checkpoint,
          signature |-> f.signature]
    ELSE NoMemo(IF f.format \in {"json", "legacy"} THEN f.highWater ELSE 0)

\* Files the daemon can find when it first starts: none, one left by the
\* release that stored a bare integer, one with half a memo, an unreadable one.
FirstFiles ==
    {[format |-> "missing", highWater |-> 0, checkpoint |-> nil,
      signature |-> nil],
     [format |-> "corrupt", highWater |-> 0, checkpoint |-> nil,
      signature |-> nil]}
    \cup {[format |-> "legacy", highWater |-> t, checkpoint |-> nil,
           signature |-> nil] : t \in Timestamps}
    \cup {[format |-> "json", highWater |-> c.ts, checkpoint |-> c,
           signature |-> nil] : c \in Checkpoint}

Init ==
    /\ up = "down"
    /\ guard = NoMemo(0)
    /\ mu = nil
    /\ file \in FirstFiles
    /\ survivors = {file}
    /\ pc = [r \in Rpc |-> "idle"]
    /\ req = [r \in Rpc |-> nil]
    /\ sig = [r \in Rpc |-> nil]
    /\ saved = [r \in Rpc |-> NoMemo(0)]
    /\ signCount = [c \in Checkpoint |-> 0]
    /\ returned = {}
    /\ released = {}

--------------------------------------------------------------------------------
(* SignBridgeCheckpoint, steps 7 and 8.  Requests that fail steps 1 to 6   *)
(* return before any state is touched and are not part of this module.     *)

\* A request whose checkpoint was recomputed and matched reaches the guard.
Begin(r, c) ==
    /\ up = "up"
    /\ pc[r] = "idle"
    /\ pc' = [pc EXCEPT ![r] = "advance"]
    /\ req' = [req EXCEPT ![r] = c]
    /\ UNCHANGED <<up, guard, mu, file, survivors, sig, saved, signCount,
                   returned, released>>

RejectsOnlyOlder(ts) == ts < guard.highWater

\* The test of CheckAndAdvance.  The guard is loaded in every running daemon.
Rejects(ts) == ts <= guard.highWater

\* CheckAndAdvance returns ErrReplayGuardRejected; the mutex is released
\* before the handler goes on to CachedSignature.
AdvanceRejected(r) ==
    /\ pc[r] = "advance"
    /\ mu = nil
    /\ Rejects(req[r].ts)
    /\ pc' = [pc EXCEPT ![r] = "cached"]
    /\ UNCHANGED <<up, guard, mu, file, survivors, req, sig, saved, signCount,
                   returned, released>>

\* The guard after CheckAndAdvance moved to ts: the memo is forgotten.
Advanced(ts) == NoMemo(ts)

\* CheckAndAdvance up to persistLocked; the mutex stays held.
AdvanceBegin(r) ==
    /\ pc[r] = "advance"
    /\ mu = nil
    /\ ~Rejects(req[r].ts)
    /\ mu' = r
    /\ saved' = [saved EXCEPT ![r] = guard]
    /\ guard' = Advanced(req[r].ts)
    /\ pc' = [pc EXCEPT ![r] = "advanceWrite"]
    /\ UNCHANGED <<up, file, survivors, req, sig, signCount, returned, released>>

\* writeBytesAtomic up to and including the rename.
Rename(r) ==
    /\ pc[r] \in {"advanceWrite", "recordWrite"}
    /\ file' = Blob(guard)
    /\ survivors' = survivors \cup {Blob(guard)}
    /\ pc' = [pc EXCEPT ![r] = IF pc[r] = "advanceWrite" THEN "advanceSync"
                                                         ELSE "recordSync"]
    /\ UNCHANGED <<up, guard, mu, req, sig, saved, signCount, returned, released>>

\* The directory was synced: only the renamed file can survive now.
\* CheckAndAdvance returns nil to a handler that goes on to sign;
\* RecordSignature returns nil to one that goes on to reply.
SyncDirOk(r) ==
    /\ pc[r] \in {"advanceSync", "recordSync"}
    /\ survivors' = {file}
    /\ mu' = nil
    /\ pc' = [pc EXCEPT ![r] = IF pc[r] = "advanceSync" THEN "sign" ELSE "reply"]
    /\ saved' = [saved EXCEPT ![r] = NoMemo(0)]
    /\ UNCHANGED <<up, guard, file, req, sig, signCount, returned, released>>

\* What CheckAndAdvance restores when persistLocked fails.
RolledBack(r) == saved[r]

AdvanceIgnoresSyncError(r) ==
    /\ pc[r] \in {"advanceWrite", "advanceSync"}
    /\ guard' = IF pc[r] = "advanceSync" THEN guard ELSE RolledBack(r)
    /\ mu' = nil
    /\ pc' = [pc EXCEPT ![r] = IF pc[r] = "advanceSync" THEN "sign" ELSE "reply"]
    /\ saved' = [saved EXCEPT ![r] = NoMemo(0)]
    /\ UNCHANGED <<up, file, survivors, req, sig, signCount, returned, released>>

AdvanceFailsLocked(r) ==
    /\ pc[r] \in {"advanceWrite", "advanceSync"}
    /\ guard' = RolledBack(r)
    /\ pc' = [pc EXCEPT ![r] = "reply"]
    /\ saved' = [saved EXCEPT ![r] = NoMemo(0)]
    /\ UNCHANGED <<up, mu, file, survivors, req, sig, signCount, returned, released>>

\* persistLocked returns an error to CheckAndAdvance: from a step before the
\* rename took effect ("advanceWrite") or from syncing the directory after it
\* ("advanceSync").  Memory is rolled back and the handler signs nothing.
AdvanceFails(r) ==
    /\ pc[r] \in {"advanceWrite", "advanceSync"}
    /\ guard' = RolledBack(r)
    /\ mu' = nil
    /\ pc' = [pc EXCEPT ![r] = "reply"]
    /\ saved' = [saved EXCEPT ![r] = NoMemo(0)]
    /\ UNCHANGED <<up, file, survivors, req, sig, signCount, returned, released>>

\* SignRaw returns a 64-byte signature.
SignRawOk(r) ==
    /\ pc[r] = "sign"
    /\ signCount' = [signCount EXCEPT ![req[r]] = @ + 1]
    /\ sig' = [sig EXCEPT ![r] = req[r]]
    /\ pc' = [pc EXCEPT ![r] = "record"]
    /\ UNCHANGED <<up, guard, mu, file, survivors, req, saved, returned, released>>

\* SignRaw returns an error or a signature of the wrong length.
SignRawFails(r) ==
    /\ pc[r] = "sign"
    /\ pc' = [pc EXCEPT ![r] = "reply"]
    /\ UNCHANGED <<up, guard, mu, file, survivors, req, sig, saved, signCount,
                   returned, released>>

\* SignRaw returns an error although the remote backend made the signature (the
\* request timeout racing its answer).
SignRawLost(r) ==
    /\ pc[r] = "sign"
    /\ signCount' = [signCount EXCEPT ![req[r]] = @ + 1]
    /\ pc' = [pc EXCEPT ![r] = "reply"]
    /\ UNCHANGED <<up, guard, mu, file, survivors, req, sig, saved, returned, released>>

\* The test of RecordSignature: another call moved the guard on meanwhile.
Superseded(ts) == ts # guard.highWater

\* RecordSignature leaves the memo of a newer timestamp alone.
RecordSuperseded(r) ==
    /\ pc[r] = "record"
    /\ mu = nil
    /\ Superseded(req[r].ts)
    /\ pc' = [pc EXCEPT ![r] = "reply"]
    /\ UNCHANGED <<up, guard, mu, file, survivors, req, sig, saved, signCount,
                   returned, released>>

\* RecordSignature up to persistLocked; the mutex stays held.
RecordBegin(r) ==
    /\ pc[r] = "record"
    /\ mu = nil
    /\ ~Superseded(req[r].ts)
    /\ mu' = r
    /\ guard' = [guard EXCEPT !.checkpoint = req[r], !.signature = sig[r]]
    /\ pc' = [pc EXCEPT ![r] = "recordWrite"]
    /\ UNCHANGED <<up, file, survivors, req, sig, saved, signCount, returned, released>>

RecordFailureDropsMemo(r) ==
    /\ pc[r] \in {"recordWrite", "recordSync"}
    /\ mu' = nil
    /\ guard' = NoMemo(guard.highWater)
    /\ pc' = [pc EXCEPT ![r] = "reply"]
    /\ UNCHANGED <<up, file, survivors, req, sig, saved, signCount, returned, released>>

\* persistLocked returns an error to RecordSignature, before or after the
\* rename.  The memo stays in memory, and the handler logs the error and
\* returns the signature all the same.
RecordFails(r) ==
    /\ pc[r] \in {"recordWrite", "recordSync"}
    /\ mu' = nil
    /\ pc' = [pc EXCEPT ![r] = "reply"]
    /\ UNCHANGED <<up, guard, file, survivors, req, sig, saved, signCount,
                   returned, released>>

HitAnyCheckpoint(c) == HasMemo(guard) /\ c.ts = guard.highWater

\* The test of CachedSignature.
Hit(c) == HasMemo(guard) /\ c.ts = guard.highWater /\ c = guard.checkpoint

\* CachedSignature; on a miss the handler returns FailedPrecondition.
CachedSignature(r) ==
    /\ pc[r] = "cached"
    /\ mu = nil
    /\ sig' = [sig EXCEPT ![r] = IF Hit(req[r]) THEN guard.signature ELSE nil]
    /\ pc' = [pc EXCEPT ![r] = "reply"]
    /\ UNCHANGED <<up, guard, mu, file, survivors, req, saved, signCount,
                   returned, released>>

\* The handler returns: a signature, or an error when sig[r] is nil.
Reply(r) ==
    /\ pc[r] = "reply"
    /\ returned' = returned \cup ({sig[r]} \ {nil})
    /\ released' = released \cup ({sig[r]} \ {nil})
    /\ pc' = [pc EXCEPT ![r] = "idle"]
    /\ req' = [req EXCEPT ![r] = nil]
    /\ sig' = [sig EXCEPT ![r] = nil]
    /\ UNCHANGED <<up, guard, mu, file, survivors, saved, signCount>>

--------------------------------------------------------------------------------
(* The process and the machine it runs on *)

\* server.New loads the guard and the daemon starts serving.
Start ==
    /\ up = "down"
    /\ file.format # "corrupt"
    /\ up' = "up"
    /\ guard' = Load(file)
    /\ UNCHANGED <<mu, file, survivors, pc, req, sig, saved, signCount,
                   returned, released>>

\* newCheckpointReplayGuard fails to parse the file: the daemon exits.
StartRefused ==
    /\ up = "down"
    /\ file.format = "corrupt"
    /\ up' = "refused"
    /\ UNCHANGED <<guard, mu, file, survivors, pc, req, sig, saved, signCount,
                   returned, released>>

\* Every call in flight and everything in memory is lost.
LoseMemory ==
    /\ up' = "down"
    /\ guard' = NoMemo(0)
    /\ mu' = nil
    /\ pc' = [r \in Rpc |-> "idle"]
    /\ req' = [r \in Rpc |-> nil]
    /\ sig' = [r \in Rpc |-> nil]
    /\ saved' = [r \in Rpc |-> NoMemo(0)]
    /\ returned' = {}
    /\ UNCHANGED <<signCount, released>>

\* The process dies; the file system keeps the last rename.
ProcessCrash ==
    /\ up = "up"
    /\ LoseMemory
    /\ UNCHANGED diskVars

\* The machine dies: any rename since the last directory sync may be undone.
PowerLoss ==
    /\ up = "up"
    /\ LoseMemory
    /\ file' \in survivors
    /\ survivors' = {file'}

Handler(r) ==
    \/ AdvanceRejected(r) \/ AdvanceBegin(r) \/ AdvanceFails(r)
    \/ Rename(r) \/ SyncDirOk(r)
    \/ SignRawOk(r) \/ SignRawFails(r) \/ SignRawLost(r)
    \/ RecordSuperseded(r) \/ RecordBegin(r) \/ RecordFails(r)
    \/ CachedSignature(r)
    \/ Reply(r)

Next ==
    \/ \E r \in Rpc : Handler(r) \/ \E c \in Checkpoint : Begin(r, c)
    \/ Start \/ StartRefused \/ ProcessCrash \/ PowerLoss

Spec == Init /\ [][Next]_vars

\* Handlers run until they return (Go schedules every goroutine, and its mutex
\* hands over to a waiter that starves).
FairSpec == Spec /\ \A r \in Rpc : SF_vars(Handler(r))

--------------------------------------------------------------------------------
(* Properties *)

PCs == {"idle", "advance", "advanceWrite", "advanceSync", "sign", "record",
        "recordWrite", "recordSync", "cached", "reply"}

\* The types of the state: in particular an error is never counted as a
\* released signature.
TypeOK ==
    /\ up \in {"down", "up", "refused"}
    /\ guard \in Guard
    /\ mu \in Rpc \cup {nil}
    /\ file \in GuardFile
    /\ survivors \subseteq GuardFile
    /\ pc \in [Rpc -> PCs]
    /\ req \in [Rpc -> MaybeCheckpoint]
    /\ sig \in [Rpc -> MaybeCheckpoint]
    /\ saved \in [Rpc -> Guard]
    /\ signCount \in [Checkpoint -> Nat]
    /\ returned \subseteq Checkpoint /\ released \subseteq Checkpoint

\* At any one validator_timestamp the backend makes at most one signature, over
\* at most one checkpoint, whatever calls race, whatever write fails and
\* whenever the process or the machine stops (CheckAndAdvance).
OneSigningPerTimestamp ==
    \A c, d \in Checkpoint :
        /\ signCount[c] <= 1
        /\ c.ts = d.ts /\ signCount[c] > 0 /\ signCount[d] > 0 => c = d

\* No content the state file can have after a power loss would let the guard
\* accept the timestamp of a signature already made: the high-water mark is
\* durable before SignRaw is called (persistLocked before step 8).
SignedIsDurable ==
    \A c \in Checkpoint : signCount[c] > 0 =>
        \A f \in survivors : c.ts <= Load(f).highWater

\* A call that is about to return a signature returns one over the checkpoint
\* it asked for, also when the answer comes from the memo, from a file loaded
\* after a crash or from a memo restored by a rollback (CachedSignature).
AnswersMatchRequests ==
    \A r \in Rpc : pc[r] = "reply" /\ sig[r] # nil => sig[r] = req[r]

\* CachedSignature can answer a repeat of c.
Replayable(c) == up = "up" /\ mu = nil /\ Hit(c)

\* A signature the running daemon has returned can be had again for the same
\* request until a newer checkpoint takes its place, also when a later advance
\* failed and was rolled back, and also when RecordSignature could not write the
\* memo: it stays in memory, although the handler then logs that "a repeat of
\* this checkpoint will be rejected" (UnsavedMemoIsRejected).
ReleasedIsReplayable ==
    up = "up" /\ mu = nil =>
        \A c \in returned : Hit(c) \/ c.ts < guard.highWater

\* Every SignBridgeCheckpoint call returns: no failure leaves the guard's mutex
\* held, and no call waits for one that waits for it.
CallsReturn ==
    \A r \in Rpc : (pc[r] # "idle") ~> (pc[r] = "idle")

\* Unless the process stops, a signature the handler has obtained from the
\* backend ends up replayable, or superseded by a newer checkpoint, whatever calls
\* race it to the mutex and also when the memo cannot be written (RecordSignature
\* keeps it in memory; the handler's log says otherwise).
SignedIsMemoized ==
    \A c \in Checkpoint :
        (\E r \in Rpc : pc[r] = "record" /\ req[r] = c)
            ~> (Replayable(c) \/ c.ts < guard.highWater \/ up # "up")

\* If the daemon eventually stays up, a signature the handler has obtained from
\* the backend ends up replayable, or superseded by a newer checkpoint: the
\* promise of the comments on ErrReplayGuardRejected and in step 7 that a node
\* whose first answer got lost does not re-ask forever.
SignedBecomesReplayable ==
    <>[](up = "up") => \A c \in Checkpoint :
        (\E r \in Rpc : pc[r] = "record" /\ req[r] = c)
            ~> (Replayable(c) \/ c.ts < guard.highWater)

\* A repeat is answered only from a memo that is in the state file.  When
\* RecordSignature fails to put it there, the handler says that this costs the
\* memo and that "a repeat of this checkpoint will be rejected".
UnsavedMemoIsRejected ==
    [][\A r \in Rpc : CachedSignature(r) /\ ~HasMemo(Load(file)) => sig'[r] = nil]_vars

Ledger == INSTANCE CheckpointLedger
              WITH signed <- {c \in Checkpoint : signCount[c] > 0}

\* The guard and its handler implement a ledger that signs one checkpoint per
\* timestamp and hands out only signatures it has made.
ImplementsLedger == Ledger!Spec
================================================================================
