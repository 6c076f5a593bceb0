----------------------------- MODULE AtomicNewFile -----------------------------
(***************************************************************************)
(* WriteNewFileAtomic of signer/atomicwrite.go, as the export command of   *)
(* cmd/bridge-signer/cmd_export.go uses it: temp file, write, chmod, fsync,*)
(* hard link into place, fsync of the directory, removal of the temp file. *)
(* Several processes write the same path; system calls fail, processes die *)
(* and the power fails at any point.                                       *)
(*                                                                         *)
(* The file system is external: each writer's temp file is one inode, and  *)
(* a power loss may leave any content or directory entry that was not      *)
(* synced.                                                                 *)
(***************************************************************************)
EXTENDS FileContents, FiniteSets

CONSTANT Writer

ASSUME NoneAssumption == None \notin Writer /\ Torn \notin Writer \cup {None}

VARIABLES
    pc,      \* where each writer is
    data,    \* what each writer's inode holds
    onDisk,  \* contents it may have after a power loss
    temps,   \* writers whose temp name exists
    undone,  \* writers whose removal of it a power loss can undo or has undone
    path,    \* writer whose inode the path is linked to
    entries  \* what the path may be linked to after a power loss

vars == <<pc, data, onDisk, temps, undone, path, entries>>

Content == {"empty", "part", "whole"}
Running == {"idle", "created", "written", "synced", "linked", "finishing", "failing"}
Returned == {"ok", "error", "dead"}

TypeOK ==
    /\ pc \in [Writer -> Running \cup Returned]
    /\ data \in [Writer -> Content]
    /\ onDisk \in [Writer -> SUBSET Content]
    /\ temps \subseteq Writer /\ undone \subseteq Writer
    /\ path \in Writer \cup {None}
    /\ entries \subseteq Writer \cup {None}

Init ==
    /\ pc = [w \in Writer |-> "idle"]
    /\ data = [w \in Writer |-> "empty"]
    /\ onDisk = [w \in Writer |-> {"empty"}]
    /\ temps = {} /\ undone = {}
    /\ path = None
    /\ entries = {None}

Goto(w, l) == pc' = [pc EXCEPT ![w] = l]

--------------------------------------------------------------------------------
\* The key is missing, not a local secp256k1 key, or no temp file can be made.
ExportFails(w) ==
    /\ pc[w] = "idle"
    /\ Goto(w, "error")
    /\ UNCHANGED <<data, onDisk, temps, undone, path, entries>>

CreateTemp(w) ==
    /\ pc[w] = "idle"
    /\ Goto(w, "created")
    /\ temps' = temps \cup {w}
    /\ UNCHANGED <<data, onDisk, undone, path, entries>>

Write(w) ==
    /\ pc[w] = "created"
    /\ \/ data' = [data EXCEPT ![w] = "whole"] /\ Goto(w, "written")
       \/ data' = [data EXCEPT ![w] = "part"] /\ Goto(w, "failing")
    /\ onDisk' = [onDisk EXCEPT ![w] = Content]
    /\ UNCHANGED <<temps, undone, path, entries>>

\* Chmod, fsync and close.
SyncTemp(w) ==
    /\ pc[w] = "written"
    /\ \/ onDisk' = [onDisk EXCEPT ![w] = {data[w]}] /\ Goto(w, "synced")
       \/ UNCHANGED onDisk /\ Goto(w, "failing")
    /\ UNCHANGED <<data, temps, undone, path, entries>>

Link(w) ==
    /\ pc[w] = "synced"
    /\ path = None
    /\ path' = w
    /\ entries' = entries \cup {w}
    /\ Goto(w, "linked")
    /\ UNCHANGED <<data, onDisk, temps, undone>>

\* The path exists, or the link fails.
LinkFails(w) ==
    /\ pc[w] = "synced"
    /\ Goto(w, "failing")
    /\ UNCHANGED <<data, onDisk, temps, undone, path, entries>>

SyncDirSkipped(w) ==
    /\ pc[w] = "linked"
    /\ Goto(w, "finishing")
    /\ UNCHANGED <<data, onDisk, temps, undone, path, entries>>

syncDir(w) ==
    /\ pc[w] = "linked"
    /\ \/ entries' = {path} /\ undone' = undone \cap temps /\ Goto(w, "finishing")
       \/ UNCHANGED <<entries, undone>> /\ Goto(w, "failing")
    /\ UNCHANGED <<data, onDisk, temps, path>>

ReturnLeavesTemp(w) ==
    /\ pc[w] \in {"finishing", "failing"}
    /\ Goto(w, IF pc[w] = "finishing" THEN "ok" ELSE "error")
    /\ temps' = IF pc[w] = "finishing" THEN temps \ {w} ELSE temps
    /\ undone' = IF pc[w] = "finishing" THEN undone \cup {w} ELSE undone
    /\ UNCHANGED <<data, onDisk, path, entries>>

\* The deferred removal of the temp file, taken to succeed (the code does not
\* look at its error), then the return.  The directory was synced before.
Return(w) ==
    /\ pc[w] \in {"finishing", "failing"}
    /\ Goto(w, IF pc[w] = "finishing" THEN "ok" ELSE "error")
    /\ temps' = temps \ {w}
    /\ undone' = undone \cup {w}
    /\ UNCHANGED <<data, onDisk, path, entries>>

ProcessDies(w) ==
    /\ pc[w] \in Running \ {"idle"}
    /\ Goto(w, "dead")
    /\ UNCHANGED <<data, onDisk, temps, undone, path, entries>>

PowerLoss ==
    /\ pc' = [w \in Writer |-> IF pc[w] \in Returned \cup {"idle"} THEN pc[w] ELSE "dead"]
    /\ data' \in [Writer -> Content]
    /\ \A w \in Writer : data'[w] \in onDisk[w]
    /\ onDisk' = [w \in Writer |-> {data'[w]}]
    /\ path' \in entries
    /\ entries' = {path'}
    /\ temps' \in SUBSET (temps \cup undone)
    /\ undone' = undone \cap temps'

Step(w) ==
    \/ ExportFails(w) \/ CreateTemp(w) \/ Write(w) \/ SyncTemp(w)
    \/ Link(w) \/ LinkFails(w) \/ syncDir(w) \/ Return(w)

Next == PowerLoss \/ \E w \in Writer : Step(w) \/ ProcessDies(w)

Spec == Init /\ [][Next]_vars

--------------------------------------------------------------------------------
(* Properties *)

\* A success that WriteNewFileAtomic reported is the path's content, now and
\* after any later power loss, so that at most one writer ever succeeds.
SuccessIsDurable ==
    \A w \in Writer : pc[w] = "ok" =>
        path = w /\ entries = {w} /\ onDisk[w] = {"whole"}

\* Every return of WriteNewFileAtomic, successful or not, has removed the temp
\* file, which holds the private key: one that is left belongs to a writer that
\* died, or the power failed before the removal was on disk.
TempsAreRemoved ==
    \A w \in temps \ undone : pc[w] \notin {"idle", "ok", "error"}

Ledger == INSTANCE WriteOnceFile WITH
    file <- IF path = None \/ data[path] = "whole" THEN path ELSE Torn,
    promised <- {w \in Writer : pc[w] = "ok"}

\* WriteNewFileAtomic implements WriteOnceFile: nobody ever sees part of the
\* data at the path, whatever dies and when; what is there is not replaced.
ImplementsWriteOnce == Ledger!Spec
================================================================================
