------------------------------- MODULE Bootstrap -------------------------------
(***************************************************************************)
(* The two files a signer creates for itself: the last-sign state, made    *)
(* once by the init-state command (cmd_init.go, consensus/statefile.go),   *)
(* and the connection key, made by the first start                         *)
(* (consensus/connkey.go).  Both are tested for with os.Stat and then      *)
(* written in place with os.WriteFile, which truncates before it writes.   *)
(* Processes die between any two of these steps.                           *)
(***************************************************************************)
EXTENDS FileContents, FiniteSets

CONSTANTS
    Command,   \* runs of init-state
    Run        \* successive runs of the daemon

ASSUME ContentAssumption ==
    /\ None # Torn
    /\ {None, Torn} \cap (Run \cup {"fresh", "signed"}) = {}

VARIABLES
    state,  \* content of the state file: None, Torn, "fresh" or "signed"
    key,    \* content of the connection key file: None, Torn, or the run whose key it is
    cmd,    \* where each init-state command is
    run,    \* where each run of the daemon is
    pk,     \* the connection key each run holds
    used    \* connection keys that dial clients have used

bootVars == <<state, key, cmd, run, pk, used>>

StateContent == {None, Torn, "fresh", "signed"}

BootTypeOK ==
    /\ state \in StateContent
    /\ key \in Run \cup {None, Torn}
    /\ cmd \in [Command -> {"idle", "absent", "open", "done"}]
    /\ run \in [Run -> {"idle", "generate", "open", "keyed", "up", "down"}]
    /\ pk \in [Run -> Run \cup {None}]
    /\ used \subseteq Run

BootInit ==
    /\ state = None
    /\ key = None
    /\ cmd = [c \in Command |-> "idle"]
    /\ run = [r \in Run |-> "idle"]
    /\ pk = [r \in Run |-> None]
    /\ used = {}

--------------------------------------------------------------------------------
(* init-state *)

InitBeginUnchecked(c) ==
    /\ cmd[c] = "idle"
    /\ cmd' = [cmd EXCEPT ![c] = "absent"]
    /\ UNCHANGED <<state, key, run, pk, used>>

\* os.Stat finds nothing, or the command refuses.
InitBegin(c) ==
    /\ cmd[c] = "idle"
    /\ cmd' = [cmd EXCEPT ![c] = IF state = None THEN "absent" ELSE "done"]
    /\ UNCHANGED <<state, key, run, pk, used>>

\* os.WriteFile opens the file with O_TRUNC, or fails to.
InitOpen(c) ==
    /\ cmd[c] = "absent"
    /\ \/ cmd' = [cmd EXCEPT ![c] = "open"] /\ state' = Torn
       \/ cmd' = [cmd EXCEPT ![c] = "done"] /\ UNCHANGED state
    /\ UNCHANGED <<key, run, pk, used>>

InitWrite(c) ==
    /\ cmd[c] = "open"
    /\ cmd' = [cmd EXCEPT ![c] = "done"]
    /\ state' \in {Torn, "fresh"}
    /\ UNCHANGED <<key, run, pk, used>>

InitDies(c) ==
    /\ cmd[c] \in {"absent", "open"}
    /\ cmd' = [cmd EXCEPT ![c] = "done"]
    /\ UNCHANGED <<state, key, run, pk, used>>

--------------------------------------------------------------------------------
(* start: GenOrLoadConnKey, RequireStateFile, LoadCometFilePV.  One daemon *)
(* runs at a time.                                                         *)

\* os.Stat, then a new key or the one on file; a file that does not parse is an
\* error.
GenOrLoadConnKey(r) ==
    /\ run[r] = "idle"
    /\ \A q \in Run : run[q] \in {"idle", "down"}
    /\ \/ key = None /\ run' = [run EXCEPT ![r] = "generate"] /\ UNCHANGED pk
       \/ key = Torn /\ run' = [run EXCEPT ![r] = "down"] /\ UNCHANGED pk
       \/ key \in Run /\ run' = [run EXCEPT ![r] = "keyed"] /\ pk' = [pk EXCEPT ![r] = key]
    /\ UNCHANGED <<state, key, cmd, used>>

OpenKeyFile(r) ==
    /\ run[r] = "generate"
    /\ \/ run' = [run EXCEPT ![r] = "open"] /\ key' = Torn
       \/ run' = [run EXCEPT ![r] = "down"] /\ UNCHANGED key
    /\ UNCHANGED <<state, cmd, pk, used>>

WriteKeyErrorIgnored(r) ==
    /\ run[r] = "open"
    /\ key' \in {r, Torn, None}
    /\ run' = [run EXCEPT ![r] = "keyed"]
    /\ pk' = [pk EXCEPT ![r] = r]
    /\ UNCHANGED <<state, cmd, used>>

WriteKey(r) ==
    /\ run[r] = "open"
    /\ \/ key' = r /\ run' = [run EXCEPT ![r] = "keyed"] /\ pk' = [pk EXCEPT ![r] = r]
       \/ UNCHANGED <<key, pk>> /\ run' = [run EXCEPT ![r] = "down"]
    /\ UNCHANGED <<state, cmd, used>>

\* RequireStateFile and LoadCometFilePV refuse a missing and a torn file; then
\* the dial clients start.
LoadState(r) ==
    /\ run[r] = "keyed"
    /\ IF state \in {"fresh", "signed"}
       THEN run' = [run EXCEPT ![r] = "up"] /\ used' = used \cup {pk[r]}
       ELSE run' = [run EXCEPT ![r] = "down"] /\ UNCHANGED used
    /\ UNCHANGED <<state, key, cmd, pk>>

\* FilePV saves its state with an atomic rename before a signature is sent.
SignAndSave(r) ==
    /\ run[r] = "up"
    /\ state' = "signed"
    /\ UNCHANGED <<key, cmd, run, pk, used>>

Stops(r) ==
    /\ run[r] \notin {"idle", "down"}
    /\ run' = [run EXCEPT ![r] = "down"]
    /\ UNCHANGED <<state, key, cmd, pk, used>>

BootNext ==
    \/ \E c \in Command : InitBegin(c) \/ InitOpen(c) \/ InitWrite(c) \/ InitDies(c)
    \/ \E r \in Run : \/ GenOrLoadConnKey(r) \/ OpenKeyFile(r) \/ WriteKey(r)
                      \/ LoadState(r) \/ SignAndSave(r) \/ Stops(r)

BootSpec == BootInit /\ [][BootNext]_bootVars

--------------------------------------------------------------------------------
(* Properties *)

\* The state file holds what a daemon saved when it signed, and no init-state
\* command is between its os.Stat and the end of its os.WriteFile.
SignedAndSettled ==
    state = "signed" /\ \A c \in Command : cmd[c] \notin {"absent", "open"}

\* Once a daemon has signed and the init-state commands begun by then have ended,
\* the state file is for ever a state that a daemon saved: no command that begins
\* later replaces it (InitStateFile refuses when the file exists), whatever dies
\* and is run again.
SettledStateIsKept == [](SignedAndSettled => [](state = "signed"))

\* InitStateFile refuses when a state file exists "so bootstrapping can never
\* overwrite a real last-sign state": once a daemon has signed, the state file is
\* never anything but a state it saved.  A command that has tested for the file
\* before another one made it can still break this.
NeverOverwritesSigned == [][state = "signed" => state' = "signed"]_bootVars

\* The connection identity is chosen once: a key that dial clients have used is
\* on file, so every later run uses the same one, whatever dies during the
\* writing of the file.
OneIdentity == \A k \in used : key = k
================================================================================
