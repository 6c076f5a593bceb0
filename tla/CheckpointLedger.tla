--------------------------- MODULE CheckpointLedger ---------------------------
(***************************************************************************)
(* What SignBridgeCheckpoint promises, with no guard, file or mutex: a     *)
(* checkpoint is signed only if nothing was signed at its timestamp, and   *)
(* a caller is only ever handed a signature that was made.                 *)
(***************************************************************************)
CONSTANT Checkpoint  \* records with a field ts

VARIABLES signed, released

Init == signed = {} /\ released = {}

Sign(c) ==
    /\ \A d \in signed : d.ts # c.ts
    /\ signed' = signed \cup {c}
    /\ UNCHANGED released

Release(c) ==
    /\ c \in signed
    /\ released' = released \cup {c}
    /\ UNCHANGED signed

Next == \E c \in Checkpoint : Sign(c) \/ Release(c)

Spec == Init /\ [][Next]_<<signed, released>>
================================================================================
