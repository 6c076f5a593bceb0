----------------------------- MODULE WriteOnceFile -----------------------------
(***************************************************************************)
(* What WriteNewFileAtomic (signer/atomicwrite.go) promises: a path holds  *)
(* nothing or one writer's whole data, never part of it; what it holds is  *)
(* never replaced; and data whose writer was told of success is never      *)
(* lost.                                                                   *)
(***************************************************************************)
EXTENDS FiniteSets

CONSTANTS Writer, None

VARIABLES
    file,     \* whose data the path holds
    promised  \* writers that were told of success

Init == file = None /\ promised = {}

Appear(w) == file = None /\ file' = w /\ UNCHANGED promised

\* A power loss before anybody was promised anything.
Vanish == promised = {} /\ file' = None /\ UNCHANGED promised

Promise(w) == file = w /\ promised' = promised \cup {w} /\ UNCHANGED file

Next == Vanish \/ \E w \in Writer : Appear(w) \/ Promise(w)

Spec == Init /\ [][Next]_<<file, promised>>
================================================================================
