------------------------------ MODULE VoteLedger ------------------------------
(***************************************************************************)
(* What the consensus plane promises the validator, with no connections,   *)
(* arbiter, lock or file: two signatures that leave the signer never       *)
(* disagree about one height, round and step.  The promise ends when the   *)
(* operator makes the signer forget what it has signed.                    *)
(***************************************************************************)
CONSTANT SignBytes  \* records with fields height, round and step

VARIABLES released, forgot

SamePosition(a, b) ==
    a.height = b.height /\ a.round = b.round /\ a.step = b.step

Init == released = {} /\ forgot = FALSE

Release(m) ==
    /\ forgot \/ \A s \in released : SamePosition(s, m) => s = m
    /\ released' = released \cup {m}
    /\ UNCHANGED forgot

Forget ==
    /\ forgot' = TRUE
    /\ UNCHANGED released

Next == Forget \/ \E m \in SignBytes : Release(m)

Spec == Init /\ [][Next]_<<released, forgot>>
================================================================================
