--------------------------- MODULE MCConsensusPlane ---------------------------
(* Instances of ConsensusPlane for TLC. *)
EXTENDS ConsensusPlane

CONSTANTS n1, n2 \* the two nodes

MCIds == {n1, n2}
MCPreferOrder == <<n1, n2>>
MCClients == {1, 2}
MCTargetOf == <<n1, n2>>

At(h, r, s, b, t) == [height |-> h, round |-> r, step |-> s, block |-> b,
                      time |-> t]

\* A prevote, the same with another timestamp and with another block, the
\* precommit that follows, and a proposal of the next height.
MCSignBytes == {At(1, 0, 2, "A", 1), At(1, 0, 2, "A", 2), At(1, 0, 2, "B", 1),
                At(1, 0, 3, "A", 2), At(2, 0, 1, "B", 3)}

\* One message per height.
TwoHeights == {At(1, 0, 3, "A", 1), At(2, 0, 3, "B", 2)}

--------------------------------------------------------------------------------

Running == proc = "up" /\ ~ctxDone

\* Node n1 can be reached and goes on asking for signatures at the greatest
\* height.  Nothing is assumed of n2.
PreferredNodeLives ==
    /\ SF_vars(DialOk(1))
    /\ SF_vars(\E m \in SignBytes : m.height = 2 /\ Receive(1, m, TRUE))

\* While the daemon runs, the role always comes back to the preferred node, as
\* long as that node keeps up with the chain: neither idle failovers nor the
\* deferral of fail-back lock it out (Acquire, outranks).
PreferredReturns == PreferredNodeLives /\ <>[]Running => []<>(primary = n1)

\* Node n2 can be reached and goes on asking for signatures.  Nothing is assumed
\* of n1, the preferred node.
StandbyLives ==
    /\ SF_vars(DialOk(2))
    /\ SF_vars(\E m \in SignBytes : Receive(2, m, TRUE))

\* While the daemon runs, the role never stays with a silent node: a preferred
\* node that holds its connection open but stops asking, or comes back and goes
\* again, does not keep the standby from signing (Acquire's idle timeout).
StandbyTakesOver == StandbyLives /\ <>[]Running => []<>(idle <= Timeout)
================================================================================
