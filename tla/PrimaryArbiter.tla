---------------------------- MODULE PrimaryArbiter ----------------------------
(***************************************************************************)
(* consensus/primary.go: which of the nodes that share one validator key   *)
(* may have its votes and proposals signed.  Each operation runs under the *)
(* arbiter's mutex from start to end, so each is one action.               *)
(***************************************************************************)
EXTENDS Integers, Sequences

CONSTANTS
    Ids,         \* dial targets
    PreferOrder, \* sequence of Ids, most preferred first; <<>> for no preference
    Timeout,     \* failover timeout, in ticks
    NoPrimary    \* the empty id

ASSUME IdsAssumption == NoPrimary \notin Ids
ASSUME PreferOrderAssumption == PreferOrder \in Seq(Ids)
ASSUME TimeoutAssumption == Timeout \in Nat \ {0}

VARIABLES
    primary,  \* the id that holds the role, or NoPrimary
    idle,     \* ticks since lastReq; Timeout + 1 stands for anything longer
    maxHeight \* greatest height granted

arbiterVars == <<primary, idle, maxHeight>>

--------------------------------------------------------------------------------

ArbiterTypeOK ==
    /\ primary \in Ids \cup {NoPrimary}
    /\ idle \in 0..(Timeout + 1)
    /\ maxHeight \in Nat

\* NewPreferringPrimaryArbiter; lastReq is the zero time.
ArbiterInit ==
    /\ primary = NoPrimary
    /\ idle = Timeout + 1
    /\ maxHeight = 0

Listed == {PreferOrder[i] : i \in 1..Len(PreferOrder)}

\* A target listed twice keeps its first rank.
Rank(id) == CHOOSE i \in 1..Len(PreferOrder) :
                /\ PreferOrder[i] = id
                /\ \A j \in 1..(i - 1) : PreferOrder[j] # id

\* Whether id is preferred over the current primary.
Outranks(id) ==
    /\ id \in Listed
    /\ primary \in Listed => Rank(id) < Rank(primary)

MayAcquireNotIdle(id, height) ==
    \/ primary \in {id, NoPrimary}
    \/ Outranks(id) /\ height >= maxHeight

MayAcquireNotPreferred(id, height) ==
    \/ primary \in {id, NoPrimary}
    \/ idle > Timeout

\* The cases of Acquire that answer true: already primary, no primary, primary
\* idle for longer than the timeout, preferred and not behind.
MayAcquire(id, height) ==
    \/ primary \in {id, NoPrimary}
    \/ idle > Timeout
    \/ Outranks(id) /\ height >= maxHeight

AcquireForgetsHeight(id, height, granted) ==
    /\ granted = MayAcquire(id, height)
    /\ primary' = IF granted THEN id ELSE primary
    /\ idle' = IF granted THEN 0 ELSE idle
    /\ UNCHANGED maxHeight

\* Acquire answers granted; a grant records the height.
Acquire(id, height, granted) ==
    /\ granted = MayAcquire(id, height)
    /\ primary' = IF granted THEN id ELSE primary
    /\ idle' = IF granted THEN 0 ELSE idle
    /\ maxHeight' = IF granted /\ height > maxHeight THEN height ELSE maxHeight

ReleaseNobody(id) == UNCHANGED arbiterVars

ReleaseAnybody(id) ==
    /\ primary' = NoPrimary
    /\ idle' = Timeout + 1
    /\ UNCHANGED maxHeight

\* A disconnected target gives up the role; any other target has no effect.
Release(id) ==
    /\ primary' = IF primary = id THEN NoPrimary ELSE primary
    /\ idle' = IF primary = id THEN Timeout + 1 ELSE idle
    /\ UNCHANGED maxHeight

\* Time passes.
Tick ==
    /\ idle <= Timeout
    /\ idle' = idle + 1
    /\ UNCHANGED <<primary, maxHeight>>
================================================================================
