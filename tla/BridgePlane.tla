------------------------------ MODULE BridgePlane ------------------------------
(***************************************************************************)
(* The gRPC side of the signer (server/server.go, server/auth.go) next to  *)
(* the election it follows (consensus/primary.go): calls pass the          *)
(* interceptors, their handlers queue for the remote backend's mutex       *)
(* (signer/fortanix_dsm.go) under the request timeout, while privval       *)
(* requests move the primary role and the active-node gauge                *)
(* (metrics/metrics.go).                                                   *)
(*                                                                         *)
(* What a handler checks before it signs is the subject of RequestGates;   *)
(* here its verdict is a free choice.                                      *)
(***************************************************************************)
EXTENDS PrimaryArbiter

CONSTANTS
    Call,           \* gRPC calls that can be in flight at once
    Host,           \* hosts: IP addresses and names
    Target,         \* Target[n]: the dial target of node n in the configuration
    PeerHost,       \* PeerHost[n]: the IP address node n's gRPC calls come from
    Election,       \* whether a failover timeout is configured
    Methods,        \* RPCs that clients use
    Disabled,       \* RPCs that enabled_rpcs turns off
    RequestTimeout, \* server.request_timeout, in ticks
    nil             \* no call

Address == [scheme : BOOLEAN, host : Host, port : BOOLEAN]

GatedRPCs == {"SignBridgeCheckpoint", "SignOracleAttestation"}
SigningRPCs == GatedRPCs \cup {"SignTx", "SignInitial"}

ASSUME TargetAssumption == Target \in [Ids -> Address] /\ PeerHost \in [Ids -> Host]
ASSUME MethodsAssumption ==
    Methods \subseteq SigningRPCs \cup {"GetPublicKey", "Sign", "SignRaw"}
ASSUME RequestTimeoutAssumption == RequestTimeout \in Nat \ {0}
ASSUME CallAssumption == nil \notin Call
ASSUME HostAssumption == NoPrimary \notin Host /\ Host \cap Address = {}

VARIABLES
    recording, \* nodes granted the role whose RecordSign is still to come
    seen,      \* labels of the active-node gauge
    active,    \* labels whose gauge is 1
    pc,        \* pc[c]: where call c is
    method,    \* method[c]: its RPC
    peer,      \* peer[c]: the node it comes from
    left,      \* left[c]: ticks to the deadline of its context
    todo,      \* todo[c]: SignRaw calls its handler still has to make
    mu,        \* holder of the backend's mutex
    waiters,   \* calls queued for it, first come first
    starving   \* Go's mutex is in starvation mode

gaugeVars == <<recording, seen, active>>
muVars == <<mu, waiters, starving>>
callVars == <<pc, method, peer, left, todo>>
vars == <<arbiterVars, gaugeVars, callVars, muVars>>

--------------------------------------------------------------------------------
(* Addresses *)

HostOfKeepsScheme(addr) == IF addr.scheme THEN addr ELSE addr.host

\* HostOf: scheme and port are stripped.
HostOf(addr) == addr.host

\* hostOnly: only a bare host:port is split.
HostOnly(addr) == IF addr.scheme THEN addr ELSE addr.host

PrimaryHost == IF primary = NoPrimary THEN NoPrimary ELSE HostOf(Target[primary])

Init ==
    /\ ArbiterInit
    /\ recording = {} /\ seen = {} /\ active = {}
    /\ pc = [c \in Call |-> "idle"]
    /\ method = [c \in Call |-> "Sign"]
    /\ peer = [c \in Call |-> nil]
    /\ left = [c \in Call |-> 0]
    /\ todo = [c \in Call |-> 0]
    /\ mu = nil /\ waiters = <<>> /\ starving = FALSE

--------------------------------------------------------------------------------
(* Privval requests: gatedHandler calls Acquire and then RecordSign.  All  *)
(* requests are for one height: ConsensusPlane is about heights.           *)

RecordedRequest(n, granted) ==
    /\ Acquire(n, 1, granted)
    /\ recording' = recording \cup {n}

GatedRequest(n, granted) ==
    /\ Acquire(n, 1, granted)
    /\ recording' = IF granted THEN recording \cup {n} ELSE recording

PrivvalRequest(n) ==
    /\ Election
    /\ n \notin recording
    /\ \E granted \in BOOLEAN : GatedRequest(n, granted)
    /\ UNCHANGED <<seen, active, callVars, muVars>>

\* The node's gauge is set to 1 and that of every node seen before to 0.
RecordSign(n) ==
    /\ seen' = seen \cup {HostOnly(Target[n])}
    /\ active' = {HostOnly(Target[n])}

Record(n) ==
    /\ n \in recording
    /\ RecordSign(n)
    /\ recording' = recording \ {n}
    /\ UNCHANGED <<arbiterVars, callVars, muVars>>

\* The dial client of n, not inside a request, loses its connection.
Disconnect(n) ==
    /\ Election
    /\ n \notin recording
    /\ primary = n
    /\ Release(n)
    /\ UNCHANGED <<gaugeVars, callVars, muVars>>

PrimaryIdles == Tick /\ UNCHANGED <<gaugeVars, callVars, muVars>>

--------------------------------------------------------------------------------
(* A call through the interceptors *)

\* The outermost interceptor starts the deadline.  A call that may wait forever
\* for a slot is not modelled: gRPC starts a goroutine for each.
Arrive(c, m, n) ==
    /\ pc[c] = "idle"
    /\ pc' = [pc EXCEPT ![c] = "gate"]
    /\ method' = [method EXCEPT ![c] = m]
    /\ peer' = [peer EXCEPT ![c] = n]
    /\ left' = [left EXCEPT ![c] = RequestTimeout]
    /\ UNCHANGED <<arbiterVars, gaugeVars, todo, muVars>>

PrimaryGateOpen(m, n) == TRUE

\* newPrimaryGateInterceptor serves when there is nothing to compare with.
PrimaryGateServes(m, n) ==
    \/ ~Election
    \/ m \notin GatedRPCs
    \/ PrimaryHost = NoPrimary
    \/ PrimaryHost = PeerHost[n]

Serves(m, n) == m \notin Disabled /\ PrimaryGateServes(m, n)

\* SignRaw calls of a handler that accepts its request.
SignRawCalls(m) ==
    IF m = "SignInitial" THEN 2 ELSE IF m \in SigningRPCs THEN 1 ELSE 0

\* The two inner interceptors, in one step: neither blocks.
Admit(c) ==
    /\ pc[c] = "gate"
    /\ Serves(method[c], peer[c])
    /\ pc' = [pc EXCEPT ![c] = "handler"]
    /\ todo' = [todo EXCEPT ![c] = SignRawCalls(method[c])]
    /\ UNCHANGED <<arbiterVars, gaugeVars, method, peer, left, muVars>>

\* What a call leaves behind when its handler or an interceptor returns.
Return(c) ==
    /\ pc' = [pc EXCEPT ![c] = "idle"]
    /\ peer' = [peer EXCEPT ![c] = nil]
    /\ method' = [method EXCEPT ![c] = "Sign"]
    /\ left' = [left EXCEPT ![c] = 0]
    /\ todo' = [todo EXCEPT ![c] = 0]

Refuse(c) ==
    /\ pc[c] = "gate"
    /\ ~Serves(method[c], peer[c])
    /\ Return(c)
    /\ UNCHANGED <<arbiterVars, gaugeVars, muVars>>

\* A handler that needs no signature answers: the read-only RPCs, the disabled
\* primitives (Unimplemented), and any request its checks reject.
AnswerUnsigned(c) ==
    /\ pc[c] = "handler"
    /\ Return(c)
    /\ UNCHANGED <<arbiterVars, gaugeVars, muVars>>

--------------------------------------------------------------------------------
(* SignRaw of the remote backend.  The mutex is Go's: whoever finds it     *)
(* free takes it, a waiter that is woken and loses it to a newcomer turns  *)
(* it to starvation mode, in which it is handed over in order.             *)

GoesToBackend(c) == pc[c] \in {"handler", "signed"} /\ todo[c] > 0

\* mu.Lock with the mutex free.
Lock(c) ==
    /\ GoesToBackend(c)
    /\ mu = nil
    /\ mu' = c
    /\ starving' = (waiters # <<>>)
    /\ pc' = [pc EXCEPT ![c] = "remote"]
    /\ UNCHANGED <<arbiterVars, gaugeVars, method, peer, left, todo, waiters>>

\* mu.Lock with the mutex taken.
Queue(c) ==
    /\ GoesToBackend(c)
    /\ mu # nil
    /\ waiters' = Append(waiters, c)
    /\ pc' = [pc EXCEPT ![c] = "waiting"]
    /\ UNCHANGED <<arbiterVars, gaugeVars, method, peer, left, todo, mu, starving>>

\* The waiter that Unlock woke finds the mutex still free.
WokenLocks(c) ==
    /\ mu = nil
    /\ waiters # <<>>
    /\ c = Head(waiters)
    /\ mu' = c
    /\ waiters' = Tail(waiters)
    /\ pc' = [pc EXCEPT ![c] = "remote"]
    /\ UNCHANGED <<arbiterVars, gaugeVars, method, peer, left, todo, starving>>

\* In starvation mode Unlock hands the mutex to the first waiter.
HandsOver == starving /\ waiters # <<>>

Unlock ==
    /\ mu' = IF HandsOver THEN Head(waiters) ELSE nil
    /\ waiters' = IF HandsOver THEN Tail(waiters) ELSE waiters
    /\ starving' = (starving /\ Len(waiters) > 1)

\* The handed-over waiter, if any, goes on to its own remote call.
Unlocked(next) ==
    IF HandsOver THEN [next EXCEPT ![Head(waiters)] = "remote"] ELSE next

\* The service answers in time and the answer converts to a signature.
RemoteSigns(c) ==
    /\ pc[c] = "remote"
    /\ left[c] >= 0
    /\ todo' = [todo EXCEPT ![c] = @ - 1]
    /\ pc' = Unlocked([pc EXCEPT ![c] = "signed"])
    /\ Unlock
    /\ UNCHANGED <<arbiterVars, gaugeVars, method, peer, left>>

RemoteFailsLocked(c) ==
    /\ pc[c] = "remote"
    /\ pc' = [pc EXCEPT ![c] = "failed"]
    /\ UNCHANGED <<arbiterVars, gaugeVars, method, peer, left, todo, muVars>>

\* The service or the conversion fails, the context's deadline passes (at once
\* when it had passed before the lock was taken), or the handler panics; the
\* deferred Unlock runs in every case.
RemoteFails(c) ==
    /\ pc[c] = "remote"
    /\ pc' = Unlocked([pc EXCEPT ![c] = "failed"])
    /\ Unlock
    /\ UNCHANGED <<arbiterVars, gaugeVars, method, peer, left, todo>>

\* The handler returns an error (a panic becomes one in newUnaryInterceptor),
\* or all its signatures.
AnswerSigned(c) ==
    /\ pc[c] = "failed" \/ (pc[c] = "signed" /\ todo[c] = 0)
    /\ Return(c)
    /\ UNCHANGED <<arbiterVars, gaugeVars, muVars>>

MaxOverrun == 2 * RequestTimeout

CallTickIgnoresDeadline ==
    /\ \E c \in Call : pc[c] # "idle"
    /\ \A c \in Call : pc[c] \in {"idle", "waiting", "remote"}
    /\ mu # nil
    /\ left' = [c \in Call |-> IF pc[c] = "idle" \/ left[c] < -MaxOverrun
                               THEN left[c] ELSE left[c] - 1]
    /\ UNCHANGED <<arbiterVars, gaugeVars, pc, method, peer, todo, muVars>>

\* Time passes.  Steps other than waiting for the mutex or for the service take
\* none, and a remote call ends at its context's deadline.  A deadline missed
\* by more than MaxOverrun is counted no further.
CallTick ==
    /\ \E c \in Call : pc[c] # "idle"
    /\ \A c \in Call : \/ pc[c] \in {"idle", "waiting"}
                       \/ pc[c] = "remote" /\ left[c] > 0
    /\ mu # nil
    /\ left' = [c \in Call |-> IF pc[c] = "idle" \/ left[c] < -MaxOverrun
                               THEN left[c] ELSE left[c] - 1]
    /\ UNCHANGED <<arbiterVars, gaugeVars, pc, method, peer, todo, muVars>>

Handler(c) ==
    \/ Admit(c) \/ Refuse(c) \/ AnswerUnsigned(c)
    \/ Lock(c) \/ Queue(c) \/ WokenLocks(c)
    \/ RemoteSigns(c) \/ RemoteFails(c) \/ AnswerSigned(c)

Next ==
    \/ \E n \in Ids : PrivvalRequest(n) \/ Record(n) \/ Disconnect(n)
    \/ \E c \in Call : Handler(c)
    \/ \E c \in Call, m \in Methods, n \in Ids : Arrive(c, m, n)
    \/ PrimaryIdles \/ CallTick

Spec == Init /\ [][Next]_vars

\* Go runs every goroutine, and its mutex starves no waiter; time passes.
FairSpec ==
    /\ Spec
    /\ \A c \in Call : SF_vars(Handler(c))
    /\ \A n \in Ids : WF_vars(Record(n))
    /\ WF_vars(CallTick)

--------------------------------------------------------------------------------
(* Properties *)

Labels == Host \cup Address

\* The types of the state; the mutex is held by the one call that is in the
\* remote service, and the queue holds exactly the waiting calls, once each.
TypeOK ==
    /\ ArbiterTypeOK
    /\ recording \subseteq Ids
    /\ seen \subseteq Labels /\ active \subseteq seen
    /\ pc \in [Call -> {"idle", "gate", "handler", "waiting", "remote",
                        "signed", "failed"}]
    /\ method \in [Call -> Methods \cup {"Sign"}]
    /\ peer \in [Call -> Ids \cup {nil}]
    /\ left \in [Call -> -(MaxOverrun + 1)..RequestTimeout]
    /\ todo \in [Call -> 0..2]
    /\ \A c \in Call : (pc[c] = "remote") <=> (mu = c)
    /\ {waiters[i] : i \in 1..Len(waiters)} = {c \in Call : pc[c] = "waiting"}
    /\ \A i, j \in 1..Len(waiters) : waiters[i] = waiters[j] => i = j
    /\ starving \in BOOLEAN

\* A call outlives its deadline by at most one request timeout for each SignRaw
\* it makes.  The deadline bounds only the remote call, and mu.Lock does not look
\* at the context: a SignRaw waits for holders that came before it, each of
\* which ends by its own deadline, and for at most one that overtook it.
OverrunBounded ==
    \A c \in Call :
        pc[c] # "idle" => left[c] >= -(RequestTimeout * SignRawCalls(method[c]))

\* The elected node's own calls always pass the primary gate: a standby cannot
\* hold the role while the node that has it is refused.
PrimaryIsServed ==
    \A m \in Methods, n \in Ids : primary = n => PrimaryGateServes(m, n)

\* Every call returns, also when the remote service never answers, when the
\* conversion of its answer panics, and when newcomers overtake waiters.
CallsReturn == \A c \in Call : (pc[c] # "idle") ~> (pc[c] = "idle")

\* Past the gates: the handler of a vote-extension RPC runs for a node on
\* another host than n's.
StandbyServed(n) ==
    \E c \in Call :
        /\ pc[c] \notin {"idle", "gate"}
        /\ method[c] \in GatedRPCs
        /\ PeerHost[peer[c]] # PeerHost[n]

\* Once the role stays with a node, calls that were admitted for others before
\* it was elected drain, and no further one is served: the standby's requests
\* stop competing with the primary's for the backend.
StandbysDrain ==
    \A n \in Ids : <>[](primary = n) => <>[]~StandbyServed(n)

\* Once the role stays with a node that goes on asking, the gauge comes to rest
\* on that node's label, whatever the others ask and however their RecordSign was
\* delayed.  The label is what hostOnly makes of the dial target, the whole target
\* when it has a scheme; and before it comes to rest, a delayed RecordSign may set
\* the gauge of a node that has lost the role (GaugeNamesPrimary).
GaugeSettles ==
    \A n \in Ids : <>[](primary = n) /\ []<>(n \in recording)
                       => <>[](active = {HostOnly(Target[n])})

\* The gauge is "1 for the node IP that is the current consensus primary signer",
\* "the port is stripped", and it "changes only on a real failover": a change of
\* it sets the one label that is the primary's host.
GaugeNamesPrimary == [][active' # active => active' = {PrimaryHost}]_vars
================================================================================
