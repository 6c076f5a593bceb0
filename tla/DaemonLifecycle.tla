---------------------------- MODULE DaemonLifecycle ----------------------------
(***************************************************************************)
(* runDaemon of cmd/bridge-signer/cmd_start.go: start-up of the backend,   *)
(* the dial clients and the two servers, the wait for a signal or a failed *)
(* server, and the shutdown with its timer and its second signal.  Signals *)
(* arrive at any point; channels have the capacities of the code.          *)
(*                                                                         *)
(* ConsensusPlane models what the dial clients do and shows that they      *)
(* return once their context is done; here a client runs or has returned.  *)
(***************************************************************************)
EXTENDS Naturals, FiniteSets

CONSTANTS
    Clients,     \* dial clients, one per consensus target
    Calls,       \* gRPC calls that can be in flight at once
    MaxSignals   \* bound on the signals sent to the process

ASSUME MaxSignalsAssumption == MaxSignals \in Nat

VARIABLES
    phase,      \* where runDaemon is
    sent,       \* signals sent to the process so far
    sigCh,      \* signals buffered in sigCh
    initSigCh,  \* signals buffered in initSigCh
    initCtx,    \* cancelInit has been called
    ctxDone,    \* the dial clients' context is done
    running,    \* dial clients that have not returned
    serve,      \* what Serve of each server is doing
    stop,       \* what Stop of each server is doing
    errCh,      \* servers that have reported a failure in errCh
    calls,      \* gRPC calls in flight
    timeout,    \* shutdownCtx has expired
    reason,     \* shutdownReason: a server's failure, or none
    result      \* what runDaemon returned

daemonVars == <<phase, sent, sigCh, initSigCh, initCtx, ctxDone, running, serve, stop,
                errCh, calls, timeout, reason, result>>

Server == {"grpc", "health"}
SigChCap == 2
InitSigChCap == 1

Phases == {"loading", "initializing", "starting", "building", "serving",
           "waiting", "stopping", "exited", "killed"}
Ended == phase \in {"exited", "killed"}

DaemonTypeOK ==
    /\ phase \in Phases
    /\ sent \in 0..MaxSignals
    /\ sigCh \in 0..SigChCap
    /\ initSigCh \in 0..InitSigChCap
    /\ initCtx \in BOOLEAN /\ ctxDone \in BOOLEAN /\ timeout \in BOOLEAN
    /\ running \subseteq Clients
    /\ serve \in [Server -> {"no", "starting", "serving", "returned"}]
    /\ stop \in [Server -> {"no", "stopping", "stopped"}]
    /\ errCh \subseteq Server
    /\ calls \subseteq Calls
    /\ reason \in Server \cup {"none"}
    /\ result \in {"none", "ok", "error", "forced"}

DaemonInit ==
    /\ phase = "loading"
    /\ sent = 0 /\ sigCh = 0 /\ initSigCh = 0
    /\ initCtx = FALSE /\ ctxDone = FALSE /\ timeout = FALSE
    /\ running = {}
    /\ serve = [s \in Server |-> "no"]
    /\ stop = [s \in Server |-> "no"]
    /\ errCh = {} /\ calls = {}
    /\ reason = "none" /\ result = "none"

Exit(outcome) == phase' = "exited" /\ result' = outcome

--------------------------------------------------------------------------------
(* Signals.  signal.Notify never blocks: a signal that does not fit in a   *)
(* channel is dropped for that channel.  Before Notify the default action  *)
(* ends the process.                                                       *)

Buffered(n, cap) == IF n < cap THEN n + 1 ELSE n

DeliverToOne ==
    IF phase = "initializing"
    THEN initSigCh' = Buffered(initSigCh, InitSigChCap) /\ UNCHANGED sigCh
    ELSE sigCh' = Buffered(sigCh, SigChCap) /\ UNCHANGED initSigCh

\* sigCh is registered until runDaemon returns, initSigCh during NewSigner.
Deliver ==
    /\ sigCh' = Buffered(sigCh, SigChCap)
    /\ initSigCh' = IF phase = "initializing"
                    THEN Buffered(initSigCh, InitSigChCap) ELSE initSigCh

Signal ==
    /\ sent < MaxSignals
    /\ ~Ended
    /\ sent' = sent + 1
    /\ IF phase = "loading"
       THEN phase' = "killed" /\ UNCHANGED <<sigCh, initSigCh, ctxDone>>
       ELSE /\ Deliver
            /\ ctxDone' = (ctxDone \/ phase \notin {"initializing", "starting"})
            /\ UNCHANGED phase
    /\ UNCHANGED <<initCtx, running, serve, stop, errCh, calls, timeout, reason, result>>

--------------------------------------------------------------------------------
(* Start-up *)

LoadFails ==
    /\ phase = "loading"
    /\ Exit("error")
    /\ UNCHANGED <<sent, sigCh, initSigCh, initCtx, ctxDone, running, serve, stop,
                   errCh, calls, timeout, reason>>

Load ==
    /\ phase = "loading"
    /\ phase' = "initializing"
    /\ UNCHANGED <<sent, sigCh, initSigCh, initCtx, ctxDone, running, serve, stop,
                   errCh, calls, timeout, reason, result>>

\* The goroutine that waits for one signal while NewSigner runs.
CancelInit ==
    /\ phase = "initializing"
    /\ ~initCtx
    /\ initSigCh > 0
    /\ initSigCh' = initSigCh - 1
    /\ initCtx' = TRUE
    /\ UNCHANGED <<phase, sent, sigCh, ctxDone, running, serve, stop, errCh, calls,
                   timeout, reason, result>>

\* The backend is external and may take any time: a remote one is asked over HTTP
\* with no deadline but initCtx, and a key file without signer.passwordFile prompts
\* at the terminal.  A backend may also finish although initCtx was cancelled; the
\* file backend does not look at it.
NewSignerOk ==
    /\ phase = "initializing"
    /\ phase' = "starting"
    /\ UNCHANGED <<sent, sigCh, initSigCh, initCtx, ctxDone, running, serve, stop,
                   errCh, calls, timeout, reason, result>>

NewSignerFails ==
    /\ phase = "initializing"
    /\ \/ initCtx /\ Exit("ok")
       \/ Exit("error")
    /\ UNCHANGED <<sent, sigCh, initSigCh, initCtx, ctxDone, running, serve, stop,
                   errCh, calls, timeout, reason>>

\* The public key or the consensus files cannot be used.
SetUpFails ==
    /\ phase = "starting"
    /\ Exit("error")
    /\ UNCHANGED <<sent, sigCh, initSigCh, initCtx, ctxDone, running, serve, stop,
                   errCh, calls, timeout, reason>>

\* The credentials or the gRPC server cannot be built; the dial clients that run
\* by now are not waited for.
ServerSetUpFails ==
    /\ phase = "building"
    /\ Exit("error")
    /\ UNCHANGED <<sent, sigCh, initSigCh, initCtx, ctxDone, running, serve, stop,
                   errCh, calls, timeout, reason>>

\* NotifyContext, then one goroutine per target.
StartConsensus ==
    /\ phase = "starting"
    /\ phase' = "building"
    /\ running' = Clients
    /\ UNCHANGED <<sent, sigCh, initSigCh, initCtx, ctxDone, serve, stop, errCh,
                   calls, timeout, reason, result>>

StartServers ==
    /\ phase = "building"
    /\ phase' = "serving"
    /\ serve' = [s \in Server |-> "starting"]
    /\ UNCHANGED <<sent, sigCh, initSigCh, initCtx, ctxDone, running, stop, errCh,
                   calls, timeout, reason, result>>

--------------------------------------------------------------------------------
(* The goroutines *)

ClientReturns(c) ==
    /\ ~Ended
    /\ ctxDone
    /\ c \in running
    /\ running' = running \ {c}
    /\ UNCHANGED <<phase, sent, sigCh, initSigCh, initCtx, ctxDone, serve, stop,
                   errCh, calls, timeout, reason, result>>

\* Serve of a server whose Stop has begun returns at once.
Listen(s) ==
    /\ ~Ended
    /\ serve[s] = "starting"
    /\ serve' = [serve EXCEPT ![s] = IF stop[s] = "no" THEN "serving" ELSE "returned"]
    /\ UNCHANGED <<phase, sent, sigCh, initSigCh, initCtx, ctxDone, running, stop,
                   errCh, calls, timeout, reason, result>>

\* The port is taken, or the listener breaks.
ServeFails(s) ==
    /\ ~Ended
    /\ serve[s] \in {"starting", "serving"}
    /\ stop[s] = "no"
    /\ serve' = [serve EXCEPT ![s] = "returned"]
    /\ errCh' = errCh \cup {s}
    /\ UNCHANGED <<phase, sent, sigCh, initSigCh, initCtx, ctxDone, running, stop,
                   calls, timeout, reason, result>>

CallBegins(c) ==
    /\ ~Ended
    /\ serve["grpc"] = "serving"
    /\ stop["grpc"] = "no"
    /\ c \notin calls
    /\ calls' = calls \cup {c}
    /\ UNCHANGED <<phase, sent, sigCh, initSigCh, initCtx, ctxDone, running, serve,
                   stop, errCh, timeout, reason, result>>

CallEnds(c) ==
    /\ ~Ended
    /\ c \in calls
    /\ calls' = calls \ {c}
    /\ UNCHANGED <<phase, sent, sigCh, initSigCh, initCtx, ctxDone, running, serve,
                   stop, errCh, timeout, reason, result>>

GracefulStopAtOnce ==
    /\ ~Ended
    /\ stop["grpc"] = "stopping"
    /\ stop' = [stop EXCEPT !["grpc"] = "stopped"]
    /\ serve' = [serve EXCEPT !["grpc"] = IF @ = "serving" THEN "returned" ELSE @]
    /\ UNCHANGED <<phase, sent, sigCh, initSigCh, initCtx, ctxDone, running, errCh,
                   calls, timeout, reason, result>>

\* grpcServer.GracefulStop waits for the calls in flight and has no timeout.
GracefulStop ==
    /\ ~Ended
    /\ stop["grpc"] = "stopping"
    /\ calls = {}
    /\ stop' = [stop EXCEPT !["grpc"] = "stopped"]
    /\ serve' = [serve EXCEPT !["grpc"] = IF @ = "serving" THEN "returned" ELSE @]
    /\ UNCHANGED <<phase, sent, sigCh, initSigCh, initCtx, ctxDone, running, errCh,
                   calls, timeout, reason, result>>

\* httpServer.Shutdown ends with its connections or with shutdownCtx.
HealthStop ==
    /\ ~Ended
    /\ stop["health"] = "stopping"
    /\ stop' = [stop EXCEPT !["health"] = "stopped"]
    /\ serve' = [serve EXCEPT !["health"] = IF @ = "serving" THEN "returned" ELSE @]
    /\ UNCHANGED <<phase, sent, sigCh, initSigCh, initCtx, ctxDone, running, errCh,
                   calls, timeout, reason, result>>

--------------------------------------------------------------------------------
(* Shutdown *)

ReceiveSignal ==
    /\ phase = "serving"
    /\ sigCh > 0
    /\ sigCh' = sigCh - 1
    /\ phase' = "waiting"
    /\ ctxDone' = TRUE
    /\ UNCHANGED <<sent, initSigCh, initCtx, running, serve, stop, errCh, calls,
                   timeout, reason, result>>

ReceiveExitDropsError(s) ==
    /\ phase = "serving"
    /\ s \in errCh
    /\ errCh' = errCh \ {s}
    /\ phase' = "waiting"
    /\ ctxDone' = TRUE
    /\ UNCHANGED <<sent, sigCh, initSigCh, initCtx, running, serve, stop, calls,
                   timeout, reason, result>>

ReceiveExit(s) ==
    /\ phase = "serving"
    /\ s \in errCh
    /\ errCh' = errCh \ {s}
    /\ reason' = s
    /\ phase' = "waiting"
    /\ ctxDone' = TRUE
    /\ UNCHANGED <<sent, sigCh, initSigCh, initCtx, running, serve, stop, calls,
                   timeout, result>>

\* consensusWg.Wait, then the timer and the goroutines that stop the servers.
StopServers ==
    /\ phase = "waiting"
    /\ running = {}
    /\ phase' = "stopping"
    /\ stop' = [s \in Server |-> "stopping"]
    /\ UNCHANGED <<sent, sigCh, initSigCh, initCtx, ctxDone, running, serve, errCh,
                   calls, timeout, reason, result>>

TimerExpires ==
    /\ phase = "stopping"
    /\ ~timeout
    /\ timeout' = TRUE
    /\ UNCHANGED <<phase, sent, sigCh, initSigCh, initCtx, ctxDone, running, serve,
                   stop, errCh, calls, reason, result>>

\* doneCh is closed or shutdownCtx has expired.
ShutdownEnds ==
    /\ phase = "stopping"
    /\ timeout \/ \A s \in Server : stop[s] = "stopped"
    /\ Exit(IF reason = "none" THEN "ok" ELSE "error")
    /\ UNCHANGED <<sent, sigCh, initSigCh, initCtx, ctxDone, running, serve, stop,
                   errCh, calls, timeout, reason>>

SecondSignal ==
    /\ phase = "stopping"
    /\ sigCh > 0
    /\ sigCh' = sigCh - 1
    /\ Exit("forced")
    /\ UNCHANGED <<sent, initSigCh, initCtx, ctxDone, running, serve, stop, errCh,
                   calls, timeout, reason>>

--------------------------------------------------------------------------------
NewSigner == NewSignerOk \/ NewSignerFails

\* What runDaemon does by itself, outside the backend.
Main ==
    \/ LoadFails \/ Load \/ SetUpFails
    \/ StartConsensus \/ ServerSetUpFails \/ StartServers
    \/ ReceiveSignal \/ (\E s \in Server : ReceiveExit(s))
    \/ StopServers \/ ShutdownEnds \/ SecondSignal

DaemonNext ==
    \/ Signal \/ Main \/ NewSigner \/ CancelInit \/ TimerExpires
    \/ \E c \in Clients : ClientReturns(c)
    \/ \E s \in Server : Listen(s) \/ ServeFails(s)
    \/ \E c \in Calls : CallBegins(c) \/ CallEnds(c)
    \/ GracefulStop \/ HealthStop

DaemonSpec == DaemonInit /\ [][DaemonNext]_daemonVars

\* The main goroutine and the one that waits for a signal during NewSigner run
\* whenever they can, and the dial clients return once their context is done.
\* Nothing is assumed of the backend, of the calls in flight or of the timer.
FairSpec ==
    /\ DaemonSpec
    /\ WF_daemonVars(Main) /\ WF_daemonVars(CancelInit)
    /\ \A c \in Clients : WF_daemonVars(ClientReturns(c))

\* NewSigner returns once its context is cancelled.  True of a remote backend,
\* whose HTTP request ends with the context, and of a key file with a password
\* file, which waits for nothing; not of one that prompts at the terminal.
BackendHeedsCancel == WF_daemonVars(initCtx /\ NewSigner)

TimerRuns == WF_daemonVars(TimerExpires)

--------------------------------------------------------------------------------
(* Properties *)

\* A shutdown that ended by itself (neither the timer nor a second signal), begun
\* by a signal or by a failed server, interrupted nothing: no gRPC call is in
\* flight and no dial client runs.  One that was forced or timed out still
\* interrupted no dial client: sigCh is read again only after consensusWg.Wait.
ExitInterruptsNothing ==
    /\ phase = "exited" /\ result # "forced" /\ ~timeout => calls = {}
    /\ phase \in {"stopping", "exited"} /\ stop["grpc"] # "no" => running = {}

\* A daemon that stops without having been sent a signal, or because a server
\* failed, never reports success to its supervisor, whatever signals follow.
FailureIsReported ==
    phase = "exited" /\ (sent = 0 \/ reason # "none") => result # "ok"

\* One signal is enough to end the daemon whatever it is doing: loading, waiting
\* for a backend that would never answer by itself, setting up, serving with calls
\* that never end, or already shutting down.  Two signals end it without the help
\* of the shutdown timer, even while a gRPC call never ends; neither is lost when
\* they come before serving starts.  A backend that is waiting at the terminal for
\* a password ends only with its operator's answer, and is left out.
SignalsEnd ==
    BackendHeedsCancel =>
        /\ TimerRuns => [](sent > 0 => <>Ended)
        /\ [](sent > 1 => <>Ended)
================================================================================
