------------------------------- MODULE MCStartup -------------------------------
(***************************************************************************)
(* Instance for TLC of the three parts around the start of the signer:     *)
(* WriteNewFileAtomic (AtomicNewFile), the files made for the first start  *)
(* (Bootstrap) and runDaemon (DaemonLifecycle).  They have no state in     *)
(* common: a behaviour runs one of them and leaves the others as they      *)
(* begin.                                                                  *)
(***************************************************************************)
EXTENDS AtomicNewFile, Bootstrap, DaemonLifecycle

VARIABLE part

allVars == <<part, vars, bootVars, daemonVars>>

MCInit ==
    /\ part \in {"file", "boot", "daemon"}
    /\ Init /\ BootInit /\ DaemonInit

MCNext ==
    /\ UNCHANGED part
    /\ \/ part = "file" /\ Next /\ UNCHANGED <<bootVars, daemonVars>>
       \/ part = "boot" /\ BootNext /\ UNCHANGED <<vars, daemonVars>>
       \/ part = "daemon" /\ DaemonNext /\ UNCHANGED <<vars, bootVars>>

\* The fairness of DaemonLifecycle's FairSpec, in the behaviours that run it.
MCSpec ==
    /\ MCInit /\ [][MCNext]_allVars
    /\ part = "daemon" =>
          /\ WF_daemonVars(Main) /\ WF_daemonVars(CancelInit)
          /\ \A c \in Clients : WF_daemonVars(ClientReturns(c))
================================================================================
