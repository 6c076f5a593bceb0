---------------------------- MODULE Configuration ----------------------------
(***************************************************************************)
(* From the configuration file to the parts of a running daemon: Load with *)
(* its defaults and checks (config/config.go), then what runDaemon         *)
(* (cmd/bridge-signer/cmd_start.go) builds from the result, each with      *)
(* checks of its own: the logger, the signing backend, the dial clients    *)
(* and the arbiter, the TLS credentials, the gRPC server with its          *)
(* enabled-RPC gate and its replay guard; at last the servers listen.      *)
(*                                                                         *)
(* A field is "" when it is absent and otherwise one of the values that    *)
(* the code tells apart, at Load or later: a path may lead nowhere, a      *)
(* password file may be open to others or empty, an address or an endpoint *)
(* may be no address.  What the files, the keyring, the HSM and the        *)
(* certificates hold, whether there is a terminal and whether a port is    *)
(* free is the environment's choice.                                       *)
(***************************************************************************)
EXTENDS Integers, Sequences, FiniteSets

CONSTANTS
    Target,      \* dial targets
    MaxTargets,  \* bound on the entries of consensus.targets
    MaxRPCs      \* bound on the entries of server.enabled_rpcs

VARIABLES
    cfg,     \* the configuration as it is in the file, then with its defaults
    stage,   \* the next thing runDaemon builds, or "running", "refused", "failed"
    faulty,  \* the environment made a step fail
    targets, \* dial clients started
    arbiter, \* the primary arbiter: whether there is one, its order of preference
    enabled, \* the enabled-RPC gate's map
    guard    \* path of the replay guard's state file

vars == <<cfg, stage, faulty, targets, arbiter, enabled, guard>>

Optional == {"", "set"}
Path == {"", "missing", "there"}
Addr == {"", "bad", "set"}

SignerConfig == [backend : {"file", "fortanixdsm", "", "other"}, keyringDir : Path,
                 keyName : Optional, passwordFile : Path \cup {"unusable"},
                 endpoint : Addr, apiKey : Optional, keyID : Optional,
                 dsmKeyName : Optional]

--------------------------------------------------------------------------------
(* The tables of RPC names in config.go and in server/auth.go *)

RPC == {"Sign", "SignRaw", "SignTx", "SignBridgeCheckpoint", "SignOracleAttestation",
        "SignInitial", "GetPublicKey", "GetAddress", "GetChainID"}

knownRPCShortNames ==
    {"sign", "sign_raw", "sign_tx", "sign_bridge_checkpoint", "sign_oracle_attestation",
     "sign_initial", "get_public_key", "get_address", "get_chain_id"}

shortRPCNameToFullMethod ==
    [sign_raw |-> "SignRaw", sign_tx |-> "SignTx",
     sign_bridge_checkpoint |-> "SignBridgeCheckpoint",
     sign_oracle_attestation |-> "SignOracleAttestation",
     sign_initial |-> "SignInitial",
     sign |-> "Sign", get_public_key |-> "GetPublicKey",
     get_address |-> "GetAddress", get_chain_id |-> "GetChainID"]

\* Names the gate does not know are ignored.
EnabledRPCsFromConfig(rpcs) ==
    LET names == DOMAIN rpcs \cap DOMAIN shortRPCNameToFullMethod
        methods == {shortRPCNameToFullMethod[n] : n \in names}
    IN [m \in methods |-> rpcs[CHOOSE n \in names : shortRPCNameToFullMethod[n] = m]]

\* newEnabledRPCInterceptor: a method that is not in the map is served.
IsServed(map, method) == method \in DOMAIN map => map[method]

--------------------------------------------------------------------------------
(* config.go *)

TrimSpace(s) == IF s = " " THEN "" ELSE s

\* strings.Split at commas, each part trimmed, empty parts dropped.  A targets
\* string is the sequence of its parts; the empty string has one empty part.
TargetList(parts) ==
    SelectSeq([i \in 1..Len(parts) |-> TrimSpace(parts[i])], LAMBDA t : t # "")

Enabled(c) == c.consensus.keyFile # ""

Default(value, default) == IF value = "" THEN default ELSE value

applyDefaults(c) ==
    [c EXCEPT
        !.server = [@ EXCEPT !.listenAddr = Default(@, "set"),
                             !.healthAddr = Default(@, "set"),
                             !.requestTimeout = IF @ = 0 THEN 2 ELSE @,
                             !.maxRecvMsgSize = IF @ = 0 THEN 1024 * 1024 ELSE @],
        !.log = [@ EXCEPT !.level = Default(@, "info"), !.format = Default(@, "json")],
        !.consensus =
            IF Enabled(c)
            THEN [@ EXCEPT !.stateFile = Default(@, "/data/state"),
                           !.connKeyFile = Default(@, "set"),
                           !.targets = IF @ = <<"">>
                                       THEN <<"tcp://layer:26659",
                                              "tcp://layer-backup:26659">>
                                       ELSE @]
            ELSE @]

\* The parsed duration; -1 stands for an error, 0 for no election.
FailoverTimeout(c) ==
    CASE c.consensus.failover = "" -> 0
      [] c.consensus.failover = "60s" -> 60
      [] OTHER -> -1   \* unparsable or not positive

CheckpointGuardStatePath(c) ==
    IF c.server.guardFile # "" THEN c.server.guardFile
    ELSE IF c.consensus.stateFile # "" THEN "next to the consensus state"
    ELSE ""

validateSigner(s) ==
    \/ s.backend = "file" /\ s.keyringDir = "there" /\ s.keyName # ""
    \/ /\ s.backend = "fortanixdsm"
       /\ s.endpoint # "" /\ s.apiKey # ""
       /\ s.keyID # "" \/ s.dsmKeyName # ""

GuardCheckedWhenListed(c) ==
    LET rpcs == c.server.enabledRPCs
    IN "sign_bridge_checkpoint" \in DOMAIN rpcs /\ rpcs.sign_bridge_checkpoint =>
           CheckpointGuardStatePath(c) # ""

\* Missing means enabled, and the guard's mark must survive restarts.
validateGuard(c) ==
    LET rpcs == c.server.enabledRPCs
    IN ("sign_bridge_checkpoint" \in DOMAIN rpcs => rpcs.sign_bridge_checkpoint) =>
           CheckpointGuardStatePath(c) # ""

validateLogAnyFormat(l) == l.level \in {"debug", "info", "warn", "error"}

validateLog(l) ==
    l.level \in {"debug", "info", "warn", "error"} /\ l.format \in {"json", "text"}

validate(c) ==
    /\ validateSigner(c.signer)
    /\ c.server.listenAddr # ""
    /\ c.server.requestTimeout > 0
    /\ c.tls.insecure \/ \A f \in DOMAIN c.tls.files : c.tls.files[f] = "there"
    /\ DOMAIN c.server.enabledRPCs \subseteq knownRPCShortNames
    /\ validateGuard(c)
    /\ validateLog(c.log)
    /\ Enabled(c) =>
          /\ c.chainID # ""
          /\ c.consensus.stateFile # ""
          /\ c.consensus.targets # <<"">>
          /\ FailoverTimeout(c) # -1

--------------------------------------------------------------------------------
(* Configuration files: one section at a time takes all its values, the    *)
(* others have working ones; server and consensus, which share the guard's *)
(* path, vary together.                                                    *)

RPCMaps ==
    UNION {[names -> BOOLEAN] :
              names \in {S \in SUBSET (knownRPCShortNames \cup {"typo"}) :
                            Cardinality(S) <= MaxRPCs}}

Parts == UNION {[1..n -> Target \cup {"", " "}] : n \in 1..MaxTargets}

Working ==
    [chainID |-> "set",
     signer |-> [backend |-> "file", keyringDir |-> "there", keyName |-> "set",
                 passwordFile |-> "there", endpoint |-> "", apiKey |-> "",
                 keyID |-> "", dsmKeyName |-> ""],
     server |-> [listenAddr |-> "", healthAddr |-> "", requestTimeout |-> 0,
                 maxRecvMsgSize |-> 0, guardFile |-> "set", enabledRPCs |-> <<>>],
     tls |-> [insecure |-> TRUE, files |-> [f \in {"ca", "cert", "key"} |-> ""]],
     log |-> [level |-> "", format |-> ""],
     consensus |-> [keyFile |-> "", stateFile |-> "", connKeyFile |-> "",
                    targets |-> <<"">>, failover |-> "",
                    preferTargetOrder |-> FALSE]]

WithSigner(s) == [Working EXCEPT !.signer = s]
WithTLS(t) == [Working EXCEPT !.tls = t]
WithLog(l) == [Working EXCEPT !.log = l]
WithAddresses(a) ==
    [Working EXCEPT !.server.listenAddr = a.listen, !.server.healthAddr = a.health]
WithServer(x) ==
    [Working EXCEPT !.server = x.server, !.consensus.stateFile = x.stateFile,
                    !.consensus.keyFile = x.keyFile]
WithConsensus(x) ==
    [Working EXCEPT !.consensus = x.consensus, !.chainID = x.chainID,
                    !.server.guardFile = x.guardFile]

File ==
    {WithSigner(s) : s \in SignerConfig}
    \cup {WithTLS(t) :
             t \in [insecure : BOOLEAN, files : [{"ca", "cert", "key"} -> Path]]}
    \cup {WithLog(l) :
             l \in [level : {"", "debug", "info", "warn", "error", "other"},
                    format : {"", "json", "text", "other"}]}
    \cup {WithAddresses(a) : a \in [listen : Addr, health : Addr]}
    \cup {WithServer(x) :
             x \in [server : [listenAddr : {""}, healthAddr : {""},
                              requestTimeout : -1..1, maxRecvMsgSize : {0},
                              guardFile : Optional, enabledRPCs : RPCMaps],
                    stateFile : {"", "there"}, keyFile : {"", "there"}]}
    \cup {WithConsensus(x) :
             x \in [consensus : [keyFile : Path, stateFile : Path,
                                 connKeyFile : {""}, targets : Parts,
                                 failover : {"", "bad", "0s", "60s"},
                                 preferTargetOrder : BOOLEAN],
                    chainID : Optional, guardFile : Optional]}

Init ==
    /\ cfg \in File
    /\ stage = "load"
    /\ faulty = FALSE
    /\ targets = <<>>
    /\ arbiter = [on |-> FALSE, preferOrder |-> <<>>]
    /\ enabled = <<>>
    /\ guard = ""

--------------------------------------------------------------------------------
(* runDaemon *)

Goto(next) == stage' = next

\* The environment makes a step fail: a file is unreadable or holds something
\* else, one that the start-up creates (the connection key) cannot be written, the
\* HSM does not answer, there is no terminal for the passphrase, a port is taken.
EnvironmentFails ==
    /\ \/ stage \in {"load", "backend", "server", "listen"}
       \/ stage = "consensus" /\ Enabled(cfg)
       \/ stage = "credentials" /\ ~cfg.tls.insecure
    /\ Goto("failed")
    /\ faulty' = TRUE
    /\ UNCHANGED <<cfg, targets, arbiter, enabled, guard>>

Load ==
    /\ stage = "load"
    /\ cfg' = applyDefaults(cfg)
    /\ Goto(IF validate(cfg') THEN "logger" ELSE "refused")
    /\ UNCHANGED <<faulty, targets, arbiter, enabled, guard>>

parseLevel(level) == level \in {"debug", "info", "warn", "error"}

NewLogger ==
    /\ stage = "logger"
    /\ Goto(IF parseLevel(cfg.log.level) /\ cfg.log.format \in {"json", "text"}
            THEN "backend" ELSE "failed")
    /\ UNCHANGED <<cfg, faulty, targets, arbiter, enabled, guard>>

\* With no password file the passphrase is asked for at the terminal.
BuildPasswordReader(path) == path \in {"", "there"}

newFileSignerFromConfig(s) ==
    s.keyringDir # "" /\ s.keyName # "" /\ BuildPasswordReader(s.passwordFile)

\* The key is fetched from the endpoint before the factory returns.
newFortanixDSMSignerFromConfig(s) ==
    /\ s.endpoint # "" /\ s.apiKey # "" /\ ~(s.keyID = "" /\ s.dsmKeyName = "")
    /\ s.endpoint # "bad"

\* The backends that registered themselves, each with its factory's own checks.
registry(s) ==
    [file |-> newFileSignerFromConfig(s), fortanixdsm |-> newFortanixDSMSignerFromConfig(s)]

NewSigner ==
    /\ stage = "backend"
    /\ LET s == cfg.signer
       IN Goto(IF s.backend \in DOMAIN registry(s) /\ registry(s)[s.backend]
               THEN "consensus" ELSE "failed")
    /\ UNCHANGED <<cfg, faulty, targets, arbiter, enabled, guard>>

\* RequireStateFile, then LoadCometFilePV.
consensusFilesThere(c) == "missing" \notin {c.stateFile, c.keyFile}

StartConsensus ==
    /\ stage = "consensus"
    /\ IF Enabled(cfg) /\ (~consensusFilesThere(cfg.consensus) \/ FailoverTimeout(cfg) = -1)
       THEN Goto("failed") /\ UNCHANGED <<targets, arbiter>>
       ELSE /\ Goto("credentials")
            /\ targets' = IF Enabled(cfg) THEN TargetList(cfg.consensus.targets) ELSE <<>>
            /\ arbiter' = IF Enabled(cfg) /\ FailoverTimeout(cfg) > 0
                          THEN [on |-> TRUE,
                                preferOrder |-> IF cfg.consensus.preferTargetOrder
                                                THEN targets' ELSE <<>>]
                          ELSE arbiter
    /\ UNCHANGED <<cfg, faulty, enabled, guard>>

loadCACert(path) == path = "there"

NewServerCredentials ==
    /\ stage = "credentials"
    /\ LET files == cfg.tls.files
       IN Goto(IF \/ cfg.tls.insecure
                  \/ {files.cert, files.key} = {"there"} /\ loadCACert(files.ca)
               THEN "server" ELSE "failed")
    /\ UNCHANGED <<cfg, faulty, targets, arbiter, enabled, guard>>

NewServer ==
    /\ stage = "server"
    /\ Goto("listen")
    /\ enabled' = EnabledRPCsFromConfig(cfg.server.enabledRPCs)
    /\ guard' = CheckpointGuardStatePath(cfg)
    /\ UNCHANGED <<cfg, faulty, targets, arbiter>>

\* Start of the gRPC and of the health server, in goroutines; one that cannot
\* listen ends the daemon.
Listen ==
    /\ stage = "listen"
    /\ Goto(IF "bad" \in {cfg.server.listenAddr, cfg.server.healthAddr}
            THEN "failed" ELSE "running")
    /\ UNCHANGED <<cfg, faulty, targets, arbiter, enabled, guard>>

Next ==
    \/ EnvironmentFails \/ Load \/ NewLogger \/ NewSigner \/ StartConsensus
    \/ NewServerCredentials \/ NewServer \/ Listen

Spec == Init /\ [][Next]_vars

--------------------------------------------------------------------------------
(* Properties *)

\* A setting that building the backend or loading the consensus files refuses:
\* Load looks at none of them.
NamesUnusableFile(c) ==
    \/ c.signer.backend = "file" /\ c.signer.passwordFile \notin {"", "there"}
    \/ c.signer.backend = "fortanixdsm" /\ c.signer.endpoint = "bad"
    \/ Enabled(c) /\ "missing" \in {c.consensus.keyFile, c.consensus.stateFile}

\* Which settings stop a daemon that got past Load, the environment apart: a
\* password file, an endpoint or a consensus file that cannot be used, and then no
\* dial client has been started; or a listening address that is none.  Every other
\* check of the start-up is one that Load has made already, so that a daemon that
\* has begun to sign stops for its settings only over an address.
StopsBeforeDialing ==
    stage = "failed" /\ ~faulty =>
        \/ targets = <<>> /\ NamesUnusableFile(cfg)
        \/ "bad" \in {cfg.server.listenAddr, cfg.server.healthAddr}

\* A daemon serves as it was configured to.  Every RPC the operator turned off
\* is off in the gate: the table of names that Load accepts and the table the
\* gate translates with agree, and no accepted name is ignored.  And when
\* SignBridgeCheckpoint is served, the replay guard's mark is kept in a file: it
\* does not reset on a restart.
ServesAsConfigured ==
    stage \in {"listen", "running"} =>
        /\ DOMAIN cfg.server.enabledRPCs \subseteq DOMAIN shortRPCNameToFullMethod
        /\ \A n \in DOMAIN cfg.server.enabledRPCs :
              ~cfg.server.enabledRPCs[n] =>
                  ~IsServed(enabled, shortRPCNameToFullMethod[n])
        /\ IsServed(enabled, "SignBridgeCheckpoint") => guard # ""
================================================================================
