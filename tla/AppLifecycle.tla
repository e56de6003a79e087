---------------------------- MODULE AppLifecycle ----------------------------
(***************************************************************************)
(* From the launch of the server and of the client to the moment they      *)
(* serve: the framework builds the components that config/dependency.py    *)
(* scans, registers and binds, each after those its constructor asks for,  *)
(* runs their post_construct hooks, each after the hooks of those          *)
(* components, and then starts the adapters of main.py.  The trust         *)
(* start-up is one of the hooks, the demos of the client are the others.   *)
(*                                                                         *)
(* Independent hooks may overlap; one that raises ends the process.  What  *)
(* the synchronisation does to tokens and certificates is in CertSync,     *)
(* what the demos say to the server in DemoSessions.                       *)
(***************************************************************************)
CONSTANTS
    Server, Client,
    Disks           \* what an operator may put in place before a launch

Apps == {Server, Client}

\* The key is configured; ca-cert.pem exists; what cert.json and bootstrap.txt
\* are good for.
Disk == [key : BOOLEAN, ca : BOOLEAN,
         store : {"none", "fresh", "due", "unreadable"},
         bootstrap : {"none", "good", "bad"}]

ASSUME LifecycleAssumption == Server # Client /\ Disks \subseteq Disk

VARIABLES
    unix,       \* the platform has Unix domain sockets
    disk,       \* the files and the configuration of each application
    proc,       \* how far each process is
    identity    \* what its two resolvers hold

vars == <<unix, disk, proc, identity>>

-----------------------------------------------------------------------------
\* config/dependency.py

TrustLayer ==
    {"RootCertificateFileStore", "TrustRootCertificateResolver",
     "TrustRootCertificateInitializer", "TrustCertificateResolver",
     "GrpcTrustCertificateClient", "TrustSslContextProvider",
     "TrustGrpcCertificateProvider", "TrustCertificateSynchronizer",
     "TrustStartupOrchestrator", "CertRotationJob", "FileCertificateStore",
     "NoOpTransactionManager"}

ServerScan == TrustLayer \cup
    {"VaultController", "VaultUseCase", "CryptoEngineController",
     "CryptoEngineUseCase"}

ClientScan == TrustLayer \cup
    {"VaultCallerUseCase", "VaultDemoRunner", "CryptoEngineCallerUseCase",
     "CryptoDemoRunner"}

\* With what is registered by hand: Bootstrap, and the SDK client that
\* configure_grpc_clients builds over a channel of the TLS provider.
Components ==
    [a \in Apps |-> {"Bootstrap"} \cup IF a = Server THEN ServerScan
                                      ELSE ClientScan \cup {"VaultClient"}]

Bindings == [TransactionManager  |-> "NoOpTransactionManager",
             LoadCertificatePort |-> "FileCertificateStore",
             SaveCertificatePort |-> "FileCertificateStore"]

\* The types of the constructors' parameters; RuntimeConfig, which is always
\* there, and components without parameters are left out.
Parameters ==
    [TrustRootCertificateInitializer |->
        {"RootCertificateFileStore", "TrustRootCertificateResolver"},
     TrustSslContextProvider |->
        {"TrustCertificateResolver", "TrustRootCertificateResolver",
         "GrpcTrustCertificateClient"},
     TrustGrpcCertificateProvider |->
        {"TrustCertificateResolver", "TrustRootCertificateResolver"},
     TrustCertificateSynchronizer |->
        {"TransactionManager", "LoadCertificatePort", "SaveCertificatePort",
         "TrustCertificateResolver", "GrpcTrustCertificateClient", "Bootstrap",
         "TrustSslContextProvider"},
     TrustStartupOrchestrator |->
        {"TrustRootCertificateInitializer", "TrustCertificateSynchronizer"},
     CertRotationJob        |-> {"TrustCertificateSynchronizer"},
     VaultController        |-> {"VaultUseCase"},
     CryptoEngineController |-> {"CryptoEngineUseCase"},
     VaultClient            |-> {"TrustGrpcCertificateProvider"},
     VaultCallerUseCase     |-> {"VaultClient"},
     VaultDemoRunner        |-> {"VaultCallerUseCase",
                                 "TrustStartupOrchestrator"},
     CryptoDemoRunner       |-> {"CryptoEngineCallerUseCase"}]

Resolve(t) == IF t \in DOMAIN Bindings THEN Bindings[t] ELSE t

NeedsOfUse ==
    [c \in UNION {Components[a] : a \in Apps} |->
        IF c \in DOMAIN Parameters
        THEN {Resolve(t) : t \in Parameters[c] \ {"TrustStartupOrchestrator"}}
        ELSE {}]

\* The components that a component is built and started after.
Needs ==
    [c \in UNION {Components[a] : a \in Apps} |->
        IF c \in DOMAIN Parameters THEN {Resolve(t) : t \in Parameters[c]}
        ELSE {}]

Orchestrator == "TrustStartupOrchestrator"
Demos == {"VaultDemoRunner", "CryptoDemoRunner"}
Hooks == {Orchestrator} \cup Demos     \* the components with post_construct

\* main.py: the adapters of the server, the socket only where there are any.
Adapters(a) ==
    IF a = Client THEN {} ELSE {"grpc"} \cup IF unix THEN {"crypto"} ELSE {}

-----------------------------------------------------------------------------
Stopped == [phase |-> "down", built |-> {}, started |-> {}, running |-> {}]

Nobody == [root |-> FALSE, cert |-> "none"]

Init ==
    /\ unix \in BOOLEAN
    /\ disk \in [Apps -> Disks]
    /\ proc = [a \in Apps |-> Stopped]
    /\ identity = [a \in Apps |-> Nobody]

Up(a) == proc[a].phase \notin {"down", "failed"}

\* The process is gone, and what its resolvers held with it.
Ends(a, phase) ==
    /\ proc' = [proc EXCEPT ![a] = [Stopped EXCEPT !.phase = phase]]
    /\ identity' = [identity EXCEPT ![a] = Nobody]

Launch(a) ==
    /\ ~Up(a)
    /\ proc' = [proc EXCEPT ![a] = [Stopped EXCEPT !.phase = "building"]]
    /\ UNCHANGED <<unix, disk, identity>>

\* Everything whose constructor arguments are there is built.  FileCertificate-
\* Store raises without a key, and the framework when it can build no more.
Build(a) ==
    LET ready == {c \in Components[a] \ proc[a].built :
                     Needs[c] \subseteq proc[a].built}
    IN  /\ proc[a].phase = "building"
        /\ IF \/ "FileCertificateStore" \in ready /\ ~disk[a].key
              \/ ready = {} /\ proc[a].built # Components[a]
           THEN Ends(a, "failed")
           ELSE /\ proc' = [proc EXCEPT
                               ![a].built = @ \cup ready,
                               ![a].phase = IF ready = {} THEN "starting"
                                            ELSE @]
                /\ UNCHANGED identity
        /\ UNCHANGED <<unix, disk>>

-----------------------------------------------------------------------------
\* post_construct

MayStart(a, c) ==
    /\ proc[a].phase = "starting"
    /\ c \in Components[a] \ (proc[a].started \cup proc[a].running)
    /\ Needs[c] \subseteq proc[a].started

\* Components without a hook are started once those they need are.
StartPlain(a) ==
    LET plain == {c \in Components[a] \ Hooks : MayStart(a, c)}
    IN  /\ plain # {}
        /\ proc' = [proc EXCEPT ![a].started = @ \cup plain]
        /\ UNCHANGED <<unix, disk, identity>>

Begins(a, h) == proc' = [proc EXCEPT ![a].running = @ \cup {h}]

Returns(a, h) == proc' = [proc EXCEPT ![a].running = @ \ {h},
                                      ![a].started = @ \cup {h}]

\* TrustStartupOrchestrator.post_construct as far as it runs without waiting:
\* the root CA, then synchronize_on_startup up to the call of the Trust
\* Service.  No root CA, a store that cannot be read, or nothing to start
\* with: it raises.
TrustCannotStart(a) ==
    /\ MayStart(a, Orchestrator)
    /\ \/ ~disk[a].ca
       \/ disk[a].store = "unreadable"
       \/ disk[a].store = "none" /\ disk[a].bootstrap = "none"
    /\ Ends(a, "failed")
    /\ UNCHANGED <<unix, disk>>

StoreUsable(a) == disk[a].ca /\ disk[a].store # "unreadable"

Identify(a, c) ==
    identity' = [identity EXCEPT ![a] = [root |-> TRUE, cert |-> c]]

\* NEW and RECOVERABLE: whatever is stored goes first.
TrustBootstraps(a) ==
    /\ MayStart(a, Orchestrator) /\ StoreUsable(a)
    /\ disk[a].bootstrap # "none"
    /\ disk' = [disk EXCEPT ![a].store = "none"]
    /\ IF disk[a].bootstrap = "bad"
       THEN Ends(a, "failed")
       ELSE Identify(a, "bootstrap") /\ Begins(a, Orchestrator)
    /\ UNCHANGED unix

\* ACTIVE.
TrustLoads(a) ==
    /\ MayStart(a, Orchestrator) /\ StoreUsable(a)
    /\ disk[a].bootstrap = "none" /\ disk[a].store # "none"
    /\ Identify(a, "runtime")
    /\ IF disk[a].store = "due" THEN Begins(a, Orchestrator)
                                ELSE Returns(a, Orchestrator)
    /\ UNCHANGED <<unix, disk>>

Calling(a) == Orchestrator \in proc[a].running

\* The rotated certificate is saved, the bootstrap file deleted if it can be.
TrustAnswers(a) ==
    /\ Calling(a)
    /\ Identify(a, "runtime") /\ Returns(a, Orchestrator)
    /\ \E b \in {"none", disk[a].bootstrap} :
          disk' = [disk EXCEPT ![a].store = "fresh", ![a].bootstrap = b]
    /\ UNCHANGED unix

TrustFailsLogged(a) ==
    /\ Calling(a)
    /\ Returns(a, Orchestrator)
    /\ UNCHANGED <<unix, disk, identity>>

\* The call or the save raises.
TrustFails(a) ==
    /\ Calling(a)
    /\ IF identity[a].cert = "bootstrap" THEN Ends(a, "failed")
       ELSE Returns(a, Orchestrator) /\ UNCHANGED identity
    /\ UNCHANGED <<unix, disk>>

BeginDemo(h) ==
    /\ MayStart(Client, h) /\ h \in Demos
    /\ Begins(Client, h)
    /\ UNCHANGED <<unix, disk, identity>>

AdapterOf(h) == IF h = "VaultDemoRunner" THEN "grpc" ELSE "crypto"

\* The server serves, and the demo gets its answers, or an error, from it.
DemoAnswered(h) ==
    /\ h \in proc[Client].running \cap Demos
    /\ proc[Server].phase = "serving" /\ AdapterOf(h) \in Adapters(Server)
    /\ Returns(Client, h)
    /\ UNCHANGED <<unix, disk, identity>>

DemoRaises(h) ==
    /\ h \in proc[Client].running \cap Demos
    /\ Ends(Client, "failed")
    /\ UNCHANGED <<unix, disk>>

DemoRetries(h) == DemoAnswered(h)

\* The calls of the Vault demo have a deadline (deadline_ms); those of the
\* Crypto demo have none, and a Crypto Engine that serves need not answer.
MayHang(h) ==
    /\ h = "CryptoDemoRunner"
    /\ proc[Server].phase = "serving" /\ AdapterOf(h) \in Adapters(Server)

\* It fails by itself and the runner logs it: the deadline is over, or nobody
\* listens (any more); or there are no Unix sockets, and it returns at once.
DemoGivesUp(h) ==
    /\ h \in proc[Client].running \cap Demos /\ ~MayHang(h)
    /\ Returns(Client, h)
    /\ UNCHANGED <<unix, disk, identity>>

\* Every hook has returned: the adapters start, or the client idles.
Serve(a) ==
    /\ proc[a].phase = "starting" /\ proc[a].started = Components[a]
    /\ proc' = [proc EXCEPT ![a].phase = "serving"]
    /\ UNCHANGED <<unix, disk, identity>>

-----------------------------------------------------------------------------
\* The process is stopped or dies; pre_destroy closes its channel.
Stop(a) ==
    /\ Up(a)
    /\ Ends(a, "down")
    /\ UNCHANGED <<unix, disk>>

Age(a) ==
    /\ disk[a].store = "fresh"
    /\ disk' = [disk EXCEPT ![a].store = "due"]
    /\ UNCHANGED <<unix, proc, identity>>

Prepare(a, d) ==
    /\ ~Up(a)
    /\ disk' = [disk EXCEPT ![a] = d]
    /\ UNCHANGED <<unix, proc, identity>>

DemoStep(h) == BeginDemo(h) \/ DemoGivesUp(h)

\* What the framework and the event loop of a's process do by themselves.
LoopStep(a) ==
    \/ Build(a) \/ StartPlain(a) \/ Serve(a)
    \/ TrustCannotStart(a) \/ TrustBootstraps(a) \/ TrustLoads(a)
    \/ a = Client /\ \E h \in Demos : DemoStep(h)

Next ==
    \E a \in Apps :
        \/ Launch(a) \/ LoopStep(a) \/ TrustAnswers(a) \/ TrustFails(a)
        \/ Stop(a) \/ Age(a)
        \/ \E d \in Disks : Prepare(a, d)
        \/ \E h \in Demos : DemoAnswered(h)

Spec == Init /\ [][Next]_vars

\* Nothing is assumed of the Trust Service or of the other application.
Fairness == \A a \in Apps : WF_vars(LoopStep(a))

FairSpec == Spec /\ Fairness

\* Every call that nothing but its answer ends is answered, or fails: those of
\* the Trust Service, and those of the Crypto demo to an engine that serves.
AnswersCome ==
    /\ \A a \in Apps : WF_vars(TrustAnswers(a) \/ TrustFails(a))
    /\ LET h == "CryptoDemoRunner" IN WF_vars(DemoAnswered(h) \/ DemoGivesUp(h))

-----------------------------------------------------------------------------
\* Phases and sets have their types; a bootstrap certificate is held only
\* while the Trust Service is called, an identity never without the root CA.
TypeOK ==
    /\ unix \in BOOLEAN /\ disk \in [Apps -> Disk]
    /\ \A a \in Apps :
          /\ proc[a].phase \in
                {"down", "failed", "building", "starting", "serving"}
          /\ proc[a].built \subseteq Components[a]
          /\ proc[a].started \subseteq proc[a].built
          /\ proc[a].running \subseteq Hooks \cap proc[a].built
          /\ identity[a] \in {Nobody} \cup
                [root : {TRUE}, cert : {"bootstrap", "runtime"}]
          /\ identity[a].cert = "bootstrap" => Calling(a)

Identified(a) == identity[a].root /\ identity[a].cert = "runtime"

\* No handshake of the server and no call of the Vault demo comes before both
\* resolvers are filled, and never with the bootstrap certificate, in whatever
\* order the framework takes the hooks ("Step 2 must run before the gRPC
\* adapter serves its first request"; VaultDemoRunner depends on the
\* orchestrator "purely to force ordering").
IdentityBeforeUse ==
    \A a \in Apps :
        proc[a].phase = "serving" \/ "VaultDemoRunner" \in proc[a].running
            => Identified(a)

\* A start ends in an error only for what is on the application's own disk, or
\* because its first rotation failed: a demo, a server that is not running or
\* a rotation at start-up that fails never stops it.
FailsForOwnReason ==
    [][\A a \in Apps :
          proc'[a].phase = "failed" /\ proc[a].phase # "failed"
            => \/ ~disk[a].key \/ ~disk[a].ca
               \/ disk[a].store = "unreadable"
               \/ disk[a].store = "none" /\ disk[a].bootstrap # "good"
               \/ disk[a].bootstrap = "bad"
               \/ disk[a].store = "none" /\ Calling(a)]_vars

\* A start waits for nothing but answers of the Trust Service and, the client,
\* of a Crypto Engine that serves: if they come it ends, whichever of the two
\* applications is launched first or stopped meanwhile, and no hook waits for
\* another in a circle or for the Vault for ever.
StartWaitsOnlyForAnswers ==
    AnswersCome =>
        \A a \in Apps :
            proc[a].phase = "building"
                ~> proc[a].phase \in {"serving", "failed", "down"}
=============================================================================
