------------------------- MODULE AppLifecycle_proofs -------------------------
(***************************************************************************)
(* Proofs that no identity is used before it is loaded and that a start    *)
(* fails only for a reason of its own, for any set of disks.               *)
(***************************************************************************)
EXTENDS AppLifecycle, TLAPS

All == UNION {Components[a] : a \in Apps}

Phases == {"down", "failed", "building", "starting", "serving"}

Process == [phase : Phases, built : SUBSET All, started : SUBSET All,
            running : SUBSET All]

ProcTyped == proc \in [Apps -> Process]

IdentityTyped ==
    identity \in [Apps -> [root : BOOLEAN,
                           cert : {"none", "bootstrap", "runtime"}]]

\* Everything is built before the first hook runs, and every hook has returned
\* before the application serves.
PhaseInv(a) ==
    /\ proc[a].built \subseteq Components[a]
    /\ proc[a].phase \in {"starting", "serving"} =>
          proc[a].built = Components[a]
    /\ proc[a].phase \notin {"starting", "serving"} =>
          proc[a].started = {} /\ proc[a].running = {}
    /\ proc[a].phase = "serving" => proc[a].started = Components[a]
    /\ proc[a].started \subseteq proc[a].built
    /\ proc[a].running \subseteq (Hooks \cap proc[a].built) \ proc[a].started

Identity == {Nobody} \cup [root : {TRUE}, cert : {"bootstrap", "runtime"}]

\* The trust start-up has left an identity once it has returned, the Vault demo
\* began after that, and the bootstrap identity is held only for a call that
\* was made with the store cleared.
TrustInv(a) ==
    /\ identity[a] \in Identity
    /\ Calling(a) => identity[a] # Nobody
    /\ Orchestrator \in proc[a].started => Identified(a)
    /\ "VaultDemoRunner" \in proc[a].running \cup proc[a].started =>
          Orchestrator \in proc[a].started
    /\ identity[a].cert = "bootstrap" =>
          Calling(a) /\ disk[a].store = "none"

Typed == /\ unix \in BOOLEAN /\ disk \in [Apps -> Disk]
         /\ ProcTyped /\ IdentityTyped

IInv == Typed /\ \A a \in Apps : PhaseInv(a) /\ TrustInv(a)

-----------------------------------------------------------------------------
\* Lemmas about config/dependency.py.

\* The orchestrator is part of both applications, and the Vault demo needs it.
LEMMA Wiring ==
    /\ \A a \in Apps : Orchestrator \in Components[a]
    /\ Orchestrator \in Needs["VaultDemoRunner"]
<1>1. \A a \in Apps : Orchestrator \in Components[a]
  BY DEF Components, Orchestrator, ServerScan, ClientScan, TrustLayer
<1>2. "VaultDemoRunner" \in UNION {Components[a] : a \in Apps}
  <2>1. "VaultDemoRunner" \in Components[Client]
    BY LifecycleAssumption
    DEF Components, ClientScan, Apps, LifecycleAssumption
  <2>. QED
    BY <2>1 DEF Apps
<1>3. Resolve(Orchestrator) = Orchestrator
  BY DEF Resolve, Bindings, Orchestrator
<1>4. "VaultDemoRunner" \in DOMAIN Parameters
      /\ Orchestrator \in Parameters["VaultDemoRunner"]
  BY DEF Parameters, Orchestrator
<1>. QED
  BY <1>1, <1>2, <1>3, <1>4 DEF Needs

\* What a component needs is what its constructor's parameters resolve to.
LEMMA NeedsAre ==
    ASSUME NEW a \in Apps, NEW c \in Components[a], NEW b,
           c \in DOMAIN Parameters => \A t \in Parameters[c] : Resolve(t) \in b
    PROVE  Needs[c] \subseteq b
<1>1. c \in UNION {Components[x] : x \in Apps}
  OBVIOUS
<1>. QED
  BY <1>1 DEF Needs

\* No component waits for itself: as long as one is missing, one can be built.
LEMMA Buildable ==
    ASSUME NEW a \in Apps, NEW b \in SUBSET Components[a],
           {c \in Components[a] \ b : Needs[c] \subseteq b} = {}
    PROVE  b = Components[a]
<1>1. ASSUME NEW c \in Components[a],
             c \in DOMAIN Parameters =>
                \A t \in Parameters[c] : Resolve(t) \in b
      PROVE  c \in b
  BY <1>1, NeedsAre
<1>2. DOMAIN Parameters =
        {"TrustRootCertificateInitializer", "TrustSslContextProvider",
         "TrustGrpcCertificateProvider", "TrustCertificateSynchronizer",
         "TrustStartupOrchestrator", "CertRotationJob", "VaultController",
         "CryptoEngineController", "VaultClient", "VaultCallerUseCase",
         "VaultDemoRunner", "CryptoDemoRunner"}
  BY DEF Parameters
<1>3. \A t : Resolve(t) =
        IF t = "TransactionManager" THEN "NoOpTransactionManager"
        ELSE IF t \in {"LoadCertificatePort", "SaveCertificatePort"}
        THEN "FileCertificateStore" ELSE t
  BY DEF Resolve, Bindings
<1>4. \A c \in Components[a] \ DOMAIN Parameters : c \in b
  BY <1>1
<1>5. /\ TrustLayer \subseteq Components[a]
      /\ "Bootstrap" \in Components[a]
      /\ a = Server => Components[a] = {"Bootstrap"} \cup ServerScan
      /\ a # Server => Components[a] = {"Bootstrap"} \cup ClientScan
                                            \cup {"VaultClient"}
  BY DEF Components, ServerScan, ClientScan
<1>6. {"Bootstrap", "RootCertificateFileStore", "TrustRootCertificateResolver",
       "TrustCertificateResolver", "GrpcTrustCertificateClient",
       "FileCertificateStore", "NoOpTransactionManager"} \subseteq b
  BY <1>2, <1>4, <1>5 DEF TrustLayer
<1>7. {"TrustRootCertificateInitializer", "TrustSslContextProvider",
       "TrustGrpcCertificateProvider"} \subseteq b
  <2>1. {"TrustRootCertificateInitializer", "TrustSslContextProvider",
         "TrustGrpcCertificateProvider"} \subseteq Components[a]
    BY <1>5 DEF TrustLayer
  <2>2. Parameters["TrustRootCertificateInitializer"] =
           {"RootCertificateFileStore", "TrustRootCertificateResolver"}
    BY DEF Parameters
  <2>3. Parameters["TrustSslContextProvider"] =
           {"TrustCertificateResolver", "TrustRootCertificateResolver",
            "GrpcTrustCertificateClient"}
    BY DEF Parameters
  <2>4. Parameters["TrustGrpcCertificateProvider"] =
           {"TrustCertificateResolver", "TrustRootCertificateResolver"}
    BY DEF Parameters
  <2>. QED
    BY <1>1, <1>3, <1>6, <2>1, <2>2, <2>3, <2>4
<1>8. "TrustCertificateSynchronizer" \in b
  <2>1. "TrustCertificateSynchronizer" \in Components[a]
    BY <1>5 DEF TrustLayer
  <2>2. Parameters["TrustCertificateSynchronizer"] =
           {"TransactionManager", "LoadCertificatePort", "SaveCertificatePort",
            "TrustCertificateResolver", "GrpcTrustCertificateClient",
            "Bootstrap", "TrustSslContextProvider"}
    BY DEF Parameters
  <2>. QED
    BY <1>1, <1>3, <1>6, <1>7, <2>1, <2>2
<1>9. {"TrustStartupOrchestrator", "CertRotationJob"} \subseteq b
  <2>1. {"TrustStartupOrchestrator", "CertRotationJob"} \subseteq Components[a]
    BY <1>5 DEF TrustLayer
  <2>2. /\ Parameters["TrustStartupOrchestrator"] =
              {"TrustRootCertificateInitializer",
               "TrustCertificateSynchronizer"}
        /\ Parameters["CertRotationJob"] = {"TrustCertificateSynchronizer"}
    BY DEF Parameters
  <2>. QED
    BY <1>1, <1>3, <1>7, <1>8, <2>1, <2>2
<1>10. CASE a = Server
  <2>1. {"VaultUseCase", "CryptoEngineUseCase"} \subseteq b
    BY <1>2, <1>4, <1>5, <1>10 DEF ServerScan
  <2>2. /\ Parameters["VaultController"] = {"VaultUseCase"}
        /\ Parameters["CryptoEngineController"] = {"CryptoEngineUseCase"}
    BY DEF Parameters
  <2>3. {"VaultController", "CryptoEngineController"} \subseteq b
    <3>1. {"VaultController", "CryptoEngineController"} \subseteq Components[a]
      BY <1>5, <1>10 DEF ServerScan
    <3>. QED
      BY <1>1, <1>3, <2>1, <2>2, <3>1
  <2>. QED
    BY <1>5, <1>6, <1>7, <1>8, <1>9, <1>10, <2>1, <2>3
    DEF ServerScan, TrustLayer
<1>11. CASE a # Server
  <2>1. {"CryptoEngineCallerUseCase", "VaultClient", "VaultCallerUseCase",
         "VaultDemoRunner", "CryptoDemoRunner"} \subseteq Components[a]
    BY <1>5, <1>11 DEF ClientScan
  <2>2. "CryptoEngineCallerUseCase" \in b
    BY <1>2, <1>4, <2>1
  <2>3. /\ Parameters["VaultClient"] = {"TrustGrpcCertificateProvider"}
        /\ Parameters["VaultCallerUseCase"] = {"VaultClient"}
        /\ Parameters["VaultDemoRunner"] =
              {"VaultCallerUseCase", "TrustStartupOrchestrator"}
        /\ Parameters["CryptoDemoRunner"] = {"CryptoEngineCallerUseCase"}
    BY DEF Parameters
  <2>4. "VaultClient" \in b
    BY <1>1, <1>3, <1>7, <2>1, <2>3
  <2>5. "VaultCallerUseCase" \in b
    BY <1>1, <1>3, <2>1, <2>3, <2>4
  <2>6. {"VaultDemoRunner", "CryptoDemoRunner"} \subseteq b
    BY <1>1, <1>3, <1>9, <2>1, <2>2, <2>3, <2>5
  <2>. QED
    BY <1>5, <1>6, <1>7, <1>8, <1>9, <1>11, <2>2, <2>4, <2>5, <2>6
    DEF ClientScan, TrustLayer
<1>. QED
  BY <1>10, <1>11

-----------------------------------------------------------------------------
\* What a step leaves of a process, of an identity and of a disk.

ProcBecomes(a, phase, built, started, running) ==
    /\ proc'[a] = [phase |-> phase, built |-> built, started |-> started,
                   running |-> running]
    /\ \A x \in Apps \ {a} : proc'[x] = proc[x]
    /\ ProcTyped'

IdentityBecomes(a, i) ==
    /\ identity'[a] = i
    /\ \A x \in Apps \ {a} : identity'[x] = identity[x]
    /\ IdentityTyped'

DiskBecomes(a, d) ==
    /\ disk'[a] = d
    /\ \A x \in Apps \ {a} : disk'[x] = disk[x]
    /\ disk' \in [Apps -> Disk]

\* A process that ends leaves nothing behind, in it or in its resolvers.
LEMMA EndsEffect ==
    ASSUME Typed, NEW a \in Apps, NEW p \in Phases, Ends(a, p)
    PROVE  ProcBecomes(a, p, {}, {}, {}) /\ IdentityBecomes(a, Nobody)
<1>1. [Stopped EXCEPT !.phase = p] =
        [phase |-> p, built |-> {}, started |-> {}, running |-> {}]
  BY DEF Stopped
<1>2. ProcBecomes(a, p, {}, {}, {})
  BY <1>1 DEF Typed, ProcTyped, Process, Ends, ProcBecomes
<1>3. IdentityBecomes(a, Nobody)
  BY DEF Typed, IdentityTyped, Ends, Nobody, IdentityBecomes
<1>. QED
  BY <1>2, <1>3

\* A process with one field changed keeps the rest.
LEMMA SetRunning ==
    ASSUME NEW p \in Process, NEW r
    PROVE  [p EXCEPT !.running = r] =
             [phase |-> p.phase, built |-> p.built, started |-> p.started,
              running |-> r]
  BY DEF Process

LEMMA SetStarted ==
    ASSUME NEW p \in Process, NEW r
    PROVE  [p EXCEPT !.started = r] =
             [phase |-> p.phase, built |-> p.built, started |-> r,
              running |-> p.running]
  BY DEF Process

LEMMA SetBuilt ==
    ASSUME NEW p \in Process, NEW r
    PROVE  [p EXCEPT !.built = r] =
             [phase |-> p.phase, built |-> r, started |-> p.started,
              running |-> p.running]
  BY DEF Process

\* A loaded identity is one.
LEMMA Loaded ==
    \A c \in {"bootstrap", "runtime"} :
        /\ [root |-> TRUE, cert |-> c] \in Identity
        /\ [root |-> TRUE, cert |-> c] # Nobody
  BY DEF Identity, Nobody

\* The empty resolvers hold no certificate and no root CA.
LEMMA NobodyHeld == Nobody \in Identity /\ Nobody.cert = "none" /\ ~Nobody.root
  BY DEF Identity, Nobody

\* A hook that begins is running.
LEMMA BeginsEffect ==
    ASSUME Typed, NEW a \in Apps, NEW h \in Components[a], Begins(a, h)
    PROVE  ProcBecomes(a, proc[a].phase, proc[a].built, proc[a].started,
                       proc[a].running \cup {h})
<1>. DEFINE p == [phase |-> proc[a].phase, built |-> proc[a].built,
                  started |-> proc[a].started,
                  running |-> proc[a].running \cup {h}]
<1>1. proc[a] \in Process /\ proc \in [Apps -> Process]
  BY DEF Typed, ProcTyped
<1>2. p \in Process
  BY <1>1 DEF Process, All
<1>3. [proc[a] EXCEPT !.running = @ \cup {h}] = p
  BY <1>1, SetRunning
<1>4. proc' = [proc EXCEPT ![a] = [proc[a] EXCEPT !.running = @ \cup {h}]]
  BY <1>1 DEF Begins
<1>. HIDE DEF p
<1>5. proc' = [proc EXCEPT ![a] = p]
  BY <1>3, <1>4
<1>. QED
  BY <1>1, <1>2, <1>5 DEF ProcBecomes, ProcTyped, p

\* A hook that returns has been started and no longer runs.
LEMMA ReturnsEffect ==
    ASSUME Typed, NEW a \in Apps, NEW h \in Components[a], Returns(a, h)
    PROVE  ProcBecomes(a, proc[a].phase, proc[a].built,
                       proc[a].started \cup {h}, proc[a].running \ {h})
<1>. DEFINE q == [phase |-> proc[a].phase, built |-> proc[a].built,
                  started |-> proc[a].started,
                  running |-> proc[a].running \ {h}]
            p == [q EXCEPT !.started = @ \cup {h}]
<1>1. proc[a] \in Process /\ proc \in [Apps -> Process]
  BY DEF Typed, ProcTyped
<1>2. p = [phase |-> proc[a].phase, built |-> proc[a].built,
           started |-> proc[a].started \cup {h},
           running |-> proc[a].running \ {h}]
  OBVIOUS
<1>3. p \in Process
  BY <1>1, <1>2 DEF Process, All
<1>4. [proc[a] EXCEPT !.running = @ \ {h}] = q
  BY <1>1, SetRunning
<1>5. proc' = [proc EXCEPT ![a] = [[proc[a] EXCEPT !.running = @ \ {h}]
                                      EXCEPT !.started = @ \cup {h}]]
  BY <1>1 DEF Returns
<1>6. proc' = [proc EXCEPT ![a] = p]
  BY <1>4, <1>5
<1>. HIDE DEF p
<1>. QED
  BY <1>1, <1>2, <1>3, <1>6 DEF ProcBecomes, ProcTyped

\* Both resolvers are filled together.
LEMMA IdentifyEffect ==
    ASSUME Typed, NEW a \in Apps, NEW c \in {"bootstrap", "runtime"},
           Identify(a, c)
    PROVE  IdentityBecomes(a, [root |-> TRUE, cert |-> c])
  BY DEF Typed, IdentityTyped, Identify, IdentityBecomes

\* A change of the store keeps the rest of the disk.
LEMMA StoreEffect ==
    ASSUME Typed, NEW a \in Apps, NEW v \in {"none", "fresh", "due"},
           disk' = [disk EXCEPT ![a].store = v]
    PROVE  DiskBecomes(a, [key |-> disk[a].key, ca |-> disk[a].ca,
                           store |-> v, bootstrap |-> disk[a].bootstrap])
<1>. DEFINE d == [key |-> disk[a].key, ca |-> disk[a].ca,
                  store |-> v, bootstrap |-> disk[a].bootstrap]
<1>1. disk[a] \in Disk /\ disk \in [Apps -> Disk]
  BY DEF Typed
<1>2. d \in Disk
  BY <1>1 DEF Disk
<1>3. [disk[a] EXCEPT !.store = v] = d
  BY <1>1 DEF Disk
<1>4. disk' = [disk EXCEPT ![a] = [disk[a] EXCEPT !.store = v]]
  BY <1>1
<1>. HIDE DEF d
<1>5. disk' = [disk EXCEPT ![a] = d]
  BY <1>3, <1>4
<1>. QED
  BY <1>1, <1>2, <1>5 DEF DiskBecomes, d

\* So does a change of the store and of the bootstrap file.
LEMMA StoreAndBootstrapEffect ==
    ASSUME Typed, NEW a \in Apps, NEW v \in {"none", "fresh", "due"},
           NEW b \in {"none", disk[a].bootstrap},
           disk' = [disk EXCEPT ![a].store = v, ![a].bootstrap = b]
    PROVE  DiskBecomes(a, [key |-> disk[a].key, ca |-> disk[a].ca,
                           store |-> v, bootstrap |-> b])
<1>. DEFINE e == [key |-> disk[a].key, ca |-> disk[a].ca,
                  store |-> v, bootstrap |-> disk[a].bootstrap]
            d == [e EXCEPT !.bootstrap = b]
<1>1. disk[a] \in Disk /\ disk \in [Apps -> Disk]
  BY DEF Typed
<1>2. d = [key |-> disk[a].key, ca |-> disk[a].ca, store |-> v,
           bootstrap |-> b]
  OBVIOUS
<1>3. d \in Disk
  BY <1>1, <1>2 DEF Disk
<1>4. [disk[a] EXCEPT !.store = v] = e
  BY <1>1 DEF Disk
<1>5. disk' = [disk EXCEPT ![a] = [[disk[a] EXCEPT !.store = v]
                                      EXCEPT !.bootstrap = b]]
  BY <1>1
<1>6. disk' = [disk EXCEPT ![a] = d]
  BY <1>4, <1>5
<1>. HIDE DEF d
<1>. QED
  BY <1>1, <1>2, <1>3, <1>6 DEF DiskBecomes

-----------------------------------------------------------------------------
\* The steps.

MayFail(a) ==
    \/ ~disk[a].key \/ ~disk[a].ca
    \/ disk[a].store = "unreadable"
    \/ disk[a].store = "none" /\ disk[a].bootstrap # "good"
    \/ disk[a].bootstrap = "bad"
    \/ disk[a].store = "none" /\ Calling(a)

FailsOnly(a) ==
    proc'[a].phase = "failed" /\ proc[a].phase # "failed" => MayFail(a)

OthersKept(a) ==
    \A x \in Apps \ {a} : /\ proc'[x] = proc[x]
                          /\ identity'[x] = identity[x]
                          /\ disk'[x] = disk[x]

\* What one application does leaves the invariant of the other alone.
LEMMA OneApplication ==
    ASSUME IInv, NEW a \in Apps, Typed', PhaseInv(a)', TrustInv(a)',
           FailsOnly(a), OthersKept(a)
    PROVE  IInv' /\ \A x \in Apps : FailsOnly(x)
<1>1. ASSUME NEW x \in Apps, x # a
      PROVE  PhaseInv(x)' /\ TrustInv(x)' /\ FailsOnly(x)
  <2>1. /\ proc'[x] = proc[x] /\ identity'[x] = identity[x]
        /\ disk'[x] = disk[x] /\ PhaseInv(x) /\ TrustInv(x)
    BY <1>1 DEF IInv, OthersKept
  <2>2. PhaseInv(x)'
    BY <2>1 DEF PhaseInv
  <2>3. TrustInv(x)'
    BY <2>1 DEF TrustInv, Calling, Identified
  <2>. QED
    BY <2>1, <2>2, <2>3 DEF FailsOnly
<1>. QED
  BY <1>1 DEF IInv

\* A launch starts with nothing built.
LEMMA LaunchStep ==
    ASSUME LifecycleAssumption, IInv, NEW a \in Apps, Launch(a)
    PROVE  IInv' /\ \A x \in Apps : FailsOnly(x)
<1>1. Typed /\ PhaseInv(a) /\ TrustInv(a)
  BY DEF IInv
<1>2. /\ proc'[a] = [phase |-> "building", built |-> {}, started |-> {},
                     running |-> {}]
      /\ identity' = identity /\ disk' = disk /\ OthersKept(a)
      /\ proc[a].phase \in {"down", "failed"}
  <2>1. [Stopped EXCEPT !.phase = "building"] =
          [phase |-> "building", built |-> {}, started |-> {}, running |-> {}]
    BY DEF Stopped
  <2>. QED
    BY <1>1, <2>1
    DEF Launch, Up, Typed, ProcTyped, Process, Phases, OthersKept
<1>3. Typed'
  BY <1>1, <1>2
  DEF Launch, Typed, ProcTyped, Process, Phases, IdentityTyped, OthersKept
<1>4. PhaseInv(a)'
  BY <1>1, <1>2 DEF PhaseInv
<1>5. TrustInv(a)'
  BY <1>1, <1>2
  DEF PhaseInv, TrustInv, Calling, Identified
<1>6. FailsOnly(a)
  BY <1>1, <1>2 DEF FailsOnly
<1>. QED
  BY <1>2, <1>3, <1>4, <1>5, <1>6, OneApplication

\* A process that stops holds no identity.
LEMMA StopStep ==
    ASSUME LifecycleAssumption, IInv, NEW a \in Apps, Stop(a)
    PROVE  IInv' /\ \A x \in Apps : FailsOnly(x)
<1>1. Typed /\ PhaseInv(a) /\ TrustInv(a)
  BY DEF IInv
<1>2. /\ ProcBecomes(a, "down", {}, {}, {}) /\ IdentityBecomes(a, Nobody)
      /\ disk' = disk /\ OthersKept(a)
  BY <1>1, EndsEffect
  DEF Stop, Phases, ProcBecomes, IdentityBecomes, OthersKept
<1>3. Typed'
  BY <1>1, <1>2 DEF Stop, Typed, ProcBecomes, IdentityBecomes
<1>4. PhaseInv(a)'
  BY <1>1, <1>2 DEF PhaseInv, ProcBecomes
<1>5. TrustInv(a)'
  BY <1>1, <1>2
  DEF PhaseInv, TrustInv, Calling, Identified, ProcBecomes, IdentityBecomes,
      Identity, Nobody
<1>6. FailsOnly(a)
  BY <1>1, <1>2 DEF FailsOnly, ProcBecomes
<1>. QED
  BY <1>2, <1>3, <1>4, <1>5, <1>6, OneApplication

\* A fresh certificate that ages is not one a bootstrap call waits on.
LEMMA AgeStep ==
    ASSUME LifecycleAssumption, IInv, NEW a \in Apps, Age(a)
    PROVE  IInv' /\ \A x \in Apps : FailsOnly(x)
<1>1. Typed /\ PhaseInv(a) /\ TrustInv(a)
  BY DEF IInv
<1>2. /\ proc' = proc /\ identity' = identity /\ OthersKept(a)
      /\ disk[a].store = "fresh" /\ disk' \in [Apps -> Disk]
  BY <1>1, StoreEffect DEF Age, DiskBecomes, OthersKept
<1>3. Typed'
  BY <1>1, <1>2 DEF Age, Typed, ProcTyped, IdentityTyped
<1>4. PhaseInv(a)'
  BY <1>1, <1>2 DEF PhaseInv
<1>5. TrustInv(a)'
  BY <1>1, <1>2
  DEF PhaseInv, TrustInv, Calling, Identified
<1>6. FailsOnly(a)
  BY <1>1, <1>2 DEF FailsOnly
<1>. QED
  BY <1>2, <1>3, <1>4, <1>5, <1>6, OneApplication

\* The operator changes files only while the application is down.
LEMMA PrepareStep ==
    ASSUME LifecycleAssumption, IInv, NEW a \in Apps, NEW d \in Disks,
           Prepare(a, d)
    PROVE  IInv' /\ \A x \in Apps : FailsOnly(x)
<1>1. Typed /\ PhaseInv(a) /\ TrustInv(a)
  BY DEF IInv
<1>2. /\ proc' = proc /\ identity' = identity /\ OthersKept(a)
      /\ proc[a].phase \in {"down", "failed"} /\ disk' \in [Apps -> Disk]
  BY <1>1
  DEF Prepare, Up, Typed, ProcTyped, Process, Phases, LifecycleAssumption,
      OthersKept
<1>3. Typed'
  BY <1>1, <1>2 DEF Prepare, Typed, ProcTyped, IdentityTyped
<1>4. PhaseInv(a)'
  BY <1>1, <1>2 DEF PhaseInv
<1>5. TrustInv(a)'
  BY <1>1, <1>2
  DEF PhaseInv, TrustInv, Calling, Identified
<1>6. FailsOnly(a)
  BY <1>1, <1>2 DEF FailsOnly
<1>. QED
  BY <1>2, <1>3, <1>4, <1>5, <1>6, OneApplication

\* Components without a hook are neither the orchestrator nor a demo.
LEMMA StartPlainStep ==
    ASSUME LifecycleAssumption, IInv, NEW a \in Apps, StartPlain(a)
    PROVE  IInv' /\ \A x \in Apps : FailsOnly(x)
<1>1. Typed /\ PhaseInv(a) /\ TrustInv(a)
  BY DEF IInv
<1>. DEFINE plain == {c \in Components[a] \ Hooks : MayStart(a, c)}
<1>2. /\ ProcBecomes(a, "starting", proc[a].built,
                     proc[a].started \cup plain, proc[a].running)
      /\ identity' = identity /\ disk' = disk /\ OthersKept(a)
      /\ proc[a].phase = "starting"
      /\ plain \subseteq Components[a] \ Hooks
  <2>1. proc[a].phase = "starting" /\ plain \subseteq Components[a] \ Hooks
    BY DEF StartPlain, MayStart
  <2>2. proc[a] \in Process
    BY <1>1 DEF Typed, ProcTyped
  <2>. DEFINE p == [phase |-> proc[a].phase, built |-> proc[a].built,
                    started |-> proc[a].started \cup plain,
                    running |-> proc[a].running]
  <2>3. proc' = [proc EXCEPT ![a].started = @ \cup plain]
    BY DEF StartPlain
  <2>. HIDE DEF plain
  <2>4. [proc[a] EXCEPT !.started = @ \cup plain] = p
    BY <2>2, SetStarted
  <2>5. proc' = [proc EXCEPT ![a] = p]
    BY <1>1, <2>3, <2>4 DEF Typed, ProcTyped
  <2>6. p \in Process
    BY <2>1, <2>2 DEF Process, All
  <2>. QED
    BY <1>1, <2>1, <2>5, <2>6
    DEF StartPlain, ProcBecomes, OthersKept, Typed, ProcTyped
<1>. HIDE DEF plain
<1>3. Typed'
  BY <1>1, <1>2 DEF StartPlain, Typed, ProcBecomes, IdentityTyped
<1>4. PhaseInv(a)'
  BY <1>1, <1>2 DEF PhaseInv, ProcBecomes
<1>5. TrustInv(a)'
  BY <1>1, <1>2
  DEF PhaseInv, TrustInv, Calling, Identified, ProcBecomes, Hooks, Demos
<1>6. FailsOnly(a)
  BY <1>1, <1>2 DEF FailsOnly, ProcBecomes
<1>. QED
  BY <1>2, <1>3, <1>4, <1>5, <1>6, OneApplication

\* An application serves when its orchestrator has been started.
LEMMA ServeStep ==
    ASSUME LifecycleAssumption, IInv, NEW a \in Apps, Serve(a)
    PROVE  IInv' /\ \A x \in Apps : FailsOnly(x)
<1>1. Typed /\ PhaseInv(a) /\ TrustInv(a)
  BY DEF IInv
<1>2. /\ ProcBecomes(a, "serving", proc[a].built, proc[a].started,
                     proc[a].running)
      /\ identity' = identity /\ disk' = disk /\ OthersKept(a)
      /\ proc[a].phase = "starting" /\ proc[a].started = Components[a]
  <2>1. proc[a] \in Process
    BY <1>1 DEF Typed, ProcTyped
  <2>. DEFINE p == [phase |-> "serving", built |-> proc[a].built,
                    started |-> proc[a].started, running |-> proc[a].running]
  <2>2. [proc[a] EXCEPT !.phase = "serving"] = p
    BY <2>1 DEF Process
  <2>3. proc' = [proc EXCEPT ![a] = p]
    BY <1>1, <2>2 DEF Serve, Typed, ProcTyped
  <2>4. p \in Process
    BY <2>1 DEF Process, Phases
  <2>. QED
    BY <1>1, <2>3, <2>4
    DEF Serve, ProcBecomes, OthersKept, Typed, ProcTyped
<1>3. Typed'
  BY <1>1, <1>2 DEF Serve, Typed, ProcBecomes, IdentityTyped
<1>4. PhaseInv(a)'
  BY <1>1, <1>2 DEF PhaseInv, ProcBecomes
<1>5. TrustInv(a)'
  BY <1>1, <1>2
  DEF PhaseInv, TrustInv, Calling, Identified, ProcBecomes
<1>6. FailsOnly(a)
  BY <1>1, <1>2 DEF FailsOnly, ProcBecomes
<1>. QED
  BY <1>2, <1>3, <1>4, <1>5, <1>6, OneApplication

\* A hook may start only in a process that has built everything.
LEMMA MayStartIn ==
    ASSUME IInv, NEW a \in Apps, NEW h, MayStart(a, h)
    PROVE  /\ proc[a].phase = "starting" /\ h \in Components[a]
           /\ h \notin proc[a].started \cup proc[a].running
           /\ Needs[h] \subseteq proc[a].started
           /\ proc[a].built = Components[a]
  BY DEF MayStart, IInv, PhaseInv

\* By Buildable, building ends with everything built, or for want of a key.
LEMMA BuildStep ==
    ASSUME LifecycleAssumption, IInv, NEW a \in Apps, Build(a)
    PROVE  IInv' /\ \A x \in Apps : FailsOnly(x)
<1>1. Typed /\ PhaseInv(a) /\ TrustInv(a)
  BY DEF IInv
<1>. DEFINE ready == {c \in Components[a] \ proc[a].built :
                        Needs[c] \subseteq proc[a].built}
            next == IF ready = {} THEN "starting" ELSE proc[a].phase
<1>2. /\ disk' = disk /\ OthersKept(a) /\ proc[a].phase = "building"
      /\ \/ /\ ProcBecomes(a, "failed", {}, {}, {})
            /\ IdentityBecomes(a, Nobody) /\ ~disk[a].key
         \/ /\ ProcBecomes(a, next, proc[a].built \cup ready, {}, {})
            /\ identity' = identity
      /\ next \in {"building", "starting"}
      /\ proc[a].built \cup ready \subseteq Components[a]
      /\ next = "starting" => proc[a].built \cup ready = Components[a]
  <2>1. proc[a].phase = "building" /\ disk' = disk
    BY DEF Build
  <2>2. /\ ready = {} => proc[a].built = Components[a]
        /\ proc[a].built \cup ready \subseteq Components[a]
        /\ proc[a].started = {} /\ proc[a].running = {}
    BY <1>1, <2>1, Buildable DEF PhaseInv
  <2>3. CASE "FileCertificateStore" \in ready /\ ~disk[a].key
    <3>1. Ends(a, "failed")
      BY <2>3 DEF Build
    <3>. QED
      BY <1>1, <2>1, <2>2, <2>3, <3>1, EndsEffect
      DEF Phases, ProcBecomes, IdentityBecomes, OthersKept
  <2>4. CASE ~("FileCertificateStore" \in ready /\ ~disk[a].key)
    <3>. DEFINE q == [phase |-> proc[a].phase,
                      built |-> proc[a].built \cup ready,
                      started |-> proc[a].started,
                      running |-> proc[a].running]
                p == [q EXCEPT !.phase = next]
    <3>1. /\ proc' = [proc EXCEPT ![a].built = @ \cup ready, ![a].phase = next]
          /\ identity' = identity
      BY <1>1, <2>2, <2>4 DEF Build, Typed, ProcTyped, Process
    <3>. HIDE DEF ready
    <3>2. proc[a] \in Process /\ proc \in [Apps -> Process]
      BY <1>1 DEF Typed, ProcTyped
    <3>3. [proc[a] EXCEPT !.built = @ \cup ready] = q
      BY <3>2, SetBuilt
    <3>4. proc' = [proc EXCEPT ![a] = [[proc[a] EXCEPT !.built = @ \cup ready]
                                          EXCEPT !.phase = next]]
      BY <3>1, <3>2 DEF Process
    <3>5. proc' = [proc EXCEPT ![a] = p]
      BY <3>3, <3>4
    <3>6. p = [phase |-> next, built |-> proc[a].built \cup ready,
               started |-> {}, running |-> {}]
      BY <2>2
    <3>7. ready \subseteq Components[a]
      BY DEF ready
    <3>. HIDE DEF p
    <3>8. p \in Process
      BY <2>1, <3>2, <3>6, <3>7 DEF Process, Phases, All
    <3>9. ProcBecomes(a, next, proc[a].built \cup ready, {}, {})
      BY <3>2, <3>5, <3>6, <3>8 DEF ProcBecomes, ProcTyped
    <3>10. /\ next \in {"building", "starting"}
           /\ next = "starting" => ready = {}
      BY <2>1 DEF next
    <3>. HIDE DEF next
    <3>11. OthersKept(a)
      BY <2>1, <3>1, <3>9 DEF ProcBecomes, OthersKept
    <3>. QED
      BY <2>1, <2>2, <3>1, <3>9, <3>10, <3>11
  <2>. QED
    BY <2>3, <2>4
<1>. HIDE DEF ready, next
<1>3. Typed'
  BY <1>1, <1>2
  DEF Build, Typed, ProcBecomes, IdentityBecomes, IdentityTyped
<1>4. PhaseInv(a)'
  BY <1>1, <1>2 DEF PhaseInv, ProcBecomes
<1>5. TrustInv(a)'
  BY <1>1, <1>2, NobodyHeld
  DEF PhaseInv, TrustInv, Calling, Identified, ProcBecomes, IdentityBecomes
<1>6. FailsOnly(a)
  BY <1>1, <1>2 DEF FailsOnly, ProcBecomes, MayFail
<1>. QED
  BY <1>2, <1>3, <1>4, <1>5, <1>6, OneApplication

\* The trust start-up raises for what is on the disk.
LEMMA TrustCannotStartStep ==
    ASSUME LifecycleAssumption, IInv, NEW a \in Apps, TrustCannotStart(a)
    PROVE  IInv' /\ \A x \in Apps : FailsOnly(x)
<1>1. Typed /\ PhaseInv(a) /\ TrustInv(a)
  BY DEF IInv
<1>2. /\ ProcBecomes(a, "failed", {}, {}, {}) /\ IdentityBecomes(a, Nobody)
      /\ disk' = disk /\ OthersKept(a) /\ MayFail(a)
  BY <1>1, EndsEffect
  DEF TrustCannotStart, Phases, ProcBecomes, IdentityBecomes, OthersKept,
      MayFail, Typed, Disk
<1>3. Typed'
  BY <1>1, <1>2 DEF TrustCannotStart, Typed, ProcBecomes, IdentityBecomes
<1>4. PhaseInv(a)'
  BY <1>1, <1>2 DEF PhaseInv, ProcBecomes
<1>5. TrustInv(a)'
  BY <1>1, <1>2
  DEF PhaseInv, TrustInv, Calling, Identified, ProcBecomes, IdentityBecomes,
      Identity, Nobody
<1>6. FailsOnly(a)
  BY <1>1, <1>2 DEF FailsOnly
<1>. QED
  BY <1>2, <1>3, <1>4, <1>5, <1>6, OneApplication

\* A bootstrap certificate comes with a call and a cleared store.
LEMMA TrustBootstrapsStep ==
    ASSUME LifecycleAssumption, IInv, NEW a \in Apps, TrustBootstraps(a)
    PROVE  IInv' /\ \A x \in Apps : FailsOnly(x)
<1>1. Typed /\ PhaseInv(a) /\ TrustInv(a)
  BY DEF IInv
<1>2. /\ OthersKept(a) /\ disk' \in [Apps -> Disk] /\ disk'[a].store = "none"
      /\ \/ /\ ProcBecomes(a, "failed", {}, {}, {})
            /\ IdentityBecomes(a, Nobody) /\ disk[a].bootstrap = "bad"
         \/ /\ ProcBecomes(a, "starting", Components[a], proc[a].started,
                           proc[a].running \cup {Orchestrator})
            /\ IdentityBecomes(a, [root |-> TRUE, cert |-> "bootstrap"])
            /\ Orchestrator \notin proc[a].started
      /\ proc[a].phase = "starting" /\ proc[a].built = Components[a]
      /\ Orchestrator \in Components[a]
  <2>1. /\ proc[a].phase = "starting" /\ proc[a].built = Components[a]
        /\ Orchestrator \in Components[a]
        /\ Orchestrator \notin proc[a].started
    BY MayStartIn DEF TrustBootstraps
  <2>2. DiskBecomes(a, [key |-> disk[a].key, ca |-> disk[a].ca,
                        store |-> "none", bootstrap |-> disk[a].bootstrap])
    BY <1>1, StoreEffect DEF TrustBootstraps
  <2>3. CASE disk[a].bootstrap = "bad"
    BY <1>1, <2>1, <2>2, <2>3, EndsEffect
    DEF TrustBootstraps, Phases, ProcBecomes, IdentityBecomes, DiskBecomes,
        OthersKept
  <2>4. CASE disk[a].bootstrap # "bad"
    BY <1>1, <2>1, <2>2, <2>4, BeginsEffect, IdentifyEffect
    DEF TrustBootstraps, ProcBecomes, IdentityBecomes, DiskBecomes, OthersKept
  <2>. QED
    BY <2>3, <2>4
<1>3. Typed'
  BY <1>1, <1>2 DEF TrustBootstraps, Typed, ProcBecomes, IdentityBecomes
<1>4. PhaseInv(a)'
  BY <1>1, <1>2 DEF PhaseInv, ProcBecomes, Hooks
<1>5. TrustInv(a)'
  BY <1>1, <1>2, Loaded, NobodyHeld
  DEF PhaseInv, TrustInv, Calling, Identified, ProcBecomes, IdentityBecomes,
      Orchestrator
<1>6. FailsOnly(a)
  BY <1>1, <1>2 DEF FailsOnly, ProcBecomes, MayFail
<1>. QED
  BY <1>2, <1>3, <1>4, <1>5, <1>6, OneApplication

\* A stored certificate is loaded before its rotation is asked for.
LEMMA TrustLoadsStep ==
    ASSUME LifecycleAssumption, IInv, NEW a \in Apps, TrustLoads(a)
    PROVE  IInv' /\ \A x \in Apps : FailsOnly(x)
<1>1. Typed /\ PhaseInv(a) /\ TrustInv(a)
  BY DEF IInv
<1>2. /\ OthersKept(a) /\ disk' = disk
      /\ \/ ProcBecomes(a, "starting", Components[a], proc[a].started,
                        proc[a].running \cup {Orchestrator})
         \/ ProcBecomes(a, "starting", Components[a],
                        proc[a].started \cup {Orchestrator},
                        proc[a].running \ {Orchestrator})
      /\ IdentityBecomes(a, [root |-> TRUE, cert |-> "runtime"])
      /\ proc[a].phase = "starting" /\ proc[a].built = Components[a]
      /\ Orchestrator \in Components[a] \ proc[a].started
  <2>1. /\ proc[a].phase = "starting" /\ proc[a].built = Components[a]
        /\ Orchestrator \in Components[a] \ proc[a].started
    BY MayStartIn DEF TrustLoads
  <2>. QED
    BY <1>1, <2>1, BeginsEffect, ReturnsEffect, IdentifyEffect
    DEF TrustLoads, ProcBecomes, IdentityBecomes, OthersKept
<1>3. Typed'
  BY <1>1, <1>2 DEF TrustLoads, Typed, ProcBecomes, IdentityBecomes
<1>4. PhaseInv(a)'
  BY <1>1, <1>2 DEF PhaseInv, ProcBecomes, Hooks
<1>5. TrustInv(a)'
  BY <1>1, <1>2, Loaded
  DEF PhaseInv, TrustInv, Calling, Identified, ProcBecomes, IdentityBecomes,
      Orchestrator
<1>6. FailsOnly(a)
  BY <1>1, <1>2 DEF FailsOnly, ProcBecomes
<1>. QED
  BY <1>2, <1>3, <1>4, <1>5, <1>6, OneApplication

\* The Trust Service is called by a process that is starting.
LEMMA CallingIn ==
    ASSUME IInv, NEW a \in Apps, NEW h, h \in proc[a].running
    PROVE  proc[a].phase = "starting" /\ h \in Components[a] /\ h \in Hooks
  BY DEF IInv, PhaseInv

\* An answer leaves the rotated certificate.
LEMMA TrustAnswersStep ==
    ASSUME LifecycleAssumption, IInv, NEW a \in Apps, TrustAnswers(a)
    PROVE  IInv' /\ \A x \in Apps : FailsOnly(x)
<1>1. Typed /\ PhaseInv(a) /\ TrustInv(a)
  BY DEF IInv
<1>2. /\ OthersKept(a) /\ disk' \in [Apps -> Disk]
      /\ ProcBecomes(a, "starting", proc[a].built,
                     proc[a].started \cup {Orchestrator},
                     proc[a].running \ {Orchestrator})
      /\ IdentityBecomes(a, [root |-> TRUE, cert |-> "runtime"])
      /\ proc[a].phase = "starting" /\ Orchestrator \in proc[a].built
  <2>1. /\ proc[a].phase = "starting" /\ Orchestrator \in Components[a]
        /\ Orchestrator \in proc[a].built
    BY <1>1, CallingIn DEF TrustAnswers, Calling, PhaseInv
  <2>2. PICK b \in {"none", disk[a].bootstrap} :
          disk' = [disk EXCEPT ![a].store = "fresh", ![a].bootstrap = b]
    BY DEF TrustAnswers
  <2>3. DiskBecomes(a, [key |-> disk[a].key, ca |-> disk[a].ca,
                        store |-> "fresh", bootstrap |-> b])
    BY <1>1, <2>2, StoreAndBootstrapEffect
  <2>. QED
    BY <1>1, <2>1, <2>3, ReturnsEffect, IdentifyEffect
    DEF TrustAnswers, ProcBecomes, IdentityBecomes, DiskBecomes, OthersKept
<1>3. Typed'
  BY <1>1, <1>2 DEF TrustAnswers, Typed, ProcBecomes, IdentityBecomes
<1>4. PhaseInv(a)'
  BY <1>1, <1>2 DEF PhaseInv, ProcBecomes
<1>5. TrustInv(a)'
  BY <1>1, <1>2
  DEF PhaseInv, TrustInv, Calling, Identified, ProcBecomes, IdentityBecomes,
      Identity, Nobody
<1>6. FailsOnly(a)
  BY <1>1, <1>2 DEF FailsOnly, ProcBecomes
<1>. QED
  BY <1>2, <1>3, <1>4, <1>5, <1>6, OneApplication

\* A rotation that fails leaves the certificate it was to replace, if that
\* is not the bootstrap certificate.
LEMMA TrustFailsStep ==
    ASSUME LifecycleAssumption, IInv, NEW a \in Apps, TrustFails(a)
    PROVE  IInv' /\ \A x \in Apps : FailsOnly(x)
<1>1. Typed /\ PhaseInv(a) /\ TrustInv(a)
  BY DEF IInv
<1>2. /\ OthersKept(a) /\ disk' = disk /\ Calling(a)
      /\ \/ /\ ProcBecomes(a, "failed", {}, {}, {})
            /\ IdentityBecomes(a, Nobody) /\ identity[a].cert = "bootstrap"
         \/ /\ ProcBecomes(a, "starting", proc[a].built,
                           proc[a].started \cup {Orchestrator},
                           proc[a].running \ {Orchestrator})
            /\ identity' = identity /\ Identified(a)
      /\ identity[a].cert = "bootstrap" => disk[a].store = "none"
      /\ proc[a].phase = "starting" /\ Orchestrator \in proc[a].built
  <2>1. /\ proc[a].phase = "starting" /\ Orchestrator \in Components[a]
        /\ Orchestrator \in proc[a].built
    BY <1>1, CallingIn DEF TrustFails, Calling, PhaseInv
  <2>2. /\ Calling(a) /\ identity[a].cert # "bootstrap" => Identified(a)
        /\ identity[a].cert = "bootstrap" => disk[a].store = "none"
    BY <1>1 DEF TrustFails, TrustInv, Identity, Nobody, Identified
  <2>. QED
    BY <1>1, <2>1, <2>2, EndsEffect, ReturnsEffect
    DEF TrustFails, Phases, ProcBecomes, IdentityBecomes, OthersKept
<1>3. Typed'
  BY <1>1, <1>2
  DEF TrustFails, Typed, ProcBecomes, IdentityBecomes, IdentityTyped
<1>4. PhaseInv(a)'
  BY <1>1, <1>2 DEF PhaseInv, ProcBecomes
<1>5. TrustInv(a)'
  BY <1>1, <1>2, NobodyHeld
  DEF PhaseInv, TrustInv, Calling, Identified, ProcBecomes, IdentityBecomes,
      Orchestrator
<1>6. FailsOnly(a)
  BY <1>1, <1>2 DEF FailsOnly, ProcBecomes, MayFail
<1>. QED
  BY <1>2, <1>3, <1>4, <1>5, <1>6, OneApplication

\* By Wiring, the Vault demo begins after the orchestrator.
LEMMA BeginDemoStep ==
    ASSUME LifecycleAssumption, IInv, NEW h \in Demos, BeginDemo(h)
    PROVE  IInv' /\ \A x \in Apps : FailsOnly(x)
<1>1. Typed /\ PhaseInv(Client) /\ TrustInv(Client)
  BY DEF IInv, Apps
<1>2. /\ OthersKept(Client) /\ disk' = disk /\ identity' = identity
      /\ ProcBecomes(Client, "starting", proc[Client].built,
                     proc[Client].started, proc[Client].running \cup {h})
      /\ proc[Client].phase = "starting" /\ h \in proc[Client].built
      /\ h \in {"VaultDemoRunner", "CryptoDemoRunner"}
      /\ h \notin proc[Client].started
      /\ h = "VaultDemoRunner" => Orchestrator \in proc[Client].started
  <2>1. Client \in Apps
    BY DEF Apps
  <2>2. /\ proc[Client].phase = "starting" /\ h \in Components[Client]
        /\ proc[Client].built = Components[Client]
        /\ Needs[h] \subseteq proc[Client].started
        /\ h \notin proc[Client].started
    BY <2>1, MayStartIn DEF BeginDemo
  <2>. QED
    BY <1>1, <2>1, <2>2, BeginsEffect, Wiring
    DEF BeginDemo, ProcBecomes, OthersKept, Demos
<1>3. Typed'
  BY <1>1, <1>2 DEF BeginDemo, Typed, ProcBecomes, IdentityTyped
<1>. Client \in Apps
  BY DEF Apps
<1>4. PhaseInv(Client)'
  BY <1>1, <1>2 DEF PhaseInv, ProcBecomes, Hooks, Demos
<1>5. TrustInv(Client)'
  BY <1>1, <1>2
  DEF PhaseInv, TrustInv, Calling, Identified, ProcBecomes, Orchestrator
<1>6. FailsOnly(Client)
  BY <1>1, <1>2 DEF FailsOnly, ProcBecomes
<1>. QED
  BY <1>2, <1>3, <1>4, <1>5, <1>6, OneApplication

\* A demo that is answered leaves identities alone.
LEMMA DemoAnsweredStep ==
    ASSUME LifecycleAssumption, IInv, NEW h \in Demos, DemoAnswered(h)
    PROVE  IInv' /\ \A x \in Apps : FailsOnly(x)
<1>1. Typed /\ PhaseInv(Client) /\ TrustInv(Client)
  BY DEF IInv, Apps
<1>2. /\ OthersKept(Client) /\ disk' = disk /\ identity' = identity
      /\ ProcBecomes(Client, "starting", proc[Client].built,
                     proc[Client].started \cup {h},
                     proc[Client].running \ {h})
      /\ proc[Client].phase = "starting" /\ h \in proc[Client].built
      /\ h \in {"VaultDemoRunner", "CryptoDemoRunner"}
      /\ h \in proc[Client].running
  <2>1. Client \in Apps /\ h \in proc[Client].running
    BY DEF Apps, DemoAnswered
  <2>2. /\ proc[Client].phase = "starting" /\ h \in Components[Client]
        /\ h \in proc[Client].built
    BY <1>1, <2>1, CallingIn DEF PhaseInv
  <2>. QED
    BY <1>1, <2>1, <2>2, ReturnsEffect
    DEF DemoAnswered, ProcBecomes, OthersKept, Demos
<1>3. Typed'
  BY <1>1, <1>2 DEF DemoAnswered, Typed, ProcBecomes, IdentityTyped
<1>. Client \in Apps
  BY DEF Apps
<1>4. PhaseInv(Client)'
  BY <1>1, <1>2 DEF PhaseInv, ProcBecomes, Hooks, Demos
<1>5. TrustInv(Client)'
  BY <1>1, <1>2
  DEF PhaseInv, TrustInv, Calling, Identified, ProcBecomes, Orchestrator
<1>6. FailsOnly(Client)
  BY <1>1, <1>2 DEF FailsOnly, ProcBecomes
<1>. QED
  BY <1>2, <1>3, <1>4, <1>5, <1>6, OneApplication

\* So does one that fails and is logged.
LEMMA DemoGivesUpStep ==
    ASSUME LifecycleAssumption, IInv, NEW h \in Demos, DemoGivesUp(h)
    PROVE  IInv' /\ \A x \in Apps : FailsOnly(x)
<1>1. Typed /\ PhaseInv(Client) /\ TrustInv(Client)
  BY DEF IInv, Apps
<1>2. /\ OthersKept(Client) /\ disk' = disk /\ identity' = identity
      /\ ProcBecomes(Client, "starting", proc[Client].built,
                     proc[Client].started \cup {h},
                     proc[Client].running \ {h})
      /\ proc[Client].phase = "starting" /\ h \in proc[Client].built
      /\ h \in {"VaultDemoRunner", "CryptoDemoRunner"}
      /\ h \in proc[Client].running
  <2>1. Client \in Apps /\ h \in proc[Client].running
    BY DEF Apps, DemoGivesUp
  <2>2. /\ proc[Client].phase = "starting" /\ h \in Components[Client]
        /\ h \in proc[Client].built
    BY <1>1, <2>1, CallingIn DEF PhaseInv
  <2>. QED
    BY <1>1, <2>1, <2>2, ReturnsEffect
    DEF DemoGivesUp, ProcBecomes, OthersKept, Demos
<1>3. Typed'
  BY <1>1, <1>2 DEF DemoGivesUp, Typed, ProcBecomes, IdentityTyped
<1>. Client \in Apps
  BY DEF Apps
<1>4. PhaseInv(Client)'
  BY <1>1, <1>2 DEF PhaseInv, ProcBecomes, Hooks, Demos
<1>5. TrustInv(Client)'
  BY <1>1, <1>2
  DEF PhaseInv, TrustInv, Calling, Identified, ProcBecomes, Orchestrator
<1>6. FailsOnly(Client)
  BY <1>1, <1>2 DEF FailsOnly, ProcBecomes
<1>. QED
  BY <1>2, <1>3, <1>4, <1>5, <1>6, OneApplication

-----------------------------------------------------------------------------
\* The theorems.

\* Nothing runs at first.
LEMMA Initially ==
    LifecycleAssumption /\ Init => IInv
<1>. SUFFICES ASSUME LifecycleAssumption, Init PROVE IInv
  OBVIOUS
<1>1. Typed
  BY DEF Init, LifecycleAssumption, Typed, ProcTyped, Process, Phases,
         IdentityTyped, Stopped, Nobody
<1>2. ASSUME NEW a \in Apps PROVE PhaseInv(a)
  BY <1>2 DEF Init, PhaseInv, Stopped
<1>3. ASSUME NEW a \in Apps PROVE TrustInv(a)
  BY <1>3
  DEF Init, TrustInv, Calling, Identified, Stopped, Identity, Nobody
<1>. QED
  BY <1>1, <1>2, <1>3 DEF IInv

\* Every step keeps the invariant, and fails only an application with a reason.
LEMMA Step ==
    LifecycleAssumption /\ IInv /\ [Next]_vars =>
        IInv' /\ \A x \in Apps : FailsOnly(x)
<1>. SUFFICES ASSUME LifecycleAssumption, IInv, [Next]_vars
              PROVE  IInv' /\ \A x \in Apps : FailsOnly(x)
  OBVIOUS
<1>1. CASE UNCHANGED vars
  BY <1>1
  DEF vars, IInv, Typed, ProcTyped, IdentityTyped, PhaseInv, TrustInv, Calling,
      Identified, FailsOnly
<1>2. CASE Next
  <2>1. ASSUME NEW a \in Apps, LoopStep(a)
        PROVE  IInv' /\ \A x \in Apps : FailsOnly(x)
    BY <2>1, BuildStep, StartPlainStep, ServeStep, TrustCannotStartStep,
       TrustBootstrapsStep, TrustLoadsStep, BeginDemoStep, DemoGivesUpStep
    DEF LoopStep, DemoStep
  <2>. QED
    BY <1>2, <2>1, LaunchStep, TrustAnswersStep, TrustFailsStep, StopStep,
       AgeStep, PrepareStep, DemoAnsweredStep
    DEF Next
<1>. QED
  BY <1>1, <1>2

\* The invariant holds in every reachable state.
THEOREM Invariance == Spec => []IInv
<1>1. Init => IInv
  BY Initially, LifecycleAssumption
<1>2. IInv /\ [Next]_vars => IInv'
  BY Step, LifecycleAssumption
<1>. QED
  BY <1>1, <1>2, PTL DEF Spec

\* Processes, disks and identities have their types, and a bootstrap
\* certificate is held only while the Trust Service is called.
THEOREM TypeCorrect == Spec => []TypeOK
<1>1. IInv => TypeOK
  BY DEF IInv, Typed, ProcTyped, Process, Phases, IdentityTyped, PhaseInv,
         TrustInv, Identity, TypeOK
<1>. QED
  BY <1>1, Invariance, PTL

\* No application serves and no Vault demo runs before both resolvers are
\* filled, whatever the disks and in whatever order the hooks are taken.
THEOREM IdentityFirst == Spec => []IdentityBeforeUse
<1>1. IInv => IdentityBeforeUse
  BY Wiring DEF IInv, PhaseInv, TrustInv, IdentityBeforeUse
<1>. QED
  BY <1>1, Invariance, PTL

\* A start fails only for the application's own disk or its first rotation; in
\* particular the wiring of config/dependency.py can always be built.
THEOREM OwnReason == Spec => FailsForOwnReason
<1>. DEFINE Reasons ==
        \A a \in Apps :
            proc'[a].phase = "failed" /\ proc[a].phase # "failed" => MayFail(a)
<1>1. IInv /\ [Next]_vars => [Reasons]_vars
  BY Step, LifecycleAssumption DEF FailsOnly
<1>2. Spec => [][Reasons]_vars
  BY <1>1, Invariance, PTL DEF Spec
<1>. QED
  BY <1>2, PTL DEF FailsForOwnReason, MayFail
=============================================================================
