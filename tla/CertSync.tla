------------------------------ MODULE CertSync ------------------------------
(***************************************************************************)
(* The mTLS certificate life cycle of one application:                     *)
(* TrustCertificateSynchronizer with the bootstrap file, the certificate   *)
(* store, the in-memory identity (resolver, channel credentials, cached    *)
(* stub) and the Trust Service that rotates certificates against one-time  *)
(* refresh tokens.                                                         *)
(*                                                                         *)
(* Everything the application does runs on one asyncio loop, and the only  *)
(* place it really suspends is the await of the RotateCertificate call, so *)
(* an action is the code between two such points.  The process may die     *)
(* between any two actions, and between the two disk writes of the         *)
(* bootstrap flow.  A certificate is a number, in the order of issue, and  *)
(* stands for its own refresh token as well.                               *)
(***************************************************************************)
EXTENDS Integers, FiniteSets

CONSTANTS
    Runs,       \* executions of CertRotationJob.run that may overlap
    Startup,    \* the task that runs synchronize_on_startup
    MaxCert     \* bound: how many certificates are ever issued

ASSUME ConstantsAssumption ==
    /\ Startup \notin Runs
    /\ MaxCert \in Nat \ {0}

Tasks == Runs \cup {Startup}

Certs == 1..MaxCert
None  == 0
MaybeCert == Certs \cup {None}

VARIABLES
    \* the disk
    bootstrap,    \* certificate in the bootstrap file; an empty file is none
    bootstrapOk,  \* the file parses and passes BootstrapValidator
    store,        \* certificate in cert.json
    storeOk,      \* it parses and decrypts under the configured key
    due,          \* needs_rotation() holds of the stored certificate
    \* the process
    phase,        \* "down", "starting" (in post_construct) or "up"
    resolver,     \* TrustCertificateResolver's certificate
    client,       \* GrpcTrustCertificateClient's credentials and cached stub
    task,         \* what each task is suspended in
    \* the Trust Service, and requests whose caller is gone
    issued,       \* certificates issued so far are 1..issued
    spent,        \* tokens it no longer honours
    orphans,
    \* history
    lost,         \* tokens whose successor certificate reached no one
    bootCerts,    \* certificates handed out in bootstrap files
    newest        \* the youngest certificate ever stored

diskVars    == <<bootstrap, bootstrapOk, store, storeOk, due>>
processVars == <<phase, resolver, client, task>>
trustVars   == <<issued, spent, orphans>>
historyVars == <<lost, bootCerts, newest>>
vars == <<diskVars, processVars, trustVars, historyVars>>

-----------------------------------------------------------------------------
\* GrpcTrustCertificateClient

NoClient == [creds |-> None, stub |-> None]

\* A stub remembers the credentials its channel was opened with.
SetCredentialsKeepingStub(k, c) == [k EXCEPT !.creds = c]

SetCredentials(k, c) == [creds |-> c, stub |-> None]

EnsureStub(k) == IF k.stub = None THEN [k EXCEPT !.stub = k.creds] ELSE k

-----------------------------------------------------------------------------
\* Tasks of the event loop

Idle == [at |-> "idle", boot |-> FALSE, using |-> None, chan |-> None,
         new |-> None]

Waiting == [at : {"sent"}, boot : BOOLEAN, using : Certs, chan : Certs,
            new : {None}]

Answered == [at : {"answered", "published"}, boot : BOOLEAN, using : Certs,
             chan : Certs, new : Certs]

\* No task is between its last resumption and its next suspension.
LoopFree == \A t \in Tasks : task[t].at # "published"

\* A task awaiting its rotate call: token c presented over the channel of k.
CallBeforeActivating(k, c, isBoot) ==
    [at |-> "sent", boot |-> isBoot, using |-> c,
     chan |-> EnsureStub(client).stub, new |-> None]

Call(k, c, isBoot) ==
    [at |-> "sent", boot |-> isBoot, using |-> c, chan |-> EnsureStub(k).stub,
     new |-> None]

\* TrustCertificateSynchronizer._activate: resolver.update, then ssl.reload.
Activate(c) == resolver' = c /\ client' = SetCredentials(client, c)

\* _activate and then the call of _rotate, up to its await.
ActivateAndCall(t, c, isBoot) ==
    LET k == SetCredentials(client, c) IN
    /\ resolver' = c
    /\ client' = EnsureStub(k)
    /\ task' = [task EXCEPT ![t] = Call(k, c, isBoot)]

ProcessGone ==
    /\ phase' = "down" /\ resolver' = None /\ client' = NoClient
    /\ task' = [t \in Tasks |-> Idle]

Init ==
    /\ bootstrap = None /\ bootstrapOk = FALSE
    /\ store = None /\ storeOk = TRUE /\ due = FALSE
    /\ phase = "down" /\ resolver = None /\ client = NoClient
    /\ task = [t \in Tasks |-> Idle]
    /\ issued = 0 /\ spent = {} /\ orphans = {}
    /\ lost = {} /\ bootCerts = {} /\ newest = None

-----------------------------------------------------------------------------
\* What the flows find on disk.

HasBootstrap == bootstrap # None

\* Bootstrap.load returns a certificate instead of raising.
BootstrapLoads == bootstrapOk

HasStored == store # None

\* find_latest returns, be it None, instead of raising.
StoreLoads == HasStored => storeOk

-----------------------------------------------------------------------------
\* synchronize_on_startup.  A start that raises without having changed
\* anything (BROKEN, an unreadable store, no root CA) is a stuttering step.

StartBootstrapConsuming ==
    /\ phase = "down" /\ StoreLoads
    /\ HasBootstrap /\ BootstrapLoads
    /\ bootstrap' = None /\ bootstrapOk' = FALSE
    /\ store' = None /\ due' = FALSE
    /\ phase' = "starting"
    /\ ActivateAndCall(Startup, bootstrap, TRUE)
    /\ UNCHANGED <<storeOk, trustVars, historyVars>>

StartBootstrapPersisting ==
    /\ phase = "down" /\ StoreLoads
    /\ HasBootstrap /\ BootstrapLoads
    /\ store' = bootstrap /\ due' = FALSE
    /\ phase' = "starting"
    /\ ActivateAndCall(Startup, bootstrap, TRUE)
    /\ UNCHANGED <<bootstrap, bootstrapOk, storeOk, trustVars, historyVars>>

\* NEW, or RECOVERABLE, which deletes the stored certificate first; both go
\* through _synchronize_bootstrap, whose exceptions nobody catches.
StartBootstrap ==
    /\ phase = "down" /\ StoreLoads
    /\ HasBootstrap /\ BootstrapLoads
    /\ store' = None /\ due' = FALSE
    /\ phase' = "starting"
    /\ ActivateAndCall(Startup, bootstrap, TRUE)
    /\ UNCHANGED <<bootstrap, bootstrapOk, storeOk, trustVars, historyVars>>

\* Bootstrap.load raises, after RECOVERABLE has emptied the store.
StartBootstrapRejected ==
    /\ phase = "down" /\ StoreLoads
    /\ HasBootstrap /\ HasStored /\ ~BootstrapLoads
    /\ store' = None /\ due' = FALSE
    /\ UNCHANGED <<bootstrap, bootstrapOk, storeOk, processVars, trustVars,
                   historyVars>>

\* ACTIVE: serve the stored certificate, rotating it first when it is due.
StartRuntime ==
    /\ phase = "down" /\ StoreLoads
    /\ ~HasBootstrap /\ HasStored
    /\ IF due
       THEN phase' = "starting" /\ ActivateAndCall(Startup, store, FALSE)
       ELSE phase' = "up" /\ Activate(store) /\ UNCHANGED task
    /\ UNCHANGED <<diskVars, trustVars, historyVars>>

-----------------------------------------------------------------------------
JobRunUnlessActive(r) ==
    /\ phase # "down" /\ LoopFree /\ task[r].at = "idle"
    /\ HasStored /\ resolver # store
    /\ IF due
       THEN ActivateAndCall(r, store, FALSE)
       ELSE Activate(store) /\ UNCHANGED task
    /\ UNCHANGED <<phase, diskVars, trustVars, historyVars>>

\* CertRotationJob.run: synchronize().  With nothing stored it does nothing.
JobRun(r) ==
    /\ phase # "down" /\ LoopFree /\ task[r].at = "idle"
    /\ HasStored
    /\ IF due
       THEN ActivateAndCall(r, store, FALSE)
       ELSE Activate(store) /\ UNCHANGED task
    /\ UNCHANGED <<phase, diskVars, trustVars, historyVars>>

-----------------------------------------------------------------------------
\* The rotate call resumes.

\* Trust honours a token once, and only over a channel authenticated by the
\* certificate the token is bound to.
TrustHonours(c, chan) == c \notin spent /\ chan = c

TrustRotate(t) ==
    /\ task[t].at = "sent" /\ TrustHonours(task[t].using, task[t].chan)
    /\ issued < MaxCert
    /\ issued' = issued + 1
    /\ spent' = spent \cup {task[t].using}
    /\ task' = [task EXCEPT ![t].at = "answered", ![t].new = issued + 1]
    /\ UNCHANGED <<diskVars, phase, resolver, client, orphans, historyVars>>

CallRaisesReactivating(t) ==
    IF task[t].boot
    THEN ProcessGone
    ELSE /\ phase' = IF t = Startup THEN "up" ELSE phase
         /\ task' = [task EXCEPT ![t] = Idle]
         /\ Activate(task[t].using)

\* The call raised.  The runtime flow keeps its certificate and carries on;
\* the bootstrap flow, and the process with it, ends.
CallRaises(t) ==
    IF task[t].boot
    THEN ProcessGone
    ELSE /\ phase' = IF t = Startup THEN "up" ELSE phase
         /\ task' = [task EXCEPT ![t] = Idle]
         /\ UNCHANGED <<resolver, client>>

TrustRefuse(t) ==
    /\ LoopFree /\ task[t].at = "sent"
    /\ ~TrustHonours(task[t].using, task[t].chan)
    /\ CallRaises(t)
    /\ UNCHANGED <<diskVars, trustVars, historyVars>>

\* Trust cannot be reached, or the connection breaks under a request that
\* still gets there.
CallFails(t) ==
    /\ LoopFree /\ task[t].at = "sent"
    /\ CallRaises(t)
    /\ orphans' \in {orphans,
                     orphans \cup ({task[t].using} \cap {task[t].chan})}
    /\ UNCHANGED <<diskVars, issued, spent, historyVars>>

\* The reply is lost on its way back, or save() raises on it.
SuccessorLost(t) ==
    /\ LoopFree /\ task[t].at = "answered"
    /\ CallRaises(t)
    /\ lost' = lost \cup {task[t].using}
    /\ UNCHANGED <<diskVars, trustVars, bootCerts, newest>>

\* The bootstrap flow goes on to delete the bootstrap file, the runtime flow
\* is done.
AfterPublish(t) ==
    /\ phase' = IF t = Startup /\ ~task[t].boot THEN "up" ELSE phase
    /\ task' = [task EXCEPT ![t] = IF task[t].boot
                                   THEN [task[t] EXCEPT !.at = "published"]
                                   ELSE Idle]

PublishUnsaved(t) ==
    /\ LoopFree /\ task[t].at = "answered"
    /\ IF task[t].boot
       THEN store' = task[t].new /\ due' = FALSE /\ newest' = task[t].new
       ELSE UNCHANGED <<store, due, newest>>
    /\ Activate(task[t].new)
    /\ AfterPublish(t)
    /\ UNCHANGED <<bootstrap, bootstrapOk, storeOk, trustVars, lost, bootCerts>>

PublishUnactivated(t) ==
    /\ LoopFree /\ task[t].at = "answered"
    /\ store' = task[t].new /\ due' = FALSE /\ newest' = task[t].new
    /\ AfterPublish(t)
    /\ UNCHANGED <<bootstrap, bootstrapOk, storeOk, resolver, client,
                   trustVars, lost, bootCerts>>

\* _publish: save, then activate.
Publish(t) ==
    /\ LoopFree /\ task[t].at = "answered"
    /\ store' = task[t].new /\ due' = FALSE /\ newest' = task[t].new
    /\ Activate(task[t].new)
    /\ AfterPublish(t)
    /\ UNCHANGED <<bootstrap, bootstrapOk, storeOk, trustVars, lost, bootCerts>>

\* Bootstrap.delete removes whatever file is there now, or logs why it could
\* not and succeeds all the same.
DeleteBootstrap ==
    /\ task[Startup].at = "published"
    /\ \/ bootstrap' = None /\ bootstrapOk' = FALSE
       \/ UNCHANGED <<bootstrap, bootstrapOk>>
    /\ phase' = "up"
    /\ task' = [task EXCEPT ![Startup] = Idle]
    /\ UNCHANGED <<store, storeOk, due, resolver, client, trustVars,
                   historyVars>>

-----------------------------------------------------------------------------
\* The process dies or is stopped (pre_destroy closes the channel under the
\* calls in flight): memory is gone, some requests still reach Trust, and
\* the replies on their way are lost.
Crash ==
    /\ phase # "down"
    /\ ProcessGone
    /\ \E S \in SUBSET {task[t].using : t \in
                {u \in Tasks : task[u].at = "sent"
                               /\ task[u].chan = task[u].using}} :
          orphans' = orphans \cup S
    /\ lost' = lost \cup {task[t].using : t \in
                             {u \in Tasks : task[u].at = "answered"}}
    /\ UNCHANGED <<diskVars, issued, spent, bootCerts, newest>>

\* Trust gets a request nobody waits for any more; the certificate it issues
\* reaches no one and needs no number.
TrustHandlesOrphan(c) ==
    /\ c \in orphans
    /\ orphans' = orphans \ {c}
    /\ spent' = spent \cup {c}
    /\ lost' = IF c \in spent THEN lost ELSE lost \cup {c}
    /\ UNCHANGED <<diskVars, processVars, issued, bootCerts, newest>>

-----------------------------------------------------------------------------
\* Time and the operator

\* Certificate.needs_rotation turns true.
Age ==
    /\ store # None /\ ~due /\ issued < MaxCert
    /\ due' = TRUE
    /\ UNCHANGED <<bootstrap, bootstrapOk, store, storeOk, processVars,
                   trustVars, historyVars>>

\* A bootstrap file is put in place: a usable one for a certificate issued
\* now, or one that does not parse or validate.  It may happen at any time.
ProvideBootstrap ==
    /\ issued + 1 < MaxCert
    /\ issued' = issued + 1
    /\ bootstrap' = issued + 1 /\ bootstrapOk' \in BOOLEAN
    /\ bootCerts' = bootCerts \cup {issued + 1}
    /\ UNCHANGED <<store, storeOk, due, processVars, spent, orphans, lost,
                   newest>>

BootstrapExpires ==
    /\ bootstrapOk
    /\ bootstrapOk' = FALSE
    /\ UNCHANGED <<bootstrap, store, storeOk, due, processVars, trustVars,
                   historyVars>>

\* tools/generate_dev_certs.py, run for a stopped application: the store is
\* written with a placeholder token that Trust never honours, under the key of
\* application.yml, which the environment may override for the application.
GenerateDevCerts ==
    /\ phase = "down" /\ issued + 1 < MaxCert
    /\ issued' = issued + 1
    /\ store' = issued + 1 /\ newest' = issued + 1
    /\ storeOk' \in BOOLEAN /\ due' = FALSE
    /\ spent' = spent \cup {issued + 1}
    /\ lost' = lost \cup {issued + 1}
    /\ UNCHANGED <<bootstrap, bootstrapOk, processVars, orphans, bootCerts>>

\* The encryption key is changed while the application is stopped, or put
\* back; a store that is empty is written under whatever key is configured.
ChangeEncryptionKey ==
    /\ phase = "down" /\ store # None
    /\ storeOk' = ~storeOk
    /\ UNCHANGED <<bootstrap, bootstrapOk, store, due, processVars, trustVars,
                   historyVars>>

-----------------------------------------------------------------------------
Next ==
    \/ StartBootstrap \/ StartBootstrapRejected \/ StartRuntime
    \/ \E r \in Runs : JobRun(r)
    \/ \E t \in Tasks : \/ TrustRotate(t) \/ TrustRefuse(t) \/ CallFails(t)
                        \/ SuccessorLost(t) \/ Publish(t)
    \/ DeleteBootstrap \/ Crash
    \/ \E c \in Certs : TrustHandlesOrphan(c)
    \/ Age \/ ProvideBootstrap \/ BootstrapExpires \/ GenerateDevCerts
    \/ ChangeEncryptionKey

Spec == Init /\ [][Next]_vars

\* The hourly job keeps firing and an answered call is processed (asyncio and
\* the scheduler), Trust answers a token it refuses, and of infinitely many
\* calls it could serve it serves one (it is not unreachable for ever).
Fairness ==
    /\ \A r \in Runs : WF_vars(JobRun(r))
    /\ \A t \in Tasks : /\ WF_vars(Publish(t))
                        /\ WF_vars(TrustRefuse(t))
                        /\ SF_vars(TrustRotate(t))

FairSpec == Spec /\ Fairness

-----------------------------------------------------------------------------
\* Every variable has its type; a task that waits has a token, and one that
\* was answered has the new certificate.
TypeOK ==
    /\ bootstrap \in MaybeCert /\ bootstrapOk \in BOOLEAN
    /\ store \in MaybeCert /\ storeOk \in BOOLEAN /\ due \in BOOLEAN
    /\ phase \in {"down", "starting", "up"}
    /\ resolver \in MaybeCert
    /\ client \in [creds : MaybeCert, stub : MaybeCert]
    /\ task \in [Tasks -> {Idle} \cup Waiting \cup Answered]
    /\ issued \in 0..MaxCert
    /\ spent \subseteq Certs /\ orphans \subseteq Certs
    /\ lost \subseteq Certs /\ bootCerts \subseteq Certs
    /\ newest \in MaybeCert

\* A running application identifies itself, in the provider's memory and in
\* the credentials of its own client, by the certificate a restart would
\* load, whichever tasks overlapped on the way (_publish, _activate).
ServesStoredIdentity ==
    phase = "up" => /\ store # None
                    /\ resolver = store
                    /\ client.creds = store

\* The bootstrap certificate authenticates the first call and nothing else:
\* it is never stored and no application serves with it
\* (_synchronize_bootstrap).
BootstrapIsEphemeral ==
    /\ store \notin bootCerts
    /\ phase = "up" => resolver \notin bootCerts

\* A call in flight travels over a channel authenticated by the certificate
\* its one-time token is bound to, however often other tasks replaced the
\* credentials and the cached stub before it (set_credentials, _ensure_stub).
CallPresentsOwnCert ==
    \A t \in Tasks : task[t].at = "sent" => task[t].chan = task[t].using

\* If the stored token is spent, its successor either is in the hands of a
\* task that will store it or was really lost between Trust and the disk: no
\* overlap of tasks, stale publication or restart loses one.
SpentTokenHasSuccessor ==
    store \in spent =>
        \/ store \in lost
        \/ \E t \in Tasks : task[t].at = "answered" /\ task[t].using = store

\* Once something was provided, the application never brings about the state
\* it calls BROKEN, whenever it is interrupted: publish comes before delete.
NeverBroken == issued > 0 => store # None \/ bootstrap # None

\* The life cycle implements TrustIdentity: an application serves once it is
\* up, and what it stores is what is durable.
Serving == IF phase = "up" THEN resolver ELSE None
Abstract == INSTANCE TrustIdentity
                WITH serving <- Serving, durable <- store, Identities <- Certs
ImplementsTrustIdentity == Abstract!Spec

\* A certificate due for rotation whose token Trust still honours gets
\* rotated, whatever number of calls fail first, unless the process ends or
\* the successor is lost (synchronize, retried every hour).
RotationCompletes ==
    (phase = "up" /\ due /\ store \notin spent)
        ~> (~due \/ phase = "down" \/ store \in lost)

-----------------------------------------------------------------------------
\* What the documents say and the code does not do.

\* runtime/security/README.md: the application uses bootstrap.txt once and
\* deletes it itself once the rotation is done, so a start never presents a
\* bootstrap token whose successor the application already has.
BootstrapUsedOnce ==
    [][task[Startup].at = "idle" /\ task'[Startup].boot
          => task'[Startup].using \notin spent \ lost]_vars

\* The comment on RECOVERABLE: "prefer fresh bootstrap".  The stored
\* certificate is given up only for a bootstrap that can replace it.
PrefersFreshBootstrap ==
    [][store # None /\ store' = None
          => bootstrapOk /\ bootstrap \notin spent]_vars

\* The class comment: "Periodic: rotate cert when it approaches expiry".
RotatesWhenDue ==
    (phase = "up" /\ due /\ store \notin spent) ~> (~due \/ phase = "down")

\* generate_dev_certs.py: "Both apps now start in the ACTIVE state", so once it
\* ran there is no bootstrap file and the application can read its store.
DevCertsActive == [][GenerateDevCerts => ~HasBootstrap' /\ StoreLoads']_vars
=============================================================================
