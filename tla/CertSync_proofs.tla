--------------------------- MODULE CertSync_proofs ---------------------------
(***************************************************************************)
(* Proofs about CertSync: its invariants, and that it implements           *)
(* TrustIdentity, for any number of overlapping runs and of certificates.  *)
(***************************************************************************)
EXTENDS CertSync, TLAPS

\* What the flows find on disk are names for conditions on two variables.
USE DEF HasBootstrap, BootstrapLoads, HasStored, StoreLoads

InCall(t) == task[t].at # "idle"
Reply(t)  == task[t].at = "answered"

\* How the phase of the process and its tasks go together.  The bootstrap
\* flow runs alone: with nothing stored the job has nothing to do.
PhaseInv ==
    /\ phase = "down" => \A t \in Tasks : task[t] = Idle
    /\ phase = "starting" => InCall(Startup)
    /\ phase = "up" => task[Startup] = Idle
    /\ \A t \in Tasks : task[t].at = "published" => task[t].boot
    /\ \A r \in Runs : ~task[r].boot
    /\ task[Startup].boot => \A r \in Runs : task[r] = Idle
    /\ task[Startup].boot /\ task[Startup].at # "published" => store = None

\* Outside the bootstrap flow's calls memory agrees with the store.
IdentityInv ==
    phase # "down" /\ (task[Startup].boot => task[Startup].at = "published")
        => store # None /\ resolver = store /\ client.creds = store

\* Numbers handed out lie behind the counter.
IssueInv ==
    /\ store \in {None, newest} /\ newest <= issued /\ bootstrap <= issued
    /\ \A c \in bootCerts : c <= issued
    /\ \A c \in spent : c <= issued
    /\ \A c \in orphans : c <= issued
    /\ store \notin bootCerts
    /\ issued > 0 => store # None \/ bootstrap # None

\* A call was made for the stored certificate, with its own channel, or its
\* token is spent by now.
CallInv ==
    \A t \in Tasks : InCall(t) =>
        /\ task[t].chan = task[t].using
        /\ task[t].using <= issued
        /\ ~task[t].boot => task[t].using = store \/ task[t].using \in spent

\* At most one call has its answer; the certificate in it is younger than
\* any that was stored, and nobody has used it.
ReplyInv ==
    /\ \A t, u \in Tasks : Reply(t) /\ Reply(u) => t = u
    /\ \A t \in Tasks : Reply(t) =>
        /\ task[t].using \in spent
        /\ ~task[t].boot => task[t].using = store
        /\ task[t].new <= issued /\ task[t].new > newest
        /\ task[t].new \notin spent \cup orphans \cup bootCerts
        /\ \A u \in Tasks : task[u].using # task[t].new

IInv ==
    /\ TypeOK
    /\ PhaseInv /\ IdentityInv /\ IssueInv /\ CallInv /\ ReplyInv
    /\ SpentTokenHasSuccessor
-----------------------------------------------------------------------------
\* The next number to be issued is a certificate, and no certificate is None.
LEMMA NextIssue ==
    ASSUME TypeOK, issued < MaxCert
    PROVE  issued + 1 \in Certs /\ issued + 1 \in 0..MaxCert
BY ConstantsAssumption DEF TypeOK, Certs

\* Certificate numbers are positive, so None is none of them.
LEMMA CertRange ==
    ASSUME NEW c \in MaybeCert PROVE c \in Nat /\ (c # None => c \in Certs)
BY DEF MaybeCert, Certs, None

-----------------------------------------------------------------------------
\* Lemmas about tasks

\* The three shapes of a task.
LEMMA TaskShape ==
    ASSUME TypeOK, NEW t \in Tasks
    PROVE  /\ task[t].at = "idle" => task[t] = Idle
           /\ task[t].at = "sent" => task[t] \in Waiting
           /\ task[t].at \in {"answered", "published"} => task[t] \in Answered
           /\ task[t].at \in {"idle", "sent", "answered", "published"}
           /\ task[t].boot \in BOOLEAN
           /\ task[t].using \in MaybeCert
           /\ task[t].chan \in MaybeCert
           /\ task[t].new \in MaybeCert
<1>1. CASE task[t] = Idle
  BY <1>1 DEF Idle, MaybeCert
<1>2. CASE task[t] \in Waiting
  BY <1>2 DEF Waiting, MaybeCert
<1>3. CASE task[t] \in Answered
  BY <1>3 DEF Answered, MaybeCert
<1>. QED BY <1>1, <1>2, <1>3 DEF TypeOK

\* An idle task holds nothing.
LEMMA IdleShape ==
    /\ Idle.at = "idle" /\ Idle.boot = FALSE /\ Idle.using = None
    /\ Idle.chan = None /\ Idle.new = None
BY DEF Idle

\* The call made right after activating c goes over a channel of c: the old
\* stub is gone by then.
LEMMA CallShape ==
    ASSUME NEW c \in Certs, NEW b \in BOOLEAN
    PROVE  LET k    == SetCredentials(client, c)
               call == Call(k, c, b)
           IN  /\ call \in Waiting
               /\ call.at = "sent" /\ call.boot = b /\ call.using = c
               /\ call.chan = c
               /\ EnsureStub(k) = [creds |-> c, stub |-> c]
BY DEF SetCredentials, EnsureStub, Call, Waiting, None, Certs

\* A task that gets its answer.
LEMMA AnswerShape ==
    ASSUME NEW w \in Waiting, NEW c \in Certs
    PROVE  LET a == [w EXCEPT !.at = "answered", !.new = c]
           IN  /\ a \in Answered
               /\ a.at = "answered" /\ a.new = c
               /\ a.boot = w.boot /\ a.using = w.using /\ a.chan = w.chan
BY DEF Waiting, Answered

\* The bootstrap flow's task between its two disk writes.
LEMMA PublishedShape ==
    ASSUME NEW a \in Answered
    PROVE  LET p == [a EXCEPT !.at = "published"]
           IN  /\ p \in Answered
               /\ p.at = "published" /\ p.new = a.new
               /\ p.boot = a.boot /\ p.using = a.using /\ p.chan = a.chan
BY DEF Answered
-----------------------------------------------------------------------------
\* The inductive invariant holds at first and is kept by each action.

\* The inductive invariant holds before anything was provided.
LEMMA InitInv == Init => IInv
<1>. SUFFICES ASSUME Init PROVE IInv
  OBVIOUS
<1>1. TypeOK
  <2>1. task \in [Tasks -> {Idle} \cup Waiting \cup Answered]
    BY DEF Init
  <2>2. None \in MaybeCert /\ 0 \in 0..MaxCert
    BY ConstantsAssumption DEF MaybeCert
  <2>3. NoClient \in [creds : MaybeCert, stub : MaybeCert]
    BY <2>2 DEF NoClient
  <2>. QED BY <2>1, <2>2, <2>3 DEF Init, TypeOK
<1>2. \A t \in Tasks : task[t] = Idle
  BY DEF Init
<1>3. PhaseInv /\ CallInv /\ ReplyInv
  BY <1>2, IdleShape DEF Init, PhaseInv, CallInv, ReplyInv, InCall, Reply, Tasks
<1>4. IdentityInv /\ IssueInv /\ SpentTokenHasSuccessor
  BY DEF Init, IdentityInv, IssueInv, SpentTokenHasSuccessor, None
<1>. QED BY <1>1, <1>3, <1>4 DEF IInv

\* Steps of the environment that touch one disk variable only.
LEMMA DiskStepInv == IInv /\ (Age \/ BootstrapExpires) => IInv'
<1>. SUFFICES ASSUME IInv, Age \/ BootstrapExpires PROVE IInv'
  OBVIOUS
<1>. USE DEF IInv, Age, BootstrapExpires, processVars, trustVars, historyVars
<1>1. TypeOK'
  BY DEF TypeOK
<1>2. PhaseInv' /\ IdentityInv' /\ IssueInv'
  BY DEF PhaseInv, IdentityInv, IssueInv, InCall
<1>3. CallInv' /\ ReplyInv' /\ SpentTokenHasSuccessor'
  BY DEF CallInv, ReplyInv, SpentTokenHasSuccessor, InCall, Reply
<1>. QED BY <1>1, <1>2, <1>3

\* Steps taken while the process is down, when every task is idle.
LEMMA DownStepInv ==
    IInv /\ (StartBootstrapRejected \/ GenerateDevCerts \/ ChangeEncryptionKey)
        => IInv'
<1>. SUFFICES ASSUME IInv, StartBootstrapRejected \/ GenerateDevCerts
                              \/ ChangeEncryptionKey
              PROVE  IInv'
  OBVIOUS
<1>. USE DEF IInv, processVars, trustVars, historyVars
<1>1. phase = "down" /\ UNCHANGED <<phase, resolver, client, task>>
  BY DEF StartBootstrapRejected, GenerateDevCerts, ChangeEncryptionKey
<1>2. TypeOK'
  <2>1. CASE StartBootstrapRejected
    BY <2>1 DEF StartBootstrapRejected, TypeOK, MaybeCert
  <2>2. CASE GenerateDevCerts
    <3>1. issued < MaxCert
      BY <2>2, ConstantsAssumption DEF GenerateDevCerts, TypeOK
    <3>. QED BY <1>1, <2>2, <3>1, NextIssue
             DEF GenerateDevCerts, TypeOK, MaybeCert
  <2>3. CASE ChangeEncryptionKey
    BY <2>3 DEF ChangeEncryptionKey, TypeOK
  <2>. QED BY <2>1, <2>2, <2>3
<1>3. \A t \in Tasks : task[t] = Idle /\ task'[t] = Idle
  BY <1>1 DEF PhaseInv
<1>4. PhaseInv' /\ CallInv' /\ ReplyInv' /\ IdentityInv'
  BY <1>1, <1>3, IdleShape
     DEF PhaseInv, CallInv, ReplyInv, IdentityInv, InCall, Reply, Tasks
<1>5. IssueInv'
  <2>1. newest \in 0..issued /\ issued \in Nat
    BY DEF IssueInv, TypeOK, MaybeCert, Certs, None
  <2>2. CASE StartBootstrapRejected
    BY <2>2 DEF StartBootstrapRejected, IssueInv, TypeOK, Certs, None
  <2>3. CASE GenerateDevCerts
    BY <2>1, <2>3 DEF GenerateDevCerts, IssueInv, TypeOK, MaybeCert, Certs, None
  <2>4. CASE ChangeEncryptionKey
    BY <2>4 DEF ChangeEncryptionKey, IssueInv
  <2>. QED BY <2>2, <2>3, <2>4
<1>6. SpentTokenHasSuccessor'
  <2>1. CASE StartBootstrapRejected
    BY <2>1 DEF StartBootstrapRejected, TypeOK, Certs, None,
       SpentTokenHasSuccessor
  <2>2. CASE GenerateDevCerts
    BY <2>2 DEF GenerateDevCerts, SpentTokenHasSuccessor
  <2>3. CASE ChangeEncryptionKey
    BY <2>3 DEF ChangeEncryptionKey, SpentTokenHasSuccessor
  <2>. QED BY <2>1, <2>2, <2>3
<1>. QED BY <1>2, <1>4, <1>5, <1>6

\* A bootstrap file put in place at any moment preserves the invariant.
LEMMA ProvideBootstrapInv == IInv /\ ProvideBootstrap => IInv'
<1>. SUFFICES ASSUME IInv, ProvideBootstrap PROVE IInv'
  OBVIOUS
<1>. USE DEF IInv, ProvideBootstrap, processVars
<1>1. TypeOK'
  <2>1. issued < MaxCert
    BY ConstantsAssumption DEF TypeOK
  <2>. QED BY <2>1, NextIssue DEF TypeOK, MaybeCert
<1>2. issued \in Nat /\ newest \in 0..issued
  BY DEF TypeOK, IssueInv, MaybeCert, Certs, None
<1>3. PhaseInv' /\ IdentityInv'
  BY DEF PhaseInv, IdentityInv, InCall
<1>4. IssueInv'
  BY <1>2 DEF IssueInv, TypeOK, MaybeCert, Certs, None
<1>5. CallInv'
  BY <1>2, TaskShape DEF CallInv, InCall, MaybeCert, Certs, None
<1>6. ReplyInv'
  BY <1>2, TaskShape DEF ReplyInv, Reply, MaybeCert, Certs, None
<1>7. SpentTokenHasSuccessor'
  BY DEF SpentTokenHasSuccessor
<1>. QED BY <1>1, <1>3, <1>4, <1>5, <1>6, <1>7

\* So does a request of a dead process that still reaches Trust: its token
\* becomes spent and its successor lost in the same step.
LEMMA TrustHandlesOrphanInv ==
    ASSUME IInv, NEW c \in Certs, TrustHandlesOrphan(c) PROVE IInv'
<1>. USE DEF IInv, TrustHandlesOrphan, diskVars, processVars
<1>1. TypeOK'
  BY DEF TypeOK
<1>2. PhaseInv' /\ IdentityInv' /\ IssueInv'
  BY DEF PhaseInv, IdentityInv, IssueInv, InCall
<1>3. CallInv'
  BY DEF CallInv, InCall
<1>4. ReplyInv'
  BY DEF ReplyInv, Reply
<1>5. SpentTokenHasSuccessor'
  BY DEF SpentTokenHasSuccessor
<1>. QED BY <1>1, <1>2, <1>3, <1>4, <1>5

\* A task that activates c and sends its token.
LEMMA SendTyped ==
    ASSUME TypeOK, NEW t \in Tasks, NEW c \in Certs, NEW b \in BOOLEAN,
           ActivateAndCall(t, c, b)
    PROVE  /\ resolver' = c
           /\ client' = [creds |-> c, stub |-> c]
           /\ client' \in [creds : MaybeCert, stub : MaybeCert]
           /\ task' \in [Tasks -> {Idle} \cup Waiting \cup Answered]
           /\ task'[t].at = "sent" /\ task'[t].boot = b
           /\ task'[t].using = c /\ task'[t].chan = c /\ task'[t].new = None
           /\ \A u \in Tasks : u # t => task'[u] = task[u]
<1>. DEFINE k == SetCredentials(client, c)
            call == Call(k, c, b)
<1>1. task' = [task EXCEPT ![t] = call] /\ client' = EnsureStub(k)
      /\ resolver' = c
  BY DEF ActivateAndCall
<1>2. call \in Waiting /\ call.at = "sent" /\ call.boot = b
      /\ call.using = c /\ call.chan = c /\ call.new = None
      /\ EnsureStub(k) = [creds |-> c, stub |-> c]
  BY CallShape DEF Waiting
<1>. HIDE DEF k, call
<1>3. task'[t] = call /\ \A u \in Tasks : u # t => task'[u] = task[u]
  BY <1>1 DEF TypeOK
<1>4. task' \in [Tasks -> {Idle} \cup Waiting \cup Answered]
  BY <1>1, <1>2 DEF TypeOK
<1>5. client' \in [creds : MaybeCert, stub : MaybeCert]
  BY <1>1, <1>2 DEF MaybeCert
<1>. QED BY <1>1, <1>2, <1>3, <1>4, <1>5

\* _activate leaves resolver and client well typed.
LEMMA ActivateTyped ==
    ASSUME NEW c \in MaybeCert, Activate(c)
    PROVE  /\ resolver' = c /\ client'.creds = c
           /\ client' \in [creds : MaybeCert, stub : MaybeCert]
BY DEF Activate, SetCredentials, MaybeCert, None

\* The NEW and RECOVERABLE starts preserve the invariant.
LEMMA StartBootstrapInv == IInv /\ StartBootstrap => IInv'
<1>. SUFFICES ASSUME IInv, StartBootstrap PROVE IInv'
  OBVIOUS
<1>. USE DEF IInv, StartBootstrap, trustVars, historyVars
<1>0. bootstrap \in Certs /\ bootstrap <= issued /\ Startup \in Tasks
  BY CertRange DEF TypeOK, IssueInv, Tasks
<1>1. /\ resolver' = bootstrap
      /\ client' \in [creds : MaybeCert, stub : MaybeCert]
      /\ task' \in [Tasks -> {Idle} \cup Waiting \cup Answered]
      /\ task'[Startup].at = "sent" /\ task'[Startup].boot
      /\ task'[Startup].using = bootstrap
      /\ task'[Startup].chan = bootstrap /\ task'[Startup].new = None
      /\ \A u \in Tasks : u # Startup => task'[u] = task[u]
  BY <1>0, SendTyped
<1>2. \A u \in Tasks : u # Startup => task'[u] = Idle
  BY <1>1 DEF PhaseInv
<1>3. TypeOK'
  BY <1>0, <1>1 DEF TypeOK, MaybeCert
<1>4. PhaseInv' /\ IdentityInv'
  BY <1>1, <1>2, IdleShape, ConstantsAssumption
     DEF PhaseInv, IdentityInv, InCall, Tasks
<1>5. IssueInv'
  BY <1>0 DEF IssueInv, TypeOK, Certs, None
<1>6. CallInv' /\ ReplyInv'
  BY <1>0, <1>1, <1>2, IdleShape DEF CallInv, ReplyInv, InCall, Reply
<1>7. SpentTokenHasSuccessor'
  BY DEF SpentTokenHasSuccessor, TypeOK, Certs, None
<1>. QED BY <1>3, <1>4, <1>5, <1>6, <1>7

\* The ACTIVE start preserves it, whether or not it calls Trust.
LEMMA StartRuntimeInv == IInv /\ StartRuntime => IInv'
<1>. SUFFICES ASSUME IInv, StartRuntime PROVE IInv'
  OBVIOUS
<1>. USE DEF IInv, diskVars, trustVars, historyVars
<1>0. store \in Certs /\ store <= issued /\ Startup \in Tasks
  BY CertRange DEF StartRuntime, TypeOK, IssueInv, Tasks
<1>1. /\ phase = "down" /\ UNCHANGED <<diskVars, trustVars, historyVars>>
      /\ \A u \in Tasks : task[u] = Idle
  BY DEF StartRuntime, PhaseInv
<1>2. IssueInv'
  BY <1>1 DEF IssueInv
<1>3. SpentTokenHasSuccessor'
  <2>. SUFFICES ASSUME store \in spent PROVE store \in lost
    BY <1>1 DEF SpentTokenHasSuccessor
  <2>. QED BY <1>1, IdleShape DEF SpentTokenHasSuccessor
<1>4. CASE due
  <2>1. phase' = "starting" /\ ActivateAndCall(Startup, store, FALSE)
    BY <1>4 DEF StartRuntime
  <2>2. /\ resolver' = store /\ client' = [creds |-> store, stub |-> store]
        /\ client' \in [creds : MaybeCert, stub : MaybeCert]
        /\ task' \in [Tasks -> {Idle} \cup Waiting \cup Answered]
        /\ task'[Startup].at = "sent" /\ ~task'[Startup].boot
        /\ task'[Startup].using = store
        /\ task'[Startup].chan = store
        /\ \A u \in Tasks : u # Startup => task'[u] = task[u]
    BY <1>0, <2>1, SendTyped
  <2>3. \A u \in Tasks : u # Startup => task'[u] = Idle
    BY <1>1, <2>2
  <2>4. TypeOK'
    BY <1>0, <1>1, <2>1, <2>2 DEF TypeOK, MaybeCert
  <2>5. PhaseInv' /\ IdentityInv'
    BY <1>0, <1>1, <2>1, <2>2, <2>3, IdleShape, ConstantsAssumption
       DEF PhaseInv, IdentityInv, InCall, Tasks, Certs, None
  <2>6. CallInv' /\ ReplyInv'
    BY <1>0, <1>1, <2>2, <2>3, IdleShape DEF CallInv, ReplyInv, InCall, Reply
  <2>. QED BY <1>2, <1>3, <2>4, <2>5, <2>6
<1>5. CASE ~due
  <2>1. phase' = "up" /\ Activate(store) /\ UNCHANGED task
    BY <1>5 DEF StartRuntime
  <2>2. /\ resolver' = store /\ client'.creds = store
        /\ client' \in [creds : MaybeCert, stub : MaybeCert]
    BY <1>0, <2>1, ActivateTyped DEF MaybeCert
  <2>3. TypeOK'
    BY <1>0, <1>1, <2>1, <2>2 DEF TypeOK, MaybeCert
  <2>4. PhaseInv' /\ IdentityInv'
    BY <1>0, <1>1, <2>1, <2>2, IdleShape
       DEF PhaseInv, IdentityInv, InCall, Tasks, Certs, None
  <2>5. CallInv' /\ ReplyInv'
    BY <1>1, <2>1, IdleShape DEF CallInv, ReplyInv, InCall, Reply
  <2>. QED BY <1>2, <1>3, <2>3, <2>4, <2>5
<1>. QED BY <1>4, <1>5

\* A run of the rotation job preserves it, whatever other tasks wait for.
LEMMA JobRunInv == ASSUME IInv, NEW r \in Runs, JobRun(r) PROVE IInv'
<1>. USE DEF IInv, diskVars, trustVars, historyVars
<1>0. store \in Certs /\ store <= issued /\ r \in Tasks /\ Startup \in Tasks
      /\ r # Startup
  BY CertRange, ConstantsAssumption DEF JobRun, TypeOK, IssueInv, Tasks
<1>1. /\ phase # "down" /\ task[r].at = "idle" /\ store # None
      /\ \A t \in Tasks : task[t].at # "published"
      /\ UNCHANGED <<phase, diskVars, trustVars, historyVars>>
  BY DEF JobRun, LoopFree
<1>2. IssueInv'
  BY <1>1 DEF IssueInv
<1>3. ~task[Startup].boot /\ ~task[r].boot
  BY <1>0, <1>1 DEF PhaseInv
<1>4. resolver = store /\ client.creds = store
  BY <1>1, <1>3 DEF IdentityInv
<1>5. CASE due
  <2>1. ActivateAndCall(r, store, FALSE)
    BY <1>5 DEF JobRun
  <2>2. /\ resolver' = store /\ client' = [creds |-> store, stub |-> store]
        /\ client' \in [creds : MaybeCert, stub : MaybeCert]
        /\ task' \in [Tasks -> {Idle} \cup Waiting \cup Answered]
        /\ task'[r].at = "sent" /\ ~task'[r].boot
        /\ task'[r].using = store
        /\ task'[r].chan = store
        /\ \A u \in Tasks : u # r => task'[u] = task[u]
    BY <1>0, <2>1, SendTyped
  <2>3. TypeOK'
    BY <1>0, <1>1, <2>1, <2>2 DEF TypeOK, MaybeCert
  <2>4. PhaseInv' /\ IdentityInv'
    BY <1>0, <1>1, <1>3, <2>2 DEF PhaseInv, IdentityInv, InCall, Tasks
  <2>5. CallInv'
    BY <1>0, <1>1, <2>2 DEF CallInv, InCall
  <2>6. ReplyInv'
    <3>1. \A t \in Tasks : task[t].at = "answered" => task[t].new # store
      BY TaskShape DEF ReplyInv, Reply, IssueInv, TypeOK, MaybeCert, Certs, None
    <3>. QED BY <1>0, <1>1, <2>2, <3>1 DEF ReplyInv, Reply
  <2>7. SpentTokenHasSuccessor'
    BY <1>0, <1>1, <2>2 DEF SpentTokenHasSuccessor
  <2>. QED BY <1>2, <2>3, <2>4, <2>5, <2>6, <2>7
<1>6. CASE ~due
  <2>1. Activate(store) /\ UNCHANGED task
    BY <1>6 DEF JobRun
  <2>2. /\ resolver' = store /\ client'.creds = store
        /\ client' \in [creds : MaybeCert, stub : MaybeCert]
    BY <1>0, <2>1, ActivateTyped DEF MaybeCert
  <2>3. TypeOK'
    BY <1>0, <1>1, <2>1, <2>2 DEF TypeOK, MaybeCert
  <2>4. PhaseInv' /\ IdentityInv' /\ CallInv' /\ ReplyInv'
        /\ SpentTokenHasSuccessor'
    BY <1>1, <2>1, <2>2
       DEF PhaseInv, IdentityInv, CallInv, ReplyInv, InCall, Reply,
           SpentTokenHasSuccessor
  <2>. QED BY <1>2, <2>3, <2>4
<1>. QED BY <1>5, <1>6

\* Trust's answer preserves it: the new certificate is younger than every
\* other one, and the token it replaces belongs to the task that waits.
LEMMA TrustRotateInv == ASSUME IInv, NEW t \in Tasks, TrustRotate(t) PROVE IInv'
<1>. USE DEF IInv, diskVars, historyVars
<1>. DEFINE c == task[t].using
            n == issued + 1
<1>0. /\ task[t].at = "sent" /\ c \notin spent
      /\ issued' = n /\ spent' = spent \cup {c}
      /\ task' = [task EXCEPT ![t].at = "answered", ![t].new = n]
      /\ UNCHANGED <<diskVars, phase, resolver, client, orphans, historyVars>>
  BY DEF TrustRotate, TrustHonours
<1>1. issued \in Nat /\ n \in Certs /\ n \in 0..MaxCert
  BY NextIssue DEF TrustRotate, TypeOK
<1>2. task[t] \in Waiting /\ c \in Certs /\ c <= issued /\ task[t].chan = c
  BY <1>0, TaskShape DEF CallInv, InCall, Waiting
<1>. HIDE DEF n
<1>3. /\ task'[t] = [task[t] EXCEPT !.at = "answered", !.new = n]
      /\ \A u \in Tasks : u # t => task'[u] = task[u]
      /\ DOMAIN task' = Tasks
      /\ task' = [u \in Tasks |-> task'[u]]
  BY <1>0 DEF TypeOK
<1>4. /\ task'[t] \in Answered
      /\ task'[t].at = "answered" /\ task'[t].new = n
      /\ task'[t].boot = task[t].boot /\ task'[t].using = c
      /\ task'[t].chan = c
  <2>. DEFINE a == [task[t] EXCEPT !.at = "answered", !.new = n]
  <2>1. /\ a \in Answered /\ a.at = "answered" /\ a.new = n
        /\ a.boot = task[t].boot /\ a.using = c /\ a.chan = task[t].chan
    BY <1>1, <1>2, AnswerShape
  <2>. HIDE DEF a
  <2>. QED BY <1>2, <1>3, <2>1 DEF a
<1>5. TypeOK'
  <2>1. task' \in [Tasks -> {Idle} \cup Waiting \cup Answered]
    BY <1>3, <1>4 DEF TypeOK
  <2>. QED BY <1>0, <1>1, <1>2, <2>1 DEF TypeOK
<1>6. \A u \in Tasks : Reply(u) => FALSE
  <2>. SUFFICES ASSUME NEW u \in Tasks, Reply(u) PROVE FALSE
    OBVIOUS
  <2>1. u # t /\ task[u].using \in spent
    BY <1>0 DEF Reply, ReplyInv
  <2>2. CASE task[u].boot \/ task[t].boot
    BY <1>0, <2>1, <2>2, IdleShape DEF PhaseInv, Reply, Tasks
  <2>3. CASE ~task[u].boot /\ ~task[t].boot
    BY <1>0, <2>1, <2>3 DEF ReplyInv, CallInv, InCall, Reply
  <2>. QED BY <2>2, <2>3
<1>7. PhaseInv' /\ IdentityInv'
  BY <1>0, <1>3, <1>4, IdleShape DEF PhaseInv, IdentityInv, InCall, Tasks
<1>8. IssueInv'
  <2>1. newest <= n /\ bootstrap <= n /\ n > 0
    BY <1>1 DEF IssueInv, TypeOK, MaybeCert, Certs, None, n
  <2>2. /\ \A d \in bootCerts : d <= n
        /\ \A d \in spent \cup {c} : d <= n
        /\ \A d \in orphans : d <= n
    BY <1>1, <1>2 DEF IssueInv, TypeOK, Certs, n
  <2>3. store # None \/ bootstrap # None
    BY <1>2 DEF IssueInv, TypeOK, Certs
  <2>. QED BY <1>0, <2>1, <2>2, <2>3 DEF IssueInv
<1>9. CallInv'
  <2>. SUFFICES ASSUME NEW u \in Tasks, task'[u].at # "idle"
                PROVE  /\ task'[u].chan = task'[u].using
                       /\ task'[u].using <= n
                       /\ ~task'[u].boot => task'[u].using = store
                                            \/ task'[u].using \in spent'
    BY <1>0 DEF CallInv, InCall
  <2>1. CASE u = t
    BY <1>0, <1>1, <1>2, <1>4, <2>1 DEF n, Certs
  <2>2. CASE u # t
    BY <1>0, <1>1, <1>3, <2>2, TaskShape DEF CallInv, InCall, n, MaybeCert,
       Certs, None
  <2>. QED BY <2>1, <2>2
<1>10. ReplyInv'
  <2>1. \A u \in Tasks : Reply(u)' => u = t
    BY <1>3, <1>6 DEF Reply
  <2>2. n <= issued' /\ n > newest /\ n # c
    BY <1>0, <1>1, <1>2 DEF IssueInv, TypeOK, MaybeCert, Certs, None, n
  <2>3. n \notin spent' \cup orphans' \cup bootCerts'
    BY <1>0, <1>1, <2>2 DEF IssueInv, TypeOK, Certs, n
  <2>4. \A u \in Tasks : task'[u].using # n
    <3>. SUFFICES ASSUME NEW u \in Tasks, u # t PROVE task[u].using # n
      BY <1>3, <1>4, <2>2
    <3>1. CASE task[u] = Idle
      BY <1>1, <3>1, IdleShape DEF Certs, None
    <3>2. CASE InCall(u)
      BY <1>1, <3>2, TaskShape DEF CallInv, MaybeCert, Certs, None, n
    <3>. QED BY <3>1, <3>2, TaskShape DEF InCall
  <2>5. ~task[t].boot => c = store
    BY <1>0 DEF CallInv, InCall
  <2>6. /\ task'[t].using \in spent'
        /\ ~task'[t].boot => task'[t].using = store'
        /\ task'[t].new <= issued' /\ task'[t].new > newest'
        /\ task'[t].new \notin spent' \cup orphans' \cup bootCerts'
        /\ \A u \in Tasks : task'[u].using # task'[t].new
    <3>1. task'[t].using \in spent'
      BY <1>0, <1>4
    <3>2. ~task'[t].boot => task'[t].using = store'
      BY <1>0, <1>4, <2>5
    <3>3. task'[t].new <= issued' /\ task'[t].new > newest'
      BY <1>0, <1>4, <2>2
    <3>4. task'[t].new \notin spent' \cup orphans' \cup bootCerts'
      BY <1>4, <2>3
    <3>5. \A u \in Tasks : task'[u].using # task'[t].new
      BY <1>4, <2>4
    <3>. QED BY <3>1, <3>2, <3>3, <3>4, <3>5
  <2>. QED BY <2>1, <2>6 DEF ReplyInv
<1>11. SpentTokenHasSuccessor'
  <2>. SUFFICES ASSUME store \in spent \cup {c}, store \notin lost
                PROVE  \E u \in Tasks : task'[u].at = "answered"
                                        /\ task'[u].using = store
    BY <1>0 DEF SpentTokenHasSuccessor
  <2>1. store \notin spent
    BY <1>6 DEF SpentTokenHasSuccessor, Reply
  <2>. QED BY <1>4, <2>1
<1>. QED BY <1>5, <1>7, <1>8, <1>9, <1>10, <1>11

-----------------------------------------------------------------------------
\* A call that raises: the three actions share what becomes of the process.

\* What CallRaises leaves behind.
LEMMA RaisesShape ==
    ASSUME TypeOK, NEW t \in Tasks, CallRaises(t)
    PROVE  /\ task' \in [Tasks -> {Idle} \cup Waiting \cup Answered]
           /\ \A u \in Tasks : task'[u] = task[u] \/ task'[u] = Idle
           /\ task'[t] = Idle
           /\ client' \in [creds : MaybeCert, stub : MaybeCert]
           /\ resolver' \in MaybeCert
           /\ phase' \in {"down", "starting", "up"}
           /\ task[t].boot => phase' = "down" /\ \A u \in Tasks : task'[u] = Idle
           /\ ~task[t].boot => /\ phase' = IF t = Startup THEN "up" ELSE phase
                               /\ resolver' = resolver /\ client' = client
                               /\ \A u \in Tasks : u # t => task'[u] = task[u]
BY DEF CallRaises, ProcessGone, NoClient, TypeOK, MaybeCert

\* What the flows do when the rotate call raises preserves it.
LEMMA RaisesInv ==
    ASSUME IInv, NEW t \in Tasks, task[t].at \in {"sent", "answered"},
           CallRaises(t), diskVars' = diskVars
    PROVE  PhaseInv' /\ IdentityInv'
<1>. USE DEF IInv, diskVars
<1>. Startup \in Tasks /\ phase # "down"
  BY IdleShape DEF Tasks, PhaseInv
<1>1. CASE task[t].boot
  BY <1>1, RaisesShape, IdleShape DEF PhaseInv, IdentityInv, Tasks
<1>2. CASE ~task[t].boot
  <2>1. /\ phase' = IF t = Startup THEN "up" ELSE phase
        /\ resolver' = resolver /\ client' = client /\ task'[t] = Idle
        /\ \A u \in Tasks : u # t => task'[u] = task[u]
    BY <1>2, RaisesShape
  <2>2. ~task[Startup].boot
    BY <1>2, IdleShape DEF PhaseInv, Tasks
  <2>3. PhaseInv'
    BY <2>1, <2>2, IdleShape DEF PhaseInv, InCall, Tasks
  <2>4. IdentityInv'
    BY <2>1, <2>2, IdleShape DEF IdentityInv
  <2>. QED BY <2>3, <2>4
<1>. QED BY <1>1, <1>2

\* A token that is still unspent needs no successor, and the only reply on
\* its way is not lost by the failure of another call.
LEMMA RaisesKeepsReply ==
    ASSUME IInv, NEW t \in Tasks, task[t].at = "sent", CallRaises(t),
           diskVars' = diskVars, spent' = spent, lost' = lost
    PROVE  SpentTokenHasSuccessor'
<1>. USE DEF IInv, diskVars
<1>1. CASE task[t].boot
  BY <1>1 DEF PhaseInv, SpentTokenHasSuccessor, Tasks, TypeOK, Certs, None
<1>2. CASE ~task[t].boot
  BY <1>2, RaisesShape DEF SpentTokenHasSuccessor
<1>. QED BY <1>1, <1>2

\* A refusal preserves it.
LEMMA TrustRefuseInv == ASSUME IInv, NEW t \in Tasks, TrustRefuse(t) PROVE IInv'
<1>. USE DEF IInv, diskVars, trustVars, historyVars
<1>0. /\ task[t].at = "sent" /\ CallRaises(t)
      /\ UNCHANGED <<diskVars, trustVars, historyVars>>
  BY DEF TrustRefuse
<1>1. TypeOK'
  BY <1>0, RaisesShape DEF TypeOK
<1>2. PhaseInv' /\ IdentityInv'
  BY <1>0, RaisesInv
<1>3. IssueInv'
  BY <1>0 DEF IssueInv
<1>4. CallInv' /\ ReplyInv'
  BY <1>0, RaisesShape, IdleShape, TaskShape
     DEF CallInv, ReplyInv, InCall, Reply, IssueInv, TypeOK, MaybeCert, Certs,
         None
<1>5. SpentTokenHasSuccessor'
  BY <1>0, RaisesKeepsReply
<1>. QED BY <1>1, <1>2, <1>3, <1>4, <1>5

\* A call that fails, with or without leaving a request behind, preserves it.
LEMMA CallFailsInv == ASSUME IInv, NEW t \in Tasks, CallFails(t) PROVE IInv'
<1>. USE DEF IInv, diskVars, historyVars
<1>. DEFINE c == task[t].using
<1>0. /\ task[t].at = "sent" /\ CallRaises(t)
      /\ orphans \subseteq orphans' /\ orphans' \subseteq orphans \cup {c}
      /\ UNCHANGED <<diskVars, issued, spent, historyVars>>
  BY DEF CallFails
<1>1. c \in Certs /\ c <= issued
  BY <1>0, TaskShape DEF CallInv, InCall, Waiting
<1>2. TypeOK'
  BY <1>0, <1>1, RaisesShape DEF TypeOK
<1>3. PhaseInv' /\ IdentityInv'
  BY <1>0, RaisesInv
<1>4. IssueInv'
  BY <1>0, <1>1 DEF IssueInv
<1>5. CallInv'
  BY <1>0, RaisesShape, IdleShape DEF CallInv, InCall
<1>6. ReplyInv'
  <2>1. \A u \in Tasks : Reply(u) => task[u].new # c /\ task[u].new # None
    BY TaskShape DEF ReplyInv, Reply, Answered, Certs, None
  <2>. QED BY <1>0, <2>1, RaisesShape, IdleShape DEF ReplyInv, Reply
<1>7. SpentTokenHasSuccessor'
  BY <1>0, RaisesKeepsReply
<1>. QED BY <1>2, <1>3, <1>4, <1>5, <1>6, <1>7

\* A reply lost on its way, or not saved, preserves it.
LEMMA SuccessorLostInv ==
    ASSUME IInv, NEW t \in Tasks, SuccessorLost(t) PROVE IInv'
<1>. USE DEF IInv, diskVars, trustVars
<1>. DEFINE c == task[t].using
<1>0. /\ task[t].at = "answered" /\ CallRaises(t) /\ lost' = lost \cup {c}
      /\ UNCHANGED <<diskVars, trustVars, bootCerts, newest>>
  BY DEF SuccessorLost
<1>1. c \in Certs
  BY <1>0, TaskShape DEF Answered
<1>2. TypeOK'
  BY <1>0, <1>1, RaisesShape DEF TypeOK
<1>3. PhaseInv' /\ IdentityInv'
  BY <1>0, RaisesInv
<1>4. IssueInv'
  BY <1>0 DEF IssueInv
<1>5. CallInv'
  BY <1>0, RaisesShape, IdleShape DEF CallInv, InCall
<1>6. ReplyInv'
  <2>1. \A u \in Tasks : ~Reply(u)'
    BY <1>0, RaisesShape, IdleShape DEF ReplyInv, Reply
  <2>. QED BY <2>1 DEF ReplyInv
<1>7. SpentTokenHasSuccessor'
  BY <1>0 DEF SpentTokenHasSuccessor, ReplyInv, Reply
<1>. QED BY <1>2, <1>3, <1>4, <1>5, <1>6, <1>7

-----------------------------------------------------------------------------
\* Publishing a reply

\* What AfterPublish makes of the tasks.
LEMMA PublishShape ==
    ASSUME TypeOK, NEW t \in Tasks, Reply(t), AfterPublish(t)
    PROVE  /\ task' \in [Tasks -> {Idle} \cup Waiting \cup Answered]
           /\ \A u \in Tasks : u # t => task'[u] = task[u]
           /\ ~task[t].boot => task'[t] = Idle
           /\ task[t].boot => /\ task'[t].at = "published" /\ task'[t].boot
                              /\ task'[t].using = task[t].using
                              /\ task'[t].chan = task[t].chan
<1>. DEFINE p == [task[t] EXCEPT !.at = "published"]
<1>1. task[t] \in Answered
  BY TaskShape DEF Reply
<1>2. /\ p \in Answered /\ p.at = "published" /\ p.boot = task[t].boot
      /\ p.using = task[t].using /\ p.chan = task[t].chan
  BY <1>1, PublishedShape
<1>3. task' = [task EXCEPT ![t] = IF task[t].boot THEN p ELSE Idle]
  BY DEF AfterPublish
<1>. HIDE DEF p
<1>4. \A u \in Tasks : u # t => task'[u] = task[u]
  BY <1>3 DEF TypeOK
<1>5. CASE task[t].boot
  <2>1. task'[t] = p
    BY <1>3, <1>5 DEF TypeOK
  <2>. QED BY <1>2, <1>3, <1>4, <1>5, <2>1 DEF TypeOK
<1>6. CASE ~task[t].boot
  BY <1>3, <1>4, <1>6 DEF TypeOK
<1>. QED BY <1>5, <1>6

\* _publish preserves it: only one answered task can hold the successor of
\* the stored token, so what is overwritten is never the only copy.
LEMMA PublishInv == ASSUME IInv, NEW t \in Tasks, Publish(t) PROVE IInv'
<1>. USE DEF IInv, trustVars
<1>. DEFINE n == task[t].new
<1>0. /\ Reply(t) /\ AfterPublish(t) /\ Activate(n)
      /\ store' = n /\ due' = FALSE /\ newest' = n
      /\ \A u \in Tasks : task[u].at # "published"
      /\ phase' = IF t = Startup /\ ~task[t].boot THEN "up" ELSE phase
      /\ UNCHANGED <<bootstrap, bootstrapOk, storeOk, trustVars, lost, bootCerts>>
  BY DEF Publish, Reply, AfterPublish, LoopFree
<1>1. n \in Certs /\ n > newest /\ n <= issued
      /\ n \notin spent \cup orphans \cup bootCerts
      /\ task[t].using \in spent
  BY <1>0, TaskShape DEF ReplyInv, Reply, Answered
<1>2. /\ resolver' = n /\ client'.creds = n
      /\ client' \in [creds : MaybeCert, stub : MaybeCert]
  BY <1>0, <1>1, ActivateTyped DEF MaybeCert
<1>3. TypeOK'
  BY <1>0, <1>1, <1>2, PublishShape DEF TypeOK, MaybeCert
<1>4. phase # "down" /\ Startup \in Tasks
  BY <1>0, IdleShape DEF PhaseInv, Reply, Tasks
<1>5. \A u \in Tasks : u # t => task'[u] = task[u]
  BY <1>0, PublishShape
<1>6. PhaseInv'
  <2>1. CASE task[t].boot
    <3>1. t = Startup /\ phase = "starting"
      BY <1>0, <1>4, <2>1, IdleShape DEF PhaseInv, Tasks, Reply, TypeOK
    <3>2. task'[t].at = "published" /\ task'[t].boot
      BY <1>0, <2>1, PublishShape
    <3>. QED BY <1>0, <1>5, <2>1, <3>1, <3>2, ConstantsAssumption
             DEF PhaseInv, InCall, Tasks
  <2>2. CASE ~task[t].boot
    <3>1. task'[t] = Idle
      BY <1>0, <2>2, PublishShape
    <3>2. ~task[Startup].boot
      BY <1>0, <2>2, IdleShape DEF PhaseInv, Tasks, Reply
    <3>. QED BY <1>0, <1>4, <1>5, <2>2, <3>1, <3>2, IdleShape
             DEF PhaseInv, InCall, Tasks
  <2>. QED BY <2>1, <2>2
<1>7. IdentityInv'
  BY <1>0, <1>1, <1>2 DEF IdentityInv, Certs, None
<1>8. IssueInv'
  BY <1>0, <1>1 DEF IssueInv, TypeOK, Certs, None
<1>9. CallInv'
  <2>. SUFFICES ASSUME NEW u \in Tasks, InCall(u)'
                PROVE  /\ task'[u].chan = task'[u].using
                       /\ task'[u].using <= issued
                       /\ ~task'[u].boot => task'[u].using = n
                                            \/ task'[u].using \in spent
    BY <1>0 DEF CallInv
  <2>1. CASE u = t
    <3>1. task[t].boot
      BY <1>0, <2>1, PublishShape, IdleShape DEF InCall
    <3>. QED BY <1>0, <2>1, <3>1, PublishShape DEF CallInv, InCall, Reply
  <2>2. CASE u # t /\ task[t].boot
    <3>1. u \in Runs /\ t = Startup
      BY <2>2 DEF PhaseInv, Tasks
    <3>. QED BY <1>5, <2>2, <3>1, IdleShape DEF PhaseInv, InCall
  <2>3. CASE u # t /\ ~task[t].boot
    <3>1. InCall(u) /\ task'[u] = task[u]
      BY <1>5, <2>3 DEF InCall
    <3>2. store \in spent
      BY <1>0, <2>3 DEF ReplyInv
    <3>. QED BY <3>1, <3>2 DEF CallInv
  <2>. QED BY <2>1, <2>2, <2>3
<1>10. \A u \in Tasks : ~Reply(u)'
  BY <1>0, <1>5, PublishShape, IdleShape DEF ReplyInv, Reply
<1>11. ReplyInv'
  BY <1>10 DEF ReplyInv
<1>12. SpentTokenHasSuccessor'
  BY <1>0, <1>1 DEF SpentTokenHasSuccessor
<1>. QED BY <1>3, <1>6, <1>7, <1>8, <1>9, <1>11, <1>12

\* Deleting the bootstrap file after publishing preserves it.
LEMMA DeleteBootstrapInv == IInv /\ DeleteBootstrap => IInv'
<1>. SUFFICES ASSUME IInv, DeleteBootstrap PROVE IInv'
  OBVIOUS
<1>. USE DEF IInv, trustVars, historyVars
<1>0. /\ task[Startup].at = "published"
      /\ bootstrap' \in {None, bootstrap} /\ bootstrapOk' \in BOOLEAN
      /\ phase' = "up" /\ task' = [task EXCEPT ![Startup] = Idle]
      /\ UNCHANGED <<store, storeOk, due, resolver, client, trustVars,
                     historyVars>>
  BY DEF DeleteBootstrap, TypeOK
<1>1. /\ Startup \in Tasks /\ task'[Startup] = Idle
      /\ \A u \in Tasks : u # Startup => task'[u] = task[u]
      /\ task' \in [Tasks -> {Idle} \cup Waiting \cup Answered]
  BY <1>0 DEF TypeOK, Tasks
<1>2. task[Startup].boot /\ phase # "down"
  BY <1>0, <1>1, IdleShape DEF PhaseInv
<1>3. \A u \in Tasks : task'[u] = Idle
  BY <1>1, <1>2 DEF PhaseInv, Tasks
<1>4. store # None /\ resolver = store /\ client.creds = store
  BY <1>0, <1>2 DEF IdentityInv
<1>5. TypeOK'
  BY <1>0, <1>1 DEF TypeOK, MaybeCert
<1>6. PhaseInv' /\ IdentityInv' /\ CallInv' /\ ReplyInv'
  BY <1>0, <1>1, <1>3, <1>4, IdleShape
     DEF PhaseInv, IdentityInv, CallInv, ReplyInv, InCall, Reply, Tasks
<1>7. IssueInv'
  BY <1>0, <1>4 DEF IssueInv, TypeOK, None
<1>8. SpentTokenHasSuccessor'
  <2>1. \A u \in Tasks : task[u].at # "answered"
    BY <1>0, <1>2, IdleShape DEF PhaseInv, Tasks
  <2>. QED BY <1>0, <2>1 DEF SpentTokenHasSuccessor
<1>. QED BY <1>5, <1>6, <1>7, <1>8

\* The death of the process at any point preserves it.
LEMMA CrashInv == IInv /\ Crash => IInv'
<1>. SUFFICES ASSUME IInv, Crash PROVE IInv'
  OBVIOUS
<1>. USE DEF IInv, diskVars
<1>0. /\ ProcessGone
      /\ UNCHANGED <<diskVars, issued, spent, bootCerts, newest>>
      /\ lost' = lost \cup {task[t].using : t \in
                               {u \in Tasks : task[u].at = "answered"}}
  BY DEF Crash
<1>1. \A c \in orphans' : c \in orphans \/ \E t \in Tasks :
          task[t].at = "sent" /\ task[t].using = c
  BY DEF Crash
<1>2. \A c \in orphans' : c \in Certs /\ c <= issued
  BY <1>1, TaskShape DEF CallInv, InCall, IssueInv, TypeOK, Waiting
<1>3. lost' \subseteq Certs
  BY <1>0, TaskShape DEF TypeOK, Answered
<1>4. phase' = "down" /\ \A t \in Tasks : task'[t] = Idle
  BY <1>0 DEF ProcessGone
<1>5. TypeOK'
  BY <1>0, <1>2, <1>3 DEF TypeOK, ProcessGone, NoClient, MaybeCert
<1>6. PhaseInv' /\ IdentityInv' /\ CallInv' /\ ReplyInv'
  BY <1>4, IdleShape
     DEF PhaseInv, IdentityInv, CallInv, ReplyInv, InCall, Reply, Tasks
<1>7. IssueInv'
  BY <1>0, <1>2 DEF IssueInv
<1>8. SpentTokenHasSuccessor'
  BY <1>0 DEF SpentTokenHasSuccessor
<1>. QED BY <1>5, <1>6, <1>7, <1>8

-----------------------------------------------------------------------------
\* Every step keeps the invariant.
LEMMA NextInv == IInv /\ [Next]_vars => IInv'
<1>. SUFFICES ASSUME IInv, [Next]_vars PROVE IInv'
  OBVIOUS
<1>1. CASE StartBootstrap
  BY <1>1, StartBootstrapInv
<1>2. CASE StartBootstrapRejected \/ GenerateDevCerts \/ ChangeEncryptionKey
  BY <1>2, DownStepInv
<1>3. CASE StartRuntime
  BY <1>3, StartRuntimeInv
<1>4. CASE \E r \in Runs : JobRun(r)
  BY <1>4, JobRunInv
<1>5. CASE \E t \in Tasks : TrustRotate(t)
  BY <1>5, TrustRotateInv
<1>6. CASE \E t \in Tasks : TrustRefuse(t)
  BY <1>6, TrustRefuseInv
<1>7. CASE \E t \in Tasks : CallFails(t)
  BY <1>7, CallFailsInv
<1>8. CASE \E t \in Tasks : SuccessorLost(t)
  BY <1>8, SuccessorLostInv
<1>9. CASE \E t \in Tasks : Publish(t)
  BY <1>9, PublishInv
<1>10. CASE DeleteBootstrap
  BY <1>10, DeleteBootstrapInv
<1>11. CASE Crash
  BY <1>11, CrashInv
<1>12. CASE \E c \in Certs : TrustHandlesOrphan(c)
  BY <1>12, TrustHandlesOrphanInv
<1>13. CASE Age \/ BootstrapExpires
  BY <1>13, DiskStepInv
<1>14. CASE ProvideBootstrap
  BY <1>14, ProvideBootstrapInv
<1>15. CASE UNCHANGED vars
  BY <1>15 DEF vars, diskVars, processVars, trustVars, historyVars, IInv, TypeOK,
     PhaseInv, IdentityInv, IssueInv, CallInv, ReplyInv, InCall, Reply,
     SpentTokenHasSuccessor
<1>. QED BY <1>1, <1>2, <1>3, <1>4, <1>5, <1>6, <1>7, <1>8, <1>9, <1>10, <1>11,
            <1>12, <1>13, <1>14, <1>15 DEF Next

\* The inductive invariant holds of every behaviour of the life cycle.
THEOREM Invariance == Spec => []IInv
BY InitInv, NextInv, PTL DEF Spec

\* The variables of the life cycle always have their types
\* (TrustCertificateSynchronizer and what it writes).
THEOREM TypeCorrect == Spec => []TypeOK
<1>1. IInv => TypeOK
  BY DEF IInv
<1>. QED BY <1>1, Invariance, PTL

\* An application that is up identifies itself by the certificate a restart
\* would load (_publish, _activate), however many runs of the job overlap.
THEOREM ServesStored == Spec => []ServesStoredIdentity
<1>1. IInv => ServesStoredIdentity
  BY IdleShape DEF IInv, PhaseInv, IdentityInv, ServesStoredIdentity
<1>. QED BY <1>1, Invariance, PTL

\* A bootstrap certificate is neither stored nor served with
\* (_synchronize_bootstrap).
THEOREM Ephemeral == Spec => []BootstrapIsEphemeral
<1>1. IInv => BootstrapIsEphemeral
  BY IdleShape
     DEF IInv, PhaseInv, IdentityInv, IssueInv, BootstrapIsEphemeral
<1>. QED BY <1>1, Invariance, PTL

\* A token travels only over a channel of the certificate it is bound to
\* (set_credentials, _ensure_stub).
THEOREM OwnChannel == Spec => []CallPresentsOwnCert
<1>1. IInv => CallPresentsOwnCert
  BY DEF IInv, CallInv, InCall, CallPresentsOwnCert
<1>. QED BY <1>1, Invariance, PTL

\* The stored token is spent only if its successor is about to be stored or
\* was lost on its way from Trust to the disk.
THEOREM NoForgottenSuccessor == Spec => []SpentTokenHasSuccessor
<1>1. IInv => SpentTokenHasSuccessor
  BY DEF IInv
<1>. QED BY <1>1, Invariance, PTL

\* What was once provided is never used up entirely: the application does not
\* bring about its BROKEN state (synchronize_on_startup).
THEOREM DiskNeverBroken == Spec => []NeverBroken
<1>1. IInv => NeverBroken
  BY DEF IInv, IssueInv, NeverBroken
<1>. QED BY <1>1, Invariance, PTL

-----------------------------------------------------------------------------
\* CertSync implements TrustIdentity.

\* None of the abstract variables moves.
LEMMA Stutter ==
    ASSUME phase' = phase, resolver' = resolver, store' = store,
           newest' = newest
    PROVE  UNCHANGED Abstract!vars
BY DEF Abstract!vars, Serving

\* The initial state maps to the abstract initial state.
LEMMA RefinesInit == Init => Abstract!Init
BY DEF Init, Abstract!Init, Serving, None, Abstract!None

\* Every step maps to an abstract step or to none.
LEMMA RefinesNext == IInv /\ IInv' /\ [Next]_vars => [Abstract!Next]_(Abstract!vars)
<1>. SUFFICES ASSUME IInv, IInv', [Next]_vars
              PROVE  [Abstract!Next]_(Abstract!vars)
  OBVIOUS
<1>. USE DEF diskVars, processVars, trustVars, historyVars
<1>0. Serving \in {None, store} /\ Serving' \in {None, store'}
  BY IdleShape DEF IInv, Serving, PhaseInv, IdentityInv
<1>1. CASE StartBootstrap \/ StartBootstrapRejected
  <2>1. Serving = None /\ Serving' = None
    BY <1>1 DEF StartBootstrap, StartBootstrapRejected, Serving
  <2>2. store' = None /\ newest' = newest
    BY <1>1 DEF StartBootstrap, StartBootstrapRejected
  <2>3. Abstract!Discard
    BY <2>1, <2>2 DEF Abstract!Discard, Abstract!None, None
  <2>. QED BY <2>3 DEF Abstract!Next
<1>2. CASE StartRuntime \/ DeleteBootstrap
  <2>1. Serving = None /\ store' = store /\ newest' = newest /\ store # None
    <3>1. phase # "up"
      BY <1>2, IdleShape DEF StartRuntime, DeleteBootstrap, IInv, PhaseInv
    <3>2. store # None
      BY <1>2, IdleShape
         DEF StartRuntime, DeleteBootstrap, IInv, PhaseInv, IdentityInv, Tasks
    <3>. QED BY <1>2, <3>1, <3>2 DEF StartRuntime, DeleteBootstrap, Serving
  <2>2. Serving' = None => UNCHANGED Abstract!vars
    BY <2>1 DEF Abstract!vars
  <2>3. Serving' = store => Abstract!Serve
    BY <2>1 DEF Abstract!Serve, Abstract!None, None
  <2>. QED BY <1>0, <2>1, <2>2, <2>3 DEF Abstract!Next
<1>3. CASE \E t \in Tasks : TrustRefuse(t) \/ CallFails(t) \/ SuccessorLost(t)
  <2>1. PICK t \in Tasks : /\ CallRaises(t) /\ store' = store
                           /\ newest' = newest
                           /\ task[t].at \in {"sent", "answered"}
    BY <1>3 DEF TrustRefuse, CallFails, SuccessorLost
  <2>2. CASE task[t].boot
    <3>1. phase # "up" /\ phase' # "up"
      BY <2>1, <2>2, IdleShape DEF IInv, PhaseInv, Tasks, CallRaises, ProcessGone
    <3>2. Serving = None /\ Serving' = None
      BY <3>1 DEF Serving
    <3>. QED BY <2>1, <3>2 DEF Abstract!vars
  <2>3. CASE ~task[t].boot
    <3>1. CASE Serving = None
      <4>1. Serving' = None => UNCHANGED Abstract!vars
        BY <2>1, <3>1 DEF Abstract!vars
      <4>2. Serving' # None => Abstract!Serve
        BY <1>0, <2>1, <3>1 DEF Abstract!Serve, Abstract!None, None
      <4>. QED BY <4>1, <4>2 DEF Abstract!Next
    <3>2. CASE Serving # None
      <4>1. phase = "up" /\ phase' = "up" /\ resolver' = resolver
        BY <2>1, <2>3, <3>2 DEF Serving, CallRaises
      <4>. QED BY <2>1, <4>1, Stutter
    <3>. QED BY <3>1, <3>2
  <2>. QED BY <2>2, <2>3
<1>4. CASE \E t \in Tasks : Publish(t)
  <2>1. PICK t \in Tasks : Publish(t)
    BY <1>4
  <2>. DEFINE n == task[t].new
  <2>2. store' = n /\ newest' = n /\ resolver' = n
    BY <2>1 DEF Publish, Activate
  <2>3. n > newest /\ n \in Certs
    BY <2>1, TaskShape DEF Publish, IInv, ReplyInv, Reply, Answered
  <2>4. CASE Serving = None
    <3>1. Abstract!Install(n)
      BY <1>0, <2>2, <2>3, <2>4 DEF Abstract!Install, Abstract!None, None
    <3>. QED BY <2>3, <3>1 DEF Abstract!Next
  <2>5. CASE Serving # None
    <3>1. phase = "up" /\ phase' = "up"
      BY <2>1, <2>5 DEF Serving, Publish, AfterPublish
    <3>2. Abstract!Rotate(n)
      BY <2>2, <2>3, <2>5, <3>1
         DEF Abstract!Rotate, Abstract!None, None, Serving
    <3>. QED BY <2>3, <3>2 DEF Abstract!Next
  <2>. QED BY <2>4, <2>5
<1>5. CASE Crash
  <2>1. Serving' = None /\ store' = store /\ newest' = newest
    BY <1>5 DEF Crash, ProcessGone, Serving
  <2>2. CASE Serving = None
    BY <2>1, <2>2 DEF Abstract!vars
  <2>3. CASE Serving # None
    <3>1. Abstract!Stop
      BY <2>1, <2>3 DEF Abstract!Stop, Abstract!None, None
    <3>. QED BY <3>1 DEF Abstract!Next
  <2>. QED BY <2>2, <2>3
<1>6. CASE GenerateDevCerts
  <2>. DEFINE n == issued + 1
  <2>1. n \in Certs /\ n > newest
    BY <1>6, NextIssue, ConstantsAssumption
       DEF GenerateDevCerts, IInv, TypeOK, IssueInv, MaybeCert, Certs, None
  <2>2. Serving = None /\ Serving' = None /\ store' = n /\ newest' = n
    BY <1>6 DEF GenerateDevCerts, Serving
  <2>3. Abstract!Install(n)
    BY <2>1, <2>2 DEF Abstract!Install, Abstract!None, None
  <2>. QED BY <2>1, <2>3 DEF Abstract!Next
<1>7. CASE \E r \in Runs : JobRun(r)
  <2>1. PICK r \in Runs : JobRun(r)
    BY <1>7
  <2>2. resolver' = store /\ phase' = phase /\ store' = store /\ newest' = newest
    BY <2>1 DEF JobRun, Activate, ActivateAndCall
  <2>3. phase = "up" => resolver = store
    BY IdleShape DEF IInv, PhaseInv, IdentityInv
  <2>4. Serving' = Serving
    BY <2>2, <2>3 DEF Serving
  <2>. QED BY <2>2, <2>4 DEF Abstract!vars
<1>8. CASE \/ \E t \in Tasks : TrustRotate(t)
           \/ \E c \in Certs : TrustHandlesOrphan(c)
           \/ Age \/ ProvideBootstrap \/ BootstrapExpires
           \/ ChangeEncryptionKey \/ UNCHANGED vars
  BY <1>8, Stutter DEF TrustRotate, TrustHandlesOrphan, Age, ProvideBootstrap,
     BootstrapExpires, ChangeEncryptionKey, vars
<1>. QED BY <1>1, <1>2, <1>3, <1>4, <1>5, <1>6, <1>7, <1>8 DEF Next

\* The certificate life cycle implements the abstract one: what is served is
\* durable, and an identity that was replaced never comes back, across any
\* number of restarts, lost calls and overlapping runs.
THEOREM Implements == Spec => ImplementsTrustIdentity
<1>. QED BY RefinesInit, RefinesNext, Invariance, PTL
         DEF ImplementsTrustIdentity, Spec, Abstract!Spec
=============================================================================
