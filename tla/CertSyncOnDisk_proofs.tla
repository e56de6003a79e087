----------------------- MODULE CertSyncOnDisk_proofs -----------------------
(***************************************************************************)
(* Proofs that the life cycle over the files implements CertSync, and that *)
(* a running application can always be restarted, for any number of        *)
(* overlapping runs, of certificates and of keys.                          *)
(***************************************************************************)
EXTENDS CertSyncOnDisk, TLAPS

Tasks == Runs \cup {Startup}

Task == [at : {"idle", "sent", "answered", "published"}, boot : BOOLEAN,
         using : Nat, chan : Nat, new : Nat]

\* Nothing is sealed for no certificate.
File == {Empty} \cup [cert : Nat \ {0}, key : Keys \cup {NoKey}]

Typed ==
    /\ bootstrap \in Nat /\ issued \in Nat /\ resolver \in Nat
    /\ client \in [creds : Nat, stub : Nat]
    /\ task \in [Tasks -> Task]
    /\ phase \in {"down", "starting", "up"}
    /\ file \in File /\ key \in Keys

\* The bootstrap flow is in its call.
Bootstrapping ==
    task[Startup].boot /\ task[Startup].at \in {"sent", "answered"}

\* Tasks run in a process only, the start-up task while it starts; the
\* bootstrap flow runs alone, because with an empty store no job has work.
TasksInv ==
    /\ phase = "down" => \A t \in Tasks : task[t].at = "idle"
    /\ phase = "starting" => task[Startup].at # "idle"
    /\ phase = "up" => task[Startup].at = "idle"
    /\ \A t \in Tasks : task[t].at = "published" => t = Startup
    /\ task[Startup].at = "published" => task[Startup].boot
    /\ \A t \in Tasks : task[t].at = "answered" => task[t].new # 0
    /\ \A r \in Runs : ~task[r].boot
    /\ Bootstrapping =>
          file = Empty /\ \A r \in Runs : task[r].at = "idle"

\* Outside the bootstrap flow's call cert.json is what a restart needs.
IdentityInv == phase # "down" /\ ~Bootstrapping => file = Sealed(resolver)

\* A save is that of an answered task, alone on the loop, and what it has
\* filled is whole.
SaveInv ==
    saving # NotSaving =>
        /\ saving \in [by : Tasks, at : {"opened", "written"}]
        /\ task[saving.by].at = "answered"
        /\ \A t \in Tasks : task[t].at # "published"
        /\ saving.at = "written" => tmp = Sealed(task[saving.by].new)

IInv == Typed /\ TasksInv /\ IdentityInv /\ SaveInv

-----------------------------------------------------------------------------
\* An application that runs can read its file.
LEMMA RunningReads ==
    ASSUME IInv, phase # "down" PROVE Readable
BY DEF IInv, IdentityInv, TasksInv, Readable, Sealed

\* Without a process nobody saves.
LEMMA DownSavesNothing ==
    ASSUME IInv, phase = "down" PROVE saving = NotSaving
BY DEF IInv, TasksInv, SaveInv

\* A process that is gone leaves the files to the next one.
LEMMA GoneInv ==
    ASSUME OnDiskAssumption, IInv, CS!ProcessGone, saving' = NotSaving,
           file' \in File, key' \in Keys, bootstrap' \in Nat, issued' \in Nat
    PROVE  IInv'
<1>1. /\ phase' = "down" /\ resolver' = 0
      /\ client' = [creds |-> 0, stub |-> 0]
      /\ task' = [t \in Tasks |-> [at |-> "idle", boot |-> FALSE, using |-> 0,
                                  chan |-> 0, new |-> 0]]
  BY DEF CS!ProcessGone, CS!None, CS!NoClient, CS!Tasks, CS!Idle, Tasks
<1>2. Typed'
  BY <1>1 DEF Typed, Task
<1>3. TasksInv'
  BY <1>1 DEF TasksInv, Bootstrapping, Tasks
<1>4. IdentityInv' /\ SaveInv'
  BY <1>1 DEF IdentityInv, SaveInv
<1>. QED
  BY <1>2, <1>3, <1>4 DEF IInv

\* A call that raises, whether or not its answer was on the way.
LEMMA RaisesInv ==
    ASSUME OnDiskAssumption, IInv, NEW t \in Tasks,
           task[t].at \in {"sent", "answered"}, CS!CallRaises(t),
           saving' = NotSaving,
           UNCHANGED <<file, key, bootstrap, issued>>
    PROVE  IInv'
<1>1. CASE task[t].boot
  BY <1>1, GoneInv DEF IInv, Typed, CS!CallRaises
<1>2. CASE ~task[t].boot
  <2>1. /\ phase' = IF t = Startup THEN "up" ELSE phase
        /\ task' = [task EXCEPT ![t] = [at |-> "idle", boot |-> FALSE,
                                       using |-> 0, chan |-> 0, new |-> 0]]
        /\ UNCHANGED <<resolver, client, file, key, bootstrap, issued>>
    BY <1>2 DEF CS!CallRaises, CS!Idle, CS!None
  <2>2. Typed'
    BY <2>1 DEF IInv, Typed, Task
  <2>3. /\ \A u \in Tasks \ {t} : task'[u] = task[u]
        /\ task'[t].at = "idle" /\ ~task'[t].boot
    BY <2>1 DEF IInv, Typed
  <2>4. TasksInv'
    BY <1>2, <2>1, <2>3 DEF IInv, TasksInv, Bootstrapping, Tasks
  <2>5. IdentityInv'
    BY <1>2, <2>1, <2>3
    DEF IInv, TasksInv, IdentityInv, Bootstrapping, Sealed, Tasks
  <2>6. SaveInv'
    BY DEF SaveInv
  <2>. QED
    BY <2>2, <2>4, <2>5, <2>6 DEF IInv
<1>. QED
  BY <1>1, <1>2

\* A task that calls over the identity it activates has the types of a task.
LEMMA CallTyped ==
    ASSUME Typed, NEW t \in Tasks, NEW c \in Nat, NEW b \in BOOLEAN,
           CS!ActivateAndCall(t, c, b)
    PROVE  /\ resolver' = c
           /\ client' \in [creds : Nat, stub : Nat]
           /\ task' \in [Tasks -> Task]
           /\ task'[t].at = "sent" /\ task'[t].boot = b
           /\ \A u \in Tasks \ {t} : task'[u] = task[u]
<1>1. /\ client' = [creds |-> c, stub |-> c]
      /\ task' = [task EXCEPT ![t] =
                    [at |-> "sent", boot |-> b, using |-> c,
                     chan |-> c, new |-> 0]]
      /\ resolver' = c
  BY DEF CS!ActivateAndCall, CS!Call, CS!EnsureStub, CS!SetCredentials,
         CS!None, Typed
<1>2. [at |-> "sent", boot |-> b, using |-> c,
       chan |-> c, new |-> 0] \in Task
  BY DEF Task
<1>. QED
  BY <1>1, <1>2 DEF Typed

\* Nothing is stored in an empty file, and what is stored and readable is
\* sealed under the application's key.
LEMMA StoredIsSealed ==
    ASSUME Typed, file.cert # 0, Readable PROVE file = Sealed(file.cert)
<1>1. file \in [cert : Nat \ {0}, key : Keys \cup {NoKey}]
  BY DEF Typed, File, Empty
<1>2. file.key = key
  BY DEF Readable, Empty
<1>. QED
  BY <1>1, <1>2 DEF Sealed

-----------------------------------------------------------------------------
\* The invariant holds at the start and is preserved, action by action.

\* Nothing runs and the disk is empty.
LEMMA InitInv == ASSUME OnDiskAssumption, Init PROVE IInv
<1>. USE DEF Init, CS!Init, CS!Tasks, CS!None, CS!Idle, CS!NoClient, Tasks
<1>1. Typed
  BY DEF Typed, Task, File
<1>2. TasksInv
  BY DEF TasksInv, Bootstrapping
<1>3. IdentityInv /\ SaveInv
  BY DEF IdentityInv, SaveInv
<1>. QED
  BY <1>1, <1>2, <1>3 DEF IInv

\* The bootstrap flow starts with the store emptied and its call sent.
LEMMA StartBootstrapInv ==
    ASSUME OnDiskAssumption, IInv, StartBootstrap PROVE IInv'
<1>. USE DEF StartBootstrap, DeleteAll, MayBootstrap
<1>1. Startup \in Tasks /\ bootstrap \in Nat /\ Typed
  BY DEF Tasks, IInv, Typed
<1>2. /\ resolver' = bootstrap
      /\ client' \in [creds : Nat, stub : Nat]
      /\ task' \in [Tasks -> Task]
      /\ task'[Startup].at = "sent" /\ task'[Startup].boot = TRUE
      /\ \A u \in Tasks \ {Startup} : task'[u] = task[u]
  BY <1>1, CallTyped
<1>3. Typed'
  BY <1>1, <1>2 DEF Typed, File
<1>4. TasksInv'
  BY <1>2 DEF IInv, TasksInv, Bootstrapping, Tasks, OnDiskAssumption
<1>5. IdentityInv' /\ SaveInv'
  BY <1>2, DownSavesNothing DEF IdentityInv, Bootstrapping, SaveInv
<1>. QED
  BY <1>3, <1>4, <1>5 DEF IInv

\* A bootstrap file that does not load leaves an empty store behind.
LEMMA StartBootstrapRejectedInv ==
    ASSUME OnDiskAssumption, IInv, StartBootstrapRejected PROVE IInv'
<1>. USE DEF StartBootstrapRejected, DeleteAll, MayBootstrap
<1>1. Typed'
  BY DEF IInv, Typed, File
<1>2. TasksInv'
  BY DEF IInv, TasksInv, Bootstrapping
<1>3. IdentityInv' /\ SaveInv'
  BY DownSavesNothing DEF IdentityInv, SaveInv
<1>. QED
  BY <1>1, <1>2, <1>3 DEF IInv

\* A task that was answered begins to save.
LEMMA OpenTmpInv ==
    ASSUME OnDiskAssumption, IInv, NEW t \in Tasks, OpenTmp(t) PROVE IInv'
<1>. USE DEF OpenTmp, syncVars
<1>1. Typed' /\ TasksInv' /\ IdentityInv'
  BY DEF IInv, Typed, TasksInv, IdentityInv, Bootstrapping, Sealed
<1>2. SaveInv'
  BY DEF SaveInv, CS!LoopFree, CS!Tasks, Tasks
<1>. QED
  BY <1>1, <1>2 DEF IInv

\* It fills the temporary file with its own certificate.
LEMMA WriteTmpInv ==
    ASSUME OnDiskAssumption, IInv, NEW t \in Tasks, WriteTmp(t) PROVE IInv'
<1>. USE DEF WriteTmp, syncVars
<1>1. Typed' /\ TasksInv' /\ IdentityInv'
  BY DEF IInv, Typed, TasksInv, IdentityInv, Bootstrapping, Sealed
<1>2. saving # NotSaving
  BY DEF NotSaving
<1>3. SaveInv'
  BY <1>2 DEF IInv, SaveInv, Sealed
<1>. QED
  BY <1>1, <1>3 DEF IInv

\* What a save is about to rename is the answered task's certificate, whole.
LEMMA SavingFacts ==
    ASSUME OnDiskAssumption, IInv, NEW t \in Tasks, saving.by = t,
           saving # NotSaving
    PROVE  /\ task[t].at = "answered" /\ task[t].new \in Nat \ {0}
           /\ task[t] \in Task
           /\ phase # "down" /\ CS!LoopFree
           /\ t = Startup => phase = "starting"
           /\ saving.at = "written" => tmp = Sealed(task[t].new)
<1>1. task[t].at = "answered" /\ task[t] \in Task
  BY DEF IInv, SaveInv, Typed
<1>2. CS!LoopFree
  BY DEF IInv, SaveInv, CS!LoopFree, CS!Tasks, Tasks
<1>3. phase # "down" /\ (t = Startup => phase = "starting")
  BY <1>1 DEF IInv, TasksInv, Typed
<1>4. task[t].new \in Nat \ {0}
  BY <1>1 DEF IInv, TasksInv, Task
<1>. QED
  BY <1>1, <1>2, <1>3, <1>4 DEF IInv, SaveInv

\* The rename puts what the task then serves in place.
LEMMA ReplaceInv ==
    ASSUME OnDiskAssumption, IInv, NEW t \in Tasks, Replace(t) PROVE IInv'
<1>. USE DEF Replace
<1>1. saving # NotSaving /\ saving.by = t /\ saving.at = "written"
  BY DEF NotSaving
<1>2. /\ task[t].at = "answered" /\ task[t].new \in Nat \ {0}
      /\ task[t] \in Task
      /\ phase # "down" /\ CS!LoopFree
      /\ t = Startup => phase = "starting"
      /\ file' = Sealed(task[t].new)
  BY <1>1, SavingFacts
<1>3. /\ resolver' = task[t].new
      /\ client' = [creds |-> task[t].new, stub |-> 0]
      /\ phase' = IF t = Startup /\ ~task[t].boot THEN "up" ELSE phase
      /\ UNCHANGED <<bootstrap, issued, key>>
  BY DEF CS!Activate, CS!SetCredentials, CS!AfterPublish, CS!None
<1>4. PICK n \in Task :
        /\ task' = [task EXCEPT ![t] = n]
        /\ n.at = IF task[t].boot THEN "published" ELSE "idle"
        /\ n.boot = task[t].boot
  <2>1. CASE task[t].boot
    <3>. DEFINE n == [task[t] EXCEPT !.at = "published"]
    <3>1. n \in Task /\ n.at = "published" /\ n.boot = task[t].boot
      BY <1>2 DEF Task
    <3>. QED
      BY <2>1, <3>1 DEF CS!AfterPublish
  <2>2. CASE ~task[t].boot
    <3>1. /\ CS!Idle \in Task /\ CS!Idle.at = "idle" /\ CS!Idle.boot = FALSE
      BY DEF CS!Idle, CS!None, Task
    <3>2. task[t].boot \in BOOLEAN
      BY <1>2 DEF Task
    <3>. QED
      BY <2>2, <3>1, <3>2 DEF CS!AfterPublish
  <2>. QED
    BY <2>1, <2>2
<1>5. /\ \A u \in Tasks \ {t} : task'[u] = task[u]
      /\ task'[t] = n
  BY <1>4 DEF IInv, Typed
<1>6. Typed'
  BY <1>2, <1>3, <1>4 DEF IInv, Typed, File, Sealed
<1>7. TasksInv'
  BY <1>2, <1>3, <1>4, <1>5
  DEF IInv, TasksInv, Bootstrapping, Tasks, OnDiskAssumption
<1>8. IdentityInv' /\ SaveInv'
  BY <1>2, <1>3 DEF IdentityInv, SaveInv, Sealed
<1>. QED
  BY <1>6, <1>7, <1>8 DEF IInv

\* A failed save leaves cert.json and the identity as they were.
LEMMA SaveRaisesInv ==
    ASSUME OnDiskAssumption, IInv, NEW t \in Tasks, SaveRaises(t) PROVE IInv'
<1>1. saving # NotSaving
  BY DEF SaveRaises, NotSaving, OnDiskAssumption, Tasks
<1>2. task[t].at = "answered"
  BY <1>1, SavingFacts DEF SaveRaises
<1>. QED
  BY <1>2, RaisesInv DEF SaveRaises

\* A death leaves the disk as it was.
LEMMA CrashInv == ASSUME OnDiskAssumption, IInv, Crash PROVE IInv'
BY GoneInv DEF Crash, CS!Crash, CS!diskVars, IInv, Typed

\* The tool writes while no application runs.
LEMMA GenerateDevCertsInv ==
    ASSUME OnDiskAssumption, IInv, GenerateDevCerts PROVE IInv'
<1>. USE DEF GenerateDevCerts
<1>1. Typed'
  BY DEF IInv, Typed, File, Torn, OnDiskAssumption
<1>2. TasksInv'
  <2>1. ~Bootstrapping
    BY DEF IInv, TasksInv, Bootstrapping, Tasks
  <2>. QED
    BY <2>1 DEF IInv, TasksInv, Bootstrapping
<1>3. IdentityInv' /\ SaveInv'
  BY DownSavesNothing DEF IdentityInv, SaveInv
<1>. QED
  BY <1>1, <1>2, <1>3 DEF IInv

\* The key changes while no application runs.
LEMMA ChangeEncryptionKeyInv ==
    ASSUME OnDiskAssumption, IInv, NEW k \in Keys, ChangeEncryptionKey(k)
    PROVE  IInv'
<1>. USE DEF ChangeEncryptionKey, syncVars
<1>1. Typed' /\ TasksInv'
  BY DEF IInv, Typed, TasksInv, Bootstrapping
<1>2. IdentityInv' /\ SaveInv'
  BY DownSavesNothing DEF IdentityInv, SaveInv
<1>. QED
  BY <1>1, <1>2 DEF IInv

\* The runtime flow starts from what it could read.
LEMMA StartRuntimeInv ==
    ASSUME OnDiskAssumption, IInv, saving = NotSaving, UNCHANGED diskVars,
           CS!StartRuntime
    PROVE  IInv'
<1>. USE DEF CS!StartRuntime, CS!StoreLoads, CS!HasStored, CS!None, diskVars
<1>1. Startup \in Tasks /\ file.cert \in Nat /\ Typed /\ phase = "down"
  BY DEF Tasks, IInv, Typed, File, Empty
<1>2. file = Sealed(file.cert)
  BY <1>1, StoredIsSealed
<1>3. /\ resolver' = file.cert
      /\ client' \in [creds : Nat, stub : Nat]
      /\ task' \in [Tasks -> Task]
      /\ phase' = IF due THEN "starting" ELSE "up"
      /\ task'[Startup].at = IF due THEN "sent" ELSE "idle"
      /\ due => task'[Startup].boot = FALSE
      /\ \A u \in Tasks \ {Startup} : task'[u] = task[u]
  <2>1. CASE due
    BY <1>1, <2>1, CallTyped
  <2>2. CASE ~due
    BY <1>1, <2>2
    DEF CS!Activate, CS!SetCredentials, IInv, Typed, TasksInv
  <2>. QED
    BY <2>1, <2>2
<1>4. Typed'
  <2>1. UNCHANGED <<bootstrap, issued, file, key>>
    BY DEF CS!diskVars, CS!trustVars
  <2>2. phase' \in {"down", "starting", "up"}
    BY <1>3
  <2>. QED
    BY <1>1, <1>3, <2>1, <2>2 DEF Typed
<1>5. TasksInv'
  BY <1>1, <1>3 DEF IInv, TasksInv, Bootstrapping, Tasks, OnDiskAssumption
<1>6. IdentityInv' /\ SaveInv'
  BY <1>2, <1>3 DEF IdentityInv, SaveInv, Sealed
<1>. QED
  BY <1>4, <1>5, <1>6 DEF IInv

\* A run of the job finds what the application serves, or nothing.
LEMMA JobRunInv ==
    ASSUME OnDiskAssumption, IInv, saving = NotSaving, UNCHANGED diskVars,
           NEW r \in Runs, CS!JobRun(r)
    PROVE  IInv'
<1>. USE DEF CS!JobRun, CS!HasStored, CS!None, diskVars
<1>1. /\ r \in Tasks /\ file.cert \in Nat /\ Typed /\ phase # "down"
      /\ r # Startup
  BY DEF Tasks, IInv, Typed, File, Empty, OnDiskAssumption
<1>2. ~Bootstrapping /\ file = Sealed(file.cert)
  BY <1>1 DEF IInv, TasksInv, IdentityInv, Sealed, Empty
<1>3. /\ resolver' = file.cert
      /\ client' \in [creds : Nat, stub : Nat]
      /\ task' \in [Tasks -> Task]
      /\ task'[r].at \in {"idle", "sent"} /\ ~task'[r].boot
      /\ \A u \in Tasks \ {r} : task'[u] = task[u]
  <2>1. CASE due
    BY <1>1, <2>1, CallTyped
  <2>2. CASE ~due
    BY <1>1, <2>2
    DEF CS!Activate, CS!SetCredentials, IInv, Typed, TasksInv
  <2>. QED
    BY <2>1, <2>2
<1>4. Typed'
  <2>1. UNCHANGED <<bootstrap, issued, file, key>>
    BY DEF CS!diskVars, CS!trustVars
  <2>2. phase' \in {"down", "starting", "up"}
    BY <1>1 DEF Typed
  <2>. QED
    BY <1>1, <1>3, <2>1, <2>2 DEF Typed
<1>5. TasksInv'
  BY <1>1, <1>2, <1>3
  DEF IInv, TasksInv, Bootstrapping, Tasks, OnDiskAssumption
<1>6. IdentityInv' /\ SaveInv'
  BY <1>2, <1>3 DEF IdentityInv, SaveInv, Sealed
<1>. QED
  BY <1>4, <1>5, <1>6 DEF IInv

\* The end of the bootstrap flow touches the bootstrap file only.
LEMMA DeleteBootstrapInv ==
    ASSUME OnDiskAssumption, IInv, saving = NotSaving, UNCHANGED diskVars,
           CS!DeleteBootstrap
    PROVE  IInv'
<1>1. /\ bootstrap' \in Nat /\ phase' = "up" /\ phase # "down"
      /\ task' \in [Tasks -> Task]
      /\ task'[Startup] = CS!Idle
      /\ task[Startup].at = "published"
      /\ \A u \in Tasks \ {Startup} : task'[u] = task[u]
      /\ UNCHANGED <<resolver, client, issued, file, key, saving>>
  BY DEF CS!DeleteBootstrap, CS!Idle, CS!None, CS!trustVars, diskVars, IInv,
         Typed, TasksInv, Task, Tasks
<1>2. Typed'
  BY <1>1 DEF IInv, Typed
<1>3. TasksInv'
  BY <1>1
  DEF IInv, TasksInv, Bootstrapping, Tasks, CS!Idle, OnDiskAssumption
<1>4. IdentityInv' /\ SaveInv'
  BY <1>1 DEF IInv, IdentityInv, Bootstrapping, SaveInv, Sealed
<1>. QED
  BY <1>2, <1>3, <1>4 DEF IInv

\* The other steps of the loop.
LEMMA LoopStepInv == ASSUME OnDiskAssumption, IInv, LoopStep PROVE IInv'
<1>. saving = NotSaving /\ UNCHANGED diskVars
  BY DEF LoopStep
<1>1. ASSUME NEW t \in Tasks,
             CS!TrustRefuse(t) \/ CS!CallFails(t) \/ CS!SuccessorLost(t)
      PROVE  IInv'
  <2>1. /\ task[t].at \in {"sent", "answered"} /\ CS!CallRaises(t)
        /\ UNCHANGED <<bootstrap, issued>>
    BY <1>1 DEF CS!TrustRefuse, CS!CallFails, CS!SuccessorLost, CS!diskVars,
                CS!trustVars
  <2>. QED
    BY <2>1, RaisesInv DEF diskVars
<1>. QED
  BY <1>1, StartRuntimeInv, JobRunInv, DeleteBootstrapInv
  DEF LoopStep, CS!Tasks, Tasks

\* A call is answered, with a certificate that bears a number.
LEMMA TrustRotateInv ==
    ASSUME OnDiskAssumption, IInv, NEW t \in Tasks, UNCHANGED diskVars,
           CS!TrustRotate(t)
    PROVE  IInv'
<1>1. /\ task' \in [Tasks -> Task]
      /\ task'[t].at = "answered" /\ task'[t].new # 0
      /\ task'[t].boot = task[t].boot
      /\ \A u \in Tasks \ {t} : task'[u] = task[u]
  <2>. DEFINE answered == [task EXCEPT ![t].at = "answered"]
  <2>1. task \in [Tasks -> Task] /\ issued \in Nat
    BY DEF IInv, Typed
  <2>2. /\ answered \in [Tasks -> Task]
        /\ answered[t].at = "answered" /\ answered[t].boot = task[t].boot
        /\ \A u \in Tasks \ {t} : answered[u] = task[u]
    BY <2>1 DEF Task
  <2>3. task' = [answered EXCEPT ![t].new = issued + 1]
    BY DEF CS!TrustRotate
  <2>. HIDE DEF answered
  <2>. QED
    BY <2>1, <2>2, <2>3 DEF Task
<1>2. /\ task[t].at = "sent" /\ issued' \in Nat
      /\ UNCHANGED <<bootstrap, phase, resolver, client, file, tmp, key,
                     saving>>
  BY DEF CS!TrustRotate, CS!diskVars, diskVars, IInv, Typed
<1>3. Typed'
  BY <1>1, <1>2 DEF IInv, Typed
<1>4. TasksInv'
  BY <1>1, <1>2 DEF IInv, TasksInv, Bootstrapping, Tasks, OnDiskAssumption
<1>5. IdentityInv'
  BY <1>1, <1>2 DEF IInv, IdentityInv, Bootstrapping, Sealed, Tasks
<1>6. SaveInv'
  BY <1>1, <1>2 DEF IInv, SaveInv, NotSaving, Sealed
<1>. QED
  BY <1>3, <1>4, <1>5, <1>6 DEF IInv

\* What happens outside the process.
LEMMA WorldStepInv == ASSUME OnDiskAssumption, IInv, WorldStep PROVE IInv'
<1>. UNCHANGED diskVars
  BY DEF WorldStep
<1>1. ASSUME \/ \E c \in CS!Certs : CS!TrustHandlesOrphan(c)
             \/ CS!Age \/ CS!ProvideBootstrap \/ CS!BootstrapExpires
      PROVE  IInv'
  <2>1. /\ UNCHANGED <<phase, resolver, client, task, file, tmp, key, saving>>
        /\ bootstrap' \in Nat /\ issued' \in Nat
    BY <1>1
    DEF CS!TrustHandlesOrphan, CS!Age, CS!ProvideBootstrap,
        CS!BootstrapExpires, CS!diskVars, CS!processVars, CS!trustVars,
        diskVars, IInv, Typed
  <2>. QED
    BY <2>1 DEF IInv, Typed, TasksInv, IdentityInv, SaveInv, Bootstrapping,
                Sealed
<1>. QED
  BY <1>1, TrustRotateInv DEF WorldStep, CS!Tasks, Tasks

\* The invariant is inductive.
LEMMA NextInv == ASSUME OnDiskAssumption, IInv, [Next]_vars PROVE IInv'
<1>1. CASE UNCHANGED vars
  BY <1>1 DEF vars, syncVars, diskVars, IInv, Typed, TasksInv, IdentityInv,
              SaveInv, Bootstrapping, Sealed
<1>2. CASE Next
  BY <1>2, StartBootstrapInv, StartBootstrapRejectedInv, OpenTmpInv,
     WriteTmpInv, ReplaceInv, SaveRaisesInv, LoopStepInv, WorldStepInv,
     CrashInv, GenerateDevCertsInv, ChangeEncryptionKeyInv
  DEF Next, CS!Tasks, Tasks
<1>. QED
  BY <1>1, <1>2

-----------------------------------------------------------------------------
\* Every step is one of CertSync, or changes nothing it sees.

\* CertSync sees the store through cert.json and the key only.
LEMMA StoreUnchanged ==
    ASSUME UNCHANGED <<file, key>>
    PROVE  file.cert' = file.cert /\ Readable' = Readable
BY DEF Readable

\* An emptied store has no certificate and can be read.
LEMMA StartIsStart ==
    ASSUME IInv, StartBootstrap \/ StartBootstrapRejected
    PROVE  CS!StartBootstrap \/ CS!StartBootstrapRejected
<1>1. Readable /\ Readable' /\ file'.cert = 0
  <2>1. Readable /\ file' = Empty
    BY DEF StartBootstrap, StartBootstrapRejected, MayBootstrap, DeleteAll
  <2>. QED
    BY <2>1 DEF Readable, Empty
<1>2. Readable' = Readable
  BY <1>1 DEF Readable
<1>. QED
  BY <1>1, <1>2
  DEF StartBootstrap, StartBootstrapRejected, MayBootstrap, DeleteAll,
      CS!StartBootstrap, CS!StartBootstrapRejected, CS!StoreLoads, CS!None,
      CS!trustVars, CS!historyVars, CS!processVars

\* The rename is the publication.
LEMMA ReplacePublishes ==
    ASSUME OnDiskAssumption, IInv, NEW t \in Tasks, Replace(t)
    PROVE  CS!Publish(t)
<1>1. saving # NotSaving /\ saving.by = t /\ saving.at = "written"
  BY DEF Replace, NotSaving
<1>2. /\ task[t].at = "answered" /\ phase # "down" /\ CS!LoopFree
      /\ tmp = Sealed(task[t].new)
  BY <1>1, SavingFacts
<1>3. /\ file'.cert = task[t].new /\ tmp.cert = task[t].new
      /\ file'.key = key'
  BY <1>2 DEF Replace, Sealed
<1>4. Readable' = Readable
  BY <1>2, <1>3, RunningReads DEF Readable
<1>. QED
  BY <1>2, <1>3, <1>4 DEF Replace, CS!Publish, CS!trustVars

\* A save that raises has lost the answer.
LEMMA SaveRaisesLoses ==
    ASSUME OnDiskAssumption, IInv, NEW t \in Tasks, SaveRaises(t)
    PROVE  CS!SuccessorLost(t)
<1>1. saving # NotSaving /\ saving.by = t
  BY DEF SaveRaises, NotSaving, OnDiskAssumption, Tasks
<1>2. task[t].at = "answered" /\ CS!LoopFree
  BY <1>1, SavingFacts
<1>. QED
  BY <1>2, StoreUnchanged
  DEF SaveRaises, CS!SuccessorLost, CS!diskVars, CS!trustVars

\* What the tool leaves, whole or torn, is one of its two outcomes there.
LEMMA ToolSteps ==
    ASSUME GenerateDevCerts PROVE CS!GenerateDevCerts
<1>1. file'.cert = issued + 1 /\ Readable' \in BOOLEAN
  BY DEF GenerateDevCerts, Torn, Readable
<1>. QED
  BY <1>1 DEF GenerateDevCerts, CS!GenerateDevCerts, CS!processVars

\* Another key makes the file unreadable or readable again, or changes nothing
\* that CertSync sees: an empty store, or one no key opens.
LEMMA KeySteps ==
    ASSUME IInv, NEW k \in Keys, ChangeEncryptionKey(k)
    PROVE  CS!ChangeEncryptionKey \/ UNCHANGED CS!vars
<1>1. file' = file /\ phase = "down" /\ UNCHANGED syncVars
  BY DEF ChangeEncryptionKey
<1>2. CASE Readable' = Readable
  BY <1>1, <1>2 DEF CS!vars, CS!diskVars, CS!processVars, CS!trustVars,
                    CS!historyVars, syncVars
<1>3. CASE Readable' # Readable
  <2>1. Readable' = ~Readable
    BY <1>3 DEF Readable
  <2>2. file.cert # 0
    BY <1>1, <1>3 DEF Readable, IInv, Typed, File
  <2>. QED
    BY <1>1, <2>1, <2>2
    DEF CS!ChangeEncryptionKey, CS!None, CS!processVars, CS!trustVars,
        CS!historyVars, syncVars
<1>. QED
  BY <1>2, <1>3

\* What happens to the temporary file is not seen.
LEMMA TmpIsUnseen ==
    ASSUME NEW t, OpenTmp(t) \/ WriteTmp(t) PROVE UNCHANGED CS!vars
<1>1. UNCHANGED <<syncVars, file, key>>
  BY DEF OpenTmp, WriteTmp
<1>. QED
  BY <1>1, StoreUnchanged
  DEF CS!vars, CS!diskVars, CS!processVars, CS!trustVars, CS!historyVars,
      syncVars

\* A step of the files is a step of the life cycle or a stutter.
LEMMA NextImplements ==
    ASSUME OnDiskAssumption, IInv, [Next]_vars PROVE [CS!Next]_(CS!vars)
<1>1. CASE UNCHANGED vars
  BY <1>1, StoreUnchanged
  DEF vars, syncVars, diskVars, CS!vars, CS!diskVars, CS!processVars,
      CS!trustVars, CS!historyVars
<1>2. CASE \E t \in CS!Tasks : OpenTmp(t) \/ WriteTmp(t)
  BY <1>2, TmpIsUnseen
<1>3. CASE \E t \in CS!Tasks : Replace(t) \/ SaveRaises(t)
  BY <1>3, ReplacePublishes, SaveRaisesLoses DEF CS!Next, CS!Tasks, Tasks
<1>4. CASE StartBootstrap \/ StartBootstrapRejected
  BY <1>4, StartIsStart DEF CS!Next
<1>5. CASE LoopStep \/ WorldStep \/ Crash
  BY <1>5 DEF LoopStep, WorldStep, Crash, CS!Next
<1>6. CASE GenerateDevCerts
  BY <1>6, ToolSteps DEF CS!Next
<1>7. CASE \E k \in Keys : ChangeEncryptionKey(k)
  BY <1>7, KeySteps DEF CS!Next
<1>. QED
  BY <1>1, <1>2, <1>3, <1>4, <1>5, <1>6, <1>7 DEF Next

-----------------------------------------------------------------------------
\* The invariant holds of every reachable state.
THEOREM Invariance == Spec => []IInv
<1>1. Init => IInv
  BY OnDiskAssumption, InitInv
<1>2. IInv /\ [Next]_vars => IInv'
  BY OnDiskAssumption, NextInv
<1>. QED
  BY <1>1, <1>2, PTL DEF Spec

\* Whatever saves failed or were cut short, a running application finds the
\* identity it serves, whole and under its own key, when it is restarted
\* (FileCertificateStore.save, _publish, _synchronize_bootstrap).
THEOREM Restart == Spec => []RestartLoads
<1>1. IInv => RestartLoads
  BY DEF IInv, IdentityInv, TasksInv, Bootstrapping, RestartLoads
<1>. QED
  BY <1>1, Invariance, PTL

\* What is proved of CertSync, where a publication is one step, holds of the
\* application that saves in three disk operations: open, fill and rename.
THEOREM Implements == Spec => ImplementsCertSync
<1>1. Init => CS!Init
  BY DEF Init
<1>2. IInv /\ [Next]_vars => [CS!Next]_(CS!vars)
  BY OnDiskAssumption, NextImplements
<1>. QED
  BY <1>1, <1>2, Invariance, PTL DEF Spec, ImplementsCertSync, CS!Spec

-----------------------------------------------------------------------------
\* The theorems about CertSync, carried over to the files.

\* The life cycle of CertSync with what is proved about it, for the store that
\* cert.json and the key make.
Life == INSTANCE CertSync_proofs WITH store <- file.cert, storeOk <- Readable

\* It is the one that CS names.
LEMMA SameInit == Life!Init <=> CS!Init
BY DEF Life!Init, CS!Init, Life!None, CS!None, Life!Tasks, CS!Tasks, Life!Idle,
       CS!Idle, Life!NoClient, CS!NoClient

\* A step of either is one of the other.
LEMMA SameNext == Life!Next <=> CS!Next
BY DEF Life!Tasks, CS!Tasks, Life!Certs, CS!Certs, Life!None, CS!None,
       Life!diskVars, CS!diskVars, Life!processVars, CS!processVars,
       Life!trustVars, CS!trustVars, Life!historyVars, CS!historyVars,
       Life!NoClient, CS!NoClient, Life!SetCredentials, CS!SetCredentials,
       Life!EnsureStub, CS!EnsureStub, Life!Idle, CS!Idle, Life!LoopFree,
       CS!LoopFree, Life!Call, CS!Call, Life!Activate, CS!Activate,
       Life!ActivateAndCall, CS!ActivateAndCall, Life!ProcessGone,
       CS!ProcessGone, Life!HasBootstrap, CS!HasBootstrap, Life!BootstrapLoads,
       CS!BootstrapLoads, Life!HasStored, CS!HasStored, Life!StoreLoads,
       CS!StoreLoads, Life!StartBootstrap, CS!StartBootstrap,
       Life!StartBootstrapRejected, CS!StartBootstrapRejected,
       Life!StartRuntime, CS!StartRuntime, Life!JobRun, CS!JobRun,
       Life!TrustHonours, CS!TrustHonours, Life!TrustRotate, CS!TrustRotate,
       Life!CallRaises, CS!CallRaises, Life!TrustRefuse, CS!TrustRefuse,
       Life!CallFails, CS!CallFails, Life!SuccessorLost, CS!SuccessorLost,
       Life!AfterPublish, CS!AfterPublish, Life!Publish, CS!Publish,
       Life!DeleteBootstrap, CS!DeleteBootstrap, Life!Crash, CS!Crash,
       Life!TrustHandlesOrphan, CS!TrustHandlesOrphan, Life!Age, CS!Age,
       Life!ProvideBootstrap, CS!ProvideBootstrap, Life!BootstrapExpires,
       CS!BootstrapExpires, Life!GenerateDevCerts, CS!GenerateDevCerts,
       Life!ChangeEncryptionKey, CS!ChangeEncryptionKey, Life!Next, CS!Next

\* So is a stutter.
LEMMA SameVars == (UNCHANGED Life!vars) <=> (UNCHANGED CS!vars)
BY DEF Life!vars, CS!vars, Life!diskVars, CS!diskVars, Life!processVars,
       CS!processVars, Life!trustVars, CS!trustVars, Life!historyVars,
       CS!historyVars

\* Its assumption is a part of the one made here.
LEMMA LifeAssumption == Life!ConstantsAssumption
BY OnDiskAssumption DEF Life!ConstantsAssumption

\* The files live a life of CertSync.
LEMMA LivesLife == Spec => Life!Spec
<1>1. Init => Life!Init
  BY SameInit DEF Init
<1>2. IInv /\ [Next]_vars => [Life!Next]_(Life!vars)
  BY OnDiskAssumption, NextImplements, SameNext, SameVars
<1>. QED
  BY <1>1, <1>2, Invariance, PTL DEF Spec, Life!Spec

\* Whatever the disk does in between: what is durable is what is served, no
\* call presents a token over another identity's channel, the bootstrap
\* certificate is never stored nor served, no successor is forgotten, and the
\* application never leaves itself without a certificate and a bootstrap.
THEOREM LifeIsSafe ==
    Spec => [](/\ Life!ServesStoredIdentity /\ Life!BootstrapIsEphemeral
               /\ Life!CallPresentsOwnCert /\ Life!SpentTokenHasSuccessor
               /\ Life!NeverBroken)
BY LivesLife, LifeAssumption, Life!ServesStored, Life!Ephemeral,
   Life!OwnChannel, Life!NoForgottenSuccessor, Life!DiskNeverBroken, PTL

\* Through CertSync the files implement the abstract identity: the peers see
\* one that is durable before it is served, and that no death takes back.
THEOREM ImplementsIdentity == Spec => Life!ImplementsTrustIdentity
BY LivesLife, LifeAssumption, Life!Implements, PTL

-----------------------------------------------------------------------------
\* The types of the files.

\* The temporary file is empty, or holds what some task was answered.
TmpTyped == tmp \in [cert : CS!MaybeCert, key : Keys \cup {NoKey}]

\* The type invariants of the two instances are the same.
LEMMA SameType == Life!TypeOK <=> CS!TypeOK
BY DEF Life!TypeOK, CS!TypeOK, Life!MaybeCert, CS!MaybeCert, Life!Certs,
       CS!Certs, Life!None, CS!None, Life!Tasks, CS!Tasks, Life!Idle, CS!Idle,
       Life!Waiting, CS!Waiting, Life!Answered, CS!Answered

\* A task that was answered has a certificate with a number.
LEMMA AnswerIsCert ==
    ASSUME CS!TypeOK, NEW t \in CS!Tasks, task[t].at = "answered"
    PROVE  task[t].new \in CS!MaybeCert
<1>1. task[t] \in {CS!Idle} \cup CS!Waiting \cup CS!Answered
  BY DEF CS!TypeOK
<1>. QED
  BY <1>1 DEF CS!Idle, CS!Waiting, CS!Answered, CS!MaybeCert

\* It is inductive, given the other invariants.
LEMMA TmpInv ==
    ASSUME OnDiskAssumption, IInv, CS!TypeOK, TmpTyped, [Next]_vars
    PROVE  TmpTyped'
<1>1. CASE tmp' = tmp
  BY <1>1 DEF TmpTyped
<1>2. ASSUME NEW t \in CS!Tasks, OpenTmp(t) PROVE TmpTyped'
  BY <1>2, AnswerIsCert DEF OpenTmp, Torn, TmpTyped
<1>3. ASSUME NEW t \in CS!Tasks, WriteTmp(t) PROVE TmpTyped'
  <2>1. saving # NotSaving /\ saving.by = t
    BY <1>3 DEF WriteTmp, NotSaving
  <2>2. task[t].at = "answered" /\ key \in Keys
    BY <2>1 DEF IInv, SaveInv, Typed
  <2>. QED
    BY <1>3, <2>2, AnswerIsCert DEF WriteTmp, Sealed, TmpTyped
<1>4. ASSUME NEW t \in CS!Tasks, Replace(t) PROVE TmpTyped'
  BY <1>4 DEF Replace, Empty, TmpTyped, CS!MaybeCert, CS!None
<1>5. ASSUME NEW t \in CS!Tasks, SaveRaises(t) PROVE tmp' = tmp
  BY <1>5 DEF SaveRaises
<1>6. \/ StartBootstrap \/ StartBootstrapRejected \/ LoopStep \/ WorldStep
      \/ Crash \/ GenerateDevCerts \/ (\E k \in Keys : ChangeEncryptionKey(k))
      \/ UNCHANGED vars
      => tmp' = tmp
  BY DEF StartBootstrap, StartBootstrapRejected, DeleteAll, LoopStep,
         WorldStep, Crash, GenerateDevCerts, ChangeEncryptionKey, vars,
         diskVars
<1>. QED
  BY <1>1, <1>2, <1>3, <1>4, <1>5, <1>6 DEF Next

\* The files, the save in progress and everything of CertSync keep their
\* types, and a task that saves was answered.
THEOREM TypeCorrect == Spec => []TypeOK
<1>1. Init => TmpTyped
  BY DEF Init, Empty, TmpTyped, CS!MaybeCert, CS!None
<1>2. IInv /\ CS!TypeOK /\ TmpTyped /\ [Next]_vars => TmpTyped'
  BY TmpInv, OnDiskAssumption
<1>3. Life!TypeOK => CS!TypeOK
  BY SameType
<1>4. IInv /\ CS!TypeOK /\ TmpTyped => TypeOK
  <2>. SUFFICES ASSUME IInv, CS!TypeOK, TmpTyped PROVE TypeOK
    OBVIOUS
  <2>1. file \in [cert : CS!MaybeCert, key : Keys \cup {NoKey}] /\ key \in Keys
    BY DEF IInv, Typed, File, Empty, CS!TypeOK
  <2>2. /\ saving \in {NotSaving} \cup [by : CS!Tasks,
                                       at : {"opened", "written"}]
        /\ saving # NotSaving => task[saving.by].at = "answered"
    BY DEF IInv, SaveInv, CS!Tasks, Tasks
  <2>. QED
    BY <2>1, <2>2 DEF TypeOK, TmpTyped
<1>. QED
  BY <1>1, <1>2, <1>3, <1>4, Invariance, LivesLife, LifeAssumption,
     Life!TypeCorrect, PTL DEF Spec
=============================================================================
