--------------------------- MODULE CertSyncOnDisk ---------------------------
(***************************************************************************)
(* CertSync over the file store, disk operation by disk operation: the     *)
(* save of a publication opens cert.json.tmp, fills it and renames it, any *)
(* of which may raise or be the last thing the process does, on a disk     *)
(* that holds what earlier attempts, other keys and the development tool   *)
(* left there.  It implements CertSync, where a publication is one step.   *)
(*                                                                         *)
(* A file is the certificate meant for it and the key that seals it; one   *)
(* that was cut short is sealed by no key.                                 *)
(***************************************************************************)
EXTENDS Integers, FiniteSets

CONSTANTS
    Runs, Startup, MaxCert,     \* as in CertSync
    Keys,
    ToolKey,    \* the key of application.yml, which the tool seals with
    NoKey,
    Nobody      \* no task is saving

ASSUME OnDiskAssumption ==
    /\ Startup \notin Runs /\ MaxCert \in Nat \ {0}
    /\ ToolKey \in Keys /\ NoKey \notin Keys
    /\ Nobody \notin Runs \cup {Startup}

VARIABLES
    bootstrap, bootstrapOk, due, phase, resolver, client, task, issued, spent,
    orphans, lost, bootCerts, newest,       \* as in CertSync
    file,       \* cert.json
    tmp,        \* cert.json.tmp
    key,        \* the key the application is configured with
    saving      \* the task in save, and how far it is

syncVars == <<bootstrap, bootstrapOk, due, phase, resolver, client, task,
              issued, spent, orphans, lost, bootCerts, newest>>
diskVars == <<file, tmp, key, saving>>
vars == <<syncVars, diskVars>>

Empty == [cert |-> 0, key |-> NoKey]

Readable == file = Empty \/ file.key = key

CS == INSTANCE CertSync WITH store <- file.cert, storeOk <- Readable

Torn(c) == [cert |-> c, key |-> NoKey]
Sealed(c) == [cert |-> c, key |-> key]

NotSaving == [by |-> Nobody, at |-> "none"]

Init ==
    /\ file = Empty /\ tmp = Empty /\ key \in Keys
    /\ saving = NotSaving
    /\ CS!Init

-----------------------------------------------------------------------------
\* synchronize_on_startup, where it deletes: delete_all is an unlink that
\* leaves the temporary file alone, and Bootstrap.load may raise after it.

MayBootstrap == phase = "down" /\ Readable /\ CS!HasBootstrap

DeleteAll == file' = Empty /\ UNCHANGED <<tmp, key, saving>>

StartBootstrap ==
    /\ MayBootstrap /\ CS!BootstrapLoads
    /\ DeleteAll /\ due' = FALSE
    /\ phase' = "starting"
    /\ CS!ActivateAndCall(Startup, bootstrap, TRUE)
    /\ UNCHANGED <<bootstrap, bootstrapOk, issued, spent, orphans, lost,
                   bootCerts, newest>>

StartBootstrapRejected ==
    /\ MayBootstrap /\ CS!HasStored /\ ~CS!BootstrapLoads
    /\ DeleteAll /\ due' = FALSE
    /\ UNCHANGED <<bootstrap, bootstrapOk, phase, resolver, client, task,
                   issued, spent, orphans, lost, bootCerts, newest>>

-----------------------------------------------------------------------------
\* save, within _publish.  It never suspends, so no other task of the loop
\* runs before it is over; the process may die, and the world goes on.

OpenInPlace(t) ==
    /\ CS!LoopFree /\ saving = NotSaving /\ task[t].at = "answered"
    /\ file' = Torn(task[t].new)
    /\ saving' = [by |-> t, at |-> "opened"]
    /\ UNCHANGED <<syncVars, tmp, key>>

OpenTmpOnce(t) ==
    /\ CS!LoopFree /\ saving = NotSaving /\ task[t].at = "answered"
    /\ tmp' = IF tmp = Empty THEN Torn(task[t].new) ELSE tmp
    /\ saving' = [by |-> t, at |-> IF tmp = Empty THEN "opened" ELSE "written"]
    /\ UNCHANGED <<syncVars, file, key>>

OpenTmp(t) ==
    /\ CS!LoopFree /\ saving = NotSaving /\ task[t].at = "answered"
    /\ tmp' = Torn(task[t].new)
    /\ saving' = [by |-> t, at |-> "opened"]
    /\ UNCHANGED <<syncVars, file, key>>

WriteTmp(t) ==
    /\ saving = [by |-> t, at |-> "opened"]
    /\ tmp' = Sealed(task[t].new)
    /\ saving' = [saving EXCEPT !.at = "written"]
    /\ UNCHANGED <<syncVars, file, key>>

\* os.replace, and what _publish and its callers do after it.
Replace(t) ==
    /\ saving = [by |-> t, at |-> "written"]
    /\ file' = tmp /\ tmp' = Empty /\ saving' = NotSaving
    /\ due' = FALSE /\ newest' = tmp.cert
    /\ CS!Activate(task[t].new)
    /\ CS!AfterPublish(t)
    /\ UNCHANGED <<bootstrap, bootstrapOk, issued, spent, orphans, lost,
                   bootCerts, key>>

SaveRaisesHolding(t) ==
    /\ saving.by = t /\ saving.at = "opened"
    /\ saving' = [saving EXCEPT !.at = "written"]
    /\ CS!CallRaises(t)
    /\ lost' = lost \cup {task[t].using}
    /\ UNCHANGED <<file, tmp, key, bootstrap, bootstrapOk, due, issued, spent,
                   orphans, bootCerts, newest>>

\* A disk operation of save raises; nobody removes the temporary file.
SaveRaises(t) ==
    /\ saving.by = t
    /\ saving' = NotSaving
    /\ CS!CallRaises(t)
    /\ lost' = lost \cup {task[t].using}
    /\ UNCHANGED <<file, tmp, key, bootstrap, bootstrapOk, due, issued, spent,
                   orphans, bootCerts, newest>>

\* The process dies; the disk keeps what it has.
Crash ==
    /\ saving' = NotSaving
    /\ UNCHANGED <<file, tmp, key>>
    /\ CS!Crash

-----------------------------------------------------------------------------
\* The development tool writes cert.json in place, under the key it finds in
\* application.yml, and may be killed before it has filled it.
GenerateDevCerts ==
    /\ phase = "down" /\ issued + 1 < MaxCert
    /\ issued' = issued + 1 /\ newest' = issued + 1
    /\ file' \in {Torn(issued + 1), [cert |-> issued + 1, key |-> ToolKey]}
    /\ due' = FALSE
    /\ spent' = spent \cup {issued + 1} /\ lost' = lost \cup {issued + 1}
    /\ UNCHANGED <<bootstrap, bootstrapOk, phase, resolver, client, task,
                   orphans, bootCerts, tmp, key, saving>>

ChangeEncryptionKey(k) ==
    /\ phase = "down"
    /\ key' = k
    /\ UNCHANGED <<syncVars, file, tmp, saving>>

\* What CertSync does without touching the certificate store.
LoopStep ==
    /\ saving = NotSaving /\ UNCHANGED diskVars
    /\ \/ CS!StartRuntime \/ CS!DeleteBootstrap
       \/ \E r \in Runs : CS!JobRun(r)
       \/ \E t \in CS!Tasks : \/ CS!TrustRefuse(t) \/ CS!CallFails(t)
                              \/ CS!SuccessorLost(t)

WorldStep ==
    /\ UNCHANGED diskVars
    /\ \/ \E t \in CS!Tasks : CS!TrustRotate(t)
       \/ \E c \in CS!Certs : CS!TrustHandlesOrphan(c)
       \/ CS!Age \/ CS!ProvideBootstrap \/ CS!BootstrapExpires

Next ==
    \/ StartBootstrap \/ StartBootstrapRejected
    \/ \E t \in CS!Tasks : OpenTmp(t) \/ WriteTmp(t) \/ Replace(t)
                           \/ SaveRaises(t)
    \/ LoopStep \/ WorldStep \/ Crash
    \/ GenerateDevCerts \/ \E k \in Keys : ChangeEncryptionKey(k)

Spec == Init /\ [][Next]_vars

-----------------------------------------------------------------------------
\* The files and the save in progress have their types, and a task that saves
\* was answered.
TypeOK ==
    LET File == [cert : CS!MaybeCert, key : Keys \cup {NoKey}]
    IN  /\ CS!TypeOK
        /\ file \in File /\ tmp \in File /\ key \in Keys
        /\ saving \in {NotSaving} \cup
                      [by : CS!Tasks, at : {"opened", "written"}]
        /\ saving # NotSaving => task[saving.by].at = "answered"

\* A running application can be restarted: cert.json is whole, sealed under
\* the key it is configured with, and holds the identity it serves, whatever
\* failed saves, deaths, leftovers and other keys came before ("a crash
\* mid-write never leaves a half-written cert file").
RestartLoads == phase = "up" => file = Sealed(resolver)

\* Step by step on the disk, the life cycle is the one of CertSync: only the
\* rename and the deletion are seen.
ImplementsCertSync == CS!Spec
=============================================================================
