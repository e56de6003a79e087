------------------------------ MODULE CertStore ------------------------------
(***************************************************************************)
(* FileCertificateStore, one disk operation at a time: cert.json, the      *)
(* temporary file beside it, and the Fernet key the store was built with.  *)
(* The process may die between any two operations; any of them may raise.  *)
(* A file content is a sealed certificate or Torn, a prefix of one.        *)
(***************************************************************************)
CONSTANTS
    Certificates,
    Keys,
    Empty,        \* no file, no certificate
    Torn,         \* a file written in part
    Unreadable,   \* find_latest raised
    NoKey         \* no store has been built

Sealed == [cert : Certificates, key : Keys]

ASSUME DistinctAssumption ==
    /\ Empty \notin Sealed /\ Torn \notin Sealed /\ Empty # Torn
    /\ NoKey \notin Keys
    /\ Empty \notin Certificates /\ Unreadable \notin Certificates
    /\ Empty # Unreadable

VARIABLES
    file,      \* cert.json
    tmp,       \* cert.json.tmp
    key,       \* the key of the store, NoKey while the process is down
    step,      \* how far save() is: "none", "opened" or "written"
    saving,    \* the certificate it saves, Empty outside save()
    loaded     \* what the last find_latest gave

vars == <<file, tmp, key, step, saving, loaded>>

Ready == key \in Keys /\ step = "none"

Init ==
    /\ file = Empty /\ tmp = Empty /\ key = NoKey
    /\ step = "none" /\ saving = Empty /\ loaded = Empty

\* FileCertificateStore(): the key is read from the environment or the
\* configuration.  It need not be the one of the last process.
Build(k) ==
    /\ key = NoKey
    /\ key' = k
    /\ UNCHANGED <<file, tmp, step, saving, loaded>>

-----------------------------------------------------------------------------
\* save: open the temporary file, which truncates what an earlier attempt
\* left there, write it, and put it in place of cert.json.

OpenInPlace(c) ==
    /\ Ready
    /\ file' = Torn /\ step' = "opened" /\ saving' = c
    /\ UNCHANGED <<tmp, key, loaded>>

Open(c) ==
    /\ Ready
    /\ tmp' = Torn /\ step' = "opened" /\ saving' = c
    /\ UNCHANGED <<file, key, loaded>>

Write ==
    /\ step = "opened"
    /\ tmp' = [cert |-> saving, key |-> key] /\ step' = "written"
    /\ UNCHANGED <<file, key, saving, loaded>>

Replace ==
    /\ step = "written"
    /\ file' = tmp /\ tmp' = Empty
    /\ step' = "none" /\ saving' = Empty
    /\ UNCHANGED <<key, loaded>>

\* write_text or os.replace raises: nobody removes the temporary file.
SaveRaises ==
    /\ step # "none"
    /\ step' = "none" /\ saving' = Empty
    /\ UNCHANGED <<file, tmp, key, loaded>>

-----------------------------------------------------------------------------
\* delete_all leaves the temporary file alone.
DeleteAll ==
    /\ Ready
    /\ file' = Empty
    /\ UNCHANGED <<tmp, key, step, saving, loaded>>

\* find_latest: json.loads fails on a torn file, Fernet on another key.
Decode(f) ==
    IF f = Empty THEN Empty
    ELSE IF f # Torn /\ f.key = key THEN f.cert
    ELSE Unreadable

FindLatest ==
    /\ Ready
    /\ loaded' = Decode(file)
    /\ UNCHANGED <<file, tmp, key, step, saving>>

Crash ==
    /\ key \in Keys
    /\ key' = NoKey /\ step' = "none" /\ saving' = Empty
    /\ UNCHANGED <<file, tmp, loaded>>

Next ==
    \/ \E k \in Keys : Build(k)
    \/ \E c \in Certificates : Open(c)
    \/ Write \/ Replace \/ SaveRaises
    \/ DeleteAll \/ FindLatest \/ Crash

Spec == Init /\ [][Next]_vars

-----------------------------------------------------------------------------
\* Contents have their types, and a save in progress knows its certificate.
TypeOK ==
    /\ file \in Sealed \cup {Empty, Torn}
    /\ tmp \in Sealed \cup {Empty, Torn}
    /\ key \in Keys \cup {NoKey}
    /\ step \in {"none", "opened", "written"}
    /\ saving \in Certificates \cup {Empty}
    /\ loaded \in Certificates \cup {Empty, Unreadable}
    /\ step # "none" => key \in Keys /\ saving \in Certificates

\* The store is an atomic register across failing writes, deaths of the
\* process at any point of save and leftovers of earlier attempts: "a crash
\* mid-write never leaves a half-written cert file".
Register == INSTANCE CertRegister WITH value <- file
ImplementsRegister == Register!Spec
=============================================================================
