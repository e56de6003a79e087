---------------------------- MODULE CertRegister ----------------------------
(***************************************************************************)
(* What LoadCertificatePort and SaveCertificatePort promise together: one  *)
(* register that holds the latest certificate, sealed under the key of the *)
(* process that saved it.  A save takes effect at once or not at all, and  *)
(* a load returns what was saved last, or fails when the key is another.   *)
(***************************************************************************)
CONSTANTS Certificates, Keys, Empty, Unreadable, NoKey

VARIABLES value,     \* Empty, or a certificate with the key that seals it
          key,       \* the key of the running process, or NoKey
          loaded     \* what the last find_latest gave

vars == <<value, key, loaded>>

Init == value = Empty /\ key = NoKey /\ loaded = Empty

Rekey(k) == key' = k /\ UNCHANGED <<value, loaded>>

Put(c) ==
    /\ key \in Keys
    /\ value' = [cert |-> c, key |-> key]
    /\ UNCHANGED <<key, loaded>>

Clear ==
    /\ key \in Keys
    /\ value' = Empty
    /\ UNCHANGED <<key, loaded>>

Get ==
    /\ key \in Keys
    /\ loaded' = IF value = Empty THEN Empty
                 ELSE IF value.key = key THEN value.cert ELSE Unreadable
    /\ UNCHANGED <<value, key>>

Next ==
    \/ \E k \in Keys \cup {NoKey} : Rekey(k)
    \/ \E c \in Certificates : Put(c)
    \/ Clear \/ Get

Spec == Init /\ [][Next]_vars
=============================================================================
