------------------------------ MODULE DemoCalls ------------------------------
(***************************************************************************)
(* What the demo services promise each caller, without connections,        *)
(* streams or handlers: an upload is answered once with the size of what   *)
(* this caller sent, then the parts of its download come one by one and in *)
(* order, and only then the demo is done.  It may fail at any point before *)
(* that, and nothing is answered after it has.                             *)
(***************************************************************************)
EXTENDS Integers, Sequences

CONSTANTS
    Callers,
    UploadSize, \* the size of each caller's upload
    Wanted      \* the number of parts each asks for

VARIABLES
    outcome,    \* "none", "done" or "failed"
    total,      \* the answer to the upload
    got         \* the parts received

vars == <<outcome, total, got>>

Unknown == -1

Init ==
    /\ outcome = [c \in Callers |-> "none"]
    /\ total = [c \in Callers |-> Unknown]
    /\ got = [c \in Callers |-> <<>>]

Running(c) == outcome[c] = "none"

\* store, or encrypt, returns.
Answer(c) ==
    /\ Running(c) /\ total[c] = Unknown
    /\ total' = [total EXCEPT ![c] = UploadSize[c]]
    /\ UNCHANGED <<outcome, got>>

\* fetch, or download, yields its next part.
Yield(c) ==
    /\ Running(c) /\ total[c] # Unknown /\ Len(got[c]) < Wanted[c]
    /\ got' = [got EXCEPT ![c] = Append(@, Len(@))]
    /\ UNCHANGED <<outcome, total>>

Done(c) ==
    /\ Running(c) /\ total[c] # Unknown /\ Len(got[c]) = Wanted[c]
    /\ outcome' = [outcome EXCEPT ![c] = "done"]
    /\ UNCHANGED <<total, got>>

Fail(c) ==
    /\ Running(c)
    /\ outcome' = [outcome EXCEPT ![c] = "failed"]
    /\ UNCHANGED <<total, got>>

\* The client application is started again.
Again(c) ==
    /\ outcome' = [outcome EXCEPT ![c] = "none"]
    /\ total' = [total EXCEPT ![c] = Unknown]
    /\ got' = [got EXCEPT ![c] = <<>>]

Next ==
    \E c \in Callers : Answer(c) \/ Yield(c) \/ Done(c) \/ Fail(c) \/ Again(c)

Spec == Init /\ [][Next]_vars
=============================================================================
