--------------------------- MODULE TrustIdentity ---------------------------
(***************************************************************************)
(* What certificate synchronisation promises, without tokens, calls or     *)
(* files: one application has an identity it serves with and an identity   *)
(* that would survive a restart.  It serves only what is durable, a new    *)
(* identity is durable no later than it is served, an identity that was    *)
(* once replaced never comes back, and the durable one is given up only    *)
(* while nothing is served.                                                *)
(***************************************************************************)
EXTENDS Naturals

CONSTANT Identities     \* identities, numbered in the order they are issued

VARIABLES serving,      \* the identity handshakes are answered with, or None
          durable,      \* the identity on disk, or None
          newest        \* the youngest identity that was ever durable

vars == <<serving, durable, newest>>

None == 0

Init == serving = None /\ durable = None /\ newest = None

\* A younger identity becomes durable while nothing is served; it may be
\* served from the same step on (a start that rotates) or later.
Install(i) ==
    /\ serving = None /\ i > newest
    /\ durable' = i /\ newest' = i
    /\ serving' \in {None, i}

\* A running application replaces its identity, on disk and in memory at once.
Rotate(i) ==
    /\ serving # None /\ i > newest
    /\ durable' = i /\ newest' = i /\ serving' = i

Serve ==
    /\ serving = None /\ durable # None
    /\ serving' = durable
    /\ UNCHANGED <<durable, newest>>

Stop ==
    /\ serving # None
    /\ serving' = None
    /\ UNCHANGED <<durable, newest>>

Discard ==
    /\ serving = None
    /\ durable' = None
    /\ UNCHANGED <<serving, newest>>

Next ==
    \/ \E i \in Identities : Install(i) \/ Rotate(i)
    \/ Serve \/ Stop \/ Discard

Spec == Init /\ [][Next]_vars
=============================================================================
