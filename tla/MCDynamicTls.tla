---------------------------- MODULE MCDynamicTls ----------------------------
(* Bounds on what is combined.  The applications shake hands one at a time:   *)
(* they share no state but their files.  Before the last run of the tool      *)
(* they do while two certificates are left to issue, after it if they were    *)
(* started since.                                                             *)
EXTENDS DynamicTls

HandshakesOf(a) == handshake[a] # NoHandshake \/ cache[a] # NoCache

OneAtATime == \E a \in Apps : handshake[a] = NoHandshake

Bounded ==
    /\ OneAtATime
    /\ \/ tool.run < MaxRuns /\ nextId < MaxIds
       \/ \A a \in Apps : HandshakesOf(a) => tool.run = MaxRuns /\ since[a]
=============================================================================
