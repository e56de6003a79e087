----------------------------- MODULE DynamicTls -----------------------------
(***************************************************************************)
(* Mutual TLS between the server and the client while certificates change  *)
(* under them: each application reads its root CA once, at start-up, and   *)
(* its certificate again at every run of CertRotationJob; its handshake    *)
(* threads ask TrustGrpcCertificateProvider for the version and, when it   *)
(* changed, for the certificate, while the event loop may rotate; and      *)
(* tools/generate_dev_certs.py rewrites the four files of both, in place.  *)
(* A bootstrap.txt, left over or new, makes a start drop its certificate.  *)
(*                                                                         *)
(* A certificate authority is a number, 0 for the Trust Service's and n    *)
(* for the one of the tool's n-th run.  Certificates are numbered as they  *)
(* are issued.                                                             *)
(***************************************************************************)
EXTENDS Naturals, Sequences

CONSTANTS
    Server, Client,
    MaxRuns,        \* bound: runs of the tool
    MaxIds          \* bound: certificates issued

ASSUME TlsAssumption ==
    Server # Client /\ MaxRuns \in Nat /\ MaxIds \in Nat \ {0, 1}

Apps == {Server, Client}

CAs   == 0..MaxRuns
Certs == [ca : CAs, id : 1..MaxIds]
NoCA   == MaxRuns + 1           \* a PEM file that was cut short
NoCert == [ca |-> NoCA, id |-> 0]
Torn   == [ca |-> NoCA + 1, id |-> 0]       \* a cert.json that was cut short

VARIABLES
    caFile,     \* ca-cert.pem of each application
    certFile,   \* its cert.json, NoCert if there is none
    bootstrap,  \* whether it has a bootstrap.txt
    app,        \* its memory: both resolvers, what it is about to do
    cache,      \* version and certificates the TLS layer read last
    handshake,  \* the handshake in progress
    presented,  \* history: what the last handshake answered with
    tool,       \* how far the development tool is
    nextId,
    kept,       \* history: no rotation wrote over the tool's last run
    since       \* history: started after that run, which was complete

disks == <<caFile, certFile, bootstrap>>
tls   == <<cache, handshake, presented>>
vars  == <<disks, app, tls, tool, nextId, kept, since>>

-----------------------------------------------------------------------------
\* The files of one run of the tool, in the order it writes them.
Writes == << <<Server, "cert">>, <<Server, "ca">>,
             <<Client, "cert">>, <<Client, "ca">> >>

\* The CA that run signs a's certificate with and writes for a to trust.
Authority(run, a) == run

\* A certificate of its own for each application, signed by the run's CA.
Leaf(run, a, id) == [ca |-> Authority(run, a), id |-> id]

ToolIdle == tool.at = 0

Down == [phase |-> "down", root |-> NoCA, cert |-> NoCert, rotating |-> FALSE]

NoCache     == [version |-> 0, cert |-> NoCert, root |-> NoCA]
NoHandshake == [version |-> 0, from |-> 0]
Nothing     == [cert |-> NoCert, root |-> NoCA, from |-> 0]

\* Both applications have been through a bootstrap with the Trust Service.
Init ==
    /\ caFile = [a \in Apps |-> 0]
    /\ certFile = [a \in Apps |->
                      [ca |-> 0, id |-> IF a = Server THEN 1 ELSE 2]]
    /\ app = [a \in Apps |-> Down]
    /\ cache = [a \in Apps |-> NoCache]
    /\ handshake = [a \in Apps |-> NoHandshake]
    /\ presented = [a \in Apps |-> Nothing]
    /\ bootstrap = [a \in Apps |-> FALSE]
    /\ tool = [run |-> 0, at |-> 0, open |-> FALSE]
    /\ nextId = 3
    /\ kept = [a \in Apps |-> TRUE]
    /\ since = [a \in Apps |-> FALSE]

Readable(a) == certFile[a].id > 0

-----------------------------------------------------------------------------
\* TrustStartupOrchestrator.post_construct: the root CA first.  Nothing
\* checks that the file holds a certificate.
LoadRootCa(a) ==
    /\ app[a].phase = "down"
    /\ app' = [app EXCEPT ![a].phase = "rooted", ![a].root = caFile[a]]
    /\ since' = [since EXCEPT ![a] = ToolIdle /\ kept[a]]
    /\ UNCHANGED <<disks, tls, tool, nextId, kept>>

\* The process ends, and what was in its memory with it.
Ends(a) ==
    /\ app' = [app EXCEPT ![a] = Down]
    /\ since' = [since EXCEPT ![a] = FALSE]

\* Then synchronize_on_startup: a certificate cut short raises before anything
\* else is looked at, and so does having nothing to start with (BROKEN).
StartFails(a) ==
    /\ app[a].phase = "rooted"
    /\ certFile[a] = Torn \/ (certFile[a] = NoCert /\ ~bootstrap[a])
    /\ Ends(a)
    /\ UNCHANGED <<disks, tls, tool, nextId, kept>>

\* The certificate on disk is the one in service, until it is rotated if due.
Rereads(a, due, phase) ==
    /\ app' = [app EXCEPT ![a].phase = phase, ![a].cert = certFile[a],
                          ![a].rotating = due]
    /\ kept' = [kept EXCEPT ![a] = @ /\ (ToolIdle \/ ~due)]
    /\ UNCHANGED <<disks, tls, tool, nextId, since>>

\* ACTIVE: the start waits for the rotation, if one is due.
StartActive(a) ==
    /\ app[a].phase = "rooted" /\ Readable(a) /\ ~bootstrap[a]
    /\ \E due \in BOOLEAN : Rereads(a, due, IF due THEN "calling" ELSE "up")

\* NEW and RECOVERABLE: delete_all, then the bootstrap certificate, which is
\* for the call only; a bootstrap file that cannot be parsed raises.
StartBootstrap(a) ==
    /\ app[a].phase = "rooted" /\ bootstrap[a] /\ certFile[a] # Torn
    /\ certFile' = [certFile EXCEPT ![a] = NoCert]
    /\ \E parses \in BOOLEAN :
          /\ app' = [app EXCEPT ![a] =
                        IF parses THEN [@ EXCEPT !.phase = "calling",
                                                 !.rotating = TRUE]
                        ELSE Down]
          /\ since' = [since EXCEPT ![a] = @ /\ parses /\ tool.run = 0]
    /\ kept' = [kept EXCEPT ![a] = @ /\ tool.run = 0]
    /\ UNCHANGED <<caFile, bootstrap, tls, tool, nextId>>

\* A torn file taken for a certificate.
JobRunTolerant(a) ==
    /\ app[a].phase = "up" /\ ~app[a].rotating /\ certFile[a] # NoCert
    /\ \E due \in BOOLEAN : Rereads(a, due, "up")

\* Rotating the certificate in memory, not the one on disk.
JobRunCached(a) ==
    /\ app[a].phase = "up" /\ ~app[a].rotating /\ Readable(a)
    /\ app' = [app EXCEPT ![a].rotating = TRUE]
    /\ kept' = [kept EXCEPT ![a] = @ /\ ToolIdle]
    /\ UNCHANGED <<disks, tls, tool, nextId, since>>

\* CertRotationJob.run: reread the certificate, which may be due.  The root CA
\* is not reread, and without a readable certificate there is nothing to do.
JobRun(a) ==
    /\ app[a].phase = "up" /\ ~app[a].rotating /\ Readable(a)
    /\ \E due \in BOOLEAN : Rereads(a, due, "up")

ByBootstrap(a) == app[a].cert = NoCert

\* The rotate call returns: publish, and after a bootstrap delete its file,
\* which may fail.  The Trust Service does not know the placeholder token of
\* the tool.
Rotated(a) ==
    /\ app[a].rotating /\ (app[a].cert.ca = 0 \/ ByBootstrap(a))
    /\ nextId <= MaxIds
    /\ LET c == [ca |-> 0, id |-> nextId]
       IN  /\ app' = [app EXCEPT ![a].phase = "up", ![a].cert = c,
                                 ![a].rotating = FALSE]
           /\ certFile' = [certFile EXCEPT ![a] = c]
    /\ \E deleted \in BOOLEAN :
          bootstrap' = [bootstrap EXCEPT
                           ![a] = @ /\ ~(deleted /\ ByBootstrap(a))]
    /\ nextId' = nextId + 1
    /\ UNCHANGED <<caFile, tls, tool, kept, since>>

\* It raises: logged, or after a bootstrap the end of the start.
RotationFailed(a) ==
    /\ app[a].rotating
    /\ IF ByBootstrap(a) THEN Ends(a)
       ELSE /\ app' = [app EXCEPT ![a].phase = "up", ![a].rotating = FALSE]
            /\ UNCHANGED since
    /\ UNCHANGED <<disks, tls, tool, nextId, kept>>

Stop(a) ==
    /\ app[a].phase # "down"
    /\ Ends(a)
    /\ cache' = [cache EXCEPT ![a] = NoCache]
    /\ handshake' = [handshake EXCEPT ![a] = NoHandshake]
    /\ presented' = [presented EXCEPT ![a] = Nothing]
    /\ UNCHANGED <<disks, tool, nextId, kept>>

\* An operator puts a bootstrap file in place, at any time.
ProvideBootstrap(a) ==
    /\ ~bootstrap[a]
    /\ bootstrap' = [bootstrap EXCEPT ![a] = TRUE]
    /\ UNCHANGED <<caFile, certFile, app, tls, tool, nextId, kept, since>>

-----------------------------------------------------------------------------
\* TrustGrpcCertificateProvider, asked by the TLS layer at a new handshake.

\* Naming the service instead of its certificate.
VersionOfService(a) == 1

Version(a) == app[a].cert.id

Current(a) == [cert |-> app[a].cert, root |-> app[a].root]

BeginHandshake(a) ==
    /\ app[a].phase = "up" /\ handshake[a] = NoHandshake
    /\ handshake' = [handshake EXCEPT ![a] = [version |-> Version(a),
                                              from |-> app[a].cert.id]]
    /\ UNCHANGED <<disks, app, cache, presented, tool, nextId, kept, since>>

\* A version not seen last time makes the TLS layer read the certificates;
\* by now they may be those of a later version.
Handshake(a) ==
    /\ handshake[a] # NoHandshake
    /\ cache' = IF handshake[a].version = cache[a].version THEN cache
                ELSE [cache EXCEPT ![a] = [version |-> handshake[a].version,
                                           cert |-> Current(a).cert,
                                           root |-> Current(a).root]]
    /\ presented' = [presented EXCEPT ![a] =
                        [cert |-> cache'[a].cert, root |-> cache'[a].root,
                         from |-> handshake[a].from]]
    /\ handshake' = [handshake EXCEPT ![a] = NoHandshake]
    /\ UNCHANGED <<disks, app, tool, nextId, kept, since>>

-----------------------------------------------------------------------------
\* generate_dev_certs.py, at any time: write_text truncates, then fills.

ToolBegins ==
    /\ ToolIdle /\ tool.run < MaxRuns
    /\ tool' = [run |-> tool.run + 1, at |-> 1, open |-> FALSE]
    /\ kept' = [a \in Apps |-> ~app[a].rotating]
    /\ since' = [a \in Apps |-> FALSE]
    /\ UNCHANGED <<disks, app, tls, nextId>>

ToolOpens ==
    /\ ~ToolIdle /\ ~tool.open
    /\ LET a == Writes[tool.at][1] IN
       IF Writes[tool.at][2] = "cert"
       THEN certFile' = [certFile EXCEPT ![a] = Torn] /\ UNCHANGED caFile
       ELSE caFile' = [caFile EXCEPT ![a] = NoCA] /\ UNCHANGED certFile
    /\ tool' = [tool EXCEPT !.open = TRUE]
    /\ UNCHANGED <<bootstrap, app, tls, nextId, kept, since>>

\* What it fills is the file it opened, which a rotation may have replaced and
\* a start then deleted.
ToolFills ==
    /\ tool.open
    /\ LET a == Writes[tool.at][1] IN
       IF Writes[tool.at][2] = "cert"
       THEN /\ nextId <= MaxIds
            /\ certFile' = [certFile EXCEPT
                    ![a] = IF @ # Torn THEN @ ELSE Leaf(tool.run, a, nextId)]
            /\ nextId' = nextId + 1
            /\ UNCHANGED caFile
       ELSE /\ caFile' = [caFile EXCEPT ![a] = Authority(tool.run, a)]
            /\ UNCHANGED <<certFile, nextId>>
    /\ tool' = [tool EXCEPT !.open = FALSE, !.at = (tool.at + 1) % 5]
    /\ UNCHANGED <<bootstrap, app, tls, kept, since>>

\* It is interrupted, or exits on a missing key or an unwritable file.
ToolDies ==
    /\ ~ToolIdle
    /\ tool' = [tool EXCEPT !.at = 0, !.open = FALSE]
    /\ kept' = [a \in Apps |-> FALSE]
    /\ UNCHANGED <<disks, app, tls, nextId, since>>
-----------------------------------------------------------------------------
Next ==
    \/ \E a \in Apps :
          \/ LoadRootCa(a) \/ StartFails(a) \/ StartActive(a)
          \/ StartBootstrap(a) \/ Stop(a) \/ ProvideBootstrap(a)
          \/ JobRun(a) \/ Rotated(a) \/ RotationFailed(a)
          \/ BeginHandshake(a) \/ Handshake(a)
    \/ ToolBegins \/ ToolOpens \/ ToolFills \/ ToolDies

Spec == Init /\ [][Next]_vars

-----------------------------------------------------------------------------
\* Files, memory and the tool's progress have their types, and an application
\* that is up has a certificate: resolver.current() does not raise.
TypeOK ==
    LET MaybeCert == Certs \cup {NoCert, Torn}
        MaybeCA   == CAs \cup {NoCA}
    IN  /\ caFile \in [Apps -> MaybeCA]
        /\ certFile \in [Apps -> MaybeCert]
        /\ bootstrap \in [Apps -> BOOLEAN]
        /\ app \in [Apps -> [phase : {"down", "rooted", "calling", "up"},
                             root : MaybeCA, cert : Certs \cup {NoCert},
                             rotating : BOOLEAN]]
        /\ \A a \in Apps : app[a].phase = "up" => app[a].cert # NoCert
        /\ cache \in [Apps -> [version : 0..MaxIds, cert : Certs \cup {NoCert},
                               root : MaybeCA]]
        /\ handshake \in [Apps -> [version : 0..MaxIds, from : 0..MaxIds]]
        /\ presented \in [Apps -> [cert : Certs \cup {NoCert}, root : MaybeCA,
                                   from : 0..MaxIds]]
        /\ tool \in [run : 0..MaxRuns, at : 0..4, open : BOOLEAN]
        /\ nextId \in 1..(MaxIds + 1)
        /\ kept \in [Apps -> BOOLEAN] /\ since \in [Apps -> BOOLEAN]

\* "The gRPC server re-reads this provider on every NEW TLS handshake": what a
\* handshake answers with is no older than the identity it began under, though
\* version and certificates are read apart and a rotation may come between.
FreshHandshake == \A a \in Apps : presented[a].cert.id >= presented[a].from

\* Two applications started after the tool's last run accept each other's
\* handshakes, through rotations and restarts, whatever ran, crashed or was cut
\* short before, if that run was complete, met no rotation of theirs in flight
\* and no bootstrap file took their certificates from them since ("one
\* self-signed CA, the root of trust both apps verify against").
PeersTrust ==
    \A a, b \in {x \in Apps : presented[x] # Nothing /\ since[x]} :
        presented[a].root = presented[b].cert.ca
=============================================================================
